------------------------------- MODULE Aircraft ------------------------------
(***************************************************************************)
(* The aircraft register and the vocabulary of types it picks from         *)
(* (apps/aircraft): members add and edit aircraft, an administrator adds   *)
(* types the FAA does not list, and the registry import, one transaction   *)
(* beside them, rewrites the FAA's types, folds a hand-added type into the *)
(* FAA's of the same name, rewrites the registrations and the aliases.     *)
(*                                                                         *)
(* A request reads and checks, and saves in a later step.  The import's    *)
(* writes are seen by nobody before it commits, and what others commit     *)
(* meanwhile is seen by its next statement; the rows it wrote stay locked. *)
(* A name stands for a make and a model as displayed; of the history of a  *)
(* record, the last writer is kept; insurance is Verification's, and that  *)
(* only one import runs is Jobs'.                                          *)
(***************************************************************************)
EXTENDS Integers, FiniteSets

CONSTANTS Codes,        \* the FAA's manufacturer-model codes
          Customs,      \* ids of the types that may be added by hand
          Names,        \* display names; an alias is a name too
          NNumbers,
          Flyers,       \* members; the rest of Callers are administrators
          Callers,
          MaxCalls      \* bound on requests and imports

VARIABLES types,        \* AircraftType rows: the display name of each id
          aircraft,     \* Aircraft rows, by N-number
          registry,     \* Registration rows: the type of each N-number, or 0
          aliases,      \* AircraftTypeAlias rows: the type each alias names, or 0
          import,       \* the import's transaction
          asking,       \* what each caller's request has checked
          calls

\* Ids are primary keys, and a name is not a type's absence.
ASSUME RegisterKeys ==
    /\ Codes \subseteq Nat \ {0} /\ Customs \subseteq Nat \ {0} /\ Codes \cap Customs = {}
    /\ "none" \notin Names /\ "gone" \notin Names

registerVars == <<types, aircraft, registry, aliases, import, asking, calls>>

TypeIds == Codes \cup Customs
Listed(id) == types[id] \in Names
NoAircraft == [type |-> 0, created_by |-> 0, updated_by |-> 0]
OnFile(n) == aircraft[n] # NoAircraft
NoWork == [at |-> "idle"]
MayAsk == calls < MaxCalls /\ calls' = calls + 1

RegisterInit ==
    /\ types = [id \in TypeIds |-> "none"]
    /\ aircraft = [n \in NNumbers |-> NoAircraft]
    /\ registry = [n \in NNumbers |-> 0]
    /\ aliases = [name \in Names |-> 0]
    /\ import = NoWork
    /\ asking = [u \in Callers |-> NoWork]
    /\ calls = 0

-----------------------------------------------------------------------------
(* Adding a type: AircraftTypeSearchView.post.                             *)

AddType(u, name) ==
    /\ MayAsk /\ asking[u] = NoWork /\ u \notin Flyers
    /\ \A id \in TypeIds : types[id] # name
    /\ asking' = [asking EXCEPT ![u] = [at |-> "type", name |-> name]]
    /\ UNCHANGED <<types, aircraft, registry, aliases, import>>

\* The check is not repeated: two requests may add one name.
CreateType(u) ==
    /\ asking[u].at = "type"
    /\ \E id \in Customs : /\ types[id] = "none"
                           /\ types' = [types EXCEPT ![id] = asking[u].name]
    /\ asking' = [asking EXCEPT ![u] = NoWork]
    /\ UNCHANGED <<aircraft, registry, aliases, import, calls>>

-----------------------------------------------------------------------------
(* The register: AircraftListCreateView, AircraftDetailView.               *)

\* Rows the import has written and not committed.
HeldByImport(n) == import.at # "idle" /\ n \in DOMAIN import.moved
Deleting(id) == import.at # "idle" /\ id \in import.deleted

\* The creator or an administrator writes; an administrator deletes.
has_object_permission(u, n) == u \notin Flyers \/ aircraft[n].created_by = u

\* A new record, or a form opened on one, naming a type that is listed.
Submit(u, n, id) ==
    /\ MayAsk /\ asking[u] = NoWork /\ Listed(id)
    /\ OnFile(n) => has_object_permission(u, n)
    /\ asking' = [asking EXCEPT ![u] =
                      [at |-> IF OnFile(n) THEN "edit" ELSE "add", n |-> n, type |-> id]]
    /\ UNCHANGED <<types, aircraft, registry, aliases, import>>

Replied(u, rows) ==
    /\ aircraft' = rows /\ asking' = [asking EXCEPT ![u] = NoWork]
    /\ UNCHANGED <<types, registry, aliases, import, calls>>

\* The unique N-number and the foreign key refuse what was true only when checked.
perform_create(u) ==
    LET r == asking[u] IN
    /\ r.at = "add" /\ ~Deleting(r.type)
    /\ Replied(u, IF OnFile(r.n) \/ ~Listed(r.type) THEN aircraft
                   ELSE [aircraft EXCEPT ![r.n] = [type |-> r.type, created_by |-> u,
                                                   updated_by |-> u]])

perform_update(u) ==
    LET r == asking[u] IN
    /\ r.at = "edit" /\ ~HeldByImport(r.n) /\ ~Deleting(r.type)
    /\ Replied(u, IF ~OnFile(r.n) \/ ~Listed(r.type) THEN aircraft
                   ELSE [aircraft EXCEPT ![r.n].type = r.type, ![r.n].updated_by = u])

delete_aircraft(u, n) ==
    /\ MayAsk /\ asking[u] = NoWork /\ u \notin Flyers /\ OnFile(n) /\ ~HeldByImport(n)
    /\ aircraft' = [aircraft EXCEPT ![n] = NoAircraft]
    /\ UNCHANGED <<types, registry, aliases, import, asking>>

-----------------------------------------------------------------------------
(* The import: registry.import_registry.                                   *)

\* The FAA's files: a name for some codes, a code for some N-numbers.
Files == [names : [Codes -> Names \cup {"none"}], typed : [NNumbers -> Codes \cup {0}]]

\* write_types: a code listed before and not in the file stays.
ImportBegins(file) ==
    /\ MayAsk /\ import = NoWork
    /\ import' = [at |-> "types", file |-> file, todo |-> {}, custom |-> 0,
                  moved |-> <<>>, deleted |-> {}]
    /\ UNCHANGED <<types, aircraft, registry, aliases, asking>>

\* The name of a type as the import's transaction sees it.
Seen(id) ==
    IF id \in Codes /\ import.file.names[id] # "none" THEN import.file.names[id]
    ELSE IF id \in import.deleted THEN "gone" ELSE types[id]

Twins(custom) == {code \in Codes : Seen(code) = types[custom]}

\* fold_custom_types: the hand-added types there are.
ReadCustoms ==
    /\ import.at = "types"
    /\ import' = [import EXCEPT !.at = "fold", !.todo = {id \in Customs : Listed(id)}]
    /\ UNCHANGED <<types, aircraft, registry, aliases, asking, calls>>

\* The first twin by code takes over the aircraft there are now.
MoveAircraft(custom) ==
    LET twin == CHOOSE c \in Twins(custom) : \A d \in Twins(custom) : c <= d
        hers == {n \in NNumbers : aircraft[n].type = custom /\ ~HeldByImport(n)}
    IN
    /\ import.at = "fold" /\ import.custom = 0 /\ custom \in import.todo
    /\ import' = IF Twins(custom) = {} THEN [import EXCEPT !.todo = @ \ {custom}]
                 ELSE [import EXCEPT !.custom = custom,
                          !.moved = [n \in DOMAIN @ \cup hers |->
                                        IF n \in hers THEN twin ELSE @[n]]]
    /\ UNCHANGED <<types, aircraft, registry, aliases, asking, calls>>

\* Mutant: the foreign key does not protect the type.
MutProtected(custom) == FALSE

\* on_delete=PROTECT: aircraft that came to the type since they were moved.
Protected(custom) == \E n \in NNumbers : aircraft[n].type = custom /\ ~HeldByImport(n)

DeleteCustom ==
    /\ import.at = "fold" /\ import.custom # 0
    /\ import' = IF Protected(import.custom) THEN NoWork
                 ELSE [import EXCEPT !.custom = 0, !.todo = @ \ {import.custom},
                                     !.deleted = @ \cup {import.custom}]
    /\ UNCHANGED <<types, aircraft, registry, aliases, asking, calls>>

\* A registration whose code is not listed is skipped; one the file does not name goes.
write_registrations ==
    [n \in NNumbers |-> LET code == import.file.typed[n] IN
                        IF code # 0 /\ Seen(code) \in Names THEN code ELSE 0]

\* resolve_alias, of the types of one name whichever has the lowest key; 0 when none has
\* it, and the row is removed.
Resolved(name, id) ==
    IF \E i \in TypeIds : Seen(i) = name THEN id # 0 /\ Seen(id) = name ELSE id = 0

CommitImport(types_only) ==
    /\ import.at = "fold" /\ import.todo = {}
    /\ types' = [id \in TypeIds |-> Seen(id)]
    /\ aircraft' = [n \in NNumbers |->
                       IF HeldByImport(n) THEN [aircraft[n] EXCEPT !.type = import.moved[n]]
                       ELSE aircraft[n]]
    /\ registry' = IF types_only THEN registry ELSE write_registrations
    /\ aliases' \in {f \in [Names -> TypeIds \cup {0}] :
                        \A name \in Names : Resolved(name, f[name])}
    /\ import' = NoWork
    /\ UNCHANGED <<asking, calls>>

\* The file cannot be read, the process dies, the database goes: nothing is kept.
ImportFails ==
    /\ import # NoWork /\ import' = NoWork
    /\ UNCHANGED <<types, aircraft, registry, aliases, asking, calls>>

RegisterNext ==
    \/ \E u \in Callers : \E name \in Names : AddType(u, name)
    \/ \E u \in Callers : CreateType(u) \/ perform_create(u) \/ perform_update(u)
    \/ \E u \in Callers, n \in NNumbers :
          delete_aircraft(u, n) \/ \E id \in TypeIds : Submit(u, n, id)
    \/ \E file \in Files : ImportBegins(file)
    \/ ReadCustoms \/ DeleteCustom \/ ImportFails
    \/ \E custom \in Customs : MoveAircraft(custom)
    \/ \E types_only \in BOOLEAN : CommitImport(types_only)

RegisterSpec == RegisterInit /\ [][RegisterNext]_registerVars

-----------------------------------------------------------------------------
\* Every aircraft, registration and alias names a listed type, and an alias one that has
\* its name.
Registered ==
    /\ \A n \in NNumbers : OnFile(n) => Listed(aircraft[n].type)
    /\ \A n \in NNumbers : registry[n] # 0 => Listed(registry[n])
    /\ \A name \in Names : aliases[name] # 0 => types[aliases[name]] = name

\* An import leaves an aircraft of a hand-added type a type of the same name.
NameKept ==
    \A n \in NNumbers :
        OnFile(n) /\ aircraft[n].type \in Customs /\ import # NoWork /\ import' = NoWork
        => types'[aircraft'[n].type] = types[aircraft[n].type]

\* Whatever requests save beside the import's transaction, and however it ends, the
\* register stands and folding a type renames nobody's aircraft (_fold_custom_types,
\* write_aliases, on_delete=PROTECT).
RegisterStands == [][Registered' /\ NameKept]_registerVars
=============================================================================
