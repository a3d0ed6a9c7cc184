----------------------------- MODULE Verification ----------------------------
(***************************************************************************)
(* What a verifier has checked: a member's certificate and photo ID        *)
(* (apps/members/verification.py; the medical is handled as the             *)
(* certificate) and an aircraft's insurance (apps/aircraft/verification.py).*)
(*                                                                         *)
(* A stamp on the row says that its fields were checked, so every path     *)
(* that writes the fields has to take the stamp away.  The owner's form    *)
(* and the verifier's panel lock the row; the office's form reads it       *)
(* unlocked and saves every column of the copy it read.                    *)
(***************************************************************************)
EXTENDS Integers, FiniteSets

CONSTANTS Offices,        \* the office's forms under way at once
          Entries,        \* what a field may hold, besides 0 for none
          MaxWrites       \* bound on the requests of a behaviour

VARIABLES subject,        \* "person" or "aircraft"
          row,            \* the profile or aircraft: its fields and its stamps
          copy,           \* the row each office form has read, or NoCopy
          panel,          \* the row the verifier's panel was opened with, or NoCopy
          writes          \* requests so far

verificationVars == <<subject, row, copy, panel, writes>>

NoCopy == [none |-> TRUE]

\* The fields an item covers.
ITEMS ==
    IF subject = "person"
    THEN [certificate |-> {"pilot_certificate_type", "certificate_number"},
          photo_id |-> {"photo_id_type"}]
    ELSE [insurance |-> {"insurance_carrier", "insurance_expiration"}]
Items == DOMAIN ITEMS
\* The field that says whether the item is held at all.
HeldBy == [certificate |-> "pilot_certificate_type", photo_id |-> "photo_id_type",
           insurance |-> "insurance_expiration"]
Fields == UNION {ITEMS[i] : i \in Items}
Values == Entries \cup {0}

\* What a form sends: a value for each of the fields it names.
Changes == UNION {[names -> Values] : names \in SUBSET Fields}

\* An item's stamp: FALSE, or what its fields held when it was given.
Unverified == [checked |-> FALSE]
Stamp(r, i) == [checked |-> TRUE, was |-> [f \in ITEMS[i] |-> r.field[f]]]

VerificationInit ==
    /\ subject \in {"person", "aircraft"}
    /\ row = [field |-> [f \in Fields |-> 0], stamp |-> [i \in Items |-> Unverified]]
    /\ copy = [o \in Offices |-> NoCopy] /\ panel = NoCopy
    /\ writes = 0

is_held(r, i) == r.field[HeldBy[i]] # 0
verified_items(r) == {i \in Items : r.stamp[i].checked}

\* The answer of the member check, and of the verification report.
is_fully_verified(r) == \A i \in Items : i \in verified_items(r) /\ is_held(r, i)
go_no_go == is_fully_verified(row)

-----------------------------------------------------------------------------
changed_fields(r, changes) == {f \in DOMAIN changes : changes[f] # r.field[f]}

\* The items of r that changes moves lose their stamps.
clear_stale(r, changes) ==
    [i \in Items |->
        IF ITEMS[i] \cap changed_fields(r, changes) # {} THEN Unverified ELSE r.stamp[i]]

Updated(r, changes) ==
    [field |-> [f \in Fields |-> IF f \in DOMAIN changes THEN changes[f] ELSE r.field[f]],
     stamp |-> clear_stale(r, changes)]

Request == writes < MaxWrites /\ writes' = writes + 1

\* The member's own form, or an aircraft's form: the row is locked and read again.
OwnUpdate(changes) ==
    /\ Request
    /\ row' = Updated(row, changes)
    /\ UNCHANGED <<subject, copy, panel>>

\* The office's form (update_member), on a person only.
OfficeReads(o) ==
    /\ subject = "person" /\ copy[o] = NoCopy /\ Request
    /\ copy' = [copy EXCEPT ![o] = row]
    /\ UNCHANGED <<subject, row, panel>>

\* What row.save() writes: every column of the copy.
MutSaved(read, changes) ==
    [field |-> [f \in Fields |-> IF f \in DOMAIN changes THEN changes[f] ELSE row.field[f]],
     stamp |-> [i \in Items |->
                   IF clear_stale(read, changes)[i] = read.stamp[i] THEN row.stamp[i]
                   ELSE Unverified]]
Saved(read, changes) == Updated(read, changes)

update_member(o, changes) ==
    /\ copy[o] # NoCopy
    /\ row' = Saved(copy[o], changes)
    /\ copy' = [copy EXCEPT ![o] = NoCopy]
    /\ UNCHANGED <<subject, panel, writes>>

-----------------------------------------------------------------------------
(* The verifier's panel.                                                   *)

OpenPanel ==
    /\ panel = NoCopy /\ Request
    /\ panel' = row
    /\ UNCHANGED <<subject, row, copy>>

\* The panel sends the fields that differ from the ones it was opened with.
PanelChanges == {c \in Changes : \A f \in DOMAIN c : c[f] # panel.field[f]}

\* An item that is ticked and held is stamped, unless it is already; any other loses its.
Stamped(r, ticked) ==
    [r EXCEPT !.stamp = [i \in Items |->
        IF i \in ticked /\ is_held(r, i)
        THEN IF r.stamp[i].checked THEN r.stamp[i] ELSE Stamp(r, i)
        ELSE Unverified]]

verify(changes, ticked) ==
    /\ panel # NoCopy
    /\ row' = Stamped(Updated(row, changes), ticked)
    /\ panel' = NoCopy
    /\ UNCHANGED <<subject, copy, writes>>

verify_member(changes, ticked) == subject = "person" /\ verify(changes, ticked)
verify_insurance(changes, ticked) == subject = "aircraft" /\ verify(changes, ticked)

VerificationNext ==
    \/ \E c \in Changes : OwnUpdate(c)
    \/ \E o \in Offices : OfficeReads(o) \/ \E c \in Changes : update_member(o, c)
    \/ OpenPanel
    \/ /\ panel # NoCopy
       /\ \E c \in PanelChanges, ticked \in SUBSET Items :
              verify_member(c, ticked) \/ verify_insurance(c, ticked)

VerificationSpec == VerificationInit /\ [][VerificationNext]_verificationVars

-----------------------------------------------------------------------------
\* A stamp stands for what the row holds: the item's fields are the ones that were stored
\* when the stamp was given, and somebody the check passes holds every item.
VerifiedAsStored ==
    /\ \A i \in verified_items(row) :
          /\ is_held(row, i)
          /\ row.stamp[i].was = [f \in ITEMS[i] |-> row.field[f]]
    /\ go_no_go => \A i \in Items : row.stamp[i].was[HeldBy[i]] # 0
=============================================================================
