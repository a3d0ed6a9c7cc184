------------------------------- MODULE MCOffice -------------------------------
(***************************************************************************)
(* The treasurer's refunds and the scheduled jobs, checked in one run:     *)
(* they keep no state in common, and a behaviour is one of the part that   *)
(* focus names, while the variables of the other stay as they are in an    *)
(* initial state.  A provider's notifications are fair, as in Refunds:     *)
(* none is due where nothing was refunded.                                 *)
(***************************************************************************)
EXTENDS MCRefunds, Jobs

VARIABLE focus

officeVars == <<focus, vars, jobsVars>>

OfficeInit ==
    /\ focus \in {"refunds", "jobs"}
    /\ Init /\ JobsInit
    /\ focus = "refunds" => job = "renewals"

OfficeNext ==
    /\ UNCHANGED focus
    /\ \/ focus = "refunds" /\ Next /\ UNCHANGED jobsVars
       \/ focus = "jobs" /\ JobsNext /\ UNCHANGED vars

OfficeSpec ==
    /\ OfficeInit /\ [][OfficeNext]_officeVars
    /\ \A i \in ProvIds : WF_vars(~notified[i] /\ Notify(i))
=============================================================================
