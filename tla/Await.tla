------------------------------- MODULE Await -------------------------------
(***************************************************************************)
(* What every bounded wait of the plugin promises its caller: the call     *)
(* returns exactly once, with a verdict that a status check really reached *)
(* or with a timeout.  pollUntil, waitForExportJobToSucceed and the        *)
(* classic waitForInstanceReady are three copies of one protocol; the      *)
(* module PollUntil models them and implements this one.                   *)
(***************************************************************************)

VARIABLES
    answer,    \* the final verdict of the status checks, "none" so far
    outcome    \* what the caller received, "none" while it waits

vars == <<answer, outcome>>

Verdicts == {"reached", "error", "capacity"}
Outcomes == Verdicts \cup {"timeout"}

TypeOK ==
    /\ answer \in Verdicts \cup {"none"}
    /\ outcome \in Outcomes \cup {"none"}

Init ==
    /\ answer = "none"
    /\ outcome = "none"

\* The checks settle, at most once; a verdict may also arrive too late.
Settle(v) ==
    /\ answer = "none"
    /\ answer' = v
    /\ UNCHANGED outcome

\* The caller gets the verdict, or gives up.  When both are there, either.
Deliver ==
    /\ outcome = "none"
    /\ answer # "none"
    /\ outcome' = answer
    /\ UNCHANGED answer

GiveUp ==
    /\ outcome = "none"
    /\ outcome' = "timeout"
    /\ UNCHANGED answer

Next == (\E v \in Verdicts : Settle(v)) \/ Deliver \/ GiveUp

Return == Deliver \/ GiveUp

Spec == Init /\ [][Next]_vars /\ WF_vars(Return)
=============================================================================
