------------------------------ MODULE StopLatch ------------------------------
(***************************************************************************)
(* What the stop abstraction of service-sample promises to the service's   *)
(* main loop: a request, once made, is never withdrawn, the loop is left   *)
(* only because of a request, and a requested loop is left eventually.     *)
(* StopSignal.tla (mutex, condition variable and flag) implements it.      *)
(***************************************************************************)
VARIABLES
    requested,  \* a stop request has been accepted
    loop        \* "absent" (latch not built), "running", "left", "aborted"

latchVars == <<requested, loop>>

Init ==
    /\ requested = FALSE
    /\ loop = "absent"

\* The latch is built and the main loop may start.
Enter ==
    /\ loop = "absent"
    /\ loop' = "running"
    /\ UNCHANGED requested

\* The latch cannot be built: the process gives up.
Abort ==
    /\ loop = "absent"
    /\ loop' = "aborted"
    /\ UNCHANGED requested

Request ==
    /\ loop \in {"running", "left"}
    /\ requested' = TRUE
    /\ UNCHANGED loop

Leave ==
    /\ loop = "running"
    /\ requested
    /\ loop' = "left"
    /\ UNCHANGED requested

Next == Enter \/ Abort \/ Request \/ Leave

SafeSpec == Init /\ [][Next]_latchVars

Spec == SafeSpec /\ WF_latchVars(Leave)
=============================================================================
