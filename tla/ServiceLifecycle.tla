--------------------------- MODULE ServiceLifecycle --------------------------
(***************************************************************************)
(* What the framework of service-sample promises the author and the        *)
(* operator of a service, whatever the platform: on_start, on_run and      *)
(* on_stop are called in this order and at most once, on_run only after a  *)
(* successful on_start, on_stop whenever on_run has returned; the service  *)
(* ends with the return value of the first callback that failed; and a     *)
(* stop request ends it.                                                   *)
(***************************************************************************)
CONSTANT Codes   \* the return values of the callbacks; 0 is success

VARIABLES
    phase,    \* "starting", "running", "stopping", "ending",
              \* "stopped" or "killed"
    asked,    \* a stop has been requested
    outcome   \* return value of the first callback that failed, else 0

lifecycleVars == <<phase, asked, outcome>>

Init ==
    /\ phase = "starting"
    /\ asked = FALSE
    /\ outcome = 0

RequestStop ==
    /\ phase \notin {"stopped", "killed"}
    /\ asked' = TRUE
    /\ UNCHANGED <<phase, outcome>>

\* on_start returns c: a failure ends the service at once.
Start(c) ==
    /\ phase = "starting"
    /\ phase' = IF c = 0 THEN "running" ELSE "ending"
    /\ outcome' = c
    /\ UNCHANGED asked

\* on_run returns 0 for a stop request, or fails.
Run(c) ==
    /\ phase = "running"
    /\ asked \/ c # 0
    /\ phase' = "stopping"
    /\ outcome' = c
    /\ UNCHANGED asked

\* on_stop returns c, which counts only if on_run succeeded.
Stop(c) ==
    /\ phase = "stopping"
    /\ phase' = "ending"
    /\ outcome' = IF outcome = 0 THEN c ELSE outcome
    /\ UNCHANGED asked

\* The process ends with the outcome as its status.
Exit ==
    /\ phase = "ending"
    /\ phase' = "stopped"
    /\ UNCHANGED <<asked, outcome>>

\* A signal's default action or the service manager's watchdog.
Kill ==
    /\ phase \notin {"stopped", "killed"}
    /\ phase' = "killed"
    /\ UNCHANGED <<asked, outcome>>

Next ==
    \/ RequestStop
    \/ \E c \in Codes : Start(c) \/ Run(c) \/ Stop(c)
    \/ Exit
    \/ Kill

SafeSpec == Init /\ [][Next]_lifecycleVars

\* A requested stop ends the service.
StopEnds == asked ~> phase \in {"stopped", "killed"}

Spec == SafeSpec /\ StopEnds
=============================================================================
