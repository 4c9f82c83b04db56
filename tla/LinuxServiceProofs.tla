-------------------------- MODULE LinuxServiceProofs --------------------------
(***************************************************************************)
(* Proofs about LinuxService, for all return values of the callbacks and   *)
(* any number of SIGHUPs and D-Bus events.  What holds only if some fault  *)
(* does not occur says so in the theorem.                                  *)
(***************************************************************************)
EXTENDS LinuxService, TLAPS

-----------------------------------------------------------------------------
(* Who may change what                                                     *)

MainThread == MainStep \/ JoinTimeout \/ \E c \in Codes : OnRunFails(c)
MonitorThread == MonitorStep \/ SlowStep \/ LoopEvent \/ LoopError
Signals == Sighup \/ SighupWrite \/ Sigterm \/ WatchdogExpires

LEMMA Actors ==
    Next => MainThread \/ MonitorThread \/ Signals \/ UNCHANGED vars
BY DEF Next, Environment, MainThread, MonitorThread, Signals, Gone

\* The main thread creates the monitoring thread and leaves it alone then.
LEMMA MainFrame ==
    ASSUME MainThread
    PROVE  /\ process = "alive"
           /\ process' = "alive" \/ Exit
           /\ monitor' = monitor \/ EventsStartThread
           /\ UNCHANGED <<command, s_stop_requested, loopVars, signalVars, loaded>>
BY DEF MainThread, MainStep, JoinTimeout, OnRunFails, MainAt, EventsStart,
       EventsStartReloadFd, EventsStartSighup, EventsStartThread, ReleaseSighup,
       ReleaseReloadFd, ReleaseDef, RegisterShutdown, NotifyReady, NotifyStopping,
       OnStart, OnRun, OnStop, EventsStop, Join, Exit, lifecycleFrame, stopFrame

\* The monitoring thread ends the process only with a null pointer.
LEMMA MonitorFrame ==
    ASSUME MonitorThread
    PROVE  /\ process = "alive" /\ process' \in {"alive", "segv"}
           /\ monitorFrame
BY DEF MonitorThread, MonitorStep, SlowStep, MonitorAt, Dereference, MonitorNew,
       MonitorWatchdog, MonitorWatchStop, MonitorWatchReload, MonitorReadOnEvent,
       MonitorBusOpen, MonitorInhibit, MonitorAttach, LoopStop, LoopReload,
       DispatchReload, OnReload, DispatchReloadReady, LoopEvent, OnEvent, LoopError,
       MonitorCleanup

LEMMA SignalFrame ==
    ASSUME Signals
    PROVE  /\ process = "alive"
           /\ process' \in {"alive", "sighup", "sigterm", "watchdog"}
           /\ signalFrame
BY DEF Signals, Sighup, SighupWrite, Sigterm, WatchdogExpires
-----------------------------------------------------------------------------
(* Callbacks and their results                                             *)

\* on_start has failed, or all three callbacks have returned.
Ended ==
    \/ Len(calls) = 1 /\ calls[1] # 0
    \/ Len(calls) = 3 /\ calls[1] = 0

\* Which callbacks have returned when the main thread is where it is, and what
\* is in rc.
CallInv ==
    /\ calls \in Seq(Codes) /\ rc \in Int
    /\ calls = <<>> => rc = 0
    /\ main \in {"events_start", "reload_fd", "sigaction", "thread_create",
                 "register", "on_start"} => calls = <<>>
    /\ main \in {"notify_ready", "on_run"} => Len(calls) = 1 /\ calls[1] = 0
    /\ main \in {"notify_stopping", "on_stop"} => Len(calls) = 2 /\ calls[1] = 0
    /\ main \in {"events_stop", "join", "teardown", "returned"} => Ended
    /\ main \in {"restore_sighup", "close_reload_fd", "close_stop_fd"}
           => calls = <<>> \/ Ended
    /\ Len(calls) = 1 => rc = calls[1]
    /\ Len(calls) = 3 => rc = IF calls[2] # 0 THEN calls[2] ELSE calls[3]
    /\ process = "exited" <=> main = "returned"
    /\ process = "exited" => status = rc % 256

LEMMA Element ==
    ASSUME NEW S, NEW s \in Seq(S), NEW i \in 1..Len(s)
    PROVE  s[i] \in S
OBVIOUS

LEMMA FirstFailureIs ==
    ASSUME calls \in Seq(Codes)
    PROVE  /\ (\A i \in 1..Len(calls) : calls[i] = 0) => FirstFailure = 0
           /\ \A i \in 1..Len(calls) :
                 calls[i] # 0 /\ (\A j \in 1..(i - 1) : calls[j] = 0)
                 => FirstFailure = calls[i]
<1> DEFINE failed == {i \in DOMAIN calls : calls[i] # 0}
<1>1. DOMAIN calls = 1..Len(calls) /\ Len(calls) \in Nat
      OBVIOUS
<1>2. ASSUME NEW i \in 1..Len(calls), calls[i] # 0, \A j \in 1..(i - 1) : calls[j] = 0
      PROVE  FirstFailure = calls[i]
  <2>1. i \in failed /\ \A j \in failed : i <= j
        BY <1>1, <1>2
  <2>2. \A k \in failed : (\A j \in failed : k <= j) => k = i
        BY <1>1, <2>1
  <2>3. (CHOOSE k \in failed : \A j \in failed : k <= j) = i
        BY <2>1, <2>2
  <2>4. QED
        BY <2>1, <2>3 DEF FirstFailure
<1>3. QED
      BY <1>1, <1>2 DEF FirstFailure

\* The result of the callbacks by how many have returned.
Outcomes ==
    /\ calls = <<>> => FirstFailure = 0
    /\ Len(calls) = 1 => FirstFailure = calls[1]
    /\ Len(calls) = 2 /\ calls[1] = 0 => FirstFailure = calls[2]
    /\ Len(calls) = 3 /\ calls[1] = 0
          => FirstFailure = IF calls[2] # 0 THEN calls[2] ELSE calls[3]

LEMMA OutcomesAre ==
    ASSUME calls \in Seq(Codes)
    PROVE  Outcomes
<1>1. calls = <<>> => FirstFailure = 0
      BY FirstFailureIs
<1>2. Len(calls) = 1 => FirstFailure = calls[1]
      BY FirstFailureIs
<1>3. Len(calls) = 2 /\ calls[1] = 0 => FirstFailure = calls[2]
      BY FirstFailureIs
<1>4. ASSUME Len(calls) = 3, calls[1] = 0
      PROVE  FirstFailure = IF calls[2] # 0 THEN calls[2] ELSE calls[3]
  <2>1. CASE calls[2] # 0
        BY <1>4, <2>1, FirstFailureIs
  <2>2. CASE calls[2] = 0 /\ calls[3] # 0
        BY <1>4, <2>2, FirstFailureIs
  <2>3. CASE calls[2] = 0 /\ calls[3] = 0
        BY <1>4, <2>3, FirstFailureIs
  <2>4. QED
        BY <2>1, <2>2, <2>3
<1>5. QED
      BY <1>1, <1>2, <1>3, <1>4 DEF Outcomes

\* A callback has returned c.
LEMMA Called ==
    ASSUME calls \in Seq(Codes), NEW c \in Codes, calls' = Append(calls, c)
    PROVE  /\ calls' \in Seq(Codes) /\ c \in Int
           /\ Len(calls) \in Nat /\ Len(calls') = Len(calls) + 1
           /\ calls'[Len(calls) + 1] = c
           /\ \A i \in 1..Len(calls) : calls'[i] = calls[i]
           /\ calls' # <<>>
BY ServiceAssumption

LEMMA CallsMain ==
    ASSUME CallInv, MainThread
    PROVE  CallInv'
<1>1. CASE EventsStart \/ EventsStartReloadFd \/ EventsStartSighup \/ EventsStartThread
      BY <1>1 DEF CallInv, Ended, EventsStart, EventsStartReloadFd, EventsStartSighup,
                  EventsStartThread, MainAt
<1>2. CASE ReleaseSighup \/ ReleaseReloadFd \/ ReleaseDef
      BY <1>2 DEF CallInv, Ended, ReleaseSighup, ReleaseReloadFd, ReleaseDef, MainAt
<1>3. CASE RegisterShutdown \/ NotifyReady \/ NotifyStopping
      BY <1>3 DEF CallInv, Ended, RegisterShutdown, NotifyReady, NotifyStopping,
                  lifecycleFrame, MainAt
<1>4. ASSUME NEW c \in Codes, OnStart(c)
      PROVE  CallInv'
      BY <1>4, Called DEF CallInv, Ended, OnStart, lifecycleFrame, MainAt, AfterLifecycle
<1>5. ASSUME NEW c \in Codes, OnRun(c) \/ OnRunFails(c)
      PROVE  CallInv'
  <2>1. /\ main = "on_run" /\ main' = "notify_stopping" /\ calls' = Append(calls, c)
        /\ UNCHANGED <<rc, process, status>>
        BY <1>5 DEF OnRun, OnRunFails, MainAt, lifecycleFrame
  <2>2. Len(calls) = 1 /\ calls[1] = 0 /\ rc \in Int /\ calls \in Seq(Codes)
        BY <2>1 DEF CallInv
  <2>3. /\ calls' \in Seq(Codes) /\ Len(calls') = 2 /\ calls'[1] = 0
        /\ calls' # <<>>
        BY <2>1, <2>2, Called
  <2>4. QED
        BY <2>1, <2>2, <2>3 DEF CallInv
<1>6. ASSUME NEW c \in Codes, OnStop(c)
      PROVE  CallInv'
  <2>1. /\ main = "on_stop" /\ main' \in {"events_stop", "teardown"}
        /\ calls' = Append(calls, c) /\ rc' = (IF calls[2] # 0 THEN calls[2] ELSE c)
        /\ UNCHANGED <<process, status>>
        BY <1>6 DEF OnStop, MainAt, lifecycleFrame, AfterLifecycle
  <2>2. Len(calls) = 2 /\ calls[1] = 0 /\ calls \in Seq(Codes)
        BY <2>1 DEF CallInv
  <2>3. calls[2] \in Int
    <3>1. 2 \in 1..Len(calls)
          BY <2>2
    <3>2. calls[2] \in Codes
          BY <2>2, <3>1, Element
    <3>3. QED
          BY <3>2, ServiceAssumption
  <2>4. /\ calls' \in Seq(Codes) /\ Len(calls') = 3 /\ calls'[1] = 0
        /\ calls'[2] = calls[2] /\ calls'[3] = c /\ calls' # <<>> /\ c \in Int
        BY <2>1, <2>2, Called
  <2>5. QED
        BY <2>1, <2>2, <2>3, <2>4 DEF CallInv, Ended
<1>7. CASE EventsStop \/ Join \/ JoinTimeout
      BY <1>7 DEF CallInv, Ended, EventsStop, Join, JoinTimeout, stopFrame, MainAt
<1>8. CASE Exit
      BY <1>8 DEF CallInv, Ended, Exit, stopFrame, MainAt
<1>9. QED
      BY <1>1, <1>2, <1>3, <1>4, <1>5, <1>6, <1>7, <1>8 DEF MainThread, MainStep

LEMMA CallsKept ==
    ASSUME CallInv, [Next]_vars
    PROVE  CallInv'
<1>1. CASE MonitorThread
      BY <1>1, MonitorFrame DEF CallInv, Ended, monitorFrame
<1>2. CASE Signals
      BY <1>2, SignalFrame DEF CallInv, Ended, signalFrame
<1>3. CASE UNCHANGED vars
      BY <1>3 DEF CallInv, Ended, vars, mainVars
<1>4. QED
      BY <1>1, <1>2, <1>3, CallsMain, Actors
LEMMA CallsInit ==
    Init => CallInv
BY DEF Init, CallInv

LEMMA CallsHold == Spec => []CallInv
BY CallsInit, CallsKept, PTL DEF Spec

\* The exit status is that of the first callback that failed.
THEOREM ExitReportsFirstFailureHolds ==
    ASSUME \A c \in Codes : c % 256 = 0 => c = 0
    PROVE  Spec => []ExitReportsFirstFailure
<1>1. ASSUME CallInv, process = "exited"
      PROVE  /\ status = FirstFailure % 256
             /\ status = 0 <=> FirstFailure = 0
  <2>1. rc = FirstFailure /\ status = rc % 256
        BY <1>1, OutcomesAre DEF CallInv, Ended, Outcomes
  <2>2. rc = 0 \/ rc \in Codes
        BY <1>1 DEF CallInv, Ended
  <2>3. QED
        BY <2>1, <2>2
<1>2. CallInv => ExitReportsFirstFailure
      BY <1>1 DEF ExitReportsFirstFailure
<1>3. QED
      BY <1>2, CallsHold, PTL
-----------------------------------------------------------------------------
(* The lifecycle contract                                                  *)

Phases ==
    /\ process = "exited" => Phase = "stopped"
    /\ process \notin {"alive", "exited"} => Phase = "killed"
    /\ process = "alive" =>
          /\ calls = <<>> => Phase = "starting"
          /\ main \in {"notify_ready", "on_run"} => Phase = "running"
          /\ main \in {"notify_stopping", "on_stop"} => Phase = "stopping"
          /\ Ended => Phase = "ending"

LEMMA PhasesAre ==
    CallInv => Phases
<1> SUFFICES ASSUME CallInv
             PROVE  Phases
    OBVIOUS
<1>1. ASSUME Ended
      PROVE  /\ main \notin {"notify_ready", "on_run", "notify_stopping", "on_stop"}
             /\ calls # <<>>
  <2>1. calls # <<>>
        BY <1>1 DEF Ended
  <2>2. Len(calls) # 2 /\ (Len(calls) = 1 => calls[1] # 0)
        BY <1>1 DEF Ended
  <2>3. QED
        BY <2>1, <2>2 DEF CallInv
<1>2. /\ main \in {"notify_ready", "on_run", "notify_stopping", "on_stop"} => calls # <<>>
      BY DEF CallInv
<1>3. QED
      BY <1>1, <1>2 DEF Phase, Phases

Contract == CallInv /\ Outcomes /\ Phases

LEMMA ContractHolds == Spec => []Contract
<1>1. CallInv => Contract
      BY OutcomesAre, PhasesAre DEF Contract, CallInv
<1>2. QED
      BY <1>1, CallsHold, PTL

\* A step that leaves the callbacks, and where main is among them, alone.
LEMMA Stutters ==
    ASSUME Contract, Contract', process' = process, calls' = calls,
           \/ main' = main \/ calls = <<>> \/ Ended
           \/ main = "notify_ready" /\ main' = "on_run"
           \/ main = "notify_stopping" /\ main' = "on_stop"
    PROVE  Phase' = Phase /\ FirstFailure' = FirstFailure
<1>1. FirstFailure' = FirstFailure
      BY DEF FirstFailure
<1>2. CASE main' = main
      BY <1>1, <1>2 DEF Phase
<1>3. CASE calls = <<>>
      BY <1>1, <1>3 DEF Phase
<1>4. CASE Ended
      BY <1>1, <1>4 DEF Ended, Phase, Phases, Contract, CallInv
<1>5. CASE \/ main = "notify_ready" /\ main' = "on_run"
           \/ main = "notify_stopping" /\ main' = "on_stop"
      BY <1>1, <1>5 DEF Phase
<1>6. QED
      BY <1>2, <1>3, <1>4, <1>5
\* A step of the main thread is a step of the contract, or none.
LEMMA MainImplements ==
    ASSUME Contract, Contract', MainThread
    PROVE  [Lifecycle!Next]_(Lifecycle!lifecycleVars)
<1>0. /\ process = "alive" /\ s_stop_requested' = s_stop_requested
      /\ calls \in Seq(Codes)
      /\ main \in {"events_start", "reload_fd", "sigaction", "thread_create",
                   "register", "restore_sighup", "close_reload_fd",
                   "close_stop_fd", "events_stop", "join"} => calls = <<>> \/ Ended
      BY MainFrame DEF Contract, CallInv
<1>1. ASSUME process' = process, calls' = calls,
             \/ main' = main \/ calls = <<>> \/ Ended
             \/ main = "notify_ready" /\ main' = "on_run"
             \/ main = "notify_stopping" /\ main' = "on_stop"
      PROVE  Phase' = Phase /\ FirstFailure' = FirstFailure
      BY <1>1, Stutters
<1>2. ASSUME \/ EventsStart \/ EventsStartReloadFd \/ EventsStartSighup
             \/ EventsStartThread \/ RegisterShutdown
      PROVE  Phase' = Phase /\ FirstFailure' = FirstFailure
      BY <1>0, <1>1, <1>2
      DEF EventsStart, EventsStartReloadFd, EventsStartSighup,
          EventsStartThread, RegisterShutdown, MainAt, lifecycleFrame
<1>3. ASSUME ReleaseSighup \/ ReleaseReloadFd \/ ReleaseDef
      PROVE  Phase' = Phase /\ FirstFailure' = FirstFailure
      BY <1>0, <1>1, <1>3 DEF ReleaseSighup, ReleaseReloadFd, ReleaseDef, MainAt
<1>4. ASSUME NotifyReady \/ NotifyStopping
      PROVE  Phase' = Phase /\ FirstFailure' = FirstFailure
      BY <1>1, <1>4 DEF NotifyReady, NotifyStopping, MainAt, lifecycleFrame
<1>5. ASSUME EventsStop \/ Join \/ JoinTimeout
      PROVE  Phase' = Phase /\ FirstFailure' = FirstFailure
      BY <1>0, <1>1, <1>5 DEF EventsStop, Join, JoinTimeout, MainAt, stopFrame
<1>6. ASSUME NEW c \in Codes, OnStart(c)
      PROVE  Lifecycle!Start(c)
  <2>1. /\ main = "on_start" /\ main' \in {"notify_ready", "events_stop", "teardown"}
        /\ main' = "notify_ready" <=> c = 0
        /\ calls = <<>> /\ calls' = Append(calls, c) /\ process' = process
        BY <1>6 DEF OnStart, MainAt, AfterLifecycle, lifecycleFrame, Contract, CallInv
  <2>2. Phase = "starting" /\ FirstFailure = 0
        BY <1>0, <2>1 DEF Contract, Phases, Outcomes
  <2>3. Len(calls') = 1 /\ calls'[1] = c /\ calls' \in Seq(Codes)
        BY <1>0, <2>1, Called
  <2>4. FirstFailure' = c
        BY <2>3 DEF Contract, Outcomes
  <2>5. Phase' = IF c = 0 THEN "running" ELSE "ending"
        BY <1>0, <2>1, <2>3 DEF Contract, Phases, Ended
  <2>6. QED
        BY <1>0, <2>2, <2>4, <2>5 DEF Lifecycle!Start
<1>7. ASSUME NEW c \in Codes, OnRun(c) \/ OnRunFails(c)
      PROVE  Lifecycle!Run(c)
  <2>1. /\ main = "on_run" /\ main' = "notify_stopping" /\ process' = process
        /\ calls' = Append(calls, c) /\ (s_stop_requested \/ c # 0)
        BY <1>7 DEF OnRun, OnRunFails, MainAt, lifecycleFrame
  <2>2. Phase = "running" /\ Len(calls) = 1 /\ calls[1] = 0
        BY <1>0, <2>1 DEF Contract, Phases, CallInv
  <2>3. /\ Len(calls') = 2 /\ calls'[1] = 0 /\ calls'[2] = c
        /\ calls' \in Seq(Codes)
        BY <1>0, <2>1, <2>2, Called
  <2>4. FirstFailure' = c
        BY <2>3 DEF Contract, Outcomes
  <2>5. Phase' = "stopping"
        BY <1>0, <2>1 DEF Contract, Phases
  <2>6. QED
        BY <1>0, <2>1, <2>2, <2>4, <2>5 DEF Lifecycle!Run
<1>8. ASSUME NEW c \in Codes, OnStop(c)
      PROVE  Lifecycle!Stop(c)
  <2>1. /\ main = "on_stop" /\ main' \in {"events_stop", "teardown"}
        /\ calls' = Append(calls, c) /\ process' = process
        BY <1>8 DEF OnStop, MainAt, AfterLifecycle, lifecycleFrame
  <2>2. Phase = "stopping" /\ Len(calls) = 2 /\ calls[1] = 0
        BY <1>0, <2>1 DEF Contract, Phases, CallInv
  <2>3. /\ Len(calls') = 3 /\ calls'[1] = 0 /\ calls'[2] = calls[2] /\ calls'[3] = c
        /\ calls' \in Seq(Codes)
        BY <1>0, <2>1, <2>2, Called
  <2>4. FirstFailure = calls[2]
        BY <1>0, <2>2 DEF Contract, Outcomes
  <2>5. FirstFailure' = IF calls[2] # 0 THEN calls[2] ELSE c
        BY <2>3 DEF Contract, Outcomes
  <2>6. Phase' = "ending"
        BY <1>0, <2>1, <2>3 DEF Contract, Phases, Ended
  <2>7. QED
        BY <1>0, <2>2, <2>4, <2>5, <2>6 DEF Lifecycle!Stop
<1>9. ASSUME Exit
      PROVE  Lifecycle!Exit
  <2>1. Ended /\ process' = "exited" /\ calls' = calls
        BY <1>9 DEF Exit, MainAt, Contract, CallInv, stopFrame
  <2>2. Phase = "ending" /\ Phase' = "stopped"
        BY <1>0, <2>1 DEF Contract, Phases
  <2>3. FirstFailure' = FirstFailure
        BY <2>1 DEF FirstFailure
  <2>4. QED
        BY <1>0, <2>2, <2>3 DEF Lifecycle!Exit
<1>10. QED
       BY <1>0, <1>2, <1>3, <1>4, <1>5, <1>6, <1>7, <1>8, <1>9
       DEF MainThread, MainStep, Lifecycle!Next, Lifecycle!lifecycleVars

\* The other thread and signals can end the process, or ask for a stop.
LEMMA OthersImplement ==
    ASSUME Contract, Contract', MonitorThread \/ Signals \/ UNCHANGED vars
    PROVE  [Lifecycle!Next]_(Lifecycle!lifecycleVars)
<1>0. main' = main /\ calls' = calls
      BY MonitorFrame, SignalFrame DEF monitorFrame, signalFrame, vars, mainVars
<1>1. /\ main' = main /\ calls' = calls /\ FirstFailure' = FirstFailure
      BY <1>0 DEF FirstFailure
<1>2. CASE process' # process
  <2>1. process = "alive" /\ process' \in {"segv", "sighup", "sigterm", "watchdog"}
        BY <1>2, MonitorFrame, SignalFrame DEF vars, mainVars
  <2>2. Phase \notin {"stopped", "killed"} /\ Phase' = "killed"
        BY <2>1 DEF Phase
  <2>3. s_stop_requested' = s_stop_requested
        BY <1>2, MonitorFrame DEF monitorFrame, Signals, Sighup, SighupWrite, Sigterm,
                                  WatchdogExpires, vars, mainVars
  <2>4. QED
        BY <1>1, <2>2, <2>3 DEF Lifecycle!Kill, Lifecycle!Next
<1>3. CASE process' = process
  <2>1. Phase' = Phase
        BY <1>1, <1>3 DEF Phase
  <2>2. s_stop_requested' = s_stop_requested \/ (process = "alive" /\ s_stop_requested' = TRUE)
        BY MonitorFrame DEF monitorFrame, Signals, Sighup, SighupWrite, Sigterm,
                            WatchdogExpires, vars, mainVars
  <2>3. process = "alive" => Phase \notin {"stopped", "killed"}
        BY DEF Phase
  <2>4. QED
        BY <1>1, <2>1, <2>2, <2>3 DEF Lifecycle!RequestStop, Lifecycle!Next,
                                      Lifecycle!lifecycleVars
<1>4. QED
      BY <1>2, <1>3

\* The process on Linux implements the contract of ServiceLifecycle, up to its
\* liveness: the order of the callbacks, the result, and that nothing happens
\* to a process that has ended.
THEOREM ImplementsLifecycle == Spec => Lifecycle!SafeSpec
<1>1. Init => Lifecycle!Init
  <2> SUFFICES ASSUME Init
               PROVE  Lifecycle!Init
      OBVIOUS
  <2>1. CallInv /\ calls = <<>> /\ process = "alive" /\ s_stop_requested = FALSE
        BY CallsInit DEF Init
  <2>2. FirstFailure = 0 /\ Phase = "starting"
        BY <2>1, OutcomesAre, PhasesAre DEF CallInv, Outcomes, Phases
  <2>3. QED
        BY <2>1, <2>2 DEF Lifecycle!Init
<1>2. Contract /\ Contract' /\ [Next]_vars => [Lifecycle!Next]_(Lifecycle!lifecycleVars)
      BY MainImplements, OthersImplement, Actors
<1>3. QED
      BY <1>1, <1>2, ContractHolds, PTL DEF Spec, Lifecycle!SafeSpec
-----------------------------------------------------------------------------
(* What systemd hears                                                      *)

\* Until a reload is asked for, the monitoring thread sends nothing.
NotifyInv ==
    /\ wanted \in Nat
    /\ wanted = 0 =>
          /\ ~reload_count
          /\ monitor \notin {"dispatch_reload", "on_reload", "reload_ready"}
          /\ unit = "active" => Len(calls) > 0 /\ calls[1] = 0
          /\ unit = "deactivating" => Len(calls) > 1 /\ notified = "STOPPING"

LEMMA NotifyMain ==
    ASSUME CallInv, NotifyInv, MainThread
    PROVE  NotifyInv'
<1>1. /\ wanted' = wanted /\ calls \in Seq(Codes)
      /\ monitor' = monitor \/ EventsStartThread
      BY MainFrame DEF signalVars, CallInv
<1>2. (calls' = calls /\ notified' = notified /\ unit' = unit) \/ NotifyReady \/ NotifyStopping
      \/ (\E c \in Codes : calls' = Append(calls, c) /\ notified' = notified /\ unit' = unit)
      BY DEF MainThread, MainStep, JoinTimeout, OnRunFails, EventsStart,
             EventsStartReloadFd, EventsStartSighup, EventsStartThread, ReleaseSighup,
             ReleaseReloadFd, ReleaseDef, RegisterShutdown, OnStart, OnRun, OnStop,
             EventsStop, Join, Exit, lifecycleFrame, stopFrame, notifyVars
<1>3. reload_count' = reload_count \/ reload_count' = FALSE
      BY DEF MainThread, MainStep, JoinTimeout, OnRunFails, EventsStart,
             EventsStartReloadFd, EventsStartSighup, EventsStartThread, ReleaseSighup,
             ReleaseReloadFd, ReleaseDef, RegisterShutdown, NotifyReady,
             NotifyStopping, OnStart, OnRun, OnStop, EventsStop, Join, Exit,
             lifecycleFrame, stopFrame, countVars
<1>4. monitor' = monitor \/ monitor' = "new"
      BY <1>1 DEF EventsStartThread
<1>5. CASE calls' = calls /\ notified' = notified /\ unit' = unit
      BY <1>1, <1>3, <1>4, <1>5 DEF NotifyInv
<1>6. ASSUME NEW c \in Codes, calls' = Append(calls, c), notified' = notified, unit' = unit
      PROVE  NotifyInv'
  <2>1. Len(calls') = Len(calls) + 1 /\ \A i \in 1..Len(calls) : calls'[i] = calls[i]
        BY <1>1, <1>6
  <2>2. QED
        BY <1>1, <1>3, <1>4, <1>6, <2>1 DEF NotifyInv
<1>7. CASE NotifyReady
  <2>1. Len(calls) = 1 /\ calls[1] = 0 /\ calls' = calls
        BY <1>7 DEF NotifyReady, MainAt, CallInv
  <2>2. wanted = 0 => unit' \in {"active", unit} /\ unit # "deactivating"
        BY <1>7, <2>1 DEF NotifyReady, sd_notify_send, notifyVars, NotifyInv
  <2>3. QED
        BY <1>1, <1>3, <1>4, <2>1, <2>2 DEF NotifyInv
<1>8. CASE NotifyStopping
  <2>1. Len(calls) = 2 /\ calls[1] = 0 /\ calls' = calls
        BY <1>8 DEF NotifyStopping, MainAt, CallInv
  <2>2. \/ unit' = "deactivating" /\ notified' = "STOPPING"
        \/ unit' = unit /\ notified' = notified
        BY <1>8 DEF NotifyStopping, sd_notify_send, notifyVars
  <2>3. CASE unit' = "deactivating" /\ notified' = "STOPPING"
        BY <1>1, <1>3, <1>4, <2>1, <2>3 DEF NotifyInv
  <2>4. CASE unit' = unit /\ notified' = notified
        BY <1>1, <1>3, <1>4, <2>1, <2>4 DEF NotifyInv
  <2>5. QED
        BY <2>2, <2>3, <2>4
<1>9. QED
      BY <1>2, <1>5, <1>6, <1>7, <1>8

LEMMA NotifyMonitor ==
    ASSUME NotifyInv, MonitorThread
    PROVE  NotifyInv'
<1>1. wanted' = wanted /\ calls' = calls
      BY MonitorFrame DEF monitorFrame
<1>2. wanted = 0 => /\ reload_count' = reload_count \/ reload_count' = FALSE
                    /\ unit' = unit /\ notified' = notified
                    /\ monitor' \notin {"dispatch_reload", "on_reload", "reload_ready"}
      BY DEF NotifyInv, MonitorThread, MonitorStep, SlowStep, MonitorAt, Dereference,
             MonitorNew, MonitorWatchdog, MonitorWatchStop, MonitorWatchReload,
             MonitorReadOnEvent, MonitorBusOpen, MonitorInhibit, MonitorAttach, LoopStop,
             LoopReload, DispatchReload, OnReload, DispatchReloadReady, LoopEvent,
             OnEvent, LoopError, MonitorCleanup, countVars, notifyVars
<1>3. QED
      BY <1>1, <1>2 DEF NotifyInv

LEMMA NotifySignals ==
    ASSUME NotifyInv, Signals
    PROVE  NotifyInv'
<1>1. UNCHANGED <<calls, monitor, notified, unit>>
      BY SignalFrame DEF signalFrame, notifyVars
<1>2. \/ wanted' = wanted /\ reload_count' = reload_count
      \/ wanted' = wanted + 1
      BY DEF Signals, Sighup, SighupWrite, Sigterm, WatchdogExpires, ForwardSighup
<1>3. QED
      BY <1>1, <1>2 DEF NotifyInv

\* systemd takes the service for started only after on_start has succeeded,
\* and hears of its end last, unless a reload is asked for.
THEOREM NotificationsFollowCallbacksHolds == Spec => []NotificationsFollowCallbacks
<1>1. Init => NotifyInv
      BY DEF Init, NotifyInv
<1>2. CallInv /\ NotifyInv /\ [Next]_vars => NotifyInv'
  <2>1. ASSUME NotifyInv, UNCHANGED vars
        PROVE  NotifyInv'
        BY <2>1 DEF NotifyInv, vars, mainVars, countVars, signalVars, notifyVars
  <2>2. QED
        BY <2>1, NotifyMain, NotifyMonitor, NotifySignals, Actors
<1>3. NotifyInv => NotificationsFollowCallbacks
  <2>1. Len(calls) > 0 => calls # <<>>
        OBVIOUS
  <2>2. QED
        BY <2>1 DEF NotifyInv, NotificationsFollowCallbacks
<1>4. QED
      BY <1>1, <1>2, <1>3, CallsHold, PTL DEF Spec
-----------------------------------------------------------------------------
(* Descriptors, the definition and the watchdog                            *)

\* sighup_signal_handler runs on the main thread only, and its action is gone
\* before the descriptor is.
HandlerInv ==
    /\ handler = "idle" /\ ~bad_write
    /\ reload_fd \in {"none", "open", "closed"}
    /\ main = "close_reload_fd" => ~sighup
    /\ reload_fd = "closed" => main = "close_reload_fd"

\* The handler of SIGHUP never writes to a descriptor that has been closed, as
\* long as SIGHUP is delivered to the main thread.
THEOREM HandlerWritesOpenFdHolds ==
    ASSUME ~OtherThread
    PROVE  Spec => []HandlerWritesOpenFd
<1>1. Init => HandlerInv
      BY DEF Init, HandlerInv
<1>2. ASSUME HandlerInv, MainThread
      PROVE  HandlerInv'
  <2>1. handler' = handler /\ bad_write' = bad_write
        BY <1>2, MainFrame DEF signalVars
  <2>2. /\ reload_fd' \in {"none", "open", "closed"}
        /\ main' = "close_reload_fd" => ~sighup'
        /\ reload_fd' = "closed" => main' = "close_reload_fd"
        BY <1>2
        DEF HandlerInv, MainThread, MainStep, JoinTimeout, OnRunFails, MainAt,
            EventsStart, EventsStartReloadFd, EventsStartSighup, EventsStartThread,
            ReleaseSighup, ReleaseReloadFd, ReleaseDef, RegisterShutdown, NotifyReady,
            NotifyStopping, OnStart, OnRun, OnStop, EventsStop, Join, Exit,
            AfterLifecycle, lifecycleFrame, stopFrame, ctxVars
  <2>3. QED
        BY <1>2, <2>1, <2>2 DEF HandlerInv
<1>3. ASSUME HandlerInv, MonitorThread
      PROVE  HandlerInv'
      BY <1>3, MonitorFrame DEF HandlerInv, monitorFrame, ctxVars
<1>4. ASSUME HandlerInv, Signals
      PROVE  HandlerInv'
  <2>1. UNCHANGED <<main, sighup, reload_fd>>
        BY <1>4, SignalFrame DEF signalFrame, ctxVars
  <2>2. handler' = handler /\ (bad_write' = bad_write \/ (sighup /\ reload_fd # "none" /\ ForwardSighup))
        BY <1>4 DEF HandlerInv, Signals, Sighup, SighupWrite, Sigterm, WatchdogExpires
  <2>3. sighup /\ reload_fd # "none" /\ ForwardSighup => ~bad_write'
    <3>1. sighup /\ reload_fd # "none" => reload_fd = "open"
          BY <1>4 DEF HandlerInv
    <3>2. QED
          BY <1>4, <3>1 DEF HandlerInv, ForwardSighup
  <2>4. QED
        BY <1>4, <2>1, <2>2, <2>3 DEF HandlerInv
<1>5. HandlerInv /\ [Next]_vars => HandlerInv'
  <2>1. ASSUME HandlerInv, UNCHANGED vars
        PROVE  HandlerInv'
        BY <2>1 DEF HandlerInv, vars, mainVars, ctxVars, signalVars
  <2>2. QED
        BY <1>2, <1>3, <1>4, <2>1, Actors
<1>6. HandlerInv => HandlerWritesOpenFd
      BY DEF HandlerInv, HandlerWritesOpenFd
<1>7. QED
      BY <1>1, <1>5, <1>6, PTL DEF Spec
\* The monitoring thread runs only while main waits to join it at the latest,
\* and s_ctx.def is cleared after that.
DefInv ==
    /\ process # "segv"
    /\ main = "events_start" => monitor = "none"
    /\ main \in {"reload_fd", "sigaction", "thread_create"}
           => def /\ monitor = "none"
    /\ monitor \notin {"none", "done"} =>
          /\ def /\ thread
          /\ main \notin {"restore_sighup", "close_reload_fd", "close_stop_fd"}

\* The monitoring thread never reads through s_ctx.def once main has cleared
\* it, as long as it ends within the join timeout.
THEOREM MonitorSeesDefHolds ==
    ASSUME ~SlowThread
    PROVE  Spec => []MonitorSeesDef
<1>1. Init => DefInv
      BY DEF Init, DefInv
<1>2. ASSUME DefInv, MainThread
      PROVE  DefInv'
  <2>1. process' # "segv"
        BY <1>2, MainFrame DEF Exit
  <2>2. CASE EventsStart \/ EventsStartReloadFd \/ EventsStartSighup \/ EventsStartThread
        BY <1>2, <2>1, <2>2
        DEF DefInv, MainAt, EventsStart, EventsStartReloadFd, EventsStartSighup,
            EventsStartThread
  <2>3. CASE ReleaseSighup \/ ReleaseReloadFd \/ ReleaseDef
        BY <1>2, <2>1, <2>3
        DEF DefInv, MainAt, ReleaseSighup, ReleaseReloadFd, ReleaseDef
  <2>4. CASE \/ RegisterShutdown \/ NotifyReady \/ NotifyStopping
             \/ \E c \in Codes : OnStart(c) \/ OnRun(c) \/ OnRunFails(c) \/ OnStop(c)
        BY <1>2, <2>1, <2>4
        DEF DefInv, MainAt, RegisterShutdown, NotifyReady, NotifyStopping, OnStart,
            OnRun, OnRunFails, OnStop, AfterLifecycle, lifecycleFrame, ctxVars
  <2>5. CASE EventsStop \/ Join \/ JoinTimeout \/ Exit
        BY <1>2, <2>1, <2>5
        DEF DefInv, MainAt, MonitorAt, EventsStop, Join, JoinTimeout, Exit, stopFrame
  <2>6. QED
        BY <1>2, <2>2, <2>3, <2>4, <2>5 DEF MainThread, MainStep
<1>3. ASSUME DefInv, MonitorThread
      PROVE  DefInv'
  <2>1. UNCHANGED <<main, def, thread>> /\ monitor \notin {"none", "done"}
        BY <1>3, MonitorFrame
        DEF monitorFrame, ctxVars, MonitorThread, MonitorStep, SlowStep, MonitorAt,
            MonitorNew, MonitorWatchdog, MonitorWatchStop, MonitorWatchReload,
            MonitorReadOnEvent, MonitorBusOpen, MonitorInhibit, MonitorAttach, LoopStop,
            LoopReload, DispatchReload, OnReload, DispatchReloadReady, LoopEvent,
            OnEvent, LoopError, MonitorCleanup
  <2>2. process' # "segv"
        BY <1>3, <2>1
        DEF DefInv, MonitorThread, MonitorStep, SlowStep, MonitorAt, Dereference,
            MonitorNew, MonitorWatchdog, MonitorWatchStop, MonitorWatchReload,
            MonitorReadOnEvent, MonitorBusOpen, MonitorInhibit, MonitorAttach, LoopStop,
            LoopReload, DispatchReload, OnReload, DispatchReloadReady, LoopEvent,
            OnEvent, LoopError, MonitorCleanup
  <2>3. QED
        BY <1>3, <2>1, <2>2 DEF DefInv
<1>4. ASSUME DefInv, Signals
      PROVE  DefInv'
      BY <1>4, SignalFrame DEF DefInv, signalFrame, ctxVars
<1>5. DefInv /\ [Next]_vars => DefInv'
  <2>1. ASSUME DefInv, UNCHANGED vars
        PROVE  DefInv'
        BY <2>1 DEF DefInv, vars, mainVars, ctxVars
  <2>2. QED
        BY <1>2, <1>3, <1>4, <2>1, Actors
<1>6. DefInv => MonitorSeesDef
      BY DEF DefInv, MonitorSeesDef
<1>7. QED
      BY <1>1, <1>5, <1>6, PTL DEF Spec

\* What a step of callbacks and D-Bus calls adds to the silence.
LEMMA TimePassedIs ==
    ASSUME TimePassed
    PROVE  /\ monitor = "bus_open" => silence' = silence + 5 * CallTime
           /\ monitor \in {"inhibit_sleep", "inhibit_shutdown", "inhibit_again",
                           "on_reload", "on_event"} => silence' = silence + 1 * CallTime
BY DEF TimePassed, Overdue, Calls

\* How long the watchdog may have heard nothing, by where the monitoring thread
\* is: what the calls before it take, since the setup or the last round of the
\* loop.
Silence ==
    /\ monitor \in {"none", "new", "set_watchdog", "watch_stop", "watch_reload",
                    "read_on_event", "bus_open"} => silence = 0
    /\ monitor = "inhibit_sleep" => silence <= 5 * CallTime
    /\ monitor = "inhibit_shutdown" => silence <= 6 * CallTime
    /\ monitor = "attach" => silence <= 7 * CallTime
    /\ monitor \in {"dispatch_reload", "on_reload", "on_event"} => silence <= PingDue
    /\ monitor \in {"reload_ready", "inhibit_again"} => silence <= PingDue + CallTime
    /\ monitor = "loop" => silence <= 7 * CallTime \/ silence <= PingDue + 2 * CallTime

SilenceInv ==
    /\ monitor \in MonitorPC /\ silence \in Nat
    /\ main \in {"events_start", "reload_fd", "sigaction", "thread_create"}
           => monitor = "none"
    /\ process = "alive" => Silence

LEMMA SilenceMonitor ==
    ASSUME SilenceInv, MonitorThread
    PROVE  SilenceInv'
<1> USE ServiceAssumption DEF SilenceInv, Silence, MonitorAt, MonitorPC
<1> DEFINE Rest == main' = main /\ monitor # "none"
<1>0. Rest
      BY MonitorFrame
      DEF monitorFrame, MonitorThread, MonitorStep, SlowStep, MonitorNew,
          MonitorWatchdog, MonitorWatchStop, MonitorWatchReload, MonitorReadOnEvent,
          MonitorBusOpen, MonitorInhibit, MonitorAttach, LoopStop, LoopReload,
          DispatchReload, OnReload, DispatchReloadReady, LoopEvent, OnEvent, LoopError,
          MonitorCleanup
<1>1. CASE MonitorNew \/ MonitorWatchdog
      BY <1>0, <1>1 DEF MonitorNew, MonitorWatchdog, loopVars
<1>2. CASE MonitorWatchStop \/ MonitorWatchReload
      BY <1>0, <1>2 DEF MonitorWatchStop, MonitorWatchReload
<1>3. CASE MonitorReadOnEvent
      BY <1>0, <1>3 DEF MonitorReadOnEvent, Dereference, loopVars
<1>4. CASE MonitorAttach
      BY <1>0, <1>4 DEF MonitorAttach
<1>5. CASE DispatchReload \/ DispatchReloadReady
      BY <1>0, <1>5 DEF DispatchReload, DispatchReloadReady, loopVars, PingDue
<1>6. CASE LoopStop \/ LoopError \/ MonitorCleanup
      BY <1>0, <1>6 DEF LoopStop, LoopError, MonitorCleanup, loopVars
<1>7. CASE LoopReload \/ LoopEvent
      BY <1>0, <1>7 DEF LoopReload, LoopEvent, LeaveLoop, PingDue
<1>8. CASE MonitorBusOpen
      BY <1>0, <1>8, TimePassedIs DEF MonitorBusOpen
<1>9. CASE MonitorInhibit
  <2>1. TimePassed
        BY <1>9 DEF MonitorInhibit
  <2>2. \/ monitor = "inhibit_sleep" /\ monitor' = "inhibit_shutdown"
        \/ monitor = "inhibit_shutdown" /\ monitor' = "attach"
        \/ monitor = "inhibit_again" /\ monitor' = "loop"
        \/ /\ monitor \in {"inhibit_sleep", "inhibit_shutdown", "inhibit_again"}
           /\ monitor' = monitor /\ process' = "segv"
        BY <1>9 DEF MonitorInhibit, Dereference
  <2>3. process = "alive"
        BY <1>9 DEF MonitorInhibit
  <2>4. QED
        BY <1>0, <2>1, <2>2, <2>3, TimePassedIs DEF PingDue
<1>10. CASE OnReload
       BY <1>0, <1>10, TimePassedIs DEF OnReload, PingDue
<1>11. CASE OnEvent
       BY <1>0, <1>11, TimePassedIs DEF OnEvent, PingDue
<1>12. QED
       BY <1>1, <1>2, <1>3, <1>4, <1>5, <1>6, <1>7, <1>8, <1>9, <1>10, <1>11
       DEF MonitorThread, MonitorStep, SlowStep

LEMMA SilenceHolds == Spec => []SilenceInv
<1>1. Init => SilenceInv
      BY DEF Init, SilenceInv, Silence, MonitorPC
<1>2. ASSUME SilenceInv, MainThread
      PROVE  SilenceInv'
  <2>1. /\ silence' = silence /\ process = "alive"
        /\ EventsStartThread \/ monitor' = monitor
        BY <1>2, MainFrame DEF loopVars
  <2>2. CASE EventsStartThread
    <3>1. silence = 0
          BY <1>2, <2>1, <2>2 DEF SilenceInv, Silence, EventsStartThread, MainAt
    <3>2. QED
          BY <1>2, <2>1, <2>2, <3>1
          DEF SilenceInv, Silence, MonitorPC, EventsStartThread, MainAt
  <2>3. CASE monitor' = monitor
    <3>1. main' \in {"events_start", "reload_fd", "sigaction", "thread_create"} =>
              main \in {"events_start", "reload_fd", "sigaction", "thread_create"}
          BY <1>2
          DEF MainThread, MainStep, JoinTimeout, OnRunFails, MainAt, EventsStart,
              EventsStartReloadFd, EventsStartSighup, EventsStartThread, ReleaseSighup,
              ReleaseReloadFd, ReleaseDef, RegisterShutdown, NotifyReady,
              NotifyStopping, OnStart, OnRun, OnStop, EventsStop, Join, Exit,
              AfterLifecycle, lifecycleFrame, stopFrame
    <3>2. QED
          BY <1>2, <2>1, <2>3, <3>1 DEF SilenceInv, Silence
  <2>4. QED
        BY <2>1, <2>2, <2>3
<1>3. ASSUME SilenceInv, Signals \/ UNCHANGED vars
      PROVE  SilenceInv'
  <2>1. /\ UNCHANGED <<silence, monitor, main>>
        /\ process = "alive" \/ process' = process
        BY <1>3, SignalFrame DEF signalFrame, loopVars, vars, mainVars, Signals, Sighup,
           SighupWrite, Sigterm, WatchdogExpires
  <2>2. QED
        BY <1>3, <2>1 DEF SilenceInv, Silence
<1>4. SilenceInv /\ [Next]_vars => SilenceInv'
      BY <1>2, <1>3, SilenceMonitor, Actors
<1>5. QED
      BY <1>1, <1>4, PTL DEF Spec

\* With calls that are quick enough, the thread is never kept from its loop for
\* as long as the watchdog waits.
LEMMA BackInTime ==
    ASSUME SilenceInv, QuickCalls, process = "alive", monitor \notin {"cleanup", "done"}
    PROVE  Overdue < WatchdogSec
<1> USE ServiceAssumption DEF SilenceInv, Silence, QuickCalls, Overdue, WatchdogSec, PingDue
<1>1. CASE monitor = "bus_open"
  <2>1. Calls(monitor) = 5
        BY <1>1 DEF Calls
  <2>2. QED
        BY <1>1, <2>1
<1>2. CASE monitor \in {"inhibit_sleep", "inhibit_shutdown", "inhibit_again",
                        "on_reload", "on_event"}
  <2>1. Calls(monitor) = 1
        BY <1>2 DEF Calls
  <2>2. QED
        BY <1>2, <2>1
<1>3. CASE monitor \in {"none", "new", "set_watchdog", "watch_stop", "watch_reload",
                        "read_on_event", "attach", "loop", "dispatch_reload",
                        "reload_ready"}
  <2>1. Calls(monitor) = 0
        BY <1>3 DEF Calls
  <2>2. QED
        BY <1>3, <2>1
<1>4. QED
      BY <1>1, <1>2, <1>3 DEF MonitorPC

\* Without faults a process that systemd has started has a monitoring thread
\* with a watchdog, until main tells it to stop.
Serving == {"reload_fd", "sigaction", "thread_create", "register", "on_start",
            "notify_ready", "on_run", "notify_stopping", "on_stop", "events_stop"}

WatchInv ==
    /\ process # "watchdog"
    /\ unit = "active" => command = "run"
    /\ command = "run" /\ main \in Serving =>
          /\ stop_fd = "open" /\ ~stop_count
          /\ monitor \notin {"cleanup", "done"}
          /\ main \in {"reload_fd", "sigaction", "thread_create"} \/ monitor # "none"
    /\ monitor \notin {"none", "new", "set_watchdog"} => watchdog
    /\ command = "run" /\ calls = <<>> => main \in Serving \cup {"events_start"}
    /\ main = "events_start" => monitor = "none" /\ ~stop_count /\ calls = <<>>
    /\ command = "console" => main # "events_start"

\* An active service is never killed by the watchdog of its own unit file, as
\* long as no call fails that the service makes to prepare for it, and those
\* that keep the monitoring thread from its loop are quick.
THEOREM WatchdogAnsweredHolds ==
    ASSUME ~Faults, QuickCalls
    PROVE  Spec => []WatchdogAnswered
<1>1. Init => WatchInv
      BY DEF Init, WatchInv, Serving
<1>2. ASSUME CallInv, WatchInv, MainThread
      PROVE  WatchInv'
  <2>1. process' # "watchdog" /\ command' = command /\ watchdog' = watchdog
        BY <1>2, MainFrame DEF Exit, loopVars
  <2>2. CASE EventsStart \/ EventsStartReloadFd \/ EventsStartSighup \/ EventsStartThread
        BY <1>2, <2>1, <2>2
        DEF WatchInv, Serving, MainAt, EventsStart, EventsStartReloadFd,
            EventsStartSighup, EventsStartThread, notifyVars, countVars
  <2>3. CASE ReleaseSighup \/ ReleaseReloadFd \/ ReleaseDef
        BY <1>2, <2>1, <2>3
        DEF WatchInv, Serving, MainAt, ReleaseSighup, ReleaseReloadFd, ReleaseDef,
            notifyVars
  <2>4. CASE RegisterShutdown \/ NotifyReady \/ NotifyStopping
    <3>1. unit' = "active" => command = "run"
          BY <1>2, <2>4 DEF WatchInv, RegisterShutdown, NotifyReady, NotifyStopping,
                            sd_notify_send, notifyVars
    <3>2. QED
          BY <1>2, <2>1, <2>4, <3>1
          DEF WatchInv, Serving, MainAt, RegisterShutdown, NotifyReady, NotifyStopping,
              lifecycleFrame, ctxVars, countVars
  <2>5. ASSUME NEW c \in Codes, OnStart(c) \/ OnRun(c) \/ OnRunFails(c) \/ OnStop(c)
        PROVE  WatchInv'
    <3>1. calls' # <<>>
          BY <1>2, <2>5, Called DEF CallInv, OnStart, OnRun, OnRunFails, OnStop
    <3>2. QED
          BY <1>2, <2>1, <2>5, <3>1
          DEF WatchInv, Serving, MainAt, OnStart, OnRun, OnRunFails, OnStop,
              AfterLifecycle, lifecycleFrame, ctxVars, countVars, notifyVars
  <2>6. CASE EventsStop \/ Join \/ JoinTimeout \/ Exit
    <3>1. calls # <<>>
          BY <1>2, <2>6 DEF CallInv, Ended, EventsStop, Join, JoinTimeout, Exit, MainAt
    <3>2. QED
          BY <1>2, <2>1, <2>6, <3>1
          DEF WatchInv, Serving, MainAt, EventsStop, Join, JoinTimeout, Exit, stopFrame,
              notifyVars
  <2>7. QED
        BY <1>2, <2>2, <2>3, <2>4, <2>5, <2>6 DEF MainThread, MainStep
<1>3. ASSUME WatchInv, MonitorThread
      PROVE  WatchInv'
  <2> USE DEF MonitorThread, MonitorStep, SlowStep, MonitorAt, MonitorNew, MonitorWatchdog,
              MonitorWatchStop, MonitorWatchReload, MonitorReadOnEvent, MonitorBusOpen,
              MonitorInhibit, MonitorAttach, LoopStop, LoopReload, DispatchReload,
              OnReload, DispatchReloadReady, LoopEvent, OnEvent, LoopError,
              MonitorCleanup
  <2>1. UNCHANGED <<command, main, calls, stop_fd>> /\ process' # "watchdog"
        BY <1>3, MonitorFrame DEF monitorFrame, ctxVars
  <2>2. unit' = "active" => unit = "active" \/ command = "run"
        BY <1>3 DEF sd_notify_send, notifyVars
  <2>3. stop_count' => stop_count
        BY <1>3 DEF countVars
  <2>4. monitor' \notin {"none", "new", "set_watchdog"} => watchdog'
        BY <1>3 DEF WatchInv, Dereference, loopVars, TimePassed, LeaveLoop
  <2>5. monitor # "none" /\ monitor' # "none"
        BY <1>3 DEF Dereference
  <2>6. monitor' \in {"cleanup", "done"} =>
            monitor \in {"cleanup", "done"} \/ stop_count \/ stop_fd # "open"
        BY <1>3 DEF Dereference
  <2>7. QED
        BY <1>3, <2>1, <2>2, <2>3, <2>4, <2>5, <2>6 DEF WatchInv, Serving
<1>4. ASSUME WatchInv, SilenceInv, Signals
      PROVE  WatchInv'
  <2>1. UNCHANGED <<command, main, calls, monitor, stop_fd, stop_count, watchdog, unit>>
        BY <1>4, SignalFrame DEF signalFrame, ctxVars, loopVars, notifyVars
  <2>2. process' # "watchdog"
    <3>1. ASSUME process = "alive", unit = "active", main \in {"on_start", "on_run"}
          PROVE  AnswersWatchdog
      <4>1. monitor \notin {"none", "cleanup", "done"}
            BY <1>4, <3>1 DEF WatchInv, Serving
      <4>2. Overdue < WatchdogSec
            BY <1>4, <3>1, <4>1, BackInTime
      <4>3. QED
            BY <1>4, <4>1, <4>2 DEF WatchInv, AnswersWatchdog
    <3>2. QED
          BY <1>4, <3>1 DEF WatchInv, Signals, Sighup, SighupWrite, Sigterm, WatchdogExpires
  <2>3. QED
        BY <1>4, <2>1, <2>2 DEF WatchInv
<1>5. CallInv /\ SilenceInv /\ WatchInv /\ [Next]_vars => WatchInv'
  <2>1. ASSUME WatchInv, UNCHANGED vars
        PROVE  WatchInv'
        BY <2>1 DEF WatchInv, vars, mainVars, ctxVars, countVars, loopVars, notifyVars
  <2>2. QED
        BY <1>2, <1>3, <1>4, <2>1, Actors
<1>6. WatchInv => WatchdogAnswered
      BY DEF WatchInv, WatchdogAnswered
<1>7. QED
      BY <1>1, <1>5, <1>6, CallsHold, SilenceHolds, PTL DEF Spec
-----------------------------------------------------------------------------
(* Types                                                                   *)

CallTypes ==
    /\ command \in {"run", "console"}
    /\ process \in {"alive", "exited", "sighup", "sigterm", "watchdog", "segv"}
    /\ status \in 0..255
    /\ main \in MainPC
    /\ calls \in Seq(Codes) /\ Len(calls) <= 3
    /\ rc \in Codes

FlagTypes ==
    /\ s_stop_requested \in BOOLEAN
    /\ def \in BOOLEAN /\ thread \in BOOLEAN /\ sighup \in BOOLEAN
    /\ stop_count \in BOOLEAN /\ reload_count \in BOOLEAN
    /\ watchdog \in BOOLEAN /\ bad_write \in BOOLEAN

ContextTypes ==
    /\ stop_fd \in {"none", "open"}
    /\ reload_fd \in {"none", "open", "closed"}
    /\ unit \in {"activating", "active", "deactivating"}
    /\ notified \in {"none", "READY", "RELOADING", "STOPPING"}

LoopTypes ==
    /\ monitor \in MonitorPC /\ silence \in Nat
    /\ watched \subseteq {"stop", "reload", "bus"}
    /\ events \in 0..MaxEvents

\* A SIGHUP that the handler is about to forward has been counted as sent.
HupTypes ==
    /\ handler \in {"idle", "write"}
    /\ hups \in 0..MaxHups
    /\ wanted \in Nat /\ loaded \in 0..wanted
    /\ wanted + (IF handler = "write" THEN 1 ELSE 0) <= hups

Types == CallTypes /\ FlagTypes /\ ContextTypes /\ LoopTypes /\ HupTypes

LEMMA CallTypesMain ==
    ASSUME CallInv, CallTypes, MainThread
    PROVE  CallTypes'
<1>1. command' = command
      BY MainFrame
<1>2. calls' = calls \/ \E c \in Codes : OnStart(c) \/ OnRun(c) \/ OnRunFails(c) \/ OnStop(c)
      BY DEF MainThread, MainStep, JoinTimeout, EventsStart, EventsStartReloadFd,
             EventsStartSighup, EventsStartThread, ReleaseSighup, ReleaseReloadFd,
             ReleaseDef, RegisterShutdown, NotifyReady, NotifyStopping, EventsStop, Join,
             Exit, lifecycleFrame, stopFrame
<1>3. calls' \in Seq(Codes) /\ Len(calls') <= 3
  <2>1. ASSUME NEW c \in Codes, OnStart(c) \/ OnRun(c) \/ OnRunFails(c) \/ OnStop(c)
        PROVE  calls' \in Seq(Codes) /\ Len(calls') <= 3
    <3>1. main \in {"on_start", "on_run", "on_stop"} /\ calls' = Append(calls, c)
          BY <2>1 DEF OnStart, OnRun, OnRunFails, OnStop, MainAt
    <3>2. calls \in Seq(Codes) /\ Len(calls) <= 2
          BY <3>1 DEF CallInv
    <3>3. QED
          BY <3>1, <3>2, Called
  <2>2. QED
        BY <1>2, <2>1 DEF CallTypes
<1>4. rc' \in Codes
  <2>1. ASSUME NEW c \in Codes, OnStop(c)
        PROVE  rc' \in Codes
    <3>1. calls \in Seq(Codes) /\ 2 \in 1..Len(calls)
          BY <2>1 DEF OnStop, MainAt, CallInv
    <3>2. calls[2] \in Codes
          BY <3>1, Element
    <3>3. QED
          BY <2>1, <3>2 DEF OnStop
  <2>2. rc' = rc \/ \E c \in Codes : OnStart(c) \/ OnStop(c)
        BY DEF MainThread, MainStep, JoinTimeout, EventsStart, EventsStartReloadFd,
               EventsStartSighup, EventsStartThread, ReleaseSighup, ReleaseReloadFd,
               ReleaseDef, RegisterShutdown, NotifyReady, NotifyStopping, EventsStop,
               Join, Exit, OnRun, OnRunFails, lifecycleFrame, stopFrame
  <2>3. QED
        BY <2>1, <2>2 DEF CallTypes, OnStart
<1>5. process' \in {"alive", "exited"} /\ status' \in 0..255
  <2>1. Exit => process' = "exited" /\ status' \in 0..255
        BY DEF Exit, CallInv
  <2>2. Exit \/ (process' = process /\ status' = status)
        BY DEF MainThread, MainStep, JoinTimeout, OnRunFails, EventsStart,
               EventsStartReloadFd, EventsStartSighup, EventsStartThread, ReleaseSighup,
               ReleaseReloadFd, ReleaseDef, RegisterShutdown, NotifyReady,
               NotifyStopping, OnStart, OnRun, OnStop, EventsStop, Join, lifecycleFrame,
               stopFrame
  <2>3. QED
        BY <2>1, <2>2, MainFrame DEF CallTypes
<1>6. main' \in MainPC
      BY DEF MainThread, MainStep, JoinTimeout, OnRunFails, EventsStart,
             EventsStartReloadFd, EventsStartSighup, EventsStartThread, ReleaseSighup,
             ReleaseReloadFd, ReleaseDef, RegisterShutdown, NotifyReady, NotifyStopping,
             OnStart, OnRun, OnStop, EventsStop, Join, Exit, AfterLifecycle, MainAt,
             MainPC, CallTypes
<1>7. QED
      BY <1>1, <1>3, <1>4, <1>5, <1>6 DEF CallTypes

LEMMA FlagTypesMain ==
    ASSUME FlagTypes, MainThread
    PROVE  FlagTypes'
<1>1. UNCHANGED <<s_stop_requested, watchdog, bad_write>>
      BY MainFrame DEF loopVars, signalVars
<1>2. def' \in {def, TRUE, FALSE} /\ thread' \in {thread, TRUE, FALSE}
      BY DEF MainThread, MainStep, JoinTimeout, OnRunFails, EventsStart,
             EventsStartReloadFd, EventsStartSighup, EventsStartThread, ReleaseSighup,
             ReleaseReloadFd, ReleaseDef, RegisterShutdown, NotifyReady, NotifyStopping,
             OnStart, OnRun, OnStop, EventsStop, Join, Exit, lifecycleFrame, stopFrame,
             ctxVars, countVars
<1>3. sighup' \in {sighup, TRUE, FALSE} /\ reload_count' \in {reload_count, FALSE}
      BY DEF MainThread, MainStep, JoinTimeout, OnRunFails, EventsStart,
             EventsStartReloadFd, EventsStartSighup, EventsStartThread, ReleaseSighup,
             ReleaseReloadFd, ReleaseDef, RegisterShutdown, NotifyReady, NotifyStopping,
             OnStart, OnRun, OnStop, EventsStop, Join, Exit, lifecycleFrame, stopFrame,
             ctxVars, countVars
<1>4. EventsStop \/ stop_count' \in {stop_count, FALSE}
      BY DEF MainThread, MainStep, JoinTimeout, OnRunFails, EventsStart,
             EventsStartReloadFd, EventsStartSighup, EventsStartThread, ReleaseSighup,
             ReleaseReloadFd, ReleaseDef, RegisterShutdown, NotifyReady, NotifyStopping,
             OnStart, OnRun, OnStop, EventsStop, Join, Exit, lifecycleFrame, stopFrame,
             ctxVars, countVars
<1>5. EventsStop => stop_count' \in BOOLEAN
      BY Zenon DEF EventsStop
<1>6. def' \in BOOLEAN /\ thread' \in BOOLEAN
      BY <1>2, Zenon DEF FlagTypes
<1>7. sighup' \in BOOLEAN /\ reload_count' \in BOOLEAN
      BY <1>3, Zenon DEF FlagTypes
<1>8. stop_count' \in BOOLEAN
      BY <1>4, <1>5, Zenon DEF FlagTypes
<1>9. QED
      BY <1>1, <1>6, <1>7, <1>8, Zenon DEF FlagTypes

LEMMA ContextTypesMain ==
    ASSUME ContextTypes, MainThread
    PROVE  ContextTypes'
<1>1. stop_fd' \in {stop_fd, "none", "open"}
      BY DEF MainThread, MainStep, JoinTimeout, OnRunFails, EventsStart,
             EventsStartReloadFd, EventsStartSighup, EventsStartThread, ReleaseSighup,
             ReleaseReloadFd, ReleaseDef, RegisterShutdown, NotifyReady, NotifyStopping,
             OnStart, OnRun, OnStop, EventsStop, Join, Exit, lifecycleFrame, stopFrame,
             ctxVars, countVars
<1>2. reload_fd' \in {reload_fd, "none", "open", "closed"}
      BY DEF MainThread, MainStep, JoinTimeout, OnRunFails, EventsStart,
             EventsStartReloadFd, EventsStartSighup, EventsStartThread, ReleaseSighup,
             ReleaseReloadFd, ReleaseDef, RegisterShutdown, NotifyReady, NotifyStopping,
             OnStart, OnRun, OnStop, EventsStop, Join, Exit, lifecycleFrame, stopFrame,
             ctxVars, countVars
<1>3. UNCHANGED notifyVars \/ NotifyReady \/ NotifyStopping
      BY DEF MainThread, MainStep, JoinTimeout, OnRunFails, EventsStart,
             EventsStartReloadFd, EventsStartSighup, EventsStartThread, ReleaseSighup,
             ReleaseReloadFd, ReleaseDef, RegisterShutdown, NotifyReady, NotifyStopping,
             OnStart, OnRun, OnStop, EventsStop, Join, Exit, lifecycleFrame, stopFrame,
             ctxVars, countVars
<1>4. UNCHANGED notifyVars \/ sd_notify_send("READY") \/ sd_notify_send("STOPPING")
      BY <1>3 DEF NotifyReady, NotifyStopping
<1>5. unit' \in {unit, "active", "deactivating"}
      BY <1>4 DEF sd_notify_send, notifyVars
<1>6. notified' \in {notified, "READY", "STOPPING"}
      BY <1>4 DEF sd_notify_send, notifyVars
<1>7. QED
      BY <1>1, <1>2, <1>5, <1>6 DEF ContextTypes

LEMMA TypesMain ==
    ASSUME CallInv, Types, MainThread
    PROVE  Types'
<1>1. LoopTypes'
      BY MainFrame DEF Types, LoopTypes, loopVars, signalVars, EventsStartThread, MonitorPC
<1>2. HupTypes'
      BY MainFrame DEF Types, HupTypes, signalVars
<1>3. QED
      BY <1>1, <1>2, CallTypesMain, FlagTypesMain, ContextTypesMain DEF Types

LEMMA TypesMonitor ==
    ASSUME Types, MonitorThread
    PROVE  Types'
<1>1. CallTypes'
      BY MonitorFrame DEF Types, CallTypes, monitorFrame
<1>2. ContextTypes'
  <2>1. UNCHANGED <<stop_fd, reload_fd>>
        BY MonitorFrame DEF monitorFrame, ctxVars
  <2>2. \/ UNCHANGED notifyVars
        \/ sd_notify_send("RELOADING") \/ sd_notify_send("READY")
        BY DEF MonitorThread, MonitorStep, SlowStep, MonitorNew, MonitorWatchdog,
               MonitorWatchStop, MonitorWatchReload, MonitorReadOnEvent, MonitorBusOpen,
               MonitorInhibit, MonitorAttach, LoopStop, LoopReload, DispatchReload,
               OnReload, DispatchReloadReady, LoopEvent, OnEvent, LoopError,
               MonitorCleanup
  <2>3. unit' \in {unit, "active"} /\ notified' \in {notified, "RELOADING", "READY"}
        BY <2>2 DEF sd_notify_send, notifyVars
  <2>4. QED
        BY <2>1, <2>3 DEF Types, ContextTypes
<1>3. FlagTypes'
  <2>1. UNCHANGED <<s_stop_requested, def, thread, sighup, bad_write>>
        BY MonitorFrame DEF monitorFrame, ctxVars
  <2>2. stop_count' \in {stop_count, FALSE} /\ reload_count' \in {reload_count, FALSE}
        BY DEF MonitorThread, MonitorStep, SlowStep, MonitorNew, MonitorWatchdog,
               MonitorWatchStop, MonitorWatchReload, MonitorReadOnEvent, MonitorBusOpen,
               MonitorInhibit, MonitorAttach, LoopStop, LoopReload, DispatchReload,
               OnReload, DispatchReloadReady, LoopEvent, OnEvent, LoopError,
               MonitorCleanup, countVars
  <2>3. watchdog' \in {watchdog, TRUE}
        BY DEF MonitorThread, MonitorStep, SlowStep, MonitorNew, MonitorWatchdog,
               MonitorWatchStop, MonitorWatchReload, MonitorReadOnEvent, MonitorBusOpen,
               MonitorInhibit, MonitorAttach, LoopStop, LoopReload, DispatchReload,
               OnReload, DispatchReloadReady, LoopEvent, OnEvent, LoopError,
               MonitorCleanup, loopVars, TimePassed, LeaveLoop
  <2>4. stop_count' \in BOOLEAN /\ reload_count' \in BOOLEAN
        BY <2>2, Zenon DEF Types, FlagTypes
  <2>5. watchdog' \in BOOLEAN
        BY <2>3, Zenon DEF Types, FlagTypes
  <2>6. QED
        BY <2>1, <2>4, <2>5, Zenon DEF Types, FlagTypes
<1>4. LoopTypes'
  <2>1. monitor' \in MonitorPC
        BY DEF MonitorThread, MonitorStep, SlowStep, Dereference, MonitorNew,
               MonitorWatchdog, MonitorWatchStop, MonitorWatchReload,
               MonitorReadOnEvent, MonitorBusOpen, MonitorInhibit, MonitorAttach,
               LoopStop, LoopReload, DispatchReload, OnReload, DispatchReloadReady,
               LoopEvent, OnEvent, LoopError, MonitorCleanup, MonitorPC, Types, LoopTypes
  <2>2. watched' \subseteq {"stop", "reload", "bus"}
        BY DEF MonitorThread, MonitorStep, SlowStep, MonitorNew, MonitorWatchdog,
               MonitorWatchStop, MonitorWatchReload, MonitorReadOnEvent, MonitorBusOpen,
               MonitorInhibit, MonitorAttach, LoopStop, LoopReload, DispatchReload,
               OnReload, DispatchReloadReady, LoopEvent, OnEvent, LoopError,
               MonitorCleanup, loopVars, TimePassed, LeaveLoop, Types, LoopTypes
  <2>3. events' = events \/ (events < MaxEvents /\ events' = events + 1)
        BY DEF MonitorThread, MonitorStep, SlowStep, MonitorNew, MonitorWatchdog,
               MonitorWatchStop, MonitorWatchReload, MonitorReadOnEvent, MonitorBusOpen,
               MonitorInhibit, MonitorAttach, LoopStop, LoopReload, DispatchReload,
               OnReload, DispatchReloadReady, LoopEvent, OnEvent, LoopError,
               MonitorCleanup
  <2>4. events' \in 0..MaxEvents
        BY <2>3, ServiceAssumption DEF Types, LoopTypes
  <2>5. silence' \in Nat
    <3>1. silence' \in {silence, 0, PingDue, Overdue}
          BY DEF MonitorThread, MonitorStep, SlowStep, MonitorNew, MonitorWatchdog,
                 MonitorWatchStop, MonitorWatchReload, MonitorReadOnEvent,
                 MonitorBusOpen, MonitorInhibit, MonitorAttach, LoopStop, LoopReload,
                 DispatchReload, OnReload, DispatchReloadReady, LoopEvent, OnEvent,
                 LoopError, MonitorCleanup, TimePassed, LeaveLoop, loopVars
    <3>2. Calls(monitor) \in {0, 1, 5}
          BY DEF Calls
    <3>3. Calls(monitor) * CallTime \in Nat
          BY <3>2, ServiceAssumption
    <3>4. QED
          BY <3>1, <3>3 DEF Types, LoopTypes, Overdue, PingDue
  <2>6. QED
        BY <2>1, <2>2, <2>4, <2>5 DEF LoopTypes
<1>5. HupTypes'
  <2>1. UNCHANGED <<handler, hups, wanted>> /\ loaded' \in {loaded, wanted}
        BY MonitorFrame
           DEF monitorFrame, MonitorThread, MonitorStep, SlowStep, MonitorNew,
               MonitorWatchdog, MonitorWatchStop, MonitorWatchReload,
               MonitorReadOnEvent, MonitorBusOpen, MonitorInhibit, MonitorAttach,
               LoopStop, LoopReload, DispatchReload, OnReload, DispatchReloadReady,
               LoopEvent, OnEvent, LoopError, MonitorCleanup
  <2>2. QED
        BY <2>1 DEF Types, HupTypes
<1>6. QED
      BY <1>1, <1>2, <1>3, <1>4, <1>5 DEF Types

LEMMA TypesSignals ==
    ASSUME Types, Signals
    PROVE  Types'
<1>1. CallTypes'
  <2>1. UNCHANGED <<command, status, main, calls, rc>>
        BY SignalFrame DEF signalFrame
  <2>2. QED
        BY <2>1, SignalFrame DEF Types, CallTypes
<1>2. ContextTypes'
      BY SignalFrame DEF Types, ContextTypes, signalFrame, ctxVars, notifyVars
<1>3. FlagTypes'
  <2>1. UNCHANGED <<def, thread, sighup, stop_count, watchdog>>
        BY SignalFrame DEF signalFrame, ctxVars, loopVars
  <2>2. s_stop_requested' \in {s_stop_requested, TRUE}
        BY DEF Signals, Sighup, SighupWrite, Sigterm, WatchdogExpires
  <2>3. UNCHANGED <<reload_count, bad_write>> \/ ForwardSighup
        BY DEF Signals, Sighup, SighupWrite, Sigterm, WatchdogExpires
  <2>4. ForwardSighup => reload_count' \in BOOLEAN /\ bad_write' \in BOOLEAN
        BY Zenon DEF ForwardSighup
  <2>5. reload_count' \in BOOLEAN /\ bad_write' \in BOOLEAN
        BY <2>3, <2>4, Zenon DEF Types, FlagTypes
  <2>6. QED
        BY <2>1, <2>2, <2>5, Zenon DEF Types, FlagTypes
<1>4. LoopTypes'
      BY SignalFrame DEF Types, LoopTypes, signalFrame, loopVars
<1>5. HupTypes'
  <2>1. loaded' = loaded
        BY SignalFrame DEF signalFrame
  <2>2. CASE Sighup
    <3>1. hups' = hups + 1 /\ hups < MaxHups
          BY <2>2 DEF Sighup
    <3>2. \/ handler' = handler /\ wanted' \in {wanted, wanted + 1}
          \/ handler = "idle" /\ handler' \in {"idle", "write"} /\ wanted' = wanted
          BY <2>2 DEF Sighup, ForwardSighup
    <3>3. QED
          BY <2>1, <3>1, <3>2, ServiceAssumption DEF Types, HupTypes
  <2>3. CASE SighupWrite
    <3>1. /\ handler = "write" /\ handler' = "idle" /\ wanted' = wanted + 1
          /\ hups' = hups
          BY <2>3 DEF SighupWrite, ForwardSighup
    <3>2. QED
          BY <2>1, <3>1 DEF Types, HupTypes
  <2>4. CASE Sigterm \/ WatchdogExpires
    <3>1. UNCHANGED <<handler, hups, wanted>>
          BY <2>4 DEF Sigterm, WatchdogExpires
    <3>2. QED
          BY <2>1, <3>1 DEF Types, HupTypes
  <2>5. QED
        BY <2>2, <2>3, <2>4 DEF Signals
<1>6. QED
      BY <1>1, <1>2, <1>3, <1>4, <1>5 DEF Types

\* Every variable keeps its type; above all no more than three callbacks are
\* made, and no SIGHUP is forwarded that was not sent, whichever thread the
\* handler runs on.
THEOREM TypeCorrect == Spec => []TypeOK
<1>1. ASSUME Init PROVE Types
  <2>1. CallTypes
        BY <1>1, ServiceAssumption DEF Init, CallTypes, MainPC
  <2>2. FlagTypes
        BY <1>1, Zenon DEF Init, FlagTypes
  <2>3. ContextTypes
        BY <1>1 DEF Init, ContextTypes
  <2>4. LoopTypes /\ HupTypes
        BY <1>1, ServiceAssumption DEF Init, LoopTypes, HupTypes, MonitorPC
  <2>5. QED
        BY <2>1, <2>2, <2>3, <2>4 DEF Types
<1>2. CallInv /\ Types /\ [Next]_vars => Types'
  <2>1. ASSUME Types, UNCHANGED vars
        PROVE  Types'
    <3>1. CallTypes' /\ ContextTypes' /\ LoopTypes' /\ HupTypes'
          BY <2>1 DEF Types, CallTypes, ContextTypes, LoopTypes, HupTypes, vars, mainVars,
                      ctxVars, loopVars, signalVars, notifyVars
    <3>2. FlagTypes'
          BY <2>1, Zenon DEF Types, FlagTypes, vars, mainVars, ctxVars, countVars, loopVars,
                      signalVars
    <3>3. QED
          BY <3>1, <3>2 DEF Types
  <2>2. QED
        BY <2>1, TypesMain, TypesMonitor, TypesSignals, Actors
<1>3. Types => TypeOK
  <2>1. ASSUME HupTypes PROVE wanted \in 0..hups /\ loaded \in 0..wanted
        BY <2>1 DEF HupTypes
  <2>2. ASSUME FlagTypes
        PROVE  {s_stop_requested, def, thread, stop_count, reload_count, sighup, watchdog,
                bad_write} \subseteq BOOLEAN
        BY <2>2, Zenon DEF FlagTypes
  <2>3. QED
        BY <2>1, <2>2 DEF Types, CallTypes, ContextTypes, LoopTypes, HupTypes, TypeOK
<1>4. QED
      BY <1>1, <1>2, <1>3, CallsHold, PTL DEF Spec
=============================================================================
