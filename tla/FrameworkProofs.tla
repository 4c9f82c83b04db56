--------------------------- MODULE FrameworkProofs ---------------------------
(***************************************************************************)
(* Proofs about the parts of the service framework that do not depend on a *)
(* running service's events:                                               *)
(*                                                                         *)
(*   - Registration, for any number of commands, with or without faults.   *)
(*     Neither property is inductive: what a command has achieved by the   *)
(*     time it returns was decided several steps before.  LinuxInv and     *)
(*     WindowsInv say what is done at each step of each command.           *)
(*   - StopSignal, for any set of calling threads and any number of calls: *)
(*     the flag, the mutex and the condition variable never lose a wakeup, *)
(*     and implement the safety part of StopLatch.                         *)
(***************************************************************************)
EXTENDS Registration, StopSignal, Sequences, TLAPS

-----------------------------------------------------------------------------
(* Registration: the inductive invariant                                   *)

LinuxTypes == enabled \in BOOLEAN /\ running \in BOOLEAN

\* Which steps belong to which command.
LinuxSteps ==
    /\ step \in {"fopen", "fputs", "enable"} => command = "install"
    /\ step \in {"stop", "disable", "remove"} => command = "uninstall"
    /\ step # "idle" => command \in {"install", "uninstall"}

LinuxInstalls ==
    command = "install" =>
        /\ step \in {"daemon_reload", "enable"} /\ "flush" \notin upsets
               => file = "whole"
        /\ Linux!InstallSound
        /\ step = "idle" /\ upsets = {} => outcome = "success"

LinuxUninstalls ==
    command = "uninstall" /\ upsets = {} =>
        /\ step \in {"disable", "remove", "daemon_reload"} => ~running
        /\ step \in {"remove", "daemon_reload"} => ~enabled
        /\ step = "daemon_reload" => file = "absent"
        /\ step = "idle" => outcome = "success" /\ Linux!Removed /\ ~running

LinuxInv == LinuxTypes /\ LinuxSteps /\ LinuxInstalls /\ LinuxUninstalls

WindowsSteps ==
    /\ step = "create" => command = "install"
    /\ step \in {"open", "stop", "delete"} => command = "uninstall"
    /\ step \in {"description", "preshutdown", "restart", "restart_on_error"}
           => command = "install"
    /\ step # "idle" => command \in {"install", "uninstall"}

\* While it is configured, the service is there, and nothing has been left out.
WindowsConfigures ==
    /\ step \in {"description", "preshutdown", "restart", "restart_on_error"}
           => service = "present"
    /\ "failure" \notin upsets =>
        /\ step = "description" => settings = {}
        /\ step = "preshutdown" => settings = {"description"}
        /\ step = "restart" => settings = {"description", "preshutdown"}
        /\ step = "restart_on_error"
               => settings = {"description", "preshutdown", "restart"}

WindowsInstalls ==
    command = "install" =>
        /\ Windows!InstallSound
        /\ step = "idle" /\ upsets = {} =>
               outcome = IF found = "absent" THEN "success" ELSE "failure"

\* What the commands have met: after an uninstall that nothing disturbed, no
\* service is present for install to meet.
WindowsMeets ==
    /\ step \in {"description", "preshutdown", "restart", "restart_on_error"}
           => found = "absent"
    /\ step \in {"stop", "delete"} => found = service /\ found # "absent"
    /\ command = "install" /\ cleared =>
        /\ step \in {"elevate", "create"} => service # "present"
        /\ found # "present"
    /\ command = "uninstall" /\ step = "idle" /\ upsets = {} =>
        (outcome = "success" <=> found = "present")

\* A service that is not in the database has no process.
WindowsUninstalls ==
    /\ service = "absent" => process = "stopped"
    /\ command = "uninstall" /\ upsets = {} =>
        /\ step \in {"delete", "idle"} => process # "running"
        /\ step = "idle" => service # "present"

WindowsInv ==
    /\ WindowsSteps /\ WindowsConfigures /\ WindowsInstalls
    /\ WindowsUninstalls /\ WindowsMeets

RegistrationInv ==
    /\ platform \in {"Linux", "Windows"}
    /\ platform = "Linux" => LinuxInv
    /\ platform = "Windows" => WindowsInv

-----------------------------------------------------------------------------
(* Linux                                                                   *)

\* Every step of the commands and of systemd keeps what LinuxInv says.
LEMMA LinuxStep ==
    ASSUME LinuxInv, [Linux!Next]_(Linux!vars)
    PROVE  LinuxInv'
<1> USE DEF LinuxInv, LinuxTypes, LinuxSteps, LinuxInstalls, LinuxUninstalls,
            Linux!InstallSound, Linux!Installed, Linux!Removed, Linux!Finished,
            Linux!Goto, Linux!Return, Linux!Disturbed
<1>1. CASE Linux!OnlyCommand /\ UNCHANGED Linux!system
  <2>1. ASSUME NEW c \in {"install", "uninstall"}, Linux!Give(c)
        PROVE  LinuxInv'
        BY <1>1, <2>1 DEF Linux!Give, Linux!system
  <2>2. CASE Linux!ensure_elevated_for_operation("fopen", "stop")
        BY <1>1, <2>2
        DEF Linux!ensure_elevated_for_operation, Linux!Fail, Linux!system
  <2>3. CASE Linux!Kill
        BY <1>1, <2>3 DEF Linux!Kill, Linux!system
  <2>4. CASE Linux!AllGiven
        BY <1>1, <2>4 DEF Linux!AllGiven, Linux!commandVars, Linux!system
  <2>5. QED
        BY <1>1, <2>1, <2>2, <2>3, <2>4 DEF Linux!OnlyCommand
<1>2. CASE Linux!InstallOpen
      BY <1>2 DEF Linux!InstallOpen, Linux!Fail
<1>3. CASE Linux!InstallWrite
      BY <1>3 DEF Linux!InstallWrite, Linux!Fail
<1>4. CASE Linux!InstallReload
      BY <1>4 DEF Linux!InstallReload, Linux!Fail
<1>5. CASE Linux!InstallEnable
      BY <1>5 DEF Linux!InstallEnable, Linux!Fail
<1>6. CASE Linux!UninstallStop
      BY <1>6 DEF Linux!UninstallStop, Linux!Warn
<1>7. CASE Linux!UninstallDisable
      BY <1>7 DEF Linux!UninstallDisable, Linux!Warn
<1>8. CASE Linux!UninstallRemove
      BY <1>8 DEF Linux!UninstallRemove, Linux!Fail
<1>9. CASE Linux!UninstallReload
      BY <1>9 DEF Linux!UninstallReload, Linux!Warn
<1>10. CASE Linux!Start
       BY <1>10 DEF Linux!Start
<1>11. CASE UNCHANGED Linux!vars
       BY <1>11 DEF Linux!vars, Linux!commandVars, Linux!system
<1>12. QED
       BY <1>1, <1>2, <1>3, <1>4, <1>5, <1>6, <1>7, <1>8, <1>9, <1>10, <1>11
       DEF Linux!Next

-----------------------------------------------------------------------------
(* Windows                                                                 *)

\* The settings and the order in which svc_os_install makes them.
LEMMA FourSettings ==
    /\ Len(Windows!Settings) = 4
    /\ Windows!Settings[1] = "description"
    /\ Windows!Settings[2] = "preshutdown"
    /\ Windows!Settings[3] = "restart"
    /\ Windows!Settings[4] = "restart_on_error"
BY DEF Windows!Settings

\* As a set, they are the four that Linux!Installed asks for.
LEMMA AllSettings ==
    {Windows!Settings[n] : n \in 1..Len(Windows!Settings)} =
        {"description", "preshutdown", "restart", "restart_on_error"}
<1>1. 1..4 = {1, 2, 3, 4}
      OBVIOUS
<1>2. QED
      BY <1>1, FourSettings

\* Configuring one setting after the other leaves none out without a failure.
LEMMA ConfigureStep ==
    ASSUME WindowsInv,
           NEW n \in 1..Len(Windows!Settings), Windows!InstallConfigure(n)
    PROVE  WindowsInv'
<1> USE DEF WindowsInv, WindowsSteps, WindowsConfigures, WindowsInstalls,
            WindowsUninstalls, WindowsMeets, Windows!InstallSound,
            Windows!Installed, Windows!Finished, Windows!Disturbed, Windows!Goto,
            Windows!Return, Windows!history, Windows!InstallConfigure, Windows!GoOn, Windows!Warn
<1>1. n \in {1, 2, 3, 4}
      BY FourSettings
<1>2. CASE n = 1
      BY <1>2, FourSettings, AllSettings
<1>3. CASE n = 2
      BY <1>3, FourSettings, AllSettings
<1>4. CASE n = 3
      BY <1>4, FourSettings, AllSettings
<1>5. CASE n = 4
      BY <1>5, FourSettings, AllSettings
<1>6. QED
      BY <1>1, <1>2, <1>3, <1>4, <1>5

\* Every step of the commands and of the SCM keeps what WindowsInv says.
LEMMA WindowsStep ==
    ASSUME WindowsInv, [Windows!Next]_(Windows!vars)
    PROVE  WindowsInv'
<1> USE DEF WindowsInv, WindowsSteps, WindowsConfigures, WindowsInstalls,
            WindowsUninstalls, WindowsMeets, Windows!InstallSound,
            Windows!Installed, Windows!Finished, Windows!Disturbed, Windows!Goto,
            Windows!Return, Windows!history
<1>1. CASE Windows!OnlyCommand /\ UNCHANGED <<service, settings, process>>
  <2>1. ASSUME NEW c \in {"install", "uninstall"}, Windows!Give(c), found' = "none",
               cleared' = (command = "uninstall" /\ upsets = {})
        PROVE  WindowsInv'
        BY <1>1, <2>1 DEF Windows!Give
  <2>2. CASE Windows!ensure_elevated_for_operation("create", "open") /\ UNCHANGED Windows!history
        BY <1>1, <2>2 DEF Windows!ensure_elevated_for_operation, Windows!Fail
  <2>3. CASE Windows!Kill /\ UNCHANGED Windows!history
        BY <1>1, <2>3 DEF Windows!Kill
  <2>4. CASE Windows!AllGiven /\ UNCHANGED Windows!history
        BY <1>1, <2>4 DEF Windows!AllGiven, Windows!commandVars
  <2>5. QED
        BY <1>1, <2>1, <2>2, <2>3, <2>4 DEF Windows!OnlyCommand
<1>2. CASE Windows!InstallCreate
      BY <1>2, FourSettings DEF Windows!InstallCreate, Windows!Fail
<1>3. ASSUME NEW n \in 1..Len(Windows!Settings), Windows!InstallConfigure(n)
      PROVE  WindowsInv'
      BY <1>3, ConfigureStep
<1>4. CASE Windows!UninstallOpen
      BY <1>4 DEF Windows!UninstallOpen, Windows!Fail, Windows!scm
<1>5. CASE Windows!UninstallStop
      BY <1>5 DEF Windows!UninstallStop, Windows!Warn
<1>6. CASE Windows!UninstallDelete
      BY <1>6 DEF Windows!UninstallDelete, Windows!Fail
<1>7. CASE Windows!Remove
      BY <1>7 DEF Windows!Remove, Windows!HandleOpen, Windows!commandVars
<1>8. CASE Windows!StartService
      BY <1>8 DEF Windows!StartService
<1>9. CASE Windows!Stopped
      BY <1>9 DEF Windows!Stopped, Windows!commandVars
<1>10. CASE UNCHANGED Windows!vars
       BY <1>10 DEF Windows!vars, Windows!commandVars, Windows!scm
<1>11. QED
       BY <1>1, <1>2, <1>3, <1>4, <1>5, <1>6, <1>7, <1>8, <1>9, <1>10
       DEF Windows!Next

-----------------------------------------------------------------------------
(* Both                                                                    *)

\* The inductive invariant holds of the specification.
LEMMA InductiveInvariant == SpecOnEither => []RegistrationInv
<1>1. InitOnEither => RegistrationInv
      BY DEF InitOnEither, RegistrationInv, Linux!Init, Windows!Init,
             Linux!NoCommand, Windows!NoCommand, LinuxInv, LinuxTypes,
             LinuxSteps, LinuxInstalls, LinuxUninstalls,
             WindowsInv, WindowsSteps, WindowsConfigures, WindowsInstalls,
             WindowsUninstalls, WindowsMeets
<1>2. RegistrationInv /\ [NextOnEither]_all => RegistrationInv'
  <2> SUFFICES ASSUME RegistrationInv, [NextOnEither]_all
               PROVE  RegistrationInv'
      OBVIOUS
  <2>1. CASE platform = "Linux" /\ Linux!Next /\ UNCHANGED <<platform, scm>>
        BY <2>1, LinuxStep DEF RegistrationInv
  <2>2. CASE platform = "Windows" /\ Windows!Next /\ UNCHANGED <<platform, system>>
        BY <2>2, WindowsStep DEF RegistrationInv
  <2>3. CASE UNCHANGED all
        BY <2>3, LinuxStep, WindowsStep
        DEF RegistrationInv, all, system, scm, Linux!vars,
            Linux!commandVars, Linux!system,
            Windows!vars, Windows!commandVars, Windows!scm, Windows!history
  <2>4. QED
        BY <2>1, <2>2, <2>3 DEF NextOnEither
<1>3. QED
      BY <1>1, <1>2, PTL DEF SpecOnEither

\* svc_os_install returns 0 only if the service is registered, whatever
\* earlier commands have left behind, on both systems.
THEOREM InstallSoundHolds == SpecOnEither => []InstallSoundOnBoth
<1>1. RegistrationInv => InstallSoundOnBoth
      BY DEF RegistrationInv, LinuxInv, LinuxInstalls, WindowsInv, WindowsInstalls,
             InstallSoundOnBoth, Linux!InstallSound, Windows!InstallSound,
             Linux!Finished,
             Windows!Finished
<1>2. QED
      BY <1>1, InductiveInvariant, PTL

\* What failed or killed commands have left is repaired by commands that nothing
\* disturbs: on Linux by the next one alone, whichever it is; on Windows by
\* uninstall and then install, which refuses what it meets.
THEOREM RepeatRepairsHolds == SpecOnEither => []RepeatRepairsOnBoth
<1>1. ASSUME LinuxInv PROVE Linux!RepeatRepairs
      BY <1>1 DEF LinuxInv, LinuxInstalls, LinuxUninstalls, Linux!RepeatRepairs,
             Linux!InstallSound, Linux!Finished
<1>2. ASSUME WindowsInv PROVE Windows!RepeatRepairs
      BY <1>2 DEF WindowsInv, WindowsInstalls, WindowsUninstalls, WindowsMeets,
             Windows!RepeatRepairs, Windows!InstallSound, Windows!Finished
<1>3. RegistrationInv => RepeatRepairsOnBoth
      BY <1>1, <1>2 DEF RegistrationInv, RepeatRepairsOnBoth
<1>4. QED
      BY <1>3, InductiveInvariant, PTL
-----------------------------------------------------------------------------
(* StopSignal                                                              *)

\* The mutex works: a thread in a critical section is its holder.
LockInv == \A t \in Threads : InCritical(t) => holder = t

\* Main is on the wait set only while it is blocked in cplat_condvar_wait.
WaitersInv == Main \in waiters => pc[Main] = "blocked"

\* Each handle is live from the end of their creation to the teardown.
LiveInv ==
    /\ pc[Main] \notin {"boot"} \cup Teardown => s_stop_lock = "live"
    /\ pc[Main] \notin {"boot", "condvar"} \cup Teardown => s_stop_cv = "live"

\* Between the test of the flag and the wait, the flag cannot be set: that
\* takes the mutex, which main holds.
BlockInv == pc[Main] = "wait_block" => ~s_stop_requested

\* The condition variable exists only once the loop has been entered, so a
\* request is accepted only then; main leaves the loop on a request only.
PhaseInv ==
    /\ pc[Main] \in {"boot", "condvar"} => s_stop_cv = "null" /\ ~s_stop_requested
    /\ pc[Main] \in {"boot", "condvar"} =>
           \A t \in Callers : pc[t] \notin {"req_lock", "req_set", "req_unlock",
                                            "req_broadcast"}
    /\ pc[Main] \in Teardown \ {"exit"} => s_stop_requested
    /\ pc[Main] = "wait_unlock" /\ result => s_stop_requested

\* The inductive invariant behind NoLostWakeup and the refinement.
IInv ==
    /\ TypeOK
    /\ LockInv
    /\ WaitersInv
    /\ LiveInv
    /\ BlockInv
    /\ NoLostWakeup
    /\ PhaseInv

USE ThreadAssumption DEF ThreadAssumption

\* The initial state is well typed.
LEMMA InitTypeOK == Init => TypeOK
<1> SUFFICES ASSUME Init PROVE TypeOK
  OBVIOUS
<1> USE DEF Init
<1>1. pc \in [Threads -> MainPC \cup CallerPC]
  BY DEF MainPC, CallerPC
<1>2. pc[Main] \in MainPC /\ \A t \in Callers : pc[t] \in CallerPC
  BY DEF MainPC, CallerPC, Threads
<1>3. calls \in [Callers -> 0..MaxCalls]
  OBVIOUS
<1>4. QED
  BY <1>1, <1>2, <1>3 DEF TypeOK, Threads

\* Every step keeps the state well typed.
LEMMA NextTypeOK == TypeOK /\ [Next]_vars => TypeOK'
<1> SUFFICES ASSUME TypeOK, [Next]_vars PROVE TypeOK'
  OBVIOUS
<1> USE DEF TypeOK, Threads, MainPC, CallerPC, Goto, handles
<1>1. ASSUME MainStep PROVE TypeOK'
  BY <1>1 DEF MainStep, CreateLock, CreateCondvar, CallWait, WaitLock,
     WaitTest, WaitBlock, WaitWoken, WaitReturn, DisposeCondvar,
     NullCondvar, DisposeLock, NullLock
<1>2. ASSUME WaitTimeout PROVE TypeOK'
  BY <1>2 DEF WaitTimeout
<1>3. ASSUME NEW t \in Callers, RequestStop(t) \/ StopRequested(t)
      PROVE TypeOK'
  BY <1>3 DEF RequestStop, StopRequested, MayCall
<1>4. ASSUME NEW t \in Callers, Misuse(t) PROVE TypeOK'
  BY <1>4 DEF Misuse
<1>5. ASSUME NEW t \in Callers, CallerLock(t) PROVE TypeOK'
  BY <1>4, <1>5 DEF CallerLock
<1>6. ASSUME NEW t \in Callers, RequestSet(t) PROVE TypeOK'
  BY <1>6 DEF RequestSet
<1>7. ASSUME NEW t \in Callers, CallerUnlock(t) PROVE TypeOK'
  BY <1>4, <1>7 DEF CallerUnlock
<1>8. ASSUME NEW t \in Callers, RequestBroadcast(t) PROVE TypeOK'
  BY <1>4, <1>8 DEF RequestBroadcast
<1>9. ASSUME UNCHANGED vars PROVE TypeOK'
  BY <1>9 DEF vars
<1>10. QED
  BY <1>1, <1>2, <1>3, <1>5, <1>6, <1>7, <1>8, <1>9
     DEF Next, Exited, CallerStep

\* The type invariant holds in every reachable state, for any set of callers.
THEOREM TypeCorrect == Spec => []TypeOK
  BY InitTypeOK, NextTypeOK, PTL DEF Spec

\* Init establishes the inductive invariant.
LEMMA InitIInv == Init => IInv
<1> SUFFICES ASSUME Init PROVE IInv
  OBVIOUS
<1>1. pc[Main] = "boot" /\ \A t \in Callers : pc[t] = "idle"
  BY DEF Init, Threads
<1>2. QED
  BY <1>1, InitTypeOK DEF Init, IInv, LockInv, WaitersInv, LiveInv, BlockInv,
     NoLostWakeup, PhaseInv, InCritical, Threads, Teardown

\* A step of the main thread preserves the inductive invariant.
LEMMA MainStepIInv == IInv /\ (MainStep \/ WaitTimeout) /\ TypeOK' => IInv'
<1> SUFFICES ASSUME IInv, MainStep \/ WaitTimeout, TypeOK' PROVE IInv'
  OBVIOUS
<1> DEFINE Others == \A t \in Callers : pc'[t] = pc[t]
<1> USE DEF IInv, TypeOK, Goto, handles, Threads
<1>0. Others /\ UNCHANGED misuse
  BY DEF MainStep, CreateLock, CreateCondvar, CallWait, WaitLock, WaitTest,
     WaitBlock, WaitWoken, WaitReturn, DisposeCondvar, NullCondvar,
     DisposeLock, NullLock, WaitTimeout
<1> HIDE DEF Others
<1> USE DEF LockInv, WaitersInv, LiveInv, BlockInv, NoLostWakeup, PhaseInv,
        InCritical, Teardown, MainPC, CallerPC
<1>1. ASSUME CreateLock PROVE IInv'
  BY <1>0, <1>1 DEF CreateLock, Others
<1>9. ASSUME CreateCondvar PROVE IInv'
  BY <1>0, <1>9 DEF CreateCondvar, Others
<1>2. ASSUME CallWait PROVE IInv'
  BY <1>0, <1>2 DEF CallWait, Others
<1>3. ASSUME WaitLock PROVE IInv'
  BY <1>0, <1>3 DEF WaitLock, Others
<1>4. ASSUME WaitTest PROVE IInv'
  BY <1>0, <1>4 DEF WaitTest, Others
<1>5. ASSUME WaitBlock PROVE IInv'
  BY <1>0, <1>5 DEF WaitBlock, Others
<1>6. ASSUME WaitWoken \/ WaitTimeout PROVE IInv'
  BY <1>0, <1>6 DEF WaitWoken, WaitTimeout, Others
<1>7. ASSUME WaitReturn PROVE IInv'
  BY <1>0, <1>7 DEF WaitReturn, Others
<1>8. ASSUME DisposeCondvar \/ NullCondvar \/ DisposeLock \/ NullLock
      PROVE IInv'
  BY <1>0, <1>8 DEF DisposeCondvar, NullCondvar, DisposeLock, NullLock, Others
<1>10. QED
  BY <1>1, <1>9, <1>2, <1>3, <1>4, <1>5, <1>6, <1>7, <1>8 DEF MainStep

\* A step of a calling thread preserves the inductive invariant.
LEMMA CallerStepIInv ==
    ASSUME NEW t \in Callers, IInv, TypeOK',
           RequestStop(t) \/ StopRequested(t) \/ CallerStep(t)
    PROVE  IInv'
<1> DEFINE Others == \A u \in Threads \ {t} : pc'[u] = pc[u]
<1> USE DEF IInv, TypeOK, Goto, handles, Threads
<1>0. Others
  BY DEF RequestStop, StopRequested, MayCall, CallerStep, CallerLock,
     RequestSet, CallerUnlock, RequestBroadcast, Misuse
<1> HIDE DEF Others
<1> USE DEF LockInv, WaitersInv, LiveInv, BlockInv, NoLostWakeup, PhaseInv,
        InCritical, Teardown, MainPC, CallerPC
<1>1. ASSUME RequestStop(t) \/ StopRequested(t) PROVE IInv'
  BY <1>0, <1>1 DEF RequestStop, StopRequested, MayCall, Others
<1>2. ASSUME CallerLock(t) PROVE IInv'
  BY <1>0, <1>2 DEF CallerLock, Misuse, Others
<1>3. ASSUME RequestSet(t) PROVE IInv'
  BY <1>0, <1>3 DEF RequestSet, Others
<1>4. ASSUME CallerUnlock(t) PROVE IInv'
  BY <1>0, <1>4 DEF CallerUnlock, Misuse, Others
<1>5. ASSUME RequestBroadcast(t) PROVE IInv'
  BY <1>0, <1>5 DEF RequestBroadcast, Misuse, Others
<1>6. QED
  BY <1>1, <1>2, <1>3, <1>4, <1>5 DEF CallerStep

\* Every step preserves the inductive invariant.
LEMMA NextIInv == IInv /\ [Next]_vars => IInv'
<1> SUFFICES ASSUME IInv, [Next]_vars PROVE IInv'
  OBVIOUS
<1>1. TypeOK'
  BY NextTypeOK DEF IInv
<1>2. ASSUME MainStep \/ WaitTimeout PROVE IInv'
  BY <1>1, <1>2, MainStepIInv
<1>3. ASSUME NEW t \in Callers,
             RequestStop(t) \/ StopRequested(t) \/ CallerStep(t)
      PROVE IInv'
  BY <1>1, <1>3, CallerStepIInv
<1>4. ASSUME UNCHANGED vars PROVE IInv'
  BY <1>1, <1>4 DEF vars, IInv, LockInv, WaitersInv, LiveInv, BlockInv,
     NoLostWakeup, PhaseInv, InCritical
<1>5. QED
  BY <1>2, <1>3, <1>4 DEF Next, Exited

\* The inductive invariant holds in every reachable state.
LEMMA IInvHolds == Spec => []IInv
  BY InitIInv, NextIInv, PTL DEF Spec

\* svc_request_stop never loses a wakeup of svc_wait_for_stop, however many
\* threads call it however often.
THEOREM NoLostWakeupHolds == Spec => []NoLostWakeup
<1>1. IInv => NoLostWakeup
  BY DEF IInv
<1>2. QED
  BY <1>1, IInvHolds, PTL

\* The flag, the mutex and the condition variable implement the stop latch,
\* as far as safety goes: on_run is left on a request only, no request is
\* withdrawn, and a process whose latch cannot be built never enters on_run.
THEOREM ImplementsLatch == Spec => LatchSafeSpec
<1> USE DEF IInv, TypeOK, Goto, handles, Threads, MainPC, CallerPC, Teardown,
        LoopPhase
<1>1. Init => Latch!Init
  BY InitIInv DEF Init, Latch!Init
<1>2. IInv /\ [Next]_vars => [Latch!Next]_(Latch!latchVars)
  <2> SUFFICES ASSUME IInv, [Next]_vars
               PROVE  [Latch!Next]_(Latch!latchVars)
    OBVIOUS
  <2> USE DEF Latch!Next, Latch!latchVars, PhaseInv
  <2>1. ASSUME CreateLock \/ CreateCondvar
        PROVE  [Latch!Next]_(Latch!latchVars)
    BY <2>1 DEF CreateLock, CreateCondvar, Latch!Enter, Latch!Abort
  <2>2. ASSUME CallWait \/ WaitLock \/ WaitTest \/ WaitBlock \/ WaitWoken
               \/ WaitTimeout
        PROVE  UNCHANGED Latch!latchVars
    BY <2>2 DEF CallWait, WaitLock, WaitTest, WaitBlock, WaitWoken, WaitTimeout
  <2>3. ASSUME WaitReturn PROVE [Latch!Next]_(Latch!latchVars)
    BY <2>3 DEF WaitReturn, Latch!Leave
  <2>4. ASSUME DisposeCondvar \/ NullCondvar \/ DisposeLock \/ NullLock
        PROVE  UNCHANGED Latch!latchVars
    BY <2>4 DEF DisposeCondvar, NullCondvar, DisposeLock, NullLock
  <2>5. ASSUME NEW t \in Callers, RequestSet(t)
        PROVE  [Latch!Next]_(Latch!latchVars)
    <3>1. pc'[Main] = pc[Main] /\ s_stop_requested'
      BY <2>5 DEF RequestSet
    <3>2. pc[Main] \notin {"boot", "condvar", "exit"}
      BY <2>5 DEF RequestSet
    <3>3. QED
      BY <3>1, <3>2 DEF Latch!Request
  <2>6. ASSUME NEW t \in Callers,
               RequestStop(t) \/ StopRequested(t) \/ CallerLock(t)
               \/ CallerUnlock(t) \/ RequestBroadcast(t)
        PROVE  UNCHANGED Latch!latchVars
    <3>1. pc'[Main] = pc[Main] /\ UNCHANGED s_stop_requested
      BY <2>6 DEF RequestStop, StopRequested, MayCall, CallerLock,
         CallerUnlock, RequestBroadcast, Misuse
    <3>2. QED
      BY <3>1
  <2>7. ASSUME UNCHANGED vars PROVE UNCHANGED Latch!latchVars
    BY <2>7 DEF vars
  <2>8. QED
    BY <2>1, <2>2, <2>3, <2>4, <2>5, <2>6, <2>7
       DEF Next, MainStep, CallerStep, Exited
<1>3. QED
  BY <1>1, <1>2, IInvHolds, PTL DEF Spec, LatchSafeSpec, Latch!SafeSpec
=============================================================================
