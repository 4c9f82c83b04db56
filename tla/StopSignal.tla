----------------------------- MODULE StopSignal -----------------------------
(***************************************************************************)
(* The stop abstraction of service-sample.c: the flag s_stop_requested,    *)
(* the mutex s_stop_lock and the condition variable s_stop_cv, with the    *)
(* main thread that builds them (main), polls them from on_run             *)
(* (svc_wait_for_stop) and disposes of them, and any number of other       *)
(* threads (the cplat shutdown callback, the SCM handler) that call        *)
(* svc_request_stop and svc_stop_requested.                                *)
(*                                                                         *)
(* Every pointer test, lock, unlock, wait and broadcast is a step of its   *)
(* own.  cplat_local_lock and cplat_condvar are external: a mutex with one *)
(* holder, and a wait that returns after a broadcast, a timeout or         *)
(* spuriously.                                                             *)
(***************************************************************************)
EXTENDS Naturals

CONSTANTS
    Main,         \* the thread of main() and on_run
    Callers,      \* the other threads that use the stop API
    NoThread,     \* the mutex has no holder
    MaxCalls      \* bound on the calls each caller makes

ASSUME ThreadAssumption ==
    /\ Main \notin Callers
    /\ NoThread \notin Callers \cup {Main}
    /\ MaxCalls \in Nat

Threads == Callers \cup {Main}

VARIABLES
    s_stop_requested,  \* the flag
    s_stop_lock,       \* "null", "live", or "dangling": disposed, not yet NULL
    s_stop_cv,         \* likewise
    holder,            \* the thread that holds the mutex, or NoThread
    waiters,           \* the threads blocked in cplat_condvar_wait
    pc,                \* where each thread is
    result,            \* what svc_wait_for_stop is about to return
    calls,             \* API calls each caller has begun
    misuse             \* a thread used a handle that is no longer live

vars == <<s_stop_requested, s_stop_lock, s_stop_cv, holder, waiters, pc,
          result, calls, misuse>>

handles == <<s_stop_lock, s_stop_cv>>

MainPC == {"boot", "condvar", "work", "wait_lock", "wait_test", "wait_block",
           "blocked", "wait_relock", "wait_unlock", "dispose_cv", "null_cv",
           "dispose_lock", "null_lock", "exit"}

CallerPC == {"idle", "req_lock", "req_set", "req_unlock", "req_broadcast",
             "poll_lock", "poll_unlock", "undefined"}

\* main() is past the command: it is disposing of the stop abstraction.
Teardown == {"dispose_cv", "null_cv", "dispose_lock", "null_lock", "exit"}

\* Thread t holds the mutex between cplat_local_lock_lock and _unlock.
InCritical(t) == pc[t] \in {"wait_test", "wait_block", "wait_unlock",
                            "req_set", "req_unlock", "poll_unlock"}

Goto(t, label) == pc' = [pc EXCEPT ![t] = label]

-----------------------------------------------------------------------------
(* main(): building and disposing of the latch                             *)

\* cplat_local_lock_create; on failure main returns EXIT_FAILURE.
CreateLock ==
    /\ pc[Main] = "boot"
    /\ \/ /\ s_stop_lock' = "live"
          /\ Goto(Main, "condvar")
       \/ /\ UNCHANGED s_stop_lock
          /\ Goto(Main, "exit")
    /\ UNCHANGED <<s_stop_requested, s_stop_cv, holder, waiters, result,
                   calls, misuse>>

\* cplat_condvar_create; on failure the mutex is disposed of and set to NULL.
CreateCondvar ==
    /\ pc[Main] = "condvar"
    /\ \/ /\ s_stop_cv' = "live"
          /\ Goto(Main, "work")
          /\ UNCHANGED s_stop_lock
       \/ /\ s_stop_lock' = "null"
          /\ Goto(Main, "exit")
          /\ UNCHANGED s_stop_cv
    /\ UNCHANGED <<s_stop_requested, holder, waiters, result, calls, misuse>>

DisposeCondvar ==
    /\ pc[Main] = "dispose_cv"
    /\ s_stop_cv' = "dangling"
    /\ Goto(Main, "null_cv")
    /\ UNCHANGED <<s_stop_requested, s_stop_lock, holder, waiters, result,
                   calls, misuse>>

NullCondvar ==
    /\ pc[Main] = "null_cv"
    /\ s_stop_cv' = "null"
    /\ Goto(Main, "dispose_lock")
    /\ UNCHANGED <<s_stop_requested, s_stop_lock, holder, waiters, result,
                   calls, misuse>>

DisposeLock ==
    /\ pc[Main] = "dispose_lock"
    /\ s_stop_lock' = "dangling"
    /\ Goto(Main, "null_lock")
    /\ UNCHANGED <<s_stop_requested, s_stop_cv, holder, waiters, result,
                   calls, misuse>>

NullLock ==
    /\ pc[Main] = "null_lock"
    /\ s_stop_lock' = "null"
    /\ Goto(Main, "exit")
    /\ UNCHANGED <<s_stop_requested, s_stop_cv, holder, waiters, result,
                   calls, misuse>>

-----------------------------------------------------------------------------
(* on_run and svc_wait_for_stop                                            *)

\* One period of on_run, then svc_wait_for_stop finds both handles non-NULL.
CallWait ==
    /\ pc[Main] = "work"
    /\ s_stop_lock # "null" /\ s_stop_cv # "null"
    /\ Goto(Main, "wait_lock")
    /\ UNCHANGED <<s_stop_requested, handles, holder, waiters, result, calls,
                   misuse>>

WaitLock ==
    /\ pc[Main] \in {"wait_lock", "wait_relock"}
    /\ holder = NoThread
    /\ holder' = Main
    /\ \/ /\ pc[Main] = "wait_lock"
          /\ Goto(Main, "wait_test")
          /\ UNCHANGED result
       \/ /\ pc[Main] = "wait_relock"
          /\ result' = s_stop_requested
          /\ Goto(Main, "wait_unlock")
    /\ UNCHANGED <<s_stop_requested, handles, waiters, calls, misuse>>

\* The test of the flag, under the mutex: set, it is read for the result;
\* clear, main goes on to wait.
WaitTest ==
    /\ pc[Main] = "wait_test"
    /\ \/ /\ ~s_stop_requested
          /\ Goto(Main, "wait_block")
          /\ UNCHANGED result
       \/ /\ s_stop_requested
          /\ result' = s_stop_requested
          /\ Goto(Main, "wait_unlock")
    /\ UNCHANGED <<s_stop_requested, handles, holder, waiters, calls, misuse>>

\* cplat_condvar_wait releases the mutex and blocks in one step.
WaitBlock ==
    /\ pc[Main] = "wait_block"
    /\ holder' = NoThread
    /\ waiters' = waiters \cup {Main}
    /\ Goto(Main, "blocked")
    /\ UNCHANGED <<s_stop_requested, handles, result, calls, misuse>>

\* The broadcast has taken main off the wait set.
WaitWoken ==
    /\ pc[Main] = "blocked"
    /\ Main \notin waiters
    /\ Goto(Main, "wait_relock")
    /\ UNCHANGED <<s_stop_requested, handles, holder, waiters, result, calls,
                   misuse>>

\* timeout_ms has elapsed, or the wakeup is spurious.
WaitTimeout ==
    /\ pc[Main] = "blocked"
    /\ waiters' = waiters \ {Main}
    /\ Goto(Main, "wait_relock")
    /\ UNCHANGED <<s_stop_requested, handles, holder, result, calls, misuse>>

\* A plausible bug: any return from the wait is taken for a stop request.
WaitReturn_AlwaysStop ==
    /\ pc[Main] = "wait_unlock"
    /\ holder' = NoThread
    /\ Goto(Main, "dispose_cv")
    /\ UNCHANGED <<s_stop_requested, handles, waiters, result, calls, misuse>>

\* Unlock and return: 0 continues the loop of on_run, 1 leaves it.
WaitReturn ==
    /\ pc[Main] = "wait_unlock"
    /\ holder' = NoThread
    /\ Goto(Main, IF result THEN "dispose_cv" ELSE "work")
    /\ UNCHANGED <<s_stop_requested, handles, waiters, result, calls, misuse>>

-----------------------------------------------------------------------------
(* svc_request_stop and svc_stop_requested, called by thread t             *)

\* A call may begin as long as the process exists: nothing unregisters the
\* shutdown callback, so calls may begin and go on while main tears down.
MayCall(t) ==
    /\ pc[t] = "idle"
    /\ calls[t] < MaxCalls
    /\ pc[Main] # "exit"
    /\ calls' = [calls EXCEPT ![t] = @ + 1]

\* The NULL tests of svc_request_stop: with either handle NULL it returns.
RequestStop(t) ==
    /\ MayCall(t)
    /\ Goto(t, IF s_stop_lock = "null" \/ s_stop_cv = "null"
               THEN "idle" ELSE "req_lock")
    /\ UNCHANGED <<s_stop_requested, handles, holder, waiters, result, misuse>>

\* The NULL test of svc_stop_requested, which looks at the mutex only.
StopRequested(t) ==
    /\ MayCall(t)
    /\ Goto(t, IF s_stop_lock = "null" THEN "idle" ELSE "poll_lock")
    /\ UNCHANGED <<s_stop_requested, handles, holder, waiters, result, misuse>>

\* A call on a handle that has been disposed of has no defined outcome.
Misuse(t) ==
    /\ misuse' = TRUE
    /\ Goto(t, "undefined")
    /\ UNCHANGED <<s_stop_requested, handles, holder, waiters, result, calls>>

\* A plausible bug: svc_request_stop sets the flag without taking the mutex.
CallerLock_Unlocked(t) ==
    /\ pc[t] \in {"req_lock", "poll_lock"}
    /\ pc[Main] # "exit"
    /\ s_stop_lock = "live"
    /\ Goto(t, IF pc[t] = "req_lock" THEN "req_set" ELSE "poll_unlock")
    /\ UNCHANGED <<s_stop_requested, handles, holder, waiters, result, calls,
                   misuse>>

CallerLock(t) ==
    /\ pc[t] \in {"req_lock", "poll_lock"}
    /\ pc[Main] # "exit"
    /\ \/ /\ s_stop_lock # "live"
          /\ Misuse(t)
       \/ /\ s_stop_lock = "live"
          /\ holder = NoThread
          /\ holder' = t
          /\ Goto(t, IF pc[t] = "req_lock" THEN "req_set" ELSE "poll_unlock")
          /\ UNCHANGED <<s_stop_requested, handles, waiters, result, calls,
                         misuse>>

RequestSet(t) ==
    /\ pc[t] = "req_set"
    /\ pc[Main] # "exit"
    /\ s_stop_requested' = TRUE
    /\ Goto(t, "req_unlock")
    /\ UNCHANGED <<handles, holder, waiters, result, calls, misuse>>

\* A plausible bug: the unlock is the last thing svc_request_stop does.
CallerUnlock_NoBroadcast(t) ==
    /\ pc[t] \in {"req_unlock", "poll_unlock"}
    /\ pc[Main] # "exit"
    /\ s_stop_lock = "live"
    /\ holder' = NoThread
    /\ Goto(t, "idle")
    /\ UNCHANGED <<s_stop_requested, handles, waiters, result, calls, misuse>>

CallerUnlock(t) ==
    /\ pc[t] \in {"req_unlock", "poll_unlock"}
    /\ pc[Main] # "exit"
    /\ \/ /\ s_stop_lock # "live"
          /\ Misuse(t)
       \/ /\ s_stop_lock = "live"
          /\ holder' = NoThread
          /\ Goto(t, IF pc[t] = "req_unlock" THEN "req_broadcast" ELSE "idle")
          /\ UNCHANGED <<s_stop_requested, handles, waiters, result, calls,
                         misuse>>

\* The broadcast follows the unlock.
RequestBroadcast(t) ==
    /\ pc[t] = "req_broadcast"
    /\ pc[Main] # "exit"
    /\ \/ /\ s_stop_cv # "live"
          /\ Misuse(t)
       \/ /\ s_stop_cv = "live"
          /\ waiters' = {}
          /\ Goto(t, "idle")
          /\ UNCHANGED <<s_stop_requested, handles, holder, result, calls,
                         misuse>>

-----------------------------------------------------------------------------
Init ==
    /\ s_stop_requested = FALSE
    /\ s_stop_lock = "null"
    /\ s_stop_cv = "null"
    /\ holder = NoThread
    /\ waiters = {}
    /\ pc = [t \in Threads |-> IF t = Main THEN "boot" ELSE "idle"]
    /\ result = FALSE
    /\ calls = [t \in Callers |-> 0]
    /\ misuse = FALSE

\* What the main thread does without waiting for a timeout.
MainStep ==
    \/ CreateLock \/ CreateCondvar
    \/ CallWait \/ WaitLock \/ WaitTest \/ WaitBlock \/ WaitWoken \/ WaitReturn
    \/ DisposeCondvar \/ NullCondvar \/ DisposeLock \/ NullLock

\* The rest of a call that has begun.
CallerStep(t) ==
    CallerLock(t) \/ RequestSet(t) \/ CallerUnlock(t) \/ RequestBroadcast(t)

\* The process is gone.
Exited ==
    /\ pc[Main] = "exit"
    /\ UNCHANGED vars

Next ==
    \/ MainStep
    \/ WaitTimeout
    \/ \E t \in Callers : RequestStop(t) \/ StopRequested(t) \/ CallerStep(t)
    \/ Exited

Spec == Init /\ [][Next]_vars

\* Every thread is scheduled; no timeout is assumed ever to fire.
Fairness ==
    /\ WF_vars(MainStep)
    /\ \A t \in Callers : WF_vars(CallerStep(t))

FairSpec == Spec /\ Fairness

-----------------------------------------------------------------------------
(* Properties                                                              *)

\* Every variable keeps the shape of the C object it stands for; only the
\* main thread ever blocks on the condition variable.
TypeOK ==
    /\ s_stop_requested \in BOOLEAN
    /\ s_stop_lock \in {"null", "live", "dangling"}
    /\ s_stop_cv \in {"null", "live", "dangling"}
    /\ holder \in Threads \cup {NoThread}
    /\ waiters \subseteq {Main}
    /\ pc \in [Threads -> MainPC \cup CallerPC]
    /\ pc[Main] \in MainPC
    /\ \A t \in Callers : pc[t] \in CallerPC
    /\ result \in BOOLEAN
    /\ calls \in [Callers -> 0..MaxCalls]
    /\ misuse \in BOOLEAN

\* No lost wakeup: when the flag is set and main is still asleep in
\* svc_wait_for_stop, some svc_request_stop is yet to broadcast.
NoLostWakeup ==
    s_stop_requested /\ Main \in waiters =>
        \E t \in Callers : pc[t] \in {"req_unlock", "req_broadcast"}

\* svc_request_stop is documented as thread safe and safe to call any number
\* of times: no call ever uses the mutex or the condition variable after
\* main has disposed of it.
HandlesStayValid == ~misuse

\* A stop request gets main out of on_run, without the help of a timeout.
StopNoticed == s_stop_requested ~> (pc[Main] \in Teardown)

\* Where the main loop is, as StopLatch tells it apart.
LoopPhase ==
    CASE pc[Main] \in {"boot", "condvar"} -> "absent"
      [] pc[Main] = "exit" /\ ~s_stop_requested -> "aborted"
      [] pc[Main] \in Teardown /\ s_stop_requested -> "left"
      [] OTHER -> "running"

Latch == INSTANCE StopLatch WITH requested <- s_stop_requested, loop <- LoopPhase

\* Mutex, condition variable and flag implement the stop latch: on_run is
\* left only after a request, and is left after every request.
LatchSpec == Latch!Spec

\* Its safety part, which is proved for any set of callers.
LatchSafeSpec == Latch!SafeSpec

=============================================================================
