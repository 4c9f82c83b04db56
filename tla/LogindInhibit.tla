---------------------------- MODULE LogindInhibit ----------------------------
(***************************************************************************)
(* The D-Bus side of the monitoring thread of service-sample on Linux:     *)
(* setup_bus_monitoring subscribes to the signals of systemd-logind and    *)
(* takes two delay inhibitor locks; on_prepare_for_sleep and               *)
(* on_prepare_for_shutdown deliver the event to on_event, then release or  *)
(* take the lock.  logind sleeps or shuts down once nobody holds the lock  *)
(* of that kind, or when its delay limit has passed.                       *)
(*                                                                         *)
(* Signals wait in the receive queue of the bus connection while the       *)
(* thread is in a callback or a call.  logind and sd-bus are external.     *)
(***************************************************************************)
EXTENDS Naturals, Sequences

CONSTANTS
    Faults,        \* D-Bus and sd_event calls may fail
    Timeouts,      \* InhibitDelayMaxSec may pass before the lock is released
    MaxOperations, \* bound on sleeps and shutdowns
    MaxSessions    \* bound on SessionNew and SessionRemoved signals

ASSUME InhibitAssumption ==
    /\ {Faults, Timeouts} \subseteq BOOLEAN
    /\ MaxOperations \in Nat /\ MaxSessions \in Nat

Kinds == {"sleep", "shutdown"}

VARIABLES
    monitor,     \* where the monitoring thread is
    subscribed,  \* signals the bus delivers to the thread
    queue,       \* signals received and not yet dispatched
    signal,      \* the signal being handled
    held,        \* held[k]: s_ctx.inhibit_<k>_fd >= 0
    locks,       \* locks[k]: lock descriptors of kind k the process has open
    action,      \* logind's operation: "none" or a kind
    phase,       \* "idle", "preparing", "executing", "resuming"
    operations,  \* number of the last operation
    sessions,    \* session signals sent
    expected,    \* when the operation began the process held the lock and
                 \* had no earlier signal to handle
    timed_out,   \* logind went ahead without waiting for the lock
    upsets,      \* history: "fault" once a call has failed, "setup" once an
                 \* operation has begun before the loop was entered
    told         \* told[k]: operation of the last starting event of kind k
                 \* that on_event has seen, 0 after a resume

threadVars == <<monitor, subscribed, signal, held, locks, told>>
logindVars == <<action, phase, operations, expected, timed_out>>
vars == <<threadVars, queue, logindVars, sessions, upsets>>

\* A sleeping machine runs nothing.
Awake == ~(action = "sleep" /\ phase = "executing")

MonitorAt(pc) == Awake /\ monitor = pc

\* A D-Bus or sd_event call succeeds, or fails.
Works == UNCHANGED upsets
Fails == Faults /\ upsets' = upsets \cup {"fault"}

-----------------------------------------------------------------------------
(* acquire_inhibit_lock: logind refuses a delay lock for the operation in   *)
(* progress.  The field is overwritten with the result, whatever it held.   *)

acquire_inhibit_lock(k) ==
    \/ /\ action # k /\ Works
       /\ held' = [held EXCEPT ![k] = TRUE]
       /\ locks' = [locks EXCEPT ![k] = @ + 1]
    \/ /\ Fails \/ (action = k /\ Works)
       /\ held' = [held EXCEPT ![k] = FALSE]
       /\ UNCHANGED locks

\* Closing the descriptor in the field, if there is one.
CloseLocks(K) ==
    /\ locks' = [k \in Kinds |-> IF k \in K /\ held[k] THEN locks[k] - 1
                                                       ELSE locks[k]]
    /\ held' = [k \in Kinds |-> held[k] /\ k \notin K]

release_inhibit_locks == CloseLocks(Kinds)

-----------------------------------------------------------------------------
(* setup_bus_monitoring                                                    *)

Setup == {"bus_open", "match_sleep", "match_shutdown", "match_session",
          "inhibit_sleep", "inhibit_shutdown", "attach"}

setupFrame == UNCHANGED <<signal, told, logindVars, sessions>>

BusOpen ==
    /\ MonitorAt("bus_open")
    /\ \/ Works /\ monitor' = "match_sleep"
       \/ Fails /\ monitor' = "loop"
    /\ UNCHANGED <<subscribed, held, locks, queue>>
    /\ setupFrame

\* sd_bus_match_signal: a failure is only traced.
MatchSignal(from, name, to) ==
    /\ MonitorAt(from)
    /\ \/ Works /\ subscribed' = subscribed \cup {name}
       \/ Fails /\ UNCHANGED subscribed
    /\ monitor' = to
    /\ UNCHANGED <<held, locks, queue>>
    /\ setupFrame

MatchSleep == MatchSignal("match_sleep", "sleep", "match_shutdown")
MatchShutdown == MatchSignal("match_shutdown", "shutdown", "match_session")
MatchSession == MatchSignal("match_session", "session", "inhibit_sleep")

InhibitSleep ==
    /\ MonitorAt("inhibit_sleep")
    /\ acquire_inhibit_lock("sleep")
    /\ monitor' = "inhibit_shutdown"
    /\ UNCHANGED <<subscribed, queue>>
    /\ setupFrame

InhibitShutdown ==
    /\ MonitorAt("inhibit_shutdown")
    /\ acquire_inhibit_lock("shutdown")
    /\ monitor' = "attach"
    /\ UNCHANGED <<subscribed, queue>>
    /\ setupFrame

\* sd_bus_attach_event; if it fails the locks and the bus are given up.
AttachEvent ==
    /\ MonitorAt("attach")
    /\ monitor' = "loop"
    /\ \/ Works /\ UNCHANGED <<subscribed, held, locks, queue>>
       \/ /\ Fails
          /\ release_inhibit_locks
          /\ subscribed' = {}
          /\ queue' = <<>>
    /\ setupFrame

-----------------------------------------------------------------------------
(* sd_event_loop and the signal handlers                                   *)

\* A plausible bug: the lock is released before the event is delivered.
Dispatch_Releases ==
    /\ MonitorAt("loop")
    /\ queue # <<>>
    /\ queue' = Tail(queue)
    /\ signal' = Head(queue)
    /\ monitor' = "handle"
    /\ CloseLocks(IF signal'.starting THEN {signal'.name} \ {"session"} ELSE {})
    /\ UNCHANGED <<subscribed, told, logindVars, sessions, upsets>>

\* The next signal is taken; it is dropped if it cannot be read.
Dispatch ==
    /\ MonitorAt("loop")
    /\ queue # <<>>
    /\ queue' = Tail(queue)
    /\ signal' = Head(queue)
    /\ \/ Works /\ monitor' = "handle"
       \/ Fails /\ monitor' = "loop"
    /\ UNCHANGED <<subscribed, held, locks, told, logindVars, sessions>>

handlerFrame == UNCHANGED <<subscribed, queue, signal, logindVars, sessions>>

\* svc_dispatch_event returns from on_event.  A cancelled shutdown is no
\* event; a session event touches no lock.
OnEvent ==
    /\ MonitorAt("handle")
    /\ told' = IF signal.name = "session"
                  \/ (signal.name = "shutdown" /\ ~signal.starting)
               THEN told
               ELSE [told EXCEPT ![signal.name] =
                                    IF signal.starting THEN signal.op ELSE 0]
    /\ monitor' = IF signal.name = "session" THEN "loop" ELSE "lock"
    /\ UNCHANGED <<held, locks>>
    /\ Works
    /\ handlerFrame

\* A plausible bug: the lock is not released.
ReleaseLock_Forgotten ==
    /\ MonitorAt("lock")
    /\ signal.starting
    /\ monitor' = "loop"
    /\ UNCHANGED <<held, locks, told>>
    /\ Works
    /\ handlerFrame

\* starting: the lock is released to let the operation go on.
ReleaseLock ==
    /\ MonitorAt("lock")
    /\ signal.starting
    /\ CloseLocks({signal.name})
    /\ monitor' = "loop"
    /\ UNCHANGED told
    /\ Works
    /\ handlerFrame

\* A plausible bug: the lock is not taken again after a resume.
ReacquireSleep_Forgotten ==
    /\ MonitorAt("lock")
    /\ signal.name = "sleep" /\ ~signal.starting
    /\ monitor' = "loop"
    /\ UNCHANGED <<held, locks, told>>
    /\ Works
    /\ handlerFrame

\* After a resume the sleep lock is taken again for the next suspend.
ReacquireSleep ==
    /\ MonitorAt("lock")
    /\ signal.name = "sleep" /\ ~signal.starting
    /\ acquire_inhibit_lock("sleep")
    /\ monitor' = "loop"
    /\ UNCHANGED told
    /\ handlerFrame

\* A plausible bug: the shutdown lock is taken as the sleep lock is, without a
\* look at the field.
ReacquireShutdown_Unguarded ==
    /\ MonitorAt("lock")
    /\ signal.name = "shutdown" /\ ~signal.starting
    /\ acquire_inhibit_lock("shutdown")
    /\ monitor' = "loop"
    /\ UNCHANGED told
    /\ handlerFrame

\* After a cancelled shutdown the shutdown lock is taken if it is not held.
ReacquireShutdown ==
    /\ MonitorAt("lock")
    /\ signal.name = "shutdown" /\ ~signal.starting
    /\ IF held["shutdown"] THEN Works /\ UNCHANGED <<held, locks>>
                           ELSE acquire_inhibit_lock("shutdown")
    /\ monitor' = "loop"
    /\ UNCHANGED told
    /\ handlerFrame

\* The stop eventfd, or an error, ends the loop.
LeaveLoop ==
    /\ MonitorAt("loop")
    /\ monitor' = "cleanup"
    /\ UNCHANGED <<held, locks, told>>
    /\ Works
    /\ handlerFrame

Cleanup ==
    /\ MonitorAt("cleanup")
    /\ release_inhibit_locks
    /\ subscribed' = {}
    /\ queue' = <<>>
    /\ monitor' = "done"
    /\ UNCHANGED <<signal, told, logindVars, sessions, upsets>>

-----------------------------------------------------------------------------
(* systemd-logind (external)                                               *)

Emit(s) == queue' = IF s.name \in subscribed THEN Append(queue, s) ELSE queue

\* PrepareForSleep(true) or PrepareForShutdown(true).
Begin(k) ==
    /\ action = "none" /\ operations < MaxOperations
    /\ action' = k
    /\ phase' = "preparing"
    /\ operations' = operations + 1
    /\ expected' = (locks[k] > 0 /\ monitor = "loop" /\ queue = <<>>)
    /\ timed_out' = FALSE
    /\ Emit([name |-> k, starting |-> TRUE, op |-> operations'])
    /\ upsets' = IF monitor \in Setup THEN upsets \cup {"setup"} ELSE upsets
    /\ UNCHANGED <<threadVars, sessions>>

\* Nobody holds a lock: the machine goes to sleep or the shutdown goes on.
Proceed ==
    /\ phase = "preparing"
    /\ locks[action] = 0
    /\ phase' = "executing"
    /\ UNCHANGED <<threadVars, queue, action, operations, expected, timed_out,
                   sessions, upsets>>

\* InhibitDelayMaxSec has passed.
DelayTimeout ==
    /\ Timeouts
    /\ phase = "preparing"
    /\ locks[action] > 0
    /\ phase' = "executing"
    /\ timed_out' = TRUE
    /\ UNCHANGED <<threadVars, queue, action, operations, expected, sessions,
                   upsets>>

Resume ==
    /\ action = "sleep" /\ phase = "executing"
    /\ phase' = "resuming"
    /\ UNCHANGED <<threadVars, queue, action, operations, expected, timed_out,
                   sessions, upsets>>

\* The operation is over, or its execution failed: PrepareFor...(false), and
\* locks may be taken again.
End ==
    /\ phase \in {"executing", "resuming"}
    /\ action' = "none"
    /\ phase' = "idle"
    /\ Emit([name |-> action, starting |-> FALSE, op |-> operations])
    /\ UNCHANGED <<threadVars, operations, expected, timed_out, sessions, upsets>>

\* SessionNew or SessionRemoved.
SessionChange ==
    /\ Awake /\ sessions < MaxSessions
    /\ sessions' = sessions + 1
    /\ Emit([name |-> "session", starting |-> TRUE, op |-> 0])
    /\ UNCHANGED <<threadVars, logindVars, upsets>>

-----------------------------------------------------------------------------
NoSignal == [name |-> "session", starting |-> FALSE, op |-> 0]

Init ==
    /\ monitor = "bus_open"
    /\ subscribed = {}
    /\ queue = <<>>
    /\ signal = NoSignal
    /\ held = [k \in Kinds |-> FALSE]
    /\ locks = [k \in Kinds |-> 0]
    /\ action = "none" /\ phase = "idle"
    /\ operations = 0 /\ sessions = 0
    /\ expected = FALSE /\ timed_out = FALSE
    /\ told = [k \in Kinds |-> 0]
    /\ upsets = {}

Monitor ==
    \/ BusOpen \/ MatchSleep \/ MatchShutdown \/ MatchSession
    \/ InhibitSleep \/ InhibitShutdown \/ AttachEvent
    \/ Dispatch \/ OnEvent \/ ReleaseLock \/ ReacquireSleep
    \/ ReacquireShutdown \/ Cleanup

Logind ==
    \/ \E k \in Kinds : Begin(k)
    \/ Proceed \/ DelayTimeout \/ Resume \/ End \/ SessionChange

\* The thread has ended, or waits in its loop, and logind has no more to do.
Quiescent ==
    /\ monitor \in {"loop", "done"}
    /\ UNCHANGED vars

Next == Monitor \/ LeaveLoop \/ Logind \/ Quiescent

Spec == Init /\ [][Next]_vars

\* The thread runs, on_event and D-Bus calls return, logind goes on when it
\* can.
FairSpec == Spec /\ WF_vars(Monitor) /\ WF_vars(Proceed) /\ WF_vars(Resume)

-----------------------------------------------------------------------------
(* Properties                                                              *)

MonitorPC == Setup \cup {"loop", "handle", "lock", "cleanup", "done"}

Signals == [name : Kinds \cup {"session"}, starting : BOOLEAN,
            op : 0..MaxOperations]

\* Fields and counters stay in range: above all, no lock is closed twice.
TypeOK ==
    /\ monitor \in MonitorPC
    /\ subscribed \subseteq Kinds \cup {"session"}
    /\ queue \in Seq(Signals)
    /\ signal \in Signals
    /\ held \in [Kinds -> BOOLEAN]
    /\ locks \in [Kinds -> Nat]
    /\ action \in Kinds \cup {"none"}
    /\ phase \in {"idle", "preparing", "executing", "resuming"}
    /\ operations \in 0..MaxOperations /\ sessions \in 0..MaxSessions
    /\ {expected, timed_out} \subseteq BOOLEAN
    /\ told \in [Kinds -> 0..MaxOperations]
    /\ upsets \subseteq {"fault", "setup"}

\* A machine that went down without a timeout, although the service was ready
\* for it when it was asked to, went down after on_event had returned for this
\* very operation (unless the service itself was ending).
CallbackBeforeOperation ==
    /\ phase = "executing"
    /\ expected /\ ~timed_out
    /\ monitor \notin {"cleanup", "done"}
    => told[action] = operations

Accounted(k) == locks[k] = IF held[k] THEN 1 ELSE 0

\* Every lock descriptor that is open is the one in its field, so the thread
\* can release it.  Only on_prepare_for_sleep overwrites a field unseen, and
\* only if a signal got lost, or came in before the loop was entered, does
\* that field hold a lock.
NoLeakedLock == Accounted("shutdown") /\ (upsets = {} => Accounted("sleep"))

\* Once every signal has been handled and logind is idle, both locks are held
\* again: the next suspend and shutdown will wait for on_event.
ArmedWhenIdle ==
    /\ monitor = "loop" /\ queue = <<>>
    /\ action = "none"
    /\ "fault" \notin upsets
    => \A k \in Kinds : held[k]

\* The service never makes logind wait for its delay limit: what has begun
\* goes on.
OperationProceeds ==
    phase = "preparing" ~> phase # "preparing" \/ upsets # {}

=============================================================================
