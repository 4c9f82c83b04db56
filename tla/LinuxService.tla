----------------------------- MODULE LinuxService ----------------------------
(***************************************************************************)
(* One process of service-sample on Linux, as systemd ("run") or a user    *)
(* ("console") starts it: the main thread drives the lifecycle callbacks   *)
(* and starts and stops the monitoring thread, which answers the watchdog, *)
(* forwards SIGHUP to on_reload and D-Bus signals to on_event.  Signals    *)
(* arrive at any moment, on any thread.                                    *)
(*                                                                         *)
(* The stop latch is the one StopSignal.tla implements: a flag that is     *)
(* set once and that gets on_run to return.  systemd, the kernel, sd_event *)
(* and the cplat library are external.  D-Bus signals are one kind of      *)
(* event here; LogindInhibit.tla looks into them.                          *)
(***************************************************************************)
EXTENDS Integers, Sequences

CONSTANTS
    Codes,         \* return values of on_start, on_run and on_stop
    HasEvent,      \* the service definition has an on_event
    HasReload,     \* the service definition has an on_reload
    Faults,        \* system calls and libsystemd calls may fail
    SlowThread,    \* the monitoring thread may outlast the join timeout
    OtherThread,   \* SIGHUP may be delivered to a thread other than main
    CallTime,      \* what a callback or a D-Bus call takes at most, in ms
    MaxHups,       \* bound on the SIGHUPs sent to the process
    MaxEvents      \* bound on the D-Bus events

ASSUME ServiceAssumption ==
    /\ Codes \subseteq Int /\ 0 \in Codes
    /\ {HasEvent, HasReload, Faults, SlowThread, OtherThread} \subseteq BOOLEAN
    /\ CallTime \in Nat /\ MaxHups \in Nat /\ MaxEvents \in Nat

VARIABLES
    command,       \* "run" or "console"
    process,       \* "alive", "exited", or what killed it
    status,        \* exit status
    main,          \* where the main thread is
    calls,         \* return values of on_start, on_run, on_stop so far
    rc,            \* rc of svc_run_lifecycle
    s_stop_requested,
    monitor,       \* where the monitoring thread is
    def,           \* s_ctx.def is not NULL
    thread,        \* s_ctx.thread is not NULL
    stop_fd,       \* "none" (-1) or "open"
    stop_count,    \* the stop eventfd is readable
    reload_fd,     \* "none", "open", or "closed": closed, not yet set to -1
    reload_count,  \* the reload eventfd is readable
    sighup,        \* the SIGHUP action is sighup_signal_handler
    handler,       \* sighup_signal_handler on another thread: "idle", "write"
    watched,       \* the eventfds, and the bus, that the event loop watches
    watchdog,      \* sd_event_set_watchdog succeeded
    silence,       \* ms that may have passed since WATCHDOG=1, up to the call
                   \* that the monitoring thread is in
    hups,          \* SIGHUPs sent
    events,        \* D-Bus events received
    wanted,        \* SIGHUPs the handler has forwarded
    loaded,        \* value of wanted when on_reload last began
    notified,      \* last message sent with sd_notify
    unit,          \* systemd's view: "activating", "active", "deactivating"
    bad_write      \* the handler wrote to a closed descriptor

mainVars == <<command, process, status, main, calls, rc, s_stop_requested>>
ctxVars == <<def, thread, stop_fd, reload_fd, sighup>>
countVars == <<stop_count, reload_count>>
loopVars == <<watched, watchdog, silence>>
signalVars == <<handler, hups, events, wanted, bad_write>>
notifyVars == <<notified, unit>>

vars == <<mainVars, monitor, ctxVars, countVars, loopVars, signalVars, loaded,
          notifyVars>>

\* A thread takes its next step while the process is alive.
MainAt(pc) == process = "alive" /\ main = pc
MonitorAt(pc) == process = "alive" /\ monitor = pc

-----------------------------------------------------------------------------
(* sd_notify and systemd's reaction to it.  Without NOTIFY_SOCKET (console) *)
(* nothing is sent; a failed send is only traced.                           *)

sd_notify_send(message) ==
    \/ /\ command = "run"
       /\ notified' = message
       /\ unit' = CASE message = "STOPPING" -> "deactivating"
                    [] message = "READY" /\ unit = "activating" -> "active"
                    [] OTHER -> unit
    \/ /\ command = "console" \/ Faults
       /\ UNCHANGED notifyVars

-----------------------------------------------------------------------------
(* svc_linux_events_start, on the main thread                              *)

\* def is set and the stop eventfd created; failing that, it gives up.  (The
\* call is the only one of the process, with the address of g_service_def: the
\* returns for a NULL def and for a thread already started are not taken.)
EventsStart ==
    /\ MainAt("events_start")
    /\ \/ /\ def' = TRUE
          /\ stop_fd' = "open"
          /\ main' = IF HasReload THEN "reload_fd" ELSE "thread_create"
       \/ /\ Faults
          /\ main' = "register"
          /\ UNCHANGED <<def, stop_fd>>
    /\ UNCHANGED <<command, process, status, calls, rc, s_stop_requested,
                   monitor, thread, reload_fd, sighup, countVars, loopVars,
                   signalVars, loaded, notifyVars>>

EventsStartReloadFd ==
    /\ MainAt("reload_fd")
    /\ \/ /\ reload_fd' = "open"
          /\ main' = "sigaction"
       \/ /\ Faults
          /\ main' = "thread_create"
          /\ UNCHANGED reload_fd
    /\ UNCHANGED <<command, process, status, calls, rc, s_stop_requested,
                   monitor, def, thread, stop_fd, sighup, countVars, loopVars,
                   signalVars, loaded, notifyVars>>

EventsStartSighup ==
    /\ MainAt("sigaction")
    /\ main' = "thread_create"
    /\ \/ /\ sighup' = TRUE
          /\ UNCHANGED reload_fd
       \/ /\ Faults
          /\ reload_fd' = "none"
          /\ UNCHANGED sighup
    /\ UNCHANGED <<command, process, status, calls, rc, s_stop_requested,
                   monitor, def, thread, stop_fd, countVars, loopVars,
                   signalVars, loaded, notifyVars>>

\* The caller ignores the result: without the thread the service goes on.
EventsStartThread ==
    /\ MainAt("thread_create")
    /\ \/ /\ thread' = TRUE
          /\ monitor' = "new"
          /\ main' = "register"
       \/ /\ Faults
          /\ main' = "restore_sighup"
          /\ UNCHANGED <<thread, monitor>>
    /\ UNCHANGED <<command, process, status, calls, rc, s_stop_requested, def,
                   stop_fd, reload_fd, sighup, countVars, loopVars, signalVars,
                   loaded, notifyVars>>

-----------------------------------------------------------------------------
(* release_local_resources: the SIGHUP action first, then the descriptors, *)
(* def last.  It ends a failed start (no callback has been called yet) and *)
(* svc_linux_events_stop.                                                  *)

\* A plausible bug: the previous SIGHUP action is not restored.
ReleaseSighup_Kept ==
    /\ MainAt("restore_sighup")
    /\ main' = "close_reload_fd"
    /\ UNCHANGED <<command, process, status, calls, rc, s_stop_requested,
                   monitor, def, thread, stop_fd, reload_fd, sighup, countVars,
                   loopVars, signalVars, loaded, notifyVars>>

ReleaseSighup ==
    /\ MainAt("restore_sighup")
    /\ sighup' = FALSE
    /\ main' = "close_reload_fd"
    /\ UNCHANGED <<command, process, status, calls, rc, s_stop_requested,
                   monitor, def, thread, stop_fd, reload_fd, countVars,
                   loopVars, signalVars, loaded, notifyVars>>

\* Closing an eventfd also takes it out of the event loop's epoll set.
ReleaseReloadFd ==
    /\ MainAt("close_reload_fd")
    /\ \/ /\ reload_fd = "open"
          /\ reload_fd' = "closed"
          /\ reload_count' = FALSE
          /\ UNCHANGED main
       \/ /\ reload_fd \in {"none", "closed"}
          /\ reload_fd' = "none"
          /\ main' = "close_stop_fd"
          /\ UNCHANGED reload_count
    /\ UNCHANGED <<command, process, status, calls, rc, s_stop_requested,
                   monitor, def, thread, stop_fd, sighup, stop_count, loopVars,
                   signalVars, loaded, notifyVars>>

ReleaseDef ==
    /\ MainAt("close_stop_fd")
    /\ stop_fd' = "none"
    /\ stop_count' = FALSE
    /\ def' = FALSE
    /\ main' = IF calls = <<>> THEN "register" ELSE "teardown"
    /\ UNCHANGED <<command, process, status, calls, rc, s_stop_requested,
                   monitor, thread, reload_fd, sighup, reload_count, loopVars,
                   signalVars, loaded, notifyVars>>

-----------------------------------------------------------------------------
(* svc_run_lifecycle, on the main thread                                   *)

lifecycleFrame ==
    UNCHANGED <<command, process, status, s_stop_requested, monitor, ctxVars,
                countVars, loopVars, signalVars, loaded>>

\* What follows svc_run_lifecycle: svc_linux_events_stop, in "run" only.
AfterLifecycle == IF command = "run" THEN "events_stop" ELSE "teardown"

\* A plausible bug: READY=1 is sent before on_start.
RegisterShutdown_Ready ==
    /\ MainAt("register")
    /\ sd_notify_send("READY")
    /\ main' = "on_start"
    /\ UNCHANGED <<calls, rc>>
    /\ lifecycleFrame

\* cplat_shutdown_request_register: from here on SIGTERM requests a stop.
RegisterShutdown ==
    /\ MainAt("register")
    /\ main' = "on_start"
    /\ UNCHANGED <<calls, rc, notifyVars>>
    /\ lifecycleFrame

\* on_start returns c; a failure skips on_run and on_stop.
OnStart(c) ==
    /\ MainAt("on_start")
    /\ calls' = Append(calls, c)
    /\ rc' = c
    /\ main' = IF c = 0 THEN "notify_ready" ELSE AfterLifecycle
    /\ UNCHANGED notifyVars
    /\ lifecycleFrame

NotifyReady ==
    /\ MainAt("notify_ready")
    /\ sd_notify_send("READY")
    /\ main' = "on_run"
    /\ UNCHANGED <<calls, rc>>
    /\ lifecycleFrame

\* on_run loops until svc_wait_for_stop reports the request.
OnRun(c) ==
    /\ MainAt("on_run")
    /\ s_stop_requested
    /\ calls' = Append(calls, c)
    /\ main' = "notify_stopping"
    /\ UNCHANGED <<rc, notifyVars>>
    /\ lifecycleFrame

\* The on_run of a service may also fail before any request.
OnRunFails(c) ==
    /\ MainAt("on_run")
    /\ ~s_stop_requested /\ c # 0
    /\ calls' = Append(calls, c)
    /\ main' = "notify_stopping"
    /\ UNCHANGED <<rc, notifyVars>>
    /\ lifecycleFrame

NotifyStopping ==
    /\ MainAt("notify_stopping")
    /\ sd_notify_send("STOPPING")
    /\ main' = "on_stop"
    /\ UNCHANGED <<calls, rc>>
    /\ lifecycleFrame

\* A plausible bug: the result is that of on_stop even if on_run failed.
OnStop_LastResult(c) ==
    /\ MainAt("on_stop")
    /\ calls' = Append(calls, c)
    /\ rc' = c
    /\ main' = AfterLifecycle
    /\ UNCHANGED notifyVars
    /\ lifecycleFrame

\* on_stop runs even if on_run failed; the first failure is the result.
OnStop(c) ==
    /\ MainAt("on_stop")
    /\ calls' = Append(calls, c)
    /\ rc' = IF calls[2] # 0 THEN calls[2] ELSE c
    /\ main' = AfterLifecycle
    /\ UNCHANGED notifyVars
    /\ lifecycleFrame

-----------------------------------------------------------------------------
(* svc_linux_events_stop and the end of main                               *)

stopFrame ==
    UNCHANGED <<command, calls, rc, s_stop_requested, def, stop_fd, reload_fd,
                sighup, reload_count, loopVars, signalVars, loaded, notifyVars>>

\* A plausible bug: the resources are released without waiting for the thread.
EventsStop_NoJoin ==
    /\ MainAt("events_stop")
    /\ stop_count' = (thread \/ stop_count)
    /\ main' = "restore_sighup"
    /\ UNCHANGED <<process, status, monitor, thread>>
    /\ stopFrame

EventsStop ==
    /\ MainAt("events_stop")
    /\ stop_count' = (thread \/ stop_count)
    /\ main' = IF thread THEN "join" ELSE "restore_sighup"
    /\ UNCHANGED <<process, status, monitor, thread>>
    /\ stopFrame

\* The thread has ended within SVC_EVENTS_JOIN_TIMEOUT_MS.
Join ==
    /\ MainAt("join")
    /\ MonitorAt("done")
    /\ thread' = FALSE
    /\ main' = "restore_sighup"
    /\ UNCHANGED <<process, status, monitor, stop_count>>
    /\ stopFrame

\* A plausible bug: the join has no timeout.
JoinTimeout_Never == FALSE /\ UNCHANGED vars

\* The thread is still busy: it is detached and left behind.
JoinTimeout ==
    /\ MainAt("join")
    /\ SlowThread /\ monitor # "done"
    /\ thread' = FALSE
    /\ main' = "restore_sighup"
    /\ UNCHANGED <<process, status, monitor, stop_count>>
    /\ stopFrame

\* The latch and the tracer are disposed of and main returns rc, of which
\* the kernel keeps eight bits.
Exit ==
    /\ MainAt("teardown")
    /\ main' = "returned"
    /\ process' = "exited"
    /\ status' = rc % 256
    /\ UNCHANGED <<monitor, thread, stop_count>>
    /\ stopFrame

-----------------------------------------------------------------------------
(* The watchdog: sd_event sends WATCHDOG=1 when it is set up and from the  *)
(* event loop, and from nowhere else.  While the thread is in a callback   *)
(* or waits for the answer to a D-Bus call, nobody sends it.               *)

\* WatchdogSec=30 of the unit file.
WatchdogSec == 30000

\* sd_event sends WATCHDOG=1 after three quarters of that time at the latest,
\* as long as the loop runs.
PingDue == 22500

\* How many callbacks and D-Bus calls follow one another where the thread is:
\* connecting to the bus, which the first of four subscriptions completes;
\* Inhibit; a callback.
Calls(pc) ==
    CASE pc = "bus_open" -> 5
      [] pc \in {"inhibit_sleep", "inhibit_shutdown", "inhibit_again",
                 "on_reload", "on_event"} -> 1
      [] OTHER -> 0

\* The longest that WATCHDOG=1 can have been due when the thread leaves pc.
Overdue == silence + Calls(monitor) * CallTime

\* The calls of the step are over.
TimePassed ==
    /\ silence' = Overdue
    /\ UNCHANGED <<watched, watchdog>>

\* The loop hands over to a handler.
LeaveLoop ==
    /\ silence' = PingDue
    /\ UNCHANGED <<watched, watchdog>>

-----------------------------------------------------------------------------
(* events_thread_func, on the monitoring thread                            *)

monitorFrame == UNCHANGED <<command, status, main, calls, rc, s_stop_requested,
                            ctxVars, handler, hups, wanted, bad_write>>

\* sd_event_new: without an event loop the thread returns.
MonitorNew ==
    /\ MonitorAt("new")
    /\ \/ monitor' = "set_watchdog"
       \/ Faults /\ monitor' = "done"
    /\ UNCHANGED <<process, events, countVars, loopVars, loaded, notifyVars>>
    /\ monitorFrame

MonitorWatchdog ==
    /\ MonitorAt("set_watchdog")
    /\ \/ watchdog' = TRUE /\ silence' = 0
       \/ Faults /\ UNCHANGED <<watchdog, silence>>
    /\ monitor' = "watch_stop"
    /\ UNCHANGED <<process, events, countVars, watched, loaded, notifyVars>>
    /\ monitorFrame

\* Without the stop eventfd in its loop the thread does not enter the loop.
MonitorWatchStop ==
    /\ MonitorAt("watch_stop")
    /\ \/ /\ stop_fd = "open"
          /\ watched' = watched \cup {"stop"}
          /\ monitor' = "watch_reload"
       \/ /\ Faults \/ stop_fd = "none"
          /\ monitor' = "cleanup"
          /\ UNCHANGED watched
    /\ UNCHANGED <<process, events, countVars, watchdog, silence, loaded,
                   notifyVars>>
    /\ monitorFrame

\* A plausible bug: the reload eventfd is not added to the event loop.
MonitorWatchReload_Skipped ==
    /\ MonitorAt("watch_reload")
    /\ monitor' = "read_on_event"
    /\ UNCHANGED <<process, events, countVars, loopVars, loaded, notifyVars>>
    /\ monitorFrame

\* Without the reload eventfd in its loop only the reload is lost.
MonitorWatchReload ==
    /\ MonitorAt("watch_reload")
    /\ \/ /\ reload_fd = "open"
          /\ watched' = watched \cup {"reload"}
       \/ /\ Faults \/ reload_fd # "open"
          /\ UNCHANGED watched
    /\ monitor' = "read_on_event"
    /\ UNCHANGED <<process, events, countVars, watchdog, silence, loaded,
                   notifyVars>>
    /\ monitorFrame

\* Reading through s_ctx.def ends the process if it is NULL.
Dereference(next) ==
    IF def THEN monitor' = next /\ UNCHANGED process
           ELSE process' = "segv" /\ UNCHANGED monitor

\* s_ctx.def->on_event decides whether the system bus is opened.
MonitorReadOnEvent ==
    /\ MonitorAt("read_on_event")
    /\ Dereference(IF HasEvent THEN "bus_open" ELSE "loop")
    /\ UNCHANGED <<events, countVars, loopVars, loaded, notifyVars>>
    /\ monitorFrame

\* sd_bus_open_system and the four subscriptions.
MonitorBusOpen ==
    /\ MonitorAt("bus_open")
    /\ \/ monitor' = "inhibit_sleep"
       \/ Faults /\ monitor' = "loop"
    /\ TimePassed
    /\ UNCHANGED <<process, events, countVars, loaded, notifyVars>>
    /\ monitorFrame

\* acquire_inhibit_lock names the service: it reads s_ctx.def->name.
MonitorInhibit ==
    /\ \/ MonitorAt("inhibit_sleep") /\ Dereference("inhibit_shutdown")
       \/ MonitorAt("inhibit_shutdown") /\ Dereference("attach")
       \/ MonitorAt("inhibit_again") /\ Dereference("loop")
    /\ TimePassed
    /\ UNCHANGED <<events, countVars, loaded, notifyVars>>
    /\ monitorFrame

\* sd_bus_attach_event; a bus that cannot be attached is closed.
MonitorAttach ==
    /\ MonitorAt("attach")
    /\ \/ watched' = watched \cup {"bus"}
       \/ Faults /\ UNCHANGED watched
    /\ monitor' = "loop"
    /\ UNCHANGED <<process, events, countVars, watchdog, silence, loaded,
                   notifyVars>>
    /\ monitorFrame

\* on_stop_requested: the loop ends.
LoopStop ==
    /\ MonitorAt("loop")
    /\ stop_count /\ stop_fd = "open"
    /\ stop_count' = FALSE
    /\ monitor' = "cleanup"
    /\ UNCHANGED <<process, events, reload_count, loopVars, loaded, notifyVars>>
    /\ monitorFrame

\* on_reload_requested: one read takes all the SIGHUPs counted so far.
LoopReload ==
    /\ MonitorAt("loop")
    /\ reload_count /\ reload_fd = "open" /\ "reload" \in watched
    /\ reload_count' = FALSE
    /\ monitor' = "dispatch_reload"
    /\ LeaveLoop
    /\ UNCHANGED <<process, events, stop_count, loaded, notifyVars>>
    /\ monitorFrame

\* svc_dispatch_reload(s_ctx.def): RELOADING=1, on_reload, READY=1; nothing
\* at all if s_ctx.def is NULL by now.
DispatchReload ==
    /\ MonitorAt("dispatch_reload")
    /\ \/ /\ def
          /\ sd_notify_send("RELOADING")
          /\ monitor' = "on_reload"
       \/ /\ ~def
          /\ monitor' = "loop"
          /\ UNCHANGED notifyVars
    /\ UNCHANGED <<process, events, countVars, loopVars, loaded>>
    /\ monitorFrame

OnReload ==
    /\ MonitorAt("on_reload")
    /\ loaded' = wanted
    /\ monitor' = "reload_ready"
    /\ TimePassed
    /\ UNCHANGED <<process, events, countVars, notifyVars>>
    /\ monitorFrame

DispatchReloadReady ==
    /\ MonitorAt("reload_ready")
    /\ sd_notify_send("READY")
    /\ monitor' = "loop"
    /\ UNCHANGED <<process, events, countVars, loopVars, loaded>>
    /\ monitorFrame

\* A logind signal: svc_dispatch_event(s_ctx.def) calls on_event, if there is
\* a definition.
LoopEvent ==
    /\ MonitorAt("loop")
    /\ "bus" \in watched /\ events < MaxEvents
    /\ events' = events + 1
    /\ monitor' \in IF def THEN {"on_event"} ELSE {"loop", "inhibit_again"}
    /\ LeaveLoop
    /\ UNCHANGED <<process, countVars, loaded, notifyVars>>
    /\ monitorFrame

\* A plausible bug: the next signal in the queue is handled at once, without
\* going back to the loop.
OnEvent_Drains ==
    /\ MonitorAt("on_event")
    /\ \/ monitor' \in {"loop", "inhibit_again"} /\ UNCHANGED events
       \/ events < MaxEvents /\ events' = events + 1 /\ UNCHANGED monitor
    /\ TimePassed
    /\ UNCHANGED <<process, countVars, loaded, notifyVars>>
    /\ monitorFrame

\* on_event returns; after a resume or a cancelled shutdown a lock is taken
\* again.
OnEvent ==
    /\ MonitorAt("on_event")
    /\ monitor' \in {"loop", "inhibit_again"}
    /\ TimePassed
    /\ UNCHANGED <<process, events, countVars, loaded, notifyVars>>
    /\ monitorFrame

\* sd_event_loop returns an error.
LoopError ==
    /\ MonitorAt("loop")
    /\ Faults
    /\ monitor' = "cleanup"
    /\ UNCHANGED <<process, events, countVars, loopVars, loaded, notifyVars>>
    /\ monitorFrame

\* The locks, the bus and the loop are released and the thread ends.
MonitorCleanup ==
    /\ MonitorAt("cleanup")
    /\ monitor' = "done"
    /\ watched' = {}
    /\ UNCHANGED <<process, events, countVars, watchdog, silence, loaded,
                   notifyVars>>
    /\ monitorFrame

-----------------------------------------------------------------------------
(* Signals and systemd                                                     *)

signalFrame ==
    UNCHANGED <<command, status, main, calls, rc, monitor, ctxVars, stop_count,
                loopVars, events, loaded, notifyVars>>

\* The write of sighup_signal_handler, once it has seen reload_fd >= 0; the
\* compiled code may use the value it tested.
ForwardSighup ==
    /\ wanted' = wanted + 1
    /\ reload_count' = (reload_count \/ reload_fd = "open")
    /\ bad_write' = (bad_write \/ reload_fd # "open")

\* SIGHUP: the default action ends the process.  The handler runs to its end
\* if it interrupts main, and concurrently with main on any other thread.
Sighup ==
    /\ process = "alive"
    /\ hups < MaxHups
    /\ hups' = hups + 1
    /\ UNCHANGED s_stop_requested
    /\ \/ /\ ~sighup
          /\ process' = "sighup"
          /\ UNCHANGED <<handler, wanted, bad_write, reload_count>>
       \/ /\ sighup
          /\ IF reload_fd # "none"
               THEN ForwardSighup
               ELSE UNCHANGED <<wanted, reload_count, bad_write>>
          /\ UNCHANGED <<process, handler>>
       \/ /\ sighup /\ OtherThread /\ handler = "idle"
          /\ handler' = IF reload_fd # "none" THEN "write" ELSE "idle"
          /\ UNCHANGED <<process, wanted, reload_count, bad_write>>
    /\ signalFrame

SighupWrite ==
    /\ process = "alive"
    /\ handler = "write"
    /\ handler' = "idle"
    /\ ForwardSighup
    /\ UNCHANGED <<process, hups, s_stop_requested>>
    /\ signalFrame

\* SIGTERM or SIGINT: shutdown_request_callback sets the stop latch; before
\* the callback is registered the default action ends the process.
Sigterm ==
    /\ process = "alive"
    /\ \/ /\ calls = <<>> /\ main # "on_start"
          /\ process' = "sigterm"
          /\ UNCHANGED s_stop_requested
       \/ /\ calls # <<>> \/ main = "on_start"
          /\ s_stop_requested' = TRUE
          /\ UNCHANGED process
    /\ UNCHANGED <<handler, hups, wanted, bad_write, reload_count>>
    /\ signalFrame

\* The next WATCHDOG=1 comes in time: the thread is about to set the watchdog
\* up, or gets back to its loop before the time is up.
AnswersWatchdog ==
    \/ monitor \in {"new", "set_watchdog"}
    \/ watchdog /\ monitor \notin {"none", "cleanup", "done"} /\ Overdue < WatchdogSec

\* systemd kills an active service that has not sent WATCHDOG=1 for
\* WatchdogSec.  On the main thread only on_start and on_run last that long.
WatchdogExpires ==
    /\ process = "alive"
    /\ unit = "active"
    /\ main \in {"on_start", "on_run"}
    /\ ~AnswersWatchdog
    /\ process' = "watchdog"
    /\ UNCHANGED <<s_stop_requested, handler, hups, wanted, bad_write,
                   reload_count>>
    /\ signalFrame

-----------------------------------------------------------------------------
Init ==
    /\ command \in {"run", "console"}
    /\ process = "alive"
    /\ status = 0
    /\ main = IF command = "run" THEN "events_start" ELSE "register"
    /\ calls = <<>>
    /\ rc = 0
    /\ s_stop_requested = FALSE
    /\ monitor = "none"
    /\ def = FALSE /\ thread = FALSE
    /\ stop_fd = "none" /\ reload_fd = "none"
    /\ stop_count = FALSE /\ reload_count = FALSE
    /\ sighup = FALSE
    /\ handler = "idle"
    /\ watched = {} /\ watchdog = FALSE /\ silence = 0
    /\ hups = 0 /\ events = 0 /\ wanted = 0 /\ loaded = 0
    /\ notified = "none" /\ unit = "activating"
    /\ bad_write = FALSE

MainStep ==
    \/ EventsStart \/ EventsStartReloadFd \/ EventsStartSighup
    \/ EventsStartThread
    \/ ReleaseSighup \/ ReleaseReloadFd \/ ReleaseDef
    \/ RegisterShutdown \/ NotifyReady \/ NotifyStopping
    \/ \E c \in Codes : OnStart(c) \/ OnRun(c) \/ OnStop(c)
    \/ EventsStop \/ Join \/ Exit

MonitorStep ==
    \/ MonitorNew \/ MonitorWatchdog \/ MonitorWatchStop \/ MonitorWatchReload
    \/ MonitorReadOnEvent \/ LoopStop \/ LoopReload \/ DispatchReload
    \/ DispatchReloadReady \/ MonitorAttach \/ MonitorCleanup

\* The steps of the monitoring thread that take as long as a callback of the
\* service or a D-Bus call takes.
SlowStep == MonitorBusOpen \/ MonitorInhibit \/ OnReload \/ OnEvent

Environment ==
    \/ Sighup \/ SighupWrite \/ Sigterm \/ WatchdogExpires
    \/ LoopEvent \/ LoopError
    \/ \E c \in Codes : OnRunFails(c)

\* The process is gone, and its threads with it.
Gone ==
    /\ process # "alive"
    /\ UNCHANGED vars

Next ==
    \/ MainStep \/ JoinTimeout \/ MonitorStep \/ SlowStep \/ Environment
    \/ Gone

Spec == Init /\ [][Next]_vars

\* Both threads are scheduled, callbacks and D-Bus calls return.
FairSpec ==
    /\ Spec
    /\ WF_vars(MainStep)
    /\ WF_vars(MonitorStep)
    /\ WF_vars(SlowStep)

\* on_event, on_reload or a D-Bus call may hang; the join timeout elapses.
HungSpec ==
    /\ Spec
    /\ WF_vars(MainStep)
    /\ WF_vars(MonitorStep)
    /\ WF_vars(JoinTimeout)

-----------------------------------------------------------------------------
(* Properties                                                              *)

MainPC == {"events_start", "reload_fd", "sigaction", "thread_create",
           "register", "on_start", "notify_ready", "on_run", "notify_stopping",
           "on_stop", "events_stop", "join", "restore_sighup",
           "close_reload_fd", "close_stop_fd", "teardown", "returned"}

MonitorPC == {"none", "new", "set_watchdog", "watch_stop", "watch_reload",
              "read_on_event", "bus_open", "inhibit_sleep", "inhibit_shutdown",
              "inhibit_again", "attach", "loop", "dispatch_reload", "on_reload",
              "reload_ready", "on_event", "cleanup", "done"}

\* Every variable keeps the shape of what it stands for; a process makes at
\* most three callbacks and never counts more reloads than SIGHUPs.
TypeOK ==
    /\ command \in {"run", "console"}
    /\ process \in {"alive", "exited", "sighup", "sigterm", "watchdog", "segv"}
    /\ status \in 0..255
    /\ main \in MainPC
    /\ calls \in Seq(Codes) /\ Len(calls) <= 3
    /\ rc \in Codes
    /\ monitor \in MonitorPC
    /\ {s_stop_requested, def, thread, stop_count, reload_count, sighup,
        watchdog, bad_write} \subseteq BOOLEAN
    /\ stop_fd \in {"none", "open"}
    /\ reload_fd \in {"none", "open", "closed"}
    /\ handler \in {"idle", "write"}
    /\ watched \subseteq {"stop", "reload", "bus"} /\ silence \in Nat
    /\ hups \in 0..MaxHups /\ events \in 0..MaxEvents
    /\ wanted \in 0..hups /\ loaded \in 0..wanted
    /\ notified \in {"none", "READY", "RELOADING", "STOPPING"}
    /\ unit \in {"activating", "active", "deactivating"}

\* The return value of the first callback that failed, or 0.
FirstFailure ==
    LET failed == {i \in DOMAIN calls : calls[i] # 0}
    IN  IF failed = {} THEN 0
        ELSE calls[CHOOSE i \in failed : \A j \in failed : i <= j]

\* systemd learns the first failure from the exit status: Restart=on-failure
\* needs a status other than 0 exactly if a callback failed.  (A multiple of
\* 256 as the result of a callback would be lost; Codes has none.)
ExitReportsFirstFailure ==
    process = "exited" =>
        /\ status = FirstFailure % 256
        /\ status = 0 <=> FirstFailure = 0

\* The order of release_local_resources: sighup_signal_handler never writes to
\* a descriptor that has been closed (and may have been reused).
HandlerWritesOpenFd == ~bad_write

\* The monitoring thread never reads through s_ctx.def after main cleared it.
MonitorSeesDef == process # "segv"

\* Callbacks and D-Bus calls are quick enough for the watchdog: seven follow
\* one another before the loop is entered, two (on_event and Inhibit) between
\* two rounds of it.
QuickCalls ==
    /\ 7 * CallTime < WatchdogSec
    /\ PingDue + 2 * CallTime < WatchdogSec

\* An active service is never killed by the watchdog of its own unit file.  (It
\* is if calls fail that prepare for it, or without QuickCalls: one D-Bus call
\* that takes its full 25 s after the loop has waited is enough.)
WatchdogAnswered == process # "watchdog"

\* systemd regards the service as started only once on_start has succeeded,
\* and STOPPING=1 is the last it hears, as long as no reload, which ends with
\* READY=1 on the monitoring thread, has been asked for.
NotificationsFollowCallbacks ==
    wanted = 0 =>
        /\ unit = "active" => calls # <<>> /\ calls[1] = 0
        /\ unit = "deactivating" => notified = "STOPPING"

\* A SIGHUP that the handler forwards is followed by an on_reload that sees
\* it, unless the service is ending by then.
ReloadApplied ==
    wanted > loaded ~>
        \/ loaded = wanted
        \/ process # "alive"
        \/ Len(calls) >= 2

Phase ==
    IF process = "exited" THEN "stopped"
    ELSE IF process # "alive" THEN "killed"
    ELSE IF calls = <<>> THEN "starting"
    ELSE IF main \in {"notify_ready", "on_run"} THEN "running"
    ELSE IF main \in {"notify_stopping", "on_stop"} THEN "stopping"
    ELSE "ending"

Lifecycle == INSTANCE ServiceLifecycle
    WITH phase <- Phase, asked <- s_stop_requested, outcome <- FirstFailure

\* The process implements the lifecycle contract of the framework: order of
\* the callbacks, result, and an end after every stop request.
LifecycleSpec == Lifecycle!Spec

=============================================================================
