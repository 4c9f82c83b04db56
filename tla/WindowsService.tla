--------------------------- MODULE WindowsService ----------------------------
(***************************************************************************)
(* service-sample as a Windows service ("run"): service_main drives the    *)
(* lifecycle callbacks on a thread of its own, service_ctrl_handler runs   *)
(* on the dispatcher's thread, and both report to the service control      *)
(* manager (SCM) through the one SERVICE_STATUS s_status, with no lock.    *)
(*                                                                         *)
(* A report first assigns the fields of s_status, in an order the compiler *)
(* chooses, then hands the structure to SetServiceStatus: assignments of   *)
(* the two threads interleave.  dwWin32ExitCode and                        *)
(* dwServiceSpecificExitCode are one field, code; dwControlsAccepted is    *)
(* whether the controls of accepted_controls() are accepted; check point   *)
(* and wait hint are left out.  The SCM is external.                       *)
(***************************************************************************)
EXTENDS Naturals, Sequences

CONSTANTS
    Codes,       \* return values of on_start, on_run and on_stop (DWORD)
    HasEvent,    \* the service definition has an on_event
    HasReload,   \* the service definition has an on_reload
    MaxControls  \* bound on the controls that the SCM sends

ASSUME ScmAssumption ==
    /\ Codes \subseteq Nat /\ 0 \in Codes
    /\ {HasEvent, HasReload} \subseteq BOOLEAN
    /\ MaxControls \in Nat

Fields == {"state", "accepts", "code"}

VARIABLES
    process,    \* "alive", "exited", or "abandoned" by the SCM
    pc,         \* where service_main ("service") and the handler are
    job,        \* job[t]: report that thread t is making
    s_status,   \* the structure both threads write
    calls,      \* return values of on_start, on_run, on_stop so far
    s_stop_requested,
    control,    \* the control being delivered
    controls,   \* controls sent so far
    scm,        \* the SCM's view of the service
    upsets      \* history: "run" once on_run has failed of itself, "query"
                \* once the SCM has interrogated

vars == <<process, pc, job, s_status, calls, s_stop_requested, control,
          controls, scm, upsets>>

Threads == {"service", "handler"}

Status(state, accepts, code) ==
    [state |-> state, accepts |-> accepts, code |-> code]

At(t, label) == process = "alive" /\ pc[t] = label

Goto(t, label) == pc' = [pc EXCEPT ![t] = label]

-----------------------------------------------------------------------------
(* set_service_status and set_service_stopped, on thread t                 *)

\* Thread t begins to report value and goes on at next.
Report(t, value, next) ==
    /\ Goto(t, "write")
    /\ job' = [job EXCEPT ![t] = [value |-> value, left |-> Fields, next |-> next]]

set_service_status(t, state, accepts, next) ==
    Report(t, Status(state, accepts, 0), next)

set_service_stopped(t, code, next) ==
    Report(t, Status("STOPPED", FALSE, code), next)

\* One assignment.
WriteField(t, f) ==
    /\ At(t, "write")
    /\ f \in job[t].left
    /\ s_status' = [s_status EXCEPT ![f] = job[t].value[f]]
    /\ job' = [job EXCEPT ![t].left = @ \ {f}]
    /\ UNCHANGED <<process, pc, calls, s_stop_requested, control, controls, scm,
                   upsets>>

\* SetServiceStatus (external): the SCM takes what s_status holds now; a
\* stopped service stays stopped, a state that was never set is refused.
SetServiceStatus ==
    scm' = IF scm.state = "STOPPED" \/ s_status.state = "none" THEN scm
                                                               ELSE s_status

WriteEnds(t) ==
    /\ At(t, "write")
    /\ job[t].left = {}
    /\ SetServiceStatus
    /\ Goto(t, job[t].next)
    /\ UNCHANGED <<process, job, s_status, calls, s_stop_requested, control,
                   controls, upsets>>

-----------------------------------------------------------------------------
(* service_main                                                            *)

serviceFrame ==
    UNCHANGED <<process, s_status, s_stop_requested, control, controls, scm,
                upsets>>

\* RegisterServiceCtrlHandlerExU, then SERVICE_START_PENDING.
RegisterHandler ==
    /\ At("service", "register")
    /\ set_service_status("service", "START_PENDING", FALSE, "on_start")
    /\ UNCHANGED calls
    /\ serviceFrame

\* Without a handler service_main returns; nothing is ever reported and the
\* SCM gives the service up.
RegisterFails ==
    /\ At("service", "register")
    /\ Goto("service", "returned")
    /\ process' = "abandoned"
    /\ UNCHANGED <<job, s_status, calls, s_stop_requested, control, controls, scm,
                   upsets>>

\* A plausible bug: a failure of on_start is not looked at.
OnStart_GoesOn(c) ==
    /\ At("service", "on_start")
    /\ calls' = Append(calls, c)
    /\ set_service_status("service", "RUNNING", TRUE, "on_run")
    /\ serviceFrame

\* on_start returns c: SERVICE_RUNNING, or SERVICE_STOPPED with the failure.
OnStart(c) ==
    /\ At("service", "on_start")
    /\ calls' = Append(calls, c)
    /\ IF c = 0 THEN set_service_status("service", "RUNNING", TRUE, "on_run")
                ELSE set_service_stopped("service", c, "returned")
    /\ serviceFrame

\* A plausible bug: svc_os_notify_ready where svc_os_notify_stopping belongs.
OnRun_NotifiesReady(c) ==
    /\ At("service", "on_run")
    /\ s_stop_requested
    /\ calls' = Append(calls, c)
    /\ set_service_status("service", "RUNNING", TRUE, "on_stop")
    /\ serviceFrame

\* on_run returns; svc_os_notify_stopping.
OnRun(c) ==
    /\ At("service", "on_run")
    /\ s_stop_requested
    /\ calls' = Append(calls, c)
    /\ set_service_status("service", "STOP_PENDING", FALSE, "on_stop")
    /\ serviceFrame

\* on_run fails of itself.
OnRunFails(c) ==
    /\ At("service", "on_run")
    /\ ~s_stop_requested /\ c # 0
    /\ calls' = Append(calls, c)
    /\ set_service_status("service", "STOP_PENDING", FALSE, "on_stop")
    /\ upsets' = upsets \cup {"run"}
    /\ UNCHANGED <<process, s_status, s_stop_requested, control, controls, scm>>

\* A plausible bug: the result is that of on_stop, even if on_run failed.
OnStop_LastResult(c) ==
    /\ At("service", "on_stop")
    /\ calls' = Append(calls, c)
    /\ set_service_stopped("service", c, "returned")
    /\ serviceFrame

\* on_stop returns; the first failure is reported with SERVICE_STOPPED.
OnStop(c) ==
    /\ At("service", "on_stop")
    /\ calls' = Append(calls, c)
    /\ set_service_stopped("service", IF calls[2] # 0 THEN calls[2] ELSE c,
                           "returned")
    /\ serviceFrame

-----------------------------------------------------------------------------
(* The SCM sends controls, one at a time, that the last status it has seen *)
(* accepts; service_ctrl_handler handles them.                             *)

Send(c) ==
    /\ process = "alive"
    /\ controls < MaxControls
    /\ pc["handler"] = "idle" /\ pc["service"] # "register"
    /\ scm.state # "STOPPED"
    /\ CASE c = "INTERROGATE" -> TRUE
         [] c = "PARAMCHANGE" -> scm.accepts /\ HasReload
         [] c \in {"PRESHUTDOWN", "POWEREVENT", "SESSIONCHANGE"} ->
               scm.accepts /\ HasEvent
         [] OTHER -> scm.accepts
    /\ control' = c
    /\ controls' = controls + 1
    /\ Goto("handler", "control")
    /\ UNCHANGED <<process, job, s_status, calls, s_stop_requested, scm, upsets>>

handlerFrame == UNCHANGED <<process, s_status, calls, control, controls>>

\* A plausible bug: the stop is requested before the status is reported.
HandleStop_RequestFirst ==
    /\ At("handler", "control")
    /\ control \in {"STOP", "SHUTDOWN"}
    /\ s_stop_requested' = TRUE
    /\ set_service_status("handler", "STOP_PENDING", FALSE, "idle")
    /\ UNCHANGED <<scm, upsets>>
    /\ handlerFrame

\* STOP and SHUTDOWN: SERVICE_STOP_PENDING, then svc_request_stop.
HandleStop ==
    /\ At("handler", "control")
    /\ control \in {"STOP", "SHUTDOWN"}
    /\ set_service_status("handler", "STOP_PENDING", FALSE, "request_stop")
    /\ UNCHANGED <<s_stop_requested, scm, upsets>>
    /\ handlerFrame

RequestStop ==
    /\ At("handler", "request_stop")
    /\ s_stop_requested' = TRUE
    /\ Goto("handler", "idle")
    /\ UNCHANGED <<job, scm, upsets>>
    /\ handlerFrame

\* PRESHUTDOWN: on_event first (while the handler is still at "control"),
\* then as STOP.
HandlePreshutdown ==
    /\ At("handler", "control")
    /\ control = "PRESHUTDOWN"
    /\ set_service_status("handler", "STOP_PENDING", FALSE, "request_stop")
    /\ UNCHANGED <<s_stop_requested, scm, upsets>>
    /\ handlerFrame

\* handle_power_event and handle_session_change: on_event, or nothing for the
\* events that are ignored.
HandleEvent ==
    /\ At("handler", "control")
    /\ control \in {"POWEREVENT", "SESSIONCHANGE"}
    /\ Goto("handler", "idle")
    /\ UNCHANGED <<job, s_stop_requested, scm, upsets>>
    /\ handlerFrame

\* PARAMCHANGE: svc_dispatch_reload calls on_reload (while the handler is still
\* at "control"), then svc_os_notify_ready.
HandleParamChange ==
    /\ At("handler", "control")
    /\ control = "PARAMCHANGE"
    /\ set_service_status("handler", "RUNNING", TRUE, "idle")
    /\ UNCHANGED <<s_stop_requested, scm, upsets>>
    /\ handlerFrame

\* INTERROGATE: s_status is reported as it is.
HandleInterrogate ==
    /\ At("handler", "control")
    /\ control = "INTERROGATE"
    /\ SetServiceStatus
    /\ upsets' = upsets \cup {"query"}
    /\ Goto("handler", "idle")
    /\ UNCHANGED <<job, s_stop_requested>>
    /\ handlerFrame

\* StartServiceCtrlDispatcherU returns once the service has stopped; main
\* disposes of the latch and the process ends.
DispatcherReturns ==
    /\ At("handler", "idle")
    /\ scm.state = "STOPPED"
    /\ process' = "exited"
    /\ UNCHANGED <<pc, job, s_status, calls, s_stop_requested, control,
                   controls, scm, upsets>>

-----------------------------------------------------------------------------
NoStatus == Status("none", FALSE, 0)

Init ==
    /\ process = "alive"
    /\ pc = [t \in Threads |-> IF t = "service" THEN "register" ELSE "idle"]
    /\ job = [t \in Threads |-> [value |-> NoStatus, left |-> {}, next |-> "none"]]
    /\ s_status = NoStatus
    /\ calls = <<>>
    /\ s_stop_requested = FALSE
    /\ control = "none"
    /\ controls = 0
    /\ scm = NoStatus
    /\ upsets = {}

Controls == {"STOP", "SHUTDOWN", "PRESHUTDOWN", "POWEREVENT", "SESSIONCHANGE",
             "PARAMCHANGE", "INTERROGATE"}

Service ==
    \/ RegisterHandler
    \/ \E c \in Codes : OnStart(c) \/ OnRun(c) \/ OnStop(c)
    \/ \E f \in Fields : WriteField("service", f)
    \/ WriteEnds("service")

Handler ==
    \/ HandleStop \/ RequestStop \/ HandlePreshutdown \/ HandleEvent
    \/ HandleParamChange \/ HandleInterrogate
    \/ \E f \in Fields : WriteField("handler", f)
    \/ WriteEnds("handler")
    \/ DispatcherReturns

Environment ==
    \/ RegisterFails
    \/ \E c \in Codes : OnRunFails(c)
    \/ \E c \in Controls : Send(c)

\* The process is gone, or on_run waits and the SCM has nothing to send, or
\* SERVICE_STOPPED never reached the SCM.
Quiescent ==
    /\ \/ process # "alive"
       \/ pc["service"] \in {"on_run", "returned"} /\ pc["handler"] = "idle"
    /\ UNCHANGED vars

Next == Service \/ Handler \/ Environment \/ Quiescent

Spec == Init /\ [][Next]_vars

\* Both threads run and the callbacks return.
FairSpec == Spec /\ WF_vars(Service) /\ WF_vars(Handler)

-----------------------------------------------------------------------------
(* Properties                                                              *)

Values == [state : {"none", "START_PENDING", "RUNNING", "STOP_PENDING", "STOPPED"},
           accepts : BOOLEAN, code : Nat]

Labels == {"register", "on_start", "on_run", "on_stop", "returned", "write",
           "idle", "control", "request_stop", "none"}

\* The position of each thread, its report, and what s_status and the SCM hold.
TypeOK ==
    /\ pc \in [Threads -> Labels]
    /\ job \in [Threads -> [value : Values, left : SUBSET Fields, next : Labels]]
    /\ s_status \in Values /\ scm \in Values
    /\ calls \in Seq(Codes)

\* The return value of the first callback that failed, or 0.
FirstFailure ==
    LET failed == {i \in DOMAIN calls : calls[i] # 0}
    IN  IF failed = {} THEN 0
        ELSE calls[CHOOSE i \in failed : \A j \in failed : i <= j]

\* A report never mixes the values of two: what the SCM takes for a stopped
\* service accepts no controls and carries the first failure of a callback,
\* on which the restart by the SCM depends.  This is as long as service_main
\* stops on request only, and nobody has s_status reported half assigned.
StoppedReportsFailure ==
    scm.state = "STOPPED" /\ upsets = {} =>
        ~scm.accepts /\ scm.code = FirstFailure

\* Once the service has told the SCM that it is stopping it never reports
\* that it runs, unless on_run has failed while a reload was under way, or
\* an INTERROGATE has made the SCM send a stop too early.
StopPendingIsFinal ==
    [][scm.state = "STOP_PENDING" /\ upsets = {} =>
           scm'.state \in {"STOP_PENDING", "STOPPED"}]_scm

Phase ==
    IF process = "exited" THEN "stopped"
    ELSE IF process = "abandoned" THEN "killed"
    ELSE IF calls = <<>> THEN "starting"
    ELSE IF Len(calls) = 1 /\ calls[1] = 0 THEN "running"
    ELSE IF Len(calls) = 2 THEN "stopping"
    ELSE "ending"

Lifecycle == INSTANCE ServiceLifecycle
    WITH phase <- Phase, asked <- s_stop_requested, outcome <- FirstFailure

\* The order of the callbacks and the result are those of the framework's
\* contract, and the process never exits before its callbacks are through,
\* whatever the two threads report.
LifecycleSafe == Lifecycle!SafeSpec

\* A stop that the SCM asks for ends the service, if on_run waits for it.
StopEndsService ==
    s_stop_requested ~> process # "alive" \/ "run" \in upsets

=============================================================================
