------------------------- MODULE WindowsServiceProofs -------------------------
(***************************************************************************)
(* Proofs about WindowsService, for all return values of the callbacks and *)
(* any number of controls.  The two threads write s_status without a lock; *)
(* the invariants say why, as long as on_run ends on request only and the  *)
(* SCM does not interrogate, at most one of them does so at a time.        *)
(***************************************************************************)
EXTENDS WindowsService, TLAPS

-----------------------------------------------------------------------------
(* Types and the steps of a report                                         *)

LEMMA ThreadsAre == /\ Threads = {"service", "handler"}
                    /\ Fields = {"state", "accepts", "code"}
BY DEF Threads, Fields

LEMMA CodesAre == \A c \in Codes : c \in Nat /\ 0 \in Nat
BY ScmAssumption

LEMMA Element ==
    ASSUME NEW S, NEW s \in Seq(S), NEW i \in 1..Len(s)
    PROVE  s[i] \in S
OBVIOUS

LEMMA StatusType ==
    ASSUME NEW s \in {"START_PENDING", "RUNNING", "STOP_PENDING", "STOPPED"},
           NEW a \in BOOLEAN, NEW c \in Nat
    PROVE  /\ Status(s, a, c) \in Values
           /\ Status(s, a, c).state = s /\ Status(s, a, c).accepts = a
           /\ Status(s, a, c).code = c
BY DEF Status, Values

\* A thread begins a report.
LEMMA ReportStep ==
    ASSUME TypeOK, NEW t \in Threads, NEW v \in Values, NEW next \in Labels,
           Report(t, v, next)
    PROVE  /\ pc' \in [Threads -> Labels]
           /\ job' \in [Threads -> [value : Values, left : SUBSET Fields, next : Labels]]
           /\ pc'[t] = "write"
           /\ job'[t].value = v /\ job'[t].left = Fields /\ job'[t].next = next
           /\ \A u \in Threads \ {t} : pc'[u] = pc[u] /\ job'[u] = job[u]
<1>1. [value |-> v, left |-> Fields, next |-> next]
          \in [value : Values, left : SUBSET Fields, next : Labels]
      OBVIOUS
<1>2. "write" \in Labels
      BY DEF Labels
<1>3. QED
      BY <1>1, <1>2 DEF TypeOK, Report, Goto

\* It assigns one field.
LEMMA FieldStep ==
    ASSUME TypeOK, NEW t \in Threads, NEW f \in Fields, WriteField(t, f)
    PROVE  /\ TypeOK' /\ pc' = pc /\ pc[t] = "write" /\ f \in job[t].left
           /\ s_status'[f] = job[t].value[f]
           /\ \A g \in Fields \ {f} : s_status'[g] = s_status[g]
           /\ job'[t].left = job[t].left \ {f}
           /\ job'[t].value = job[t].value /\ job'[t].next = job[t].next
           /\ \A u \in Threads \ {t} : job'[u] = job[u]
<1>1. /\ pc' = pc /\ pc[t] = "write" /\ f \in job[t].left /\ scm' = scm /\ calls' = calls
      /\ s_status' = [s_status EXCEPT ![f] = job[t].value[f]]
      /\ job' = [job EXCEPT ![t].left = @ \ {f}]
      BY DEF WriteField, At
<1>2. /\ job' \in [Threads -> [value : Values, left : SUBSET Fields, next : Labels]]
      /\ job'[t].left = job[t].left \ {f}
      /\ job'[t].value = job[t].value /\ job'[t].next = job[t].next
      /\ \A u \in Threads \ {t} : job'[u] = job[u]
      BY <1>1 DEF TypeOK
<1>3. /\ s_status' \in Values /\ s_status'[f] = job[t].value[f]
      /\ \A g \in Fields \ {f} : s_status'[g] = s_status[g]
      BY <1>1, ThreadsAre DEF TypeOK, Values
<1>4. QED
      BY <1>1, <1>2, <1>3 DEF TypeOK

\* It hands the structure to the SCM.
LEMMA EndsStep ==
    ASSUME TypeOK, NEW t \in Threads, WriteEnds(t)
    PROVE  /\ TypeOK' /\ job' = job /\ s_status' = s_status
           /\ pc[t] = "write" /\ job[t].left = {} /\ pc'[t] = job[t].next
           /\ \A u \in Threads \ {t} : pc'[u] = pc[u]
           /\ scm' = scm \/ (scm.state # "STOPPED" /\ scm' = s_status)
BY DEF TypeOK, WriteEnds, At, Goto, SetServiceStatus

-----------------------------------------------------------------------------
(* Callbacks and their results                                             *)

\* Where service_main is, or goes on once its report is made.
Where == IF pc["service"] = "write" THEN job["service"].next ELSE pc["service"]

\* on_start has failed, or all three callbacks have returned.
Ended ==
    \/ Len(calls) = 1 /\ calls[1] # 0
    \/ Len(calls) = 3 /\ calls[1] = 0

\* Which callbacks have returned; STOPPED is nowhere before the last has.
CallInv ==
    /\ Where \in {"register", "on_start"} => calls = <<>>
    /\ Where = "on_run" => Len(calls) = 1 /\ calls[1] = 0
    /\ Where = "on_stop" => Len(calls) = 2 /\ calls[1] = 0
    /\ job["service"].value.state = "STOPPED" => Ended
    /\ job["handler"].value.state # "STOPPED"
    /\ s_status.state = "STOPPED" => Ended
    /\ scm.state = "STOPPED" => Ended
    /\ process = "exited" => Ended
    /\ process \in {"alive", "exited", "abandoned"}
    /\ process = "abandoned" => calls = <<>>

\* A callback has returned c.
LEMMA Called ==
    ASSUME calls \in Seq(Codes), NEW c \in Codes, calls' = Append(calls, c)
    PROVE  /\ calls' \in Seq(Codes) /\ c \in Nat
           /\ Len(calls) \in Nat /\ Len(calls') = Len(calls) + 1
           /\ calls'[Len(calls) + 1] = c
           /\ \A i \in 1..Len(calls) : calls'[i] = calls[i]
           /\ calls' # <<>>
BY ScmAssumption

\* The service thread begins a report without a callback, or after one.
LEMMA ServiceReports ==
    ASSUME TypeOK, NEW v \in Values, NEW next \in Labels \ {"write"},
           Report("service", v, next), s_status' = s_status, scm' = scm,
           calls' \in Seq(Codes)
    PROVE  /\ TypeOK' /\ Where' = next
           /\ job'["service"].value = v /\ job'["handler"] = job["handler"]
<1>1. /\ pc' \in [Threads -> Labels]
      /\ job' \in [Threads -> [value : Values, left : SUBSET Fields, next : Labels]]
      /\ pc'["service"] = "write"
      /\ job'["service"].value = v /\ job'["service"].next = next
      /\ job'["handler"] = job["handler"]
      BY ReportStep, ThreadsAre
<1>2. QED
      BY <1>1 DEF TypeOK, Where

LEMMA RegisterKeeps ==
    ASSUME TypeOK, CallInv, RegisterHandler
    PROVE  TypeOK' /\ CallInv'
<1>1. /\ process = "alive" /\ process' = process /\ pc["service"] = "register"
      /\ calls' = calls /\ s_status' = s_status /\ scm' = scm
      /\ Report("service", Status("START_PENDING", FALSE, 0), "on_start")
      BY DEF RegisterHandler, set_service_status, serviceFrame, At
<1>2. /\ Status("START_PENDING", FALSE, 0) \in Values
      /\ Status("START_PENDING", FALSE, 0).state = "START_PENDING"
      BY DEF Status, Values
<1>3. "on_start" \in Labels \ {"write"} /\ calls' \in Seq(Codes)
      BY <1>1 DEF Labels, TypeOK
<1>4. /\ TypeOK' /\ Where' = "on_start"
      /\ job'["service"].value.state = "START_PENDING" /\ job'["handler"] = job["handler"]
      BY <1>1, <1>2, <1>3, ServiceReports
<1>5. Where = "register" /\ calls = <<>>
      BY <1>1 DEF CallInv, Where
<1>6. QED
      BY <1>1, <1>4, <1>5 DEF CallInv, Ended

LEMMA StartKeeps ==
    ASSUME TypeOK, CallInv, NEW c \in Codes, OnStart(c)
    PROVE  TypeOK' /\ CallInv' /\ calls = <<>> /\ process = "alive" /\ process' = "alive"
<1>1. /\ process = "alive" /\ process' = process /\ pc["service"] = "on_start"
      /\ calls' = Append(calls, c) /\ s_status' = s_status /\ scm' = scm
      BY DEF OnStart, serviceFrame, At
<1>2. calls = <<>> /\ calls \in Seq(Codes)
      BY <1>1 DEF CallInv, Where, TypeOK
<1>3. Len(calls') = 1 /\ calls'[1] = c /\ calls' \in Seq(Codes) /\ c \in Nat
      BY <1>1, <1>2, Called
<1>4. /\ s_status.state # "STOPPED" /\ scm.state # "STOPPED"
      BY <1>2 DEF CallInv, Ended
<1>5. CASE c = 0
  <2>1. /\ Report("service", Status("RUNNING", TRUE, 0), "on_run")
        /\ "on_run" \in Labels \ {"write"}
        BY <1>5 DEF OnStart, set_service_status, Labels
  <2>2. Status("RUNNING", TRUE, 0) \in Values /\ Status("RUNNING", TRUE, 0).state = "RUNNING"
        BY StatusType
  <2>3. /\ TypeOK' /\ Where' = "on_run"
        /\ job'["service"].value.state = "RUNNING" /\ job'["handler"] = job["handler"]
        BY <1>1, <1>3, <2>1, <2>2, ServiceReports
  <2>4. QED
        BY <1>1, <1>3, <1>4, <1>5, <2>3 DEF CallInv
<1>6. CASE c # 0
  <2>1. /\ Report("service", Status("STOPPED", FALSE, c), "returned")
        /\ "returned" \in Labels \ {"write"}
        BY <1>6 DEF OnStart, set_service_stopped, Labels
  <2>2. Status("STOPPED", FALSE, c) \in Values
        BY <1>3, StatusType
  <2>3. TypeOK' /\ Where' = "returned" /\ job'["handler"] = job["handler"]
        BY <1>1, <1>3, <2>1, <2>2, ServiceReports
  <2>4. QED
        BY <1>1, <1>3, <1>6, <2>3 DEF CallInv, Ended
<1>7. QED
      BY <1>1, <1>2, <1>5, <1>6

LEMMA RunKeeps ==
    ASSUME TypeOK, CallInv, NEW c \in Codes, OnRun(c) \/ OnRunFails(c)
    PROVE  /\ TypeOK' /\ CallInv' /\ Len(calls) = 1 /\ calls[1] = 0
           /\ process = "alive" /\ process' = "alive"
<1>1. /\ process = "alive" /\ process' = process /\ pc["service"] = "on_run"
      /\ calls' = Append(calls, c) /\ s_status' = s_status /\ scm' = scm
      /\ Report("service", Status("STOP_PENDING", FALSE, 0), "on_stop")
      BY DEF OnRun, OnRunFails, serviceFrame, At, set_service_status
<1>2. Len(calls) = 1 /\ calls[1] = 0 /\ calls \in Seq(Codes)
      BY <1>1 DEF CallInv, Where, TypeOK
<1>3. Len(calls') = 2 /\ calls'[1] = 0 /\ calls' \in Seq(Codes) /\ calls' # <<>>
      BY <1>1, <1>2, Called
<1>4. /\ Status("STOP_PENDING", FALSE, 0) \in Values
      /\ Status("STOP_PENDING", FALSE, 0).state = "STOP_PENDING"
      /\ "on_stop" \in Labels \ {"write"}
      BY StatusType DEF Labels
<1>5. /\ TypeOK' /\ Where' = "on_stop"
      /\ job'["service"].value.state = "STOP_PENDING" /\ job'["handler"] = job["handler"]
      BY <1>1, <1>3, <1>4, ServiceReports
<1>6. s_status.state # "STOPPED" /\ scm.state # "STOPPED"
      BY <1>2 DEF CallInv, Ended
<1>7. QED
      BY <1>1, <1>2, <1>3, <1>5, <1>6 DEF CallInv

LEMMA StopKeeps ==
    ASSUME TypeOK, CallInv, NEW c \in Codes, OnStop(c)
    PROVE  /\ TypeOK' /\ CallInv' /\ Len(calls) = 2 /\ calls[1] = 0
           /\ process = "alive" /\ process' = "alive"
<1> DEFINE code == IF calls[2] # 0 THEN calls[2] ELSE c
<1>1. /\ process = "alive" /\ process' = process /\ pc["service"] = "on_stop"
      /\ calls' = Append(calls, c) /\ s_status' = s_status /\ scm' = scm
      /\ Report("service", Status("STOPPED", FALSE, code), "returned")
      BY DEF OnStop, serviceFrame, At, set_service_stopped
<1>2. Len(calls) = 2 /\ calls[1] = 0 /\ calls \in Seq(Codes)
      BY <1>1 DEF CallInv, Where, TypeOK
<1>3. Len(calls') = 3 /\ calls'[1] = 0 /\ calls' \in Seq(Codes) /\ calls' # <<>>
      BY <1>1, <1>2, Called
<1>4. calls[2] \in Nat
  <2>1. 2 \in 1..Len(calls)
        BY <1>2
  <2>2. calls[2] \in Codes
        BY <1>2, <2>1, Element
  <2>3. QED
        BY <2>2, CodesAre
<1>5. code \in Nat
      BY <1>4, CodesAre
<1>6. Status("STOPPED", FALSE, code) \in Values /\ "returned" \in Labels \ {"write"}
      BY <1>5, StatusType DEF Labels
<1>7. TypeOK' /\ Where' = "returned" /\ job'["handler"] = job["handler"]
      BY <1>1, <1>3, <1>6, ServiceReports
<1>8. QED
      BY <1>1, <1>2, <1>3, <1>7 DEF CallInv, Ended

\* One assignment, or the call of SetServiceStatus, of either thread.
LEMMA WriteKeeps ==
    ASSUME TypeOK, CallInv, NEW t \in Threads,
           WriteEnds(t) \/ \E f \in Fields : WriteField(t, f)
    PROVE  /\ TypeOK' /\ CallInv' /\ Where' = Where
           /\ UNCHANGED <<process, calls, s_stop_requested, upsets, control>>
<1>1. UNCHANGED <<process, calls, s_stop_requested, upsets, control>>
      BY DEF WriteEnds, WriteField
<1>2. Ended' = Ended
      BY <1>1 DEF Ended
<1>3. ASSUME NEW f \in Fields, WriteField(t, f)
      PROVE  TypeOK' /\ CallInv' /\ Where' = Where
  <2>1. /\ TypeOK' /\ pc' = pc
        /\ s_status'[f] = job[t].value[f]
        /\ \A g \in Fields \ {f} : s_status'[g] = s_status[g]
        /\ job'[t].value = job[t].value /\ job'[t].next = job[t].next
        /\ \A u \in Threads \ {t} : job'[u] = job[u]
        BY <1>3, FieldStep
  <2>2. \A u \in Threads : job'[u].value = job[u].value /\ job'[u].next = job[u].next
        BY <2>1
  <2>3. s_status'.state \in {s_status.state, job[t].value.state}
        BY <2>1, ThreadsAre
  <2>4. Where' = Where
        BY <2>1, <2>2, ThreadsAre DEF Where
  <2>5. scm' = scm
        BY <1>3 DEF WriteField
  <2>6. s_status'.state = "STOPPED" => Ended
        BY <2>3, ThreadsAre DEF CallInv
  <2>7. QED
        BY <1>1, <1>2, <2>1, <2>2, <2>4, <2>5, <2>6, ThreadsAre DEF CallInv
<1>4. ASSUME WriteEnds(t)
      PROVE  TypeOK' /\ CallInv' /\ Where' = Where
  <2>1. /\ TypeOK' /\ job' = job /\ s_status' = s_status
        /\ pc[t] = "write" /\ pc'[t] = job[t].next
        /\ \A u \in Threads \ {t} : pc'[u] = pc[u]
        /\ scm' = scm \/ scm' = s_status
        BY <1>4, EndsStep
  <2>2. CASE t = "service" /\ job["service"].next # "write"
        BY <1>1, <1>2, <2>1, <2>2 DEF CallInv, Where
  <2>3. CASE t = "handler"
        BY <1>1, <1>2, <2>1, <2>3, ThreadsAre DEF CallInv, Where
  <2>4. CASE t = "service" /\ job["service"].next = "write"
        BY <1>1, <1>2, <2>1, <2>4 DEF CallInv, Where
  <2>5. QED
        BY <2>2, <2>3, <2>4, ThreadsAre
<1>5. QED
      BY <1>1, <1>3, <1>4

\* The handler's other steps.
Handling ==
    \/ HandleStop \/ RequestStop \/ HandlePreshutdown \/ HandleEvent
    \/ HandleParamChange \/ HandleInterrogate
    \/ \E c \in Controls : Send(c)

\* The handler begins a report.
LEMMA HandlerReports ==
    ASSUME TypeOK, NEW v \in Values, NEW next \in Labels,
           Report("handler", v, next), s_status' = s_status, scm' = scm,
           calls' = calls
    PROVE  /\ TypeOK' /\ pc'["service"] = pc["service"]
           /\ pc'["handler"] = "write" /\ job'["service"] = job["service"]
           /\ job'["handler"].value = v /\ job'["handler"].next = next
           /\ job'["handler"].left = Fields
<1>1. /\ pc' \in [Threads -> Labels]
      /\ job' \in [Threads -> [value : Values, left : SUBSET Fields, next : Labels]]
      /\ pc'["handler"] = "write" /\ pc'["service"] = pc["service"]
      /\ job'["handler"].value = v /\ job'["handler"].next = next
      /\ job'["service"] = job["service"] /\ job'["handler"].left = Fields
      BY ReportStep, ThreadsAre
<1>2. QED
      BY <1>1 DEF TypeOK

LEMMA HandlerKeeps ==
    ASSUME TypeOK, CallInv, Handling
    PROVE  /\ TypeOK' /\ CallInv' /\ Where' = Where
           /\ process = "alive" /\ process' = process /\ calls' = calls
<1>1. /\ process = "alive" /\ process' = process /\ calls' = calls
      /\ s_status' = s_status
      BY DEF Handling, HandleStop, RequestStop, HandlePreshutdown, HandleEvent,
             HandleParamChange, HandleInterrogate, Send, At, handlerFrame
<1>2. Ended' = Ended
      BY <1>1 DEF Ended
<1>3. CASE HandleStop \/ HandlePreshutdown
  <2>1. Report("handler", Status("STOP_PENDING", FALSE, 0), "request_stop") /\ scm' = scm
        BY <1>3 DEF HandleStop, HandlePreshutdown, set_service_status
  <2>2. /\ Status("STOP_PENDING", FALSE, 0) \in Values /\ "request_stop" \in Labels
        /\ Status("STOP_PENDING", FALSE, 0).state = "STOP_PENDING"
        BY StatusType DEF Labels
  <2>3. /\ TypeOK' /\ pc'["service"] = pc["service"] /\ job'["service"] = job["service"]
        /\ job'["handler"].value.state = "STOP_PENDING"
        BY <1>1, <2>1, <2>2, HandlerReports
  <2>4. QED
        BY <1>1, <1>2, <2>1, <2>3 DEF CallInv, Where
<1>4. CASE HandleParamChange
  <2>1. Report("handler", Status("RUNNING", TRUE, 0), "idle") /\ scm' = scm
        BY <1>4 DEF HandleParamChange, set_service_status
  <2>2. /\ Status("RUNNING", TRUE, 0) \in Values /\ "idle" \in Labels
        /\ Status("RUNNING", TRUE, 0).state = "RUNNING"
        BY StatusType DEF Labels
  <2>3. /\ TypeOK' /\ pc'["service"] = pc["service"] /\ job'["service"] = job["service"]
        /\ job'["handler"].value.state = "RUNNING"
        BY <1>1, <2>1, <2>2, HandlerReports
  <2>4. QED
        BY <1>1, <1>2, <2>1, <2>3 DEF CallInv, Where
<1>5. CASE RequestStop \/ HandleEvent \/ HandleInterrogate \/ \E c \in Controls : Send(c)
  <2>1. /\ job' = job /\ (scm' = scm \/ scm' = s_status)
        /\ \E label \in {"idle", "control"} : Goto("handler", label)
        BY <1>5 DEF RequestStop, HandleEvent, HandleInterrogate, Send, SetServiceStatus
  <2>2. pc' \in [Threads -> Labels] /\ pc'["service"] = pc["service"]
        BY <2>1, ThreadsAre DEF TypeOK, Goto, Labels
  <2>3. QED
        BY <1>1, <1>2, <2>1, <2>2 DEF CallInv, Where, TypeOK
<1>6. QED
      BY <1>3, <1>4, <1>5 DEF Handling

\* The process ends, or nothing happens.
Ends == RegisterFails \/ DispatcherReturns \/ UNCHANGED vars

LEMMA EndKeeps ==
    ASSUME TypeOK, CallInv, Ends
    PROVE  /\ TypeOK' /\ CallInv' /\ calls' = calls
           /\ \/ process' = process
              \/ process = "alive" /\ process' = "abandoned" /\ calls = <<>>
              \/ process = "alive" /\ process' = "exited" /\ Ended
<1>1. CASE RegisterFails
  <2>1. /\ pc["service"] = "register" /\ process = "alive" /\ process' = "abandoned"
        /\ pc' = [pc EXCEPT !["service"] = "returned"]
        /\ UNCHANGED <<job, s_status, calls, scm>>
        BY <1>1 DEF RegisterFails, At, Goto
  <2>2. pc'["service"] = "returned" /\ TypeOK'
        BY <2>1, ThreadsAre DEF TypeOK, Labels
  <2>3. Where = "register" /\ Where' = "returned"
        BY <2>1, <2>2 DEF Where
  <2>4. QED
        BY <2>1, <2>2, <2>3 DEF CallInv, Ended
<1>2. CASE DispatcherReturns
  <2>1. /\ process = "alive" /\ process' = "exited" /\ Ended
        /\ UNCHANGED <<pc, job, s_status, calls, scm>>
        BY <1>2 DEF DispatcherReturns, At, CallInv
  <2>2. QED
        BY <2>1 DEF CallInv, Ended, Where, TypeOK
<1>3. CASE UNCHANGED vars
      BY <1>3 DEF vars, CallInv, Ended, Where, TypeOK
<1>4. QED
      BY <1>1, <1>2, <1>3 DEF Ends

\* Every step is one of these.
LEMMA Actors ==
    ASSUME [Next]_vars
    PROVE  \/ RegisterHandler
           \/ \E c \in Codes : OnStart(c) \/ OnRun(c) \/ OnRunFails(c) \/ OnStop(c)
           \/ \E t \in Threads : WriteEnds(t) \/ \E f \in Fields : WriteField(t, f)
           \/ Handling
           \/ Ends
<1>1. "service" \in Threads /\ "handler" \in Threads
      BY ThreadsAre
<1>2. QED
      BY <1>1 DEF Next, Service, Handler, Environment, Quiescent, Handling, Ends

LEMMA CallsHold == Spec => [](TypeOK /\ CallInv)
<1>1. Init => TypeOK /\ CallInv
  <2> SUFFICES ASSUME Init
               PROVE  TypeOK /\ CallInv
      OBVIOUS
  <2>1. /\ NoStatus \in Values /\ NoStatus.state = "none"
        BY DEF NoStatus, Status, Values
  <2>2. TypeOK
        BY <2>1 DEF Init, TypeOK, Threads, Labels
  <2>3. pc["service"] = "register" /\ \A t \in Threads : job[t].value = NoStatus
        BY ThreadsAre DEF Init
  <2>4. QED
        BY <2>1, <2>2, <2>3, ThreadsAre DEF Init, CallInv, Where
<1>2. TypeOK /\ CallInv /\ [Next]_vars => (TypeOK /\ CallInv)'
      BY Actors, RegisterKeeps, StartKeeps, RunKeeps, StopKeeps, WriteKeeps, HandlerKeeps,
         EndKeeps
<1>3. QED
      BY <1>1, <1>2, PTL DEF Spec

\* The threads, their reports, s_status and the SCM's copy keep their types.
THEOREM TypeCorrect == Spec => []TypeOK
BY CallsHold, PTL

-----------------------------------------------------------------------------
(* The lifecycle contract                                                  *)

LEMMA FirstFailureIs ==
    ASSUME calls \in Seq(Codes)
    PROVE  /\ (\A i \in 1..Len(calls) : calls[i] = 0) => FirstFailure = 0
           /\ \A i \in 1..Len(calls) :
                 calls[i] # 0 /\ (\A j \in 1..(i - 1) : calls[j] = 0)
                 => FirstFailure = calls[i]
<1> DEFINE failed == {i \in DOMAIN calls : calls[i] # 0}
<1>1. DOMAIN calls = 1..Len(calls) /\ Len(calls) \in Nat
      OBVIOUS
<1>2. ASSUME NEW i \in 1..Len(calls), calls[i] # 0, \A j \in 1..(i - 1) : calls[j] = 0
      PROVE  FirstFailure = calls[i]
  <2>1. i \in failed /\ \A j \in failed : i <= j
        BY <1>1, <1>2
  <2>2. \A k \in failed : (\A j \in failed : k <= j) => k = i
        BY <1>1, <2>1
  <2>3. (CHOOSE k \in failed : \A j \in failed : k <= j) = i
        BY <2>1, <2>2
  <2>4. QED
        BY <2>1, <2>3 DEF FirstFailure
<1>3. QED
      BY <1>1, <1>2 DEF FirstFailure

\* The result of the callbacks by how many have returned.
Outcomes ==
    /\ calls = <<>> => FirstFailure = 0
    /\ Len(calls) = 1 => FirstFailure = calls[1]
    /\ Len(calls) = 2 /\ calls[1] = 0 => FirstFailure = calls[2]
    /\ Len(calls) = 3 /\ calls[1] = 0
          => FirstFailure = IF calls[2] # 0 THEN calls[2] ELSE calls[3]

LEMMA OutcomesAre ==
    ASSUME calls \in Seq(Codes)
    PROVE  Outcomes
<1>1. calls = <<>> => FirstFailure = 0
      BY FirstFailureIs
<1>2. Len(calls) = 1 => FirstFailure = calls[1]
      BY FirstFailureIs
<1>3. Len(calls) = 2 /\ calls[1] = 0 => FirstFailure = calls[2]
      BY FirstFailureIs
<1>4. ASSUME Len(calls) = 3, calls[1] = 0
      PROVE  FirstFailure = IF calls[2] # 0 THEN calls[2] ELSE calls[3]
  <2>1. CASE calls[2] # 0
        BY <1>4, <2>1, FirstFailureIs
  <2>2. CASE calls[2] = 0 /\ calls[3] # 0
        BY <1>4, <2>2, FirstFailureIs
  <2>3. CASE calls[2] = 0 /\ calls[3] = 0
        BY <1>4, <2>3, FirstFailureIs
  <2>4. QED
        BY <2>1, <2>2, <2>3
<1>5. QED
      BY <1>1, <1>2, <1>3, <1>4 DEF Outcomes

Phases ==
    /\ process = "exited" => Phase = "stopped"
    /\ process = "abandoned" => Phase = "killed"
    /\ process = "alive" =>
          /\ calls = <<>> => Phase = "starting"
          /\ Len(calls) = 1 /\ calls[1] = 0 => Phase = "running"
          /\ Len(calls) = 2 => Phase = "stopping"
          /\ Ended => Phase = "ending"

LEMMA PhasesAre ==
    Phases
BY DEF Phases, Phase, Ended

Contract == TypeOK /\ CallInv /\ Outcomes /\ Phases

LEMMA ContractHolds == Spec => []Contract
<1>1. TypeOK /\ CallInv => Contract
      BY OutcomesAre, PhasesAre DEF Contract, TypeOK
<1>2. QED
      BY <1>1, CallsHold, PTL

\* The order of the callbacks and the result are those of the framework's
\* contract, and the process ends after the last callback only, whatever
\* order the assignments to s_status take.
THEOREM LifecycleSafeHolds == Spec => LifecycleSafe
<1>1. Init => Lifecycle!Init
  <2> SUFFICES ASSUME Init
               PROVE  Lifecycle!Init
      OBVIOUS
  <2>1. calls = <<>> /\ calls \in Seq(Codes) /\ process = "alive" /\ s_stop_requested = FALSE
        BY DEF Init
  <2>2. FirstFailure = 0 /\ Phase = "starting"
        BY <2>1, OutcomesAre, PhasesAre DEF Outcomes, Phases
  <2>3. QED
        BY <2>1, <2>2 DEF Lifecycle!Init
<1>2. ASSUME Contract, Contract', [Next]_vars
      PROVE  [Lifecycle!Next]_(Lifecycle!lifecycleVars)
  <2>1. ASSUME process' = process, calls' = calls
        PROVE  Phase' = Phase /\ FirstFailure' = FirstFailure
        BY <2>1 DEF Phase, FirstFailure
  <2>2. ASSUME NEW c \in Codes, OnStart(c)
        PROVE  Lifecycle!Start(c)
    <3>1. calls = <<>> /\ process = "alive" /\ process' = "alive" /\ calls \in Seq(Codes)
          BY <1>2, <2>2, StartKeeps DEF Contract, TypeOK
    <3>2. calls' = Append(calls, c) /\ s_stop_requested' = s_stop_requested
          BY <2>2 DEF OnStart, serviceFrame
    <3>3. Len(calls') = 1 /\ calls'[1] = c
          BY <3>1, <3>2, Called
    <3>4. Phase = "starting" /\ FirstFailure = 0 /\ FirstFailure' = c
          BY <1>2, <3>1, <3>3 DEF Contract, Outcomes, Phases
    <3>5. Phase' = IF c = 0 THEN "running" ELSE "ending"
          BY <1>2, <3>1, <3>3 DEF Contract, Phases, Ended
    <3>6. QED
          BY <3>2, <3>4, <3>5 DEF Lifecycle!Start
  <2>3. ASSUME NEW c \in Codes, OnRun(c) \/ OnRunFails(c)
        PROVE  Lifecycle!Run(c)
    <3>1. /\ Len(calls) = 1 /\ calls[1] = 0 /\ process = "alive" /\ process' = "alive"
          /\ calls \in Seq(Codes)
          BY <1>2, <2>3, RunKeeps DEF Contract, TypeOK
    <3>2. /\ calls' = Append(calls, c) /\ s_stop_requested' = s_stop_requested
          /\ s_stop_requested \/ c # 0
          BY <2>3 DEF OnRun, OnRunFails, serviceFrame
    <3>3. Len(calls') = 2 /\ calls'[1] = 0 /\ calls'[2] = c
          BY <3>1, <3>2, Called
    <3>4. Phase = "running" /\ FirstFailure' = c
          BY <1>2, <3>1, <3>3 DEF Contract, Outcomes, Phases
    <3>5. Phase' = "stopping"
          BY <1>2, <3>1, <3>3 DEF Contract, Phases
    <3>6. QED
          BY <3>2, <3>4, <3>5 DEF Lifecycle!Run
  <2>4. ASSUME NEW c \in Codes, OnStop(c)
        PROVE  Lifecycle!Stop(c)
    <3>1. /\ Len(calls) = 2 /\ calls[1] = 0 /\ process = "alive" /\ process' = "alive"
          /\ calls \in Seq(Codes)
          BY <1>2, <2>4, StopKeeps DEF Contract, TypeOK
    <3>2. calls' = Append(calls, c) /\ s_stop_requested' = s_stop_requested
          BY <2>4 DEF OnStop, serviceFrame
    <3>3. Len(calls') = 3 /\ calls'[1] = 0 /\ calls'[2] = calls[2] /\ calls'[3] = c
          BY <3>1, <3>2, Called
    <3>4. Phase = "stopping" /\ FirstFailure = calls[2]
          BY <1>2, <3>1 DEF Contract, Outcomes, Phases
    <3>5. FirstFailure' = IF calls[2] # 0 THEN calls[2] ELSE c
          BY <1>2, <3>3 DEF Contract, Outcomes
    <3>6. Phase' = "ending"
          BY <1>2, <3>1, <3>3 DEF Contract, Phases, Ended
    <3>7. QED
          BY <3>2, <3>4, <3>5, <3>6 DEF Lifecycle!Stop
  <2>5. ASSUME Handling
        PROVE  Lifecycle!RequestStop \/ UNCHANGED Lifecycle!lifecycleVars
    <3>1. process = "alive" /\ process' = process /\ calls' = calls
          BY <1>2, <2>5, HandlerKeeps DEF Contract
    <3>2. s_stop_requested' = s_stop_requested \/ s_stop_requested' = TRUE
          BY <2>5 DEF Handling, HandleStop, RequestStop, HandlePreshutdown, HandleEvent,
                      HandleParamChange, HandleInterrogate, Send
    <3>3. Phase \notin {"stopped", "killed"}
          BY <3>1 DEF Phase
    <3>4. QED
          BY <2>1, <3>1, <3>2, <3>3 DEF Lifecycle!RequestStop, Lifecycle!lifecycleVars
  <2>6. ASSUME Ends
        PROVE  Lifecycle!Exit \/ Lifecycle!Kill \/ UNCHANGED Lifecycle!lifecycleVars
    <3>1. /\ calls' = calls
          /\ \/ process' = process
             \/ process = "alive" /\ process' = "abandoned" /\ calls = <<>>
             \/ process = "alive" /\ process' = "exited" /\ Ended
          BY <1>2, <2>6, EndKeeps DEF Contract
    <3>2. /\ s_stop_requested' = s_stop_requested /\ FirstFailure' = FirstFailure
          BY <2>6, <3>1 DEF Ends, RegisterFails, DispatcherReturns, vars, FirstFailure
    <3>3. CASE process' = process
          BY <2>1, <3>1, <3>2, <3>3 DEF Lifecycle!lifecycleVars
    <3>4. CASE process = "alive" /\ process' = "abandoned" /\ calls = <<>>
          BY <1>2, <3>2, <3>4 DEF Contract, Phases, Lifecycle!Kill
    <3>5. CASE process = "alive" /\ process' = "exited" /\ Ended
          BY <1>2, <3>2, <3>5 DEF Contract, Phases, Lifecycle!Exit
    <3>6. QED
          BY <3>1, <3>3, <3>4, <3>5
  <2>7. CASE \/ RegisterHandler
             \/ \E t \in Threads : WriteEnds(t) \/ \E f \in Fields : WriteField(t, f)
    <3>1. UNCHANGED <<process, calls, s_stop_requested>>
          BY <2>7 DEF RegisterHandler, serviceFrame, WriteEnds, WriteField
    <3>2. QED
          BY <2>1, <3>1 DEF Lifecycle!lifecycleVars
  <2>8. QED
        BY <1>2, <2>2, <2>3, <2>4, <2>5, <2>6, <2>7, Actors DEF Lifecycle!Next
<1>3. QED
      BY <1>1, <1>2, ContractHolds, PTL DEF Spec, LifecycleSafe, Lifecycle!SafeSpec

-----------------------------------------------------------------------------
(* What is reported                                                        *)

\* What a thread reports when it goes on where it does.
JobInv ==
    /\ pc["service"] = "write" =>
          /\ job["service"].next \in {"on_start", "on_run", "on_stop", "returned"}
          /\ job["service"].value.accepts => job["service"].next = "on_run"
          /\ job["service"].next \in {"on_stop", "returned"}
                => job["service"].value.state \in {"STOP_PENDING", "STOPPED"}
          /\ job["service"].value.state = "STOP_PENDING" => job["service"].next = "on_stop"
    /\ job["service"].value.state = "STOPPED"
          => ~job["service"].value.accepts /\ job["service"].value.code = FirstFailure
    /\ pc["handler"] = "write" =>
          /\ job["handler"].next \in {"idle", "request_stop"}
          /\ job["handler"].next = "request_stop"
                => job["handler"].value.state = "STOP_PENDING" /\ ~job["handler"].value.accepts
          /\ job["handler"].value.state = "STOP_PENDING" => job["handler"].next = "request_stop"

\* What a report makes of pc and job.
LEMMA ReportEffect ==
    ASSUME TypeOK, NEW t \in Threads, NEW v, NEW next, Report(t, v, next)
    PROVE  /\ pc'[t] = "write" /\ job'[t].value = v /\ job'[t].left = Fields
           /\ job'[t].next = next
           /\ \A u \in Threads \ {t} : pc'[u] = pc[u] /\ job'[u] = job[u]
BY DEF TypeOK, Report, Goto

\* A callback returns: the service thread reports.
LEMMA CallbackReports ==
    ASSUME Contract, Contract', NEW c \in Codes,
           OnStart(c) \/ OnRun(c) \/ OnRunFails(c) \/ OnStop(c)
    PROVE  \E v, next :
              /\ Report("service", v, next)
              /\ \/ v = Status("RUNNING", TRUE, 0) /\ next = "on_run" /\ OnStart(c)
                 \/ v = Status("STOP_PENDING", FALSE, 0) /\ next = "on_stop"
                       /\ (OnRun(c) \/ OnRunFails(c))
                 \/ v = Status("STOPPED", FALSE, FirstFailure') /\ next = "returned"
                       /\ (OnStart(c) \/ OnStop(c))
<1>1. ASSUME OnStart(c)
      PROVE  c # 0 => FirstFailure' = c
  <2>1. calls = <<>> /\ calls' = Append(calls, c) /\ calls \in Seq(Codes)
        BY <1>1, StartKeeps DEF OnStart, Contract, TypeOK
  <2>2. Len(calls') = 1 /\ calls'[1] = c
        BY <2>1, Called
  <2>3. QED
        BY <2>2 DEF Contract, Outcomes
<1>2. ASSUME OnStop(c)
      PROVE  FirstFailure' = IF calls[2] # 0 THEN calls[2] ELSE c
  <2>1. Len(calls) = 2 /\ calls[1] = 0 /\ calls' = Append(calls, c) /\ calls \in Seq(Codes)
        BY <1>2, StopKeeps DEF OnStop, Contract, TypeOK
  <2>2. Len(calls') = 3 /\ calls'[1] = 0 /\ calls'[2] = calls[2] /\ calls'[3] = c
        BY <2>1, Called
  <2>3. QED
        BY <2>2 DEF Contract, Outcomes
<1>3. CASE OnStart(c) /\ c = 0
      BY <1>3 DEF OnStart, set_service_status
<1>4. CASE OnStart(c) /\ c # 0
      BY <1>1, <1>4 DEF OnStart, set_service_stopped
<1>5. CASE OnRun(c) \/ OnRunFails(c)
      BY <1>5 DEF OnRun, OnRunFails, set_service_status
<1>6. CASE OnStop(c)
      BY <1>2, <1>6 DEF OnStop, set_service_stopped
<1>7. QED
      BY <1>3, <1>4, <1>5, <1>6

LEMMA JobsKept ==
    ASSUME Contract, Contract', JobInv, [Next]_vars
    PROVE  JobInv'
<1>0. TypeOK /\ CallInv
      BY DEF Contract
<1>1. CASE RegisterHandler
  <2>1. Report("service", Status("START_PENDING", FALSE, 0), "on_start") /\ calls' = calls
        BY <1>1 DEF RegisterHandler, set_service_status
  <2>2. /\ pc'["service"] = "write" /\ job'["service"].next = "on_start"
        /\ job'["service"].value = Status("START_PENDING", FALSE, 0)
        /\ pc'["handler"] = pc["handler"] /\ job'["handler"] = job["handler"]
        BY <1>0, <2>1, ReportEffect, ThreadsAre
  <2>3. QED
        BY <2>2 DEF JobInv, Status
<1>2. ASSUME NEW c \in Codes, OnStart(c) \/ OnRun(c) \/ OnRunFails(c) \/ OnStop(c)
      PROVE  JobInv'
  <2>1. PICK v, next :
              /\ Report("service", v, next)
              /\ \/ v = Status("RUNNING", TRUE, 0) /\ next = "on_run"
                 \/ v = Status("STOP_PENDING", FALSE, 0) /\ next = "on_stop"
                 \/ v = Status("STOPPED", FALSE, FirstFailure') /\ next = "returned"
        BY <1>2, CallbackReports
  <2>2. /\ pc'["service"] = "write" /\ job'["service"].value = v
        /\ job'["service"].next = next
        /\ pc'["handler"] = pc["handler"] /\ job'["handler"] = job["handler"]
        BY <1>0, <2>1, ReportEffect, ThreadsAre
  <2>3. QED
        BY <2>1, <2>2 DEF JobInv, Status
<1>3. ASSUME NEW t \in Threads, WriteEnds(t) \/ \E f \in Fields : WriteField(t, f)
      PROVE  JobInv'
  <2>1. FirstFailure' = FirstFailure
    <3>1. calls' = calls
          BY <1>3 DEF WriteEnds, WriteField
    <3>2. QED
          BY <3>1 DEF FirstFailure
  <2>2. \A u \in Threads : /\ job'[u].value = job[u].value /\ job'[u].next = job[u].next
                           /\ pc'[u] = "write" => pc[u] = "write"
    <3>1. CASE WriteEnds(t)
          BY <1>0, <3>1, EndsStep
    <3>2. ASSUME NEW f \in Fields, WriteField(t, f)
          PROVE  \A u \in Threads : /\ job'[u].value = job[u].value
                                     /\ job'[u].next = job[u].next /\ pc'[u] = pc[u]
          BY <1>0, <3>2, FieldStep
    <3>3. QED
          BY <1>3, <3>1, <3>2
  <2>3. QED
        BY <2>1, <2>2, ThreadsAre DEF JobInv
<1>4. CASE Handling
  <2>1. FirstFailure' = FirstFailure
        BY <1>0, <1>4, HandlerKeeps DEF FirstFailure
  <2>2. CASE HandleStop \/ HandlePreshutdown
    <3>1. Report("handler", Status("STOP_PENDING", FALSE, 0), "request_stop")
          BY <2>2 DEF HandleStop, HandlePreshutdown, set_service_status
    <3>2. /\ job'["handler"].next = "request_stop"
          /\ job'["handler"].value = Status("STOP_PENDING", FALSE, 0)
          /\ pc'["service"] = pc["service"] /\ job'["service"] = job["service"]
          BY <1>0, <3>1, ReportEffect, ThreadsAre
    <3>3. QED
          BY <2>1, <3>2 DEF JobInv, Status
  <2>3. CASE HandleParamChange
    <3>1. Report("handler", Status("RUNNING", TRUE, 0), "idle")
          BY <2>3 DEF HandleParamChange, set_service_status
    <3>2. /\ job'["handler"].next = "idle"
          /\ job'["handler"].value = Status("RUNNING", TRUE, 0)
          /\ pc'["service"] = pc["service"] /\ job'["service"] = job["service"]
          BY <1>0, <3>1, ReportEffect, ThreadsAre
    <3>3. QED
          BY <2>1, <3>2 DEF JobInv, Status
  <2>4. CASE RequestStop \/ HandleEvent \/ HandleInterrogate \/ \E c \in Controls : Send(c)
    <3>1. job' = job /\ \E label \in {"idle", "control"} : Goto("handler", label)
          BY <2>4 DEF RequestStop, HandleEvent, HandleInterrogate, Send
    <3>2. pc'["service"] = pc["service"] /\ pc'["handler"] # "write"
          BY <1>0, <3>1, ThreadsAre DEF TypeOK, Goto
    <3>3. QED
          BY <2>1, <3>1, <3>2 DEF JobInv
  <2>5. QED
        BY <1>4, <2>2, <2>3, <2>4 DEF Handling
<1>5. CASE Ends
  <2>0. FirstFailure' = FirstFailure
        BY <1>0, <1>5, EndKeeps DEF FirstFailure
  <2>1. /\ job' = job /\ pc'["handler"] = pc["handler"]
        /\ pc'["service"] = "write" => pc["service"] = "write"
    <3>1. CASE RegisterFails
          BY <1>0, <3>1, ThreadsAre DEF RegisterFails, Goto, TypeOK
    <3>2. CASE DispatcherReturns \/ UNCHANGED vars
          BY <3>2 DEF DispatcherReturns, vars
    <3>3. QED
          BY <1>5, <3>1, <3>2 DEF Ends
  <2>2. QED
        BY <2>0, <2>1 DEF JobInv
<1>6. QED
      BY <1>1, <1>2, <1>3, <1>4, <1>5, Actors

LEMMA JobsHold == Spec => [](Contract /\ JobInv)
<1>1. Init => JobInv
  <2> SUFFICES ASSUME Init
               PROVE  JobInv
      OBVIOUS
  <2>1. pc["service"] = "register" /\ pc["handler"] = "idle"
        BY ThreadsAre DEF Init
  <2>2. job["service"].value.state = "none"
        BY ThreadsAre DEF Init, NoStatus, Status
  <2>3. QED
        BY <2>1, <2>2 DEF JobInv
<1>2. Contract /\ Contract' /\ JobInv /\ [Next]_vars => JobInv'
      BY JobsKept
<1>3. QED
      BY <1>1, <1>2, ContractHolds, PTL DEF Spec

-----------------------------------------------------------------------------
(* Taking turns: one thread at a time reports                              *)

\* The handler is about a control that may change the status.
Busy ==
    \/ pc["handler"] \in {"write", "request_stop"}
    \/ pc["handler"] = "control" /\ control # "INTERROGATE"

\* While it is, service_main waits in on_run for a stop that nobody has asked
\* for; so a half written s_status holds fields of one report only.
Calm ==
    /\ Busy => pc["service"] = "on_run" /\ ~s_stop_requested
    /\ scm.accepts => pc["service"] = "on_run" /\ ~s_stop_requested
    /\ pc["handler"] = "request_stop" => ~scm.accepts
    /\ Where \in {"register", "on_start"} => ~s_stop_requested
    /\ pc["service"] = "write" /\ Where = "on_run" => ~s_stop_requested
    /\ Where = "on_stop" => s_stop_requested
    /\ \A t \in Threads : pc[t] = "write" =>
           \A f \in Fields \ job[t].left : s_status[f] = job[t].value[f]
    /\ scm.state = "STOPPED" => ~scm.accepts /\ scm.code = FirstFailure
    /\ scm.state = "STOP_PENDING" =>
          /\ s_status.state \in {"STOP_PENDING", "STOPPED"}
          /\ pc["handler"] = "request_stop" \/ s_stop_requested

LEMMA CalmRegister ==
    ASSUME Contract, JobInv, Calm, RegisterHandler
    PROVE  Calm'
<1>1. /\ Report("service", Status("START_PENDING", FALSE, 0), "on_start")
      /\ pc["service"] = "register"
      /\ UNCHANGED <<s_status, s_stop_requested, control, scm, calls>>
      BY DEF RegisterHandler, set_service_status, serviceFrame, At
<1>2. /\ pc'["service"] = "write" /\ job'["service"].next = "on_start"
      /\ job'["service"].left = Fields /\ pc'["handler"] = pc["handler"]
      BY <1>1, ReportEffect, ThreadsAre DEF Contract
<1>3. Where = "register" /\ Where' = "on_start" /\ ~Busy /\ Busy' = Busy
      BY <1>1, <1>2 DEF Where, Busy, Calm
<1>4. FirstFailure' = FirstFailure
      BY <1>1 DEF FirstFailure
<1>5. \A t \in Threads : pc'[t] = "write" => Fields \ job'[t].left = {}
      BY <1>2, <1>3, ThreadsAre DEF Busy
<1>6. QED
      BY <1>1, <1>2, <1>3, <1>4, <1>5 DEF Calm, Busy

LEMMA CalmCallback ==
    ASSUME Contract, Contract', JobInv, Calm, upsets' = {}, NEW c \in Codes,
           OnStart(c) \/ OnRun(c) \/ OnRunFails(c) \/ OnStop(c)
    PROVE  Calm'
<1>1. ~OnRunFails(c)
      BY DEF OnRunFails
<1>2. PICK v, next :
            /\ Report("service", v, next)
            /\ \/ next = "on_run" /\ OnStart(c)
               \/ next = "on_stop" /\ OnRun(c)
               \/ next = "returned" /\ (OnStart(c) \/ OnStop(c))
      BY <1>1, CallbackReports
<1>3. /\ UNCHANGED <<s_status, s_stop_requested, control, scm>>
      /\ pc["service"] \in {"on_start", "on_run", "on_stop"}
      /\ OnStart(c) => pc["service"] = "on_start"
      /\ OnStop(c) => pc["service"] = "on_stop"
      /\ OnRun(c) => pc["service"] = "on_run" /\ s_stop_requested
      BY <1>1 DEF OnStart, OnRun, OnStop, serviceFrame, At
<1>4. /\ pc'["service"] = "write" /\ job'["service"].next = next
      /\ job'["service"].left = Fields /\ pc'["handler"] = pc["handler"]
      BY <1>2, ReportEffect, ThreadsAre DEF Contract
<1>5. Where = pc["service"] /\ Where' = next
      BY <1>3, <1>4 DEF Where
<1>6. ~Busy /\ Busy' = Busy /\ ~scm.accepts
      BY <1>2, <1>3, <1>4, <1>5 DEF Busy, Calm
<1>7. ~Ended
      BY <1>3, <1>5 DEF Contract, CallInv, Ended
<1>8. scm'.state # "STOPPED"
      BY <1>3, <1>7 DEF Contract, CallInv
<1>9. \A t \in Threads : pc'[t] = "write" => Fields \ job'[t].left = {}
      BY <1>4, <1>6, ThreadsAre DEF Busy
<1>10. OnStart(c) => ~s_stop_requested
       BY <1>3, <1>5 DEF Calm
<1>11. QED
       BY <1>2, <1>3, <1>4, <1>5, <1>6, <1>8, <1>9, <1>10 DEF Calm, Busy

LEMMA CalmField ==
    ASSUME Contract, JobInv, Calm, NEW t \in Threads, NEW f \in Fields, WriteField(t, f)
    PROVE  Calm'
<1>1. /\ pc' = pc /\ pc[t] = "write" /\ f \in job[t].left
      /\ s_status'[f] = job[t].value[f]
      /\ \A g \in Fields \ {f} : s_status'[g] = s_status[g]
      /\ job'[t].left = job[t].left \ {f}
      /\ job'[t].value = job[t].value /\ job'[t].next = job[t].next
      /\ \A u \in Threads \ {t} : job'[u] = job[u]
      BY FieldStep DEF Contract
<1>2. UNCHANGED <<s_stop_requested, control, scm, calls>>
      BY DEF WriteField
<1>3. FirstFailure' = FirstFailure /\ Busy' = Busy
      BY <1>1, <1>2 DEF FirstFailure, Busy
<1>4. Where' = Where
      BY <1>1, ThreadsAre DEF Where
<1>5. \A u \in Threads : pc[u] = "write" => u = t
      BY <1>1, ThreadsAre DEF Calm, Busy
<1>6. \A g \in Fields \ job'[t].left : s_status'[g] = job'[t].value[g]
      BY <1>1, ThreadsAre DEF Calm
<1>7. scm.state = "STOP_PENDING" => s_status'.state \in {"STOP_PENDING", "STOPPED"}
  <2>1. SUFFICES ASSUME scm.state = "STOP_PENDING", f = "state"
                 PROVE  s_status'.state \in {"STOP_PENDING", "STOPPED"}
        BY <1>1, ThreadsAre DEF Calm
  <2>2. pc["handler"] # "write" /\ t = "service" /\ s_stop_requested
        BY <1>1, <2>1, ThreadsAre DEF Calm, Busy
  <2>3. Where = job["service"].next /\ Where \in {"on_stop", "returned"}
        BY <1>1, <2>2 DEF JobInv, Calm, Where
  <2>4. QED
        BY <1>1, <2>1, <2>2, <2>3 DEF JobInv
<1>8. QED
      BY <1>1, <1>2, <1>3, <1>4, <1>5, <1>6, <1>7 DEF Calm

LEMMA CalmEnds ==
    ASSUME Contract, JobInv, Calm, NEW t \in Threads, WriteEnds(t)
    PROVE  Calm'
<1>1. /\ job' = job /\ s_status' = s_status
      /\ pc[t] = "write" /\ job[t].left = {} /\ pc'[t] = job[t].next
      /\ \A u \in Threads \ {t} : pc'[u] = pc[u]
      BY EndsStep DEF Contract
<1>2. UNCHANGED <<s_stop_requested, control, calls>> /\ SetServiceStatus
      BY DEF WriteEnds
<1>3. FirstFailure' = FirstFailure
      BY <1>2 DEF FirstFailure
<1>4. \A u \in Threads : pc[u] = "write" => u = t
      BY <1>1, ThreadsAre DEF Calm, Busy
<1>5. /\ s_status.state = job[t].value.state /\ s_status.accepts = job[t].value.accepts
      /\ s_status.code = job[t].value.code
      BY <1>1, ThreadsAre DEF Calm
<1>6. scm' = scm \/ scm' = s_status
      BY <1>2 DEF SetServiceStatus
<1>7. job[t].next # "write"
      BY <1>1, ThreadsAre DEF JobInv
<1>8. pc'["handler"] # "write" /\ pc'["service"] # "write"
      BY <1>1, <1>4, <1>7, ThreadsAre
<1>9. CASE t = "service"
  <2>1. /\ pc'["service"] = job["service"].next /\ pc'["handler"] = pc["handler"]
        /\ ~Busy /\ Busy' = Busy /\ ~scm.accepts
        /\ Where = job["service"].next /\ Where' = Where
        BY <1>1, <1>2, <1>7, <1>9, ThreadsAre DEF Calm, Busy, Where
  <2>2. scm'.accepts => Where' = "on_run" /\ ~s_stop_requested
        BY <1>1, <1>5, <1>6, <1>9, <2>1 DEF JobInv, Calm
  <2>3. scm'.state = "STOPPED" => ~scm'.accepts /\ scm'.code = FirstFailure
        BY <1>5, <1>6, <1>9 DEF JobInv, Calm
  <2>4. scm'.state = "STOP_PENDING" =>
            s_status.state \in {"STOP_PENDING", "STOPPED"} /\ s_stop_requested
        BY <1>1, <1>5, <1>6, <1>9, <2>1 DEF JobInv, Calm, Busy
  <2>5. QED
        BY <1>1, <1>2, <1>3, <1>8, <2>1, <2>2, <2>3, <2>4 DEF Calm, Busy, Where
<1>10. CASE t = "handler"
  <2>1. /\ pc'["handler"] = job["handler"].next /\ pc'["service"] = pc["service"]
        /\ pc["service"] = "on_run" /\ ~s_stop_requested
        BY <1>1, <1>10, ThreadsAre DEF Calm, Busy
  <2>2. Where = "on_run" /\ Where' = "on_run"
        BY <2>1 DEF Where
  <2>3. scm.state # "STOPPED" /\ job["handler"].value.state # "STOPPED"
        BY <2>2 DEF Contract, CallInv, Ended
  <2>4. scm.state # "STOP_PENDING"
        BY <1>1, <1>10, <2>1 DEF Calm
  <2>5. /\ pc'["handler"] = "request_stop" => scm' = s_status /\ ~scm'.accepts
        /\ scm'.state = "STOP_PENDING" =>
              pc'["handler"] = "request_stop" /\ s_status.state = "STOP_PENDING"
        BY <1>1, <1>2, <1>5, <1>6, <1>10, <2>1, <2>3, <2>4 DEF JobInv, SetServiceStatus
  <2>6. scm'.state # "STOPPED"
        BY <1>5, <1>6, <1>10, <2>3
  <2>7. QED
        BY <1>1, <1>2, <1>3, <1>8, <2>1, <2>2, <2>5, <2>6 DEF Calm
<1>11. QED
       BY <1>9, <1>10, ThreadsAre

LEMMA CalmHandling ==
    ASSUME Contract, JobInv, Calm, upsets' = {}, Handling
    PROVE  Calm'
<1>0. /\ s_status' = s_status /\ calls' = calls /\ TypeOK
      BY DEF Handling, HandleStop, RequestStop, HandlePreshutdown, HandleEvent,
             HandleParamChange, HandleInterrogate, Send, handlerFrame, Contract
<1>1. FirstFailure' = FirstFailure
      BY <1>0 DEF FirstFailure
<1>2. CASE HandleStop \/ HandlePreshutdown \/ HandleParamChange
  <2>1. PICK v, next : Report("handler", v, next)
        BY <1>2 DEF HandleStop, HandlePreshutdown, HandleParamChange, set_service_status
  <2>2. /\ pc'["handler"] = "write" /\ job'["handler"].left = Fields
        /\ pc'["service"] = pc["service"] /\ job'["service"] = job["service"]
        BY <1>0, <2>1, ReportEffect, ThreadsAre
  <2>3. /\ Busy /\ pc["handler"] = "control"
        /\ UNCHANGED <<scm, s_stop_requested, control>>
        BY <1>2 DEF HandleStop, HandlePreshutdown, HandleParamChange, Busy, At, handlerFrame
  <2>4. pc["service"] = "on_run" /\ ~s_stop_requested /\ Where' = Where /\ Busy'
        BY <2>2, <2>3 DEF Calm, Where, Busy
  <2>5. \A t \in Threads : pc'[t] = "write" => Fields \ job'[t].left = {}
        BY <2>2, <2>4, ThreadsAre
  <2>6. QED
        BY <1>0, <1>1, <2>2, <2>3, <2>4, <2>5 DEF Calm
<1>3. CASE RequestStop
  <2>1. /\ pc["handler"] = "request_stop" /\ s_stop_requested' = TRUE
        /\ Goto("handler", "idle") /\ UNCHANGED <<job, scm, control>>
        BY <1>3 DEF RequestStop, At, handlerFrame
  <2>2. pc'["handler"] = "idle" /\ pc'["service"] = pc["service"]
        BY <1>0, <2>1, ThreadsAre DEF TypeOK, Goto
  <2>3. pc["service"] = "on_run" /\ ~scm.accepts /\ ~Busy'
        BY <2>1, <2>2 DEF Calm, Busy
  <2>4. Where = "on_run" /\ Where' = "on_run"
        BY <2>2, <2>3 DEF Where
  <2>5. \A t \in Threads : pc'[t] # "write"
        BY <2>2, <2>3, ThreadsAre
  <2>6. QED
        BY <1>0, <1>1, <2>1, <2>2, <2>3, <2>4, <2>5 DEF Calm
<1>4. CASE HandleEvent \/ \E c \in Controls : Send(c)
  <2>1. /\ UNCHANGED <<job, scm, s_stop_requested>>
        /\ \/ Goto("handler", "idle") /\ pc["handler"] = "control"
           \/ Goto("handler", "control") /\ pc["handler"] = "idle"
                /\ (control' = "INTERROGATE" \/ scm.accepts)
        BY <1>4 DEF HandleEvent, Send, At
  <2>2. /\ pc'["service"] = pc["service"]
        /\ \/ pc'["handler"] = "idle" /\ pc["handler"] = "control"
           \/ /\ pc'["handler"] = "control" /\ pc["handler"] = "idle"
              /\ (control' = "INTERROGATE" \/ scm.accepts)
        BY <1>0, <2>1, ThreadsAre DEF TypeOK, Goto
  <2>3. Where' = Where /\ (Busy' => scm.accepts)
        BY <2>1, <2>2 DEF Where, Busy
  <2>4. \A t \in Threads : pc'[t] = "write" => pc[t] = "write"
        BY <2>2, ThreadsAre
  <2>5. QED
        BY <1>0, <1>1, <2>1, <2>2, <2>3, <2>4 DEF Calm
<1>5. CASE HandleInterrogate
      BY <1>5 DEF HandleInterrogate
<1>6. QED
      BY <1>2, <1>3, <1>4, <1>5 DEF Handling

LEMMA CalmOver ==
    ASSUME Contract, JobInv, Calm, Ends
    PROVE  Calm'
<1>1. CASE RegisterFails
  <2>1. /\ pc["service"] = "register" /\ pc' = [pc EXCEPT !["service"] = "returned"]
        /\ UNCHANGED <<job, s_status, calls, s_stop_requested, control, scm>>
        BY <1>1 DEF RegisterFails, At, Goto
  <2>2. pc'["service"] = "returned" /\ pc'["handler"] = pc["handler"]
        BY <2>1, ThreadsAre DEF Contract, TypeOK
  <2>3. Where = "register" /\ Where' = "returned" /\ ~Busy /\ Busy' = Busy
        BY <2>1, <2>2 DEF Where, Busy, Calm
  <2>4. FirstFailure' = FirstFailure
        BY <2>1 DEF FirstFailure
  <2>5. \A t \in Threads : pc'[t] # "write"
        BY <2>2, <2>3, ThreadsAre DEF Busy
  <2>6. QED
        BY <2>1, <2>2, <2>3, <2>4, <2>5 DEF Calm
<1>2. CASE DispatcherReturns \/ UNCHANGED vars
  <2>1. UNCHANGED <<pc, job, s_status, calls, s_stop_requested, control, scm>>
        BY <1>2 DEF DispatcherReturns, vars
  <2>2. FirstFailure' = FirstFailure /\ Busy' = Busy /\ Where' = Where
        BY <2>1 DEF FirstFailure, Busy, Where
  <2>3. QED
        BY <2>1, <2>2 DEF Calm
<1>3. QED
      BY <1>1, <1>2 DEF Ends

CalmInv == Contract /\ JobInv /\ (upsets = {} => Calm)

\* What has once upset the service is not forgotten.
LEMMA UpsetsGrow ==
    ASSUME [Next]_vars, upsets' = {}
    PROVE  upsets = {}
BY DEF Next, Service, Handler, Environment, Quiescent, vars, RegisterHandler, OnStart,
       OnRun, OnRunFails, OnStop, WriteField, WriteEnds, serviceFrame, HandleStop,
       RequestStop, HandlePreshutdown, HandleEvent, HandleParamChange,
       HandleInterrogate, DispatcherReturns, RegisterFails, Send

LEMMA CalmHolds == Spec => []CalmInv
<1>1. Init => (upsets = {} => Calm)
  <2> SUFFICES ASSUME Init
               PROVE  Calm
      OBVIOUS
  <2>1. /\ pc["service"] = "register" /\ pc["handler"] = "idle"
        /\ ~s_stop_requested /\ ~scm.accepts /\ scm.state = "none"
        BY ThreadsAre DEF Init, NoStatus, Status
  <2>2. Where = "register" /\ ~Busy /\ \A t \in Threads : pc[t] # "write"
        BY <2>1, ThreadsAre DEF Where, Busy
  <2>3. QED
        BY <2>1, <2>2 DEF Calm
<1>2. ASSUME Contract, JobInv, Contract', upsets = {} => Calm, [Next]_vars
      PROVE  (upsets = {} => Calm)'
  <2> SUFFICES ASSUME upsets' = {}
               PROVE  Calm'
      OBVIOUS
  <2>1. Calm
        BY <1>2, UpsetsGrow
  <2>2. QED
        BY <1>2, <2>1, Actors, CalmRegister, CalmCallback, CalmField, CalmEnds,
           CalmHandling, CalmOver
<1>3. QED
      BY <1>1, <1>2, JobsHold, PTL DEF Spec, CalmInv

\* What the SCM takes for a stopped service accepts no controls and carries
\* the first failure of a callback, as long as service_main stops on request
\* only and the SCM does not interrogate the service.
THEOREM StoppedReportsFailureHolds == Spec => []StoppedReportsFailure
<1>1. CalmInv => StoppedReportsFailure
      BY DEF CalmInv, Calm, StoppedReportsFailure
<1>2. QED
      BY <1>1, CalmHolds, PTL

\* A service that is stopping never reports that it runs, under the same
\* condition.
THEOREM StopPendingIsFinalHolds == Spec => StopPendingIsFinal
<1>1. ASSUME CalmInv, [Next]_vars
      PROVE  [scm.state = "STOP_PENDING" /\ upsets = {} =>
                  scm'.state \in {"STOP_PENDING", "STOPPED"}]_scm
  <2> SUFFICES ASSUME scm.state = "STOP_PENDING", upsets = {}, scm' # scm
               PROVE  scm'.state \in {"STOP_PENDING", "STOPPED"}
      OBVIOUS
  <2>1. s_status.state \in {"STOP_PENDING", "STOPPED"}
        BY <1>1 DEF CalmInv, Calm
  <2>2. SetServiceStatus
        BY <1>1 DEF Next, Service, Handler, Environment, Quiescent, vars, RegisterHandler,
                    OnStart, OnRun, OnRunFails, OnStop, WriteField, WriteEnds,
                    serviceFrame, HandleStop, RequestStop, HandlePreshutdown,
                    HandleEvent, HandleParamChange, HandleInterrogate,
                    DispatcherReturns, RegisterFails, Send
  <2>3. scm' = s_status
        BY <2>2 DEF SetServiceStatus
  <2>4. QED
        BY <2>1, <2>3
<1>2. QED
      BY <1>1, CalmHolds, PTL DEF Spec, StopPendingIsFinal
=============================================================================
