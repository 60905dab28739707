------------------------ MODULE EventGateway_proofs ------------------------
(***************************************************************************)
(* Safety of the Event Gateway composed with the Account Service, for      *)
(* every set of requests, threads, events and commands and every bound,    *)
(* proved from one inductive invariant: that the two services agree, that  *)
(* the gateway implements EventLifecycle and the service behind it Ledger, *)
(* and, with what AccountAudit_proofs says of the audit trail, what it     *)
(* means that an event is refused in conflict or FAILED.                   *)
(***************************************************************************)
EXTENDS EventGateway, AccountAudit_proofs, FiniteSetTheorems

(* The event of a command is stored, and its row is the one the command    *)
(* asked for.                                                              *)
StoredAs(c) ==
    /\ c \in Commands
    /\ Stored(c.eventId)
    /\ events[c.eventId].row = EventRow(c)

(* An attempt under way in the Account Service, with or without a caller,  *)
(* carries a stored event.                                                 *)
AttemptsCarryStored ==
    \A t \in Threads : thread[t].pc # "idle" => StoredAs(thread[t].command)

(* The outcome of the task's event is still to come, and the task will     *)
(* bring it.                                                               *)
Delivers(task) == task.pc \in {"stored", "attempt", "waiting"}

(* A request delivers an event that is PENDING, logs the outcome it saved, *)
(* and told its client nothing that is not so.                             *)
RequestFits(task) ==
    LET e == task.command.eventId IN
    /\ task.pc # "next"
    /\ task.thread # NoThread => task.pc = "waiting"
    /\ task.answer # "none" => task.pc \in {"log", "answered"}
    /\ Delivers(task) => StoredAs(task.command) /\ HasStatus(e, {"PENDING"})
    /\ task.pc = "log" =>
           /\ StoredAs(task.command)
           /\ \/ task.answer = "CREATED" /\ HasStatus(e, {"APPLIED"})
              \/ task.answer \in {"REJECTED", "UNAVAILABLE"} /\ HasStatus(e, {"FAILED"})
    /\ task.pc = "answered" =>
           /\ task.command \in Commands
           /\ task.answer = "CREATED" => Recorded(e)
           /\ task.answer = "ACCEPTED" => HasStatus(e, {"QUEUED", "APPLIED", "FAILED"})

(* The worker delivers an event that is QUEUED.                            *)
WorkerFits(task) ==
    /\ task.pc \in {"idle", "next", "attempt", "waiting"}
    /\ task.thread # NoThread => task.pc = "waiting"
    /\ Delivers(task) =>
           StoredAs(task.command) /\ HasStatus(task.command.eventId, {"QUEUED"})

(* No two requests deliver one event: the second finds it stored.          *)
OneRequestPerEvent ==
    \A q, r \in Requests :
        /\ Delivers(call[q]) /\ Delivers(call[r])
        /\ call[q].command.eventId = call[r].command.eventId
        => q = r

(* A connection leads to a thread that works on what its caller sent, and  *)
(* a thread has one caller.                                                *)
Connections ==
    /\ \A p \in Callers :
           call[p].thread # NoThread =>
               /\ thread[call[p].thread].pc # "idle"
               /\ thread[call[p].thread].command = call[p].command
    /\ \A p, q \in Callers :
           call[p].thread # NoThread /\ call[p].thread = call[q].thread => p = q

Waiting == {e \in EventIds : deliveries[e] # NoDelivery}

QueueIsFinite == IsFiniteSet(Waiting)

TaskInv ==
    /\ \A r \in Requests : RequestFits(call[r])
    /\ WorkerFits(call[Worker])
    /\ OneRequestPerEvent
    /\ Connections

TableInv ==
    /\ AttemptsCarryStored
    /\ QueueIsFinite
    /\ LedgerKnownToGateway
    /\ AppliedMeansRecorded
    /\ QueueMatchesStatus
    /\ AuditExplainsStatus

GInv == IInv /\ GatewayTypeOK /\ TaskInv /\ TableInv

-----------------------------------------------------------------------------
(* Every step of the composition is a step of the Account Service or       *)
(* leaves it alone: what holds of the Account Service by itself holds of   *)
(* it behind the Gateway.                                                  *)
LEMMA AccountStep ==
    ASSUME TaskInv, [Next]_vars
    PROVE  [AccountNext]_accountVars
<1>1. ASSUME NEW p \in Callers, Send(p)
      PROVE  AccountNext
  <2>1. call[p].command \in Commands
    BY <1>1 DEF Send, TaskInv, RequestFits, WorkerFits, Delivers, StoredAs, Callers
  <2>2. call[p].command.accountId \in AccountIds
    BY <2>1, CommandFacts
  <2> QED
    BY <1>1, <2>1, <2>2 DEF Send, AccountNext
<1>2. ASSUME NEW p, ResponseArrives(p) \/ OutcomeUnsaved(p)
      PROVE  AccountNext
  BY <1>2 DEF ResponseArrives, OutcomeUnsaved, AccountNext
<1>3. ASSUME NEW t \in Threads, ServiceWorks(t) \/ AnswerDropped(t) \/ ServiceDatabaseFails(t)
      PROVE  AccountNext
  BY <1>3 DEF ServiceWorks, AnswerDropped, ServiceDatabaseFails, AccountNext
<1>4. ServiceRestarts => AccountNext
  BY DEF ServiceRestarts, AccountNext
<1>5. ASSUME NEW r \in Requests, RequestStep(r)
      PROVE  [AccountNext]_accountVars
  BY <1>1, <1>2, <1>5
  DEF RequestStep, BeginDelivery, ConnectionLost, LogOutcome, Respond, Callers
<1>6. CASE WorkerStep
  BY <1>1, <1>2, <1>6
  DEF WorkerStep, Poll, TakeNext, ConnectionLost, BatchDone, Callers
<1>7. CASE Fault
  BY <1>2, <1>3, <1>4, <1>7
  DEF Fault, ConnectFails, TimesOut, GatewayDatabaseError, UnavailableUnsaved,
      BalanceAttemptFails, GatewayRestarts
<1>8. CASE UNCHANGED vars
  BY <1>8 DEF vars, accountVars
<1> QED
  BY <1>3, <1>5, <1>6, <1>7, <1>8
  DEF Next, Submit, BalanceAnswered, RecoveryElapses, BackoffElapses

(* The states of the circuit breaker.                                      *)
BreakerType == [failures : 0..FailureThreshold, circuit : {"closed", "open", "elapsed"}]

(* Success, failure and the end of the recovery time keep the breaker in   *)
(* its three circuits and its count within the threshold.                  *)
LEMMA BreakerTypes ==
    ASSUME breaker \in BreakerType
    PROVE  /\ ClosedBreaker \in BreakerType
           /\ BreakerSuccess => breaker' \in BreakerType
           /\ BreakerFailure => breaker' \in BreakerType
           /\ RecoveryElapses => breaker' \in BreakerType
<1>1. ClosedBreaker \in BreakerType
  BY GatewayAssumption DEF ClosedBreaker, BreakerType
<1>2. BreakerFailure => breaker' \in BreakerType
  BY GatewayAssumption DEF BreakerFailure, BreakerType
<1>3. RecoveryElapses => breaker' \in BreakerType
  BY DEF RecoveryElapses, BreakerType
<1> QED
  BY <1>1, <1>2, <1>3 DEF BreakerSuccess

-----------------------------------------------------------------------------
(* What a step does to the tables and the tasks of the Gateway is one of   *)
(* four kinds.                                                             *)

Becomes(p, task) == call' = [call EXCEPT ![p] = task]

(* A request stores a new event.                                           *)
Accepts(r, c) ==
    /\ ~Stored(c.eventId)
    /\ events' = [events EXCEPT ![c.eventId] = [row |-> EventRow(c), status |-> "PENDING"]]
    /\ UNCHANGED <<deliveries, gatewayAudit, transactions, thread>>
    /\ Becomes(r, Task("stored", c, "none"))

(* A request queues its event.                                             *)
Queues(r) ==
    LET c == call[r].command IN
    /\ Delivers(call[r])
    /\ SetStatus(c, "QUEUED")
    /\ deliveries' = [deliveries EXCEPT ![c.eventId] = [payload |-> c, due |-> TRUE]]
    /\ \/ RecordGateway({GatewayNote("EVENT_QUEUED", c)})
       \/ RecordGateway({GatewayNote("EVENT_STORED", c), GatewayNote("EVENT_QUEUED", c)})
    /\ UNCHANGED transactions
    /\ Becomes(r, Task("answered", c, "ACCEPTED"))

(* A request or the worker brings the final outcome of its event.          *)
RequestSettles(r, status) ==
    LET c == call[r].command IN
    /\ Delivers(call[r])
    /\ SetStatus(c, status)
    /\ UNCHANGED <<deliveries, transactions>>
    /\ UNCHANGED gatewayAudit \/ RecordGateway({GatewayNote("EVENT_STORED", c)})
    /\ \/ /\ status = "APPLIED" /\ Recorded(c.eventId)
          /\ Becomes(r, Task("log", c, "CREATED"))
       \/ /\ status = "FAILED"
          /\ \E answer \in {"REJECTED", "UNAVAILABLE"} : Becomes(r, Task("log", c, answer))

WorkerSettles(status) ==
    LET c == call[Worker].command IN
    /\ Delivers(call[Worker])
    /\ SetStatus(c, status)
    /\ deliveries' = [deliveries EXCEPT ![c.eventId] = NoDelivery]
    /\ UNCHANGED transactions
    /\ Becomes(Worker, Task("next", NoCommand, "none"))
    /\ \/ /\ status = "APPLIED" /\ Recorded(c.eventId)
          /\ RecordGateway({GatewayNote("EVENT_APPLIED_FROM_QUEUE", c)})
       \/ /\ status = "FAILED"
          /\ RecordGateway({GatewayNote("EVENT_QUEUE_REJECTED", c)})

(* No status changes.  A delivery may become due or not; an audit record   *)
(* may be written that claims nothing or what is so; tasks move on.        *)
QueueStays ==
    \/ UNCHANGED deliveries
    \/ \E e \in Waiting, due \in BOOLEAN : deliveries' = [deliveries EXCEPT ![e].due = due]

Claim(action, e) ==
    \/ action \in {"EVENT_STORED", "EVENT_REPLAYED", "EVENT_CONFLICT_REJECTED",
                   "EVENT_QUEUE_RETRY_SCHEDULED"}
    \/ action = "EVENT_APPLIED" /\ HasStatus(e, {"APPLIED"})
    \/ action = "EVENT_PROCESSING_FAILED" /\ HasStatus(e, {"FAILED"})

AuditClaims ==
    \/ UNCHANGED gatewayAudit
    \/ \E action \in GatewayActions, e \in EventIds :
           /\ Claim(action, e)
           /\ gatewayAudit' = gatewayAudit \cup {[action |-> action, eventId |-> e]}

(* A request that delivers after the step did so before, and its event is  *)
(* the same.                                                               *)
TaskMoves(p, task) ==
    /\ task \in CallType
    /\ p = Worker => WorkerFits(task)
    /\ p # Worker => RequestFits(task)
    /\ p # Worker /\ Delivers(task) => Delivers(call[p]) /\ task.command = call[p].command
    /\ Becomes(p, task)

TasksStay ==
    \/ UNCHANGED call
    \/ \E p \in Callers, task \in CallType : TaskMoves(p, task)
    \/ call' = [p \in Callers |-> IdleCall]
    \/ call' = [p \in Callers |-> [call[p] EXCEPT !.thread = NoThread]]

Quiet == UNCHANGED events /\ QueueStays /\ AuditClaims /\ TasksStay

Kinds ==
    \/ \E r \in Requests, c \in Commands : Accepts(r, c)
    \/ \E r \in Requests : Queues(r)
    \/ \E r \in Requests, status \in {"APPLIED", "FAILED"} : RequestSettles(r, status)
    \/ \E status \in {"APPLIED", "FAILED"} : WorkerSettles(status)
    \/ Quiet

(* Tasks that leave the client's attempts fit.                             *)
LEMMA TaskFacts ==
    ASSUME NEW pc, NEW c, NEW answer
    PROVE  /\ Task(pc, c, answer).pc = pc
           /\ Task(pc, c, answer).command = c
           /\ Task(pc, c, answer).thread = NoThread
           /\ Task(pc, c, answer).answer = answer
           /\ /\ pc \in {"idle", "stored", "next", "attempt", "waiting", "log", "answered"}
              /\ c \in Commands \cup {NoCommand}
              /\ answer \in GatewayAnswers \cup {"none"}
              => Task(pc, c, answer) \in CallType
  BY GatewayAssumption DEF Task, CallType

(* An exception nobody expects changes no table: the request is answered,  *)
(* or the worker abandons its batch.                                       *)
LEMMA EscapesIsQuiet ==
    ASSUME GInv, NEW p \in Callers, call[p].pc \notin {"idle", "answered"}, Escapes(p)
    PROVE  Quiet
<1>1. CASE p = Worker
  <2>1. Becomes(Worker, IdleCall) /\ UNCHANGED tables
    BY <1>1 DEF Escapes, Becomes
  <2>2. IdleCall \in CallType /\ WorkerFits(IdleCall)
    BY TaskFacts DEF IdleCall, WorkerFits, Delivers
  <2>3. TaskMoves(Worker, IdleCall)
    BY <2>1, <2>2 DEF TaskMoves
  <2> QED
    BY <1>1, <2>1, <2>2, <2>3 DEF Quiet, QueueStays, AuditClaims, TasksStay, tables
<1>2. CASE p # Worker
  <2> DEFINE task == Task("answered", call[p].command, "ERROR")
  <2>1. Becomes(p, task) /\ UNCHANGED tables
    BY <1>2 DEF Escapes, RequestSays, Becomes
  <2>2. task \in CallType
    BY TaskFacts DEF GInv, GatewayTypeOK, CallType, GatewayAnswers
  <2>3. RequestFits(task)
    <3>1. call[p].command \in Commands
      BY <1>2 DEF GInv, TaskInv, RequestFits, StoredAs, Delivers, GatewayTypeOK, CallType, Callers
    <3> QED BY <3>1, TaskFacts DEF RequestFits, Delivers
  <2>4. ~Delivers(task)
    BY TaskFacts DEF Delivers
  <2>5. TaskMoves(p, task)
    BY <1>2, <2>1, <2>2, <2>3, <2>4 DEF TaskMoves
  <2> QED
    BY <2>1, <2>2, <2>5 DEF Quiet, QueueStays, AuditClaims, TasksStay, tables
<1> QED BY <1>1, <1>2

(* A task that delivers has its event stored and open.                     *)
LEMMA DeliveringTasks ==
    ASSUME GInv, NEW p \in Callers, Delivers(call[p])
    PROVE  LET c == call[p].command IN
           /\ StoredAs(c)
           /\ c \in Commands /\ c.eventId \in EventIds
           /\ HasStatus(c.eventId, {IF p = Worker THEN "QUEUED" ELSE "PENDING"})
           /\ p = Worker => c.eventId \in Waiting
<1>1. StoredAs(call[p].command)
      /\ HasStatus(call[p].command.eventId, {IF p = Worker THEN "QUEUED" ELSE "PENDING"})
  BY DEF GInv, TaskInv, RequestFits, WorkerFits, Callers
<1>2. call[p].command \in Commands /\ call[p].command.eventId \in EventIds
  BY <1>1, CommandFacts DEF StoredAs
<1>3. p = Worker => call[p].command.eventId \in Waiting
  BY <1>1, <1>2 DEF GInv, TableInv, QueueMatchesStatus, Waiting
<1> QED
  BY <1>1, <1>2, <1>3

(* The event of a request waits in the queue or fails.                     *)
LEMMA RequestUnavailableKinds ==
    ASSUME GInv, NEW r \in Requests, Delivers(call[r]), UNCHANGED transactions,
           RequestUnavailable(r, {})
               \/ RequestUnavailable(r, {GatewayNote("EVENT_STORED", call[r].command)})
    PROVE  Kinds
<1>1. CASE fallbackEnabled
  <2>1. Queues(r)
    BY <1>1 DEF RequestUnavailable, RecordGateway, RequestSays, Becomes, Queues
  <2> QED BY <2>1 DEF Kinds
<1>2. CASE ~fallbackEnabled
  <2>1. RequestSettles(r, "FAILED")
    BY <1>2 DEF RequestUnavailable, RecordGateway, RequestSays, Becomes, RequestSettles
  <2> QED BY <2>1 DEF Kinds
<1> QED BY <1>1, <1>2

(* The event of the worker stays in the queue.                             *)
LEMMA WorkerUnavailableIsQuiet ==
    ASSUME GInv, NEW c \in Commands, c.eventId \in Waiting, WorkerUnavailable(c)
    PROVE  Quiet
<1> DEFINE task == Task("next", NoCommand, "none")
<1>1. TaskMoves(Worker, task)
  BY TaskFacts DEF TaskMoves, WorkerFits, Delivers, WorkerUnavailable, WorkerMovesOn, Becomes
<1>2. QueueStays
  BY DEF WorkerUnavailable, QueueStays
<1>3. AuditClaims
  <2>1. c.eventId \in EventIds
    BY DEF Waiting
  <2>2. gatewayAudit' = gatewayAudit \cup
            {[action |-> "EVENT_QUEUE_RETRY_SCHEDULED", eventId |-> c.eventId]}
    BY DEF WorkerUnavailable, RecordGateway, GatewayNote
  <2> QED BY <2>1, <2>2 DEF AuditClaims, Claim, GatewayActions
<1> QED
  BY <1>1, <1>2, <1>3, TaskFacts DEF Quiet, TasksStay, WorkerUnavailable, Callers, TaskMoves

(* A failed attempt is followed by another, or the event waits or fails.   *)
LEMMA AttemptFailedKinds ==
    ASSUME GInv, NEW p \in Callers, call[p].pc \in {"attempt", "waiting"},
           UNCHANGED transactions, AttemptFailed(p)
    PROVE  Kinds
<1>0. Delivers(call[p])
  BY DEF Delivers
<1>1. CASE call[p].attempt + 1 < MaxAttempts
  <2> DEFINE task == [pc |-> "attempt", command |-> call[p].command,
                      attempt |-> call[p].attempt + 1, thread |-> NoThread,
                      answer |-> "none"]
  <2>1. Becomes(p, task) /\ UNCHANGED tables
    BY <1>1 DEF AttemptFailed, Becomes
  <2>2. task \in CallType
    BY <1>1, GatewayAssumption DEF GInv, GatewayTypeOK, CallType
  <2>3. p = Worker => WorkerFits(task)
    BY <1>0 DEF GInv, TaskInv, WorkerFits, Delivers
  <2>4. p # Worker => RequestFits(task)
    BY <1>0 DEF GInv, TaskInv, RequestFits, Delivers, Callers
  <2>5. TaskMoves(p, task)
    BY <1>0, <2>1, <2>2, <2>3, <2>4 DEF TaskMoves
  <2> QED
    BY <2>1, <2>2, <2>5 DEF Kinds, Quiet, QueueStays, AuditClaims, TasksStay, tables
<1>2. CASE ~(call[p].attempt + 1 < MaxAttempts)
  <2>1. CASE p = Worker
    <3>1. WorkerUnavailable(call[p].command)
      BY <1>2, <2>1 DEF AttemptFailed
    <3> QED
      BY <1>0, <2>1, <3>1, DeliveringTasks, WorkerUnavailableIsQuiet DEF Kinds
  <2>2. CASE p # Worker
    <3>1. p \in Requests /\ RequestUnavailable(p, {})
      BY <1>2, <2>2 DEF AttemptFailed, Callers
    <3> QED
      BY <1>0, <3>1, RequestUnavailableKinds
  <2> QED BY <2>1, <2>2
<1> QED BY <1>1, <1>2

(* An outcome is one of the two kinds that settle the event.               *)
LEMMA OutcomeKinds ==
    ASSUME GInv, NEW p \in Callers, Delivers(call[p]), UNCHANGED transactions,
           \/ Applied(p) /\ Recorded(call[p].command.eventId)
           \/ Rejected(p)
    PROVE  Kinds
<1>1. CASE p = Worker
  <2>1. \E status \in {"APPLIED", "FAILED"} : WorkerSettles(status)
    BY <1>1 DEF Applied, Rejected, WorkerSettles, WorkerMovesOn, Becomes
  <2> QED BY <2>1 DEF Kinds
<1>2. CASE p # Worker
  <2>1. \E status \in {"APPLIED", "FAILED"} : RequestSettles(p, status)
    BY <1>2 DEF Applied, Rejected, RequestSettles, RequestSays, Becomes
  <2> QED BY <1>2, <2>1 DEF Kinds, Callers
<1> QED BY <1>1, <1>2

(* Nothing happens to the tables, the queue or the tasks.                  *)
LEMMA NothingIsQuiet ==
    ASSUME UNCHANGED <<tables, call>>
    PROVE  Kinds
  BY DEF Kinds, Quiet, QueueStays, AuditClaims, TasksStay, tables

(* One task moves on, and it writes an audit record that is so or none.    *)
LEMMA MoveIsQuiet ==
    ASSUME NEW p \in Callers, NEW task \in CallType, TaskMoves(p, task),
           UNCHANGED <<events, deliveries>>, AuditClaims
    PROVE  Kinds
  BY DEF Kinds, Quiet, QueueStays, TasksStay

(* Submission.                                                             *)
LEMMA SubmitKinds ==
    ASSUME GInv, NEW r \in Requests, NEW c \in Commands, Submit(r, c)
    PROVE  Kinds
<1>1. CASE ~Stored(c.eventId)
  <2>1. Accepts(r, c)
    BY <1>1 DEF Submit, Accepts, Stored, Becomes, accountVars
  <2> QED BY <2>1 DEF Kinds
<1>2. CASE Stored(c.eventId)
  <2>1. PICK replay \in BOOLEAN :
            /\ RecordGateway({GatewayNote(
                   IF replay THEN "EVENT_REPLAYED" ELSE "EVENT_CONFLICT_REJECTED", c)})
            /\ Becomes(r, Task("answered", c, IF replay THEN "REPLAY" ELSE "CONFLICT"))
            /\ UNCHANGED <<events, deliveries>>
    BY <1>2 DEF Submit, Stored, Becomes, SameEvent
  <2> DEFINE task == Task("answered", c, IF replay THEN "REPLAY" ELSE "CONFLICT")
  <2>2. task \in CallType
    BY TaskFacts DEF GatewayAnswers
  <2>3. RequestFits(task) /\ ~Delivers(task)
    BY TaskFacts DEF RequestFits, Delivers
  <2>4. TaskMoves(r, task)
    BY <2>1, <2>2, <2>3, GatewayAssumption DEF TaskMoves
  <2>5. AuditClaims
    BY <2>1, CommandFacts DEF AuditClaims, Claim, GatewayActions, RecordGateway, GatewayNote
  <2> QED
    BY <2>1, <2>2, <2>4, <2>5, MoveIsQuiet DEF Callers
<1> QED BY <1>1, <1>2

(* The begin of a delivery.                                                *)
LEMMA BeginKinds ==
    ASSUME GInv, NEW r \in Requests, BeginDelivery(r)
    PROVE  Kinds
<1> DEFINE c == call[r].command
<1>1. Delivers(call[r]) /\ UNCHANGED transactions
  BY DEF BeginDelivery, Delivers, accountVars
<1>2. CASE BreakerRefuses
  BY <1>1, <1>2, RequestUnavailableKinds DEF BeginDelivery
<1>3. CASE ~BreakerRefuses
  <2> DEFINE task == [call[r] EXCEPT !.pc = "attempt"]
  <2>1. Becomes(r, task) /\ UNCHANGED <<events, deliveries>>
    BY <1>3 DEF BeginDelivery, Becomes, GInv, GatewayTypeOK, Callers
  <2>2. call[r] \in CallType
    BY DEF GInv, GatewayTypeOK, Callers
  <2>3. /\ task \in CallType
        /\ task.pc = "attempt" /\ task.command = call[r].command
        /\ task.thread = call[r].thread /\ task.answer = call[r].answer
    BY <2>2 DEF CallType
  <2>4. RequestFits(call[r]) /\ call[r].pc = "stored"
    BY DEF GInv, TaskInv, BeginDelivery
  <2>5. RequestFits(task) /\ Delivers(task)
    BY <2>3, <2>4 DEF RequestFits, Delivers
  <2>6. TaskMoves(r, task)
    BY <1>1, <2>1, <2>3, <2>5, GatewayAssumption DEF TaskMoves
  <2>7. AuditClaims
    <3>1. c.eventId \in EventIds
      BY <1>1, DeliveringTasks DEF Callers
    <3> QED
      BY <1>3, <3>1
      DEF BeginDelivery, AuditClaims, Claim, GatewayActions, RecordGateway, GatewayNote
  <2> QED
    BY <2>1, <2>3, <2>6, <2>7, MoveIsQuiet DEF Callers
<1> QED BY <1>2, <1>3

(* The audit record of an outcome, and the response.                       *)
LEMMA LogKinds ==
    ASSUME GInv, NEW r \in Requests, LogOutcome(r)
    PROVE  Kinds
<1> DEFINE task == [call[r] EXCEPT !.pc = "answered"]
<1>1. Becomes(r, task) /\ UNCHANGED <<events, deliveries>>
  BY DEF LogOutcome, Becomes
<1>2. RequestFits(call[r]) /\ call[r].pc = "log" /\ call[r] \in CallType
  BY DEF GInv, TaskInv, LogOutcome, GatewayTypeOK, Callers
<1>3. /\ task \in CallType
      /\ task.pc = "answered" /\ task.command = call[r].command
      /\ task.thread = call[r].thread /\ task.answer = call[r].answer
  BY <1>2 DEF CallType
<1>4. call[r].command.eventId \in EventIds
  BY <1>2, CommandFacts DEF RequestFits, StoredAs
<1>5. call[r].answer = "CREATED" => Recorded(call[r].command.eventId)
  BY <1>2, <1>4 DEF RequestFits, GInv, TableInv, AppliedMeansRecorded
<1>6. RequestFits(task) /\ ~Delivers(task)
  BY <1>2, <1>3, <1>5 DEF RequestFits, Delivers, StoredAs
<1>7. TaskMoves(r, task)
  BY <1>1, <1>3, <1>6, GatewayAssumption DEF TaskMoves
<1>8. AuditClaims
  BY <1>2, <1>4
  DEF LogOutcome, RequestFits, AuditClaims, Claim, GatewayActions, RecordGateway, GatewayNote
<1> QED
  BY <1>1, <1>3, <1>7, <1>8, MoveIsQuiet DEF Callers

(* The response is sent and the task is free.                              *)
LEMMA RespondKinds ==
    ASSUME GInv, NEW r \in Requests, Respond(r)
    PROVE  Kinds
<1>1. IdleCall \in CallType /\ RequestFits(IdleCall) /\ ~Delivers(IdleCall)
  BY TaskFacts DEF IdleCall, RequestFits, Delivers
<1>2. TaskMoves(r, IdleCall)
  BY <1>1, GatewayAssumption DEF TaskMoves, Respond, Becomes
<1> QED
  BY <1>1, <1>2, MoveIsQuiet DEF Callers, Respond, tables, AuditClaims

(* An attempt that leaves.                                                 *)
LEMMA SendKinds ==
    ASSUME GInv, NEW p \in Callers, Send(p)
    PROVE  Kinds
<1>1. PICK t \in Threads :
          Becomes(p, [pc |-> "waiting", command |-> call[p].command,
                      attempt |-> call[p].attempt, thread |-> t, answer |-> "none"])
  BY DEF Send, Becomes
<1> DEFINE task == [pc |-> "waiting", command |-> call[p].command,
                    attempt |-> call[p].attempt, thread |-> t, answer |-> "none"]
<1>2. call[p].pc = "attempt" /\ UNCHANGED tables
  BY DEF Send
<1>3. task \in CallType
  BY DEF GInv, GatewayTypeOK, CallType
<1>4. /\ p = Worker => WorkerFits(task)
      /\ p # Worker => RequestFits(task)
  BY <1>2 DEF GInv, TaskInv, RequestFits, WorkerFits, Delivers, Callers
<1>5. TaskMoves(p, task)
  BY <1>1, <1>2, <1>3, <1>4 DEF TaskMoves, Delivers
<1> QED
  BY <1>2, <1>3, <1>5, MoveIsQuiet DEF tables, AuditClaims

(* An answer of the Account Service: a success of the thread means that    *)
(* the event of its caller is recorded.                                    *)
LEMMA ResponseKinds ==
    ASSUME GInv, NEW p \in Callers, ResponseArrives(p)
    PROVE  Kinds
<1>1. PICK t \in Threads :
          /\ call[p].pc = "waiting" /\ call[p].thread = t /\ Reply(t)
          /\ CASE thread[t].answer = "DATABASE_UNAVAILABLE" -> AttemptFailed(p)
               [] thread[t].answer \in {"APPLIED", "REPLAYED"} -> BreakerSuccess /\ Applied(p)
               [] OTHER -> BreakerSuccess /\ Rejected(p)
  BY DEF ResponseArrives
<1>2. UNCHANGED transactions /\ Delivers(call[p])
  BY <1>1 DEF Reply, ledger, Delivers
<1>3. CASE thread[t].answer = "DATABASE_UNAVAILABLE"
  BY <1>1, <1>2, <1>3, AttemptFailedKinds
<1>4. CASE thread[t].answer \in {"APPLIED", "REPLAYED"}
  <2>1. thread[t].command = call[p].command
    BY <1>1, GatewayAssumption DEF GInv, TaskInv, Connections
  <2>2. Recorded(call[p].command.eventId)
    BY <1>4, <2>1 DEF GInv, IInv, SuccessMeansRecorded
  <2> QED
    BY <1>1, <1>2, <1>4, <2>2, OutcomeKinds
<1>5. CASE thread[t].answer \notin {"DATABASE_UNAVAILABLE", "APPLIED", "REPLAYED"}
  BY <1>1, <1>2, <1>5, OutcomeKinds
<1> QED BY <1>3, <1>4, <1>5

(* The worker takes up the next delivery.                                  *)
LEMMA TakeKinds ==
    ASSUME GInv, TakeNext
    PROVE  Kinds
<1> DEFINE e == Head(batch)
<1>1. e \in EventIds
  BY DEF TakeNext, GInv, GatewayTypeOK
<1>2. CASE deliveries[e] = NoDelivery
  BY <1>2, NothingIsQuiet DEF TakeNext
<1>3. CASE deliveries[e] # NoDelivery
  <2> DEFINE c == deliveries[e].payload
  <2>1. deliveries[e] \in DeliveryType
    BY <1>1, <1>3 DEF GInv, GatewayTypeOK
  <2>2. HasStatus(e, {"QUEUED"}) /\ c.eventId = e /\ EventRow(c) = events[e].row
    BY <1>1, <1>3 DEF GInv, TableInv, QueueMatchesStatus
  <2>3. c \in Commands /\ c.eventId \in Waiting /\ StoredAs(c)
    BY <1>1, <1>3, <2>1, <2>2 DEF DeliveryType, Waiting, StoredAs, HasStatus
  <2>4. CASE BreakerRefuses
    <3>1. WorkerUnavailable(c)
      BY <1>3, <2>2, <2>4 DEF TakeNext, HasStatus, Stored
    <3> QED
      BY <2>3, <3>1, WorkerUnavailableIsQuiet DEF Kinds
  <2>5. CASE ~BreakerRefuses
    <3> DEFINE task == Task("attempt", c, "none")
    <3>1. Becomes(Worker, task) /\ UNCHANGED tables
      BY <1>3, <2>2, <2>5 DEF TakeNext, HasStatus, Stored, Becomes
    <3>2. task \in CallType
      BY <2>3, TaskFacts
    <3>3. WorkerFits(task)
      BY <2>2, <2>3, TaskFacts DEF WorkerFits, Delivers
    <3>4. TaskMoves(Worker, task)
      BY <3>1, <3>2, <3>3 DEF TaskMoves
    <3> QED
      BY <3>1, <3>2, <3>4, MoveIsQuiet DEF Callers, tables, AuditClaims
  <2> QED BY <2>4, <2>5
<1> QED BY <1>2, <1>3

(* The worker's poll and the end of its batch.                             *)
LEMMA PollKinds ==
    ASSUME GInv, Poll \/ BatchDone
    PROVE  Kinds
<1>1. CASE Poll
  <2> DEFINE task == [call[Worker] EXCEPT !.pc = "next"]
  <2>1. Becomes(Worker, task) /\ UNCHANGED tables
    BY <1>1 DEF Poll, Becomes
  <2>2. call[Worker] \in CallType /\ call[Worker].pc = "idle" /\ WorkerFits(call[Worker])
    BY <1>1 DEF GInv, GatewayTypeOK, TaskInv, Poll, Callers
  <2>3. task \in CallType /\ task.pc = "next" /\ task.thread = call[Worker].thread
    BY <2>2 DEF CallType
  <2>4. WorkerFits(task)
    BY <2>2, <2>3 DEF WorkerFits, Delivers
  <2>5. TaskMoves(Worker, task)
    BY <2>1, <2>3, <2>4 DEF TaskMoves
  <2> QED
    BY <2>1, <2>3, <2>5, MoveIsQuiet DEF Callers, tables, AuditClaims
<1>2. CASE BatchDone
  <2>1. IdleCall \in CallType /\ WorkerFits(IdleCall)
    BY TaskFacts DEF IdleCall, WorkerFits, Delivers
  <2>2. TaskMoves(Worker, IdleCall)
    BY <1>2, <2>1 DEF BatchDone, TaskMoves, Becomes
  <2> QED
    BY <1>2, <2>1, <2>2, MoveIsQuiet DEF Callers, BatchDone, tables, AuditClaims
<1> QED BY <1>1, <1>2

(* What goes wrong.                                                        *)
LEMMA FaultKinds ==
    ASSUME GInv, Fault
    PROVE  Kinds
<1>1. ASSUME NEW p \in Callers, ConnectFails(p) \/ TimesOut(p)
      PROVE  Kinds
  BY <1>1, AttemptFailedKinds DEF ConnectFails, TimesOut, accountVars
<1>2. ASSUME NEW p \in Callers,
             GatewayDatabaseError(p) \/ OutcomeUnsaved(p) \/ UnavailableUnsaved(p)
      PROVE  Kinds
  BY <1>2, EscapesIsQuiet DEF GatewayDatabaseError, OutcomeUnsaved, UnavailableUnsaved, Kinds
<1>3. ASSUME NEW t \in Threads, ServiceDatabaseFails(t)
      PROVE  Kinds
  BY <1>3, NothingIsQuiet DEF ServiceDatabaseFails
<1>4. BalanceAttemptFails => Kinds
  BY NothingIsQuiet DEF BalanceAttemptFails
<1>5. ServiceRestarts \/ GatewayRestarts => Kinds
  BY DEF ServiceRestarts, GatewayRestarts, Kinds, Quiet, QueueStays, AuditClaims, TasksStay,
         tables
<1> QED
  BY <1>1, <1>2, <1>3, <1>4, <1>5 DEF Fault

(* Every step is of one of the kinds.                                      *)
LEMMA StepHasKind ==
    ASSUME GInv, [Next]_vars
    PROVE  Kinds
<1>1. ASSUME NEW p \in Callers, ConnectionLost(p)
      PROVE  Kinds
  BY <1>1, EscapesIsQuiet DEF ConnectionLost, Kinds
<1>2. ASSUME NEW r \in Requests, RequestStep(r)
      PROVE  Kinds
  BY <1>1, <1>2, BeginKinds, SendKinds, ResponseKinds, LogKinds, RespondKinds
  DEF RequestStep, Callers
<1>3. WorkerStep => Kinds
  BY <1>1, PollKinds, TakeKinds, SendKinds, ResponseKinds DEF WorkerStep, Callers
<1>4. BackoffElapses => Kinds
  BY DEF BackoffElapses, Kinds, Quiet, QueueStays, AuditClaims, TasksStay, Waiting
<1>5. BalanceAnswered \/ RecoveryElapses => Kinds
  BY NothingIsQuiet DEF BalanceAnswered, RecoveryElapses
<1>6. ASSUME NEW t \in Threads, ServiceWorks(t) \/ AnswerDropped(t)
      PROVE  Kinds
  BY <1>6, NothingIsQuiet DEF ServiceWorks, AnswerDropped, gatewayVars, tables
<1>7. UNCHANGED vars => Kinds
  BY NothingIsQuiet DEF vars, tables
<1> QED
  BY <1>2, <1>3, <1>4, <1>5, <1>6, <1>7, SubmitKinds, FaultKinds DEF Next

-----------------------------------------------------------------------------
(* Threads and connections.                                                *)

(* The handler keeps the command of its thread and frees it only by a      *)
(* reply.                                                                  *)
LEMMA StepKeepsCommand ==
    ASSUME TypeOK, NEW t \in Threads, Step(t)
    PROVE  /\ thread[t].pc # "idle" /\ thread'[t].pc # "idle"
           /\ thread'[t].command = thread[t].command /\ thread'[t].path = thread[t].path
           /\ \A u \in Threads : u # t => thread'[u] = thread[u]
<1> DEFINE Kept == /\ thread'[t].pc # "idle"
                   /\ thread'[t].command = thread[t].command /\ thread'[t].path = thread[t].path
                   /\ \A u \in Threads : u # t => thread'[u] = thread[u]
<1>1. ASSUME NEW answer, Answer(t, answer)
      PROVE  Kept
  BY <1>1 DEF Answer, TypeOK, ThreadType
<1>2. ASSUME NEW pc, pc # "idle", Move(t, pc)
      PROVE  Kept
  BY <1>2 DEF Move, TypeOK, ThreadType
<1>3. ASSUME NEW row, thread' = [thread EXCEPT ![t].pc = "commit", ![t].seen = row]
      PROVE  Kept
  BY <1>3 DEF TypeOK, ThreadType
<1>4. ASSUME AnswerExisting(t)
      PROVE  Kept
  BY <1>1, <1>4 DEF AnswerExisting, RecordAndAnswer
<1>5. thread[t].pc # "idle"
  BY DEF Step, Work, Fail, RejectMismatch, LookupTransaction, LookupAccount, Commit,
         CommitUnconfirmed, CommitAnswering, CommitRefused, Resolve, DatabaseError
<1> HIDE DEF Kept
<1>6. Kept
  BY <1>1, <1>2, <1>3, <1>4
  DEF Step, Work, Fail, RejectMismatch, LookupTransaction, LookupAccount, Commit,
      CommitUnconfirmed, CommitAnswering, CommitRefused, Resolve, DatabaseError,
      RecordAndAnswer
<1> QED
  BY <1>5, <1>6 DEF Kept

(* A free thread takes an attempt, works on its command, or is free again. *)
LEMMA ThreadsKept ==
    ASSUME GInv, [Next]_vars, NEW t \in Threads, thread'[t].pc # "idle"
    PROVE  \/ /\ thread[t].pc # "idle"
              /\ thread'[t].command = thread[t].command /\ thread'[t].path = thread[t].path
           \/ \E p \in Callers :
                  /\ call[p].pc = "attempt" /\ thread'[t].command = call[p].command
                  /\ thread'[t].path = call[p].command.accountId
<1> DEFINE Kept == /\ thread[t].pc # "idle"
                   /\ thread'[t].command = thread[t].command /\ thread'[t].path = thread[t].path
<1> DEFINE Taken == \E p \in Callers :
                        /\ call[p].pc = "attempt" /\ thread'[t].command = call[p].command
                        /\ thread'[t].path = call[p].command.accountId
<1>0. TypeOK
  BY DEF GInv, IInv
<1>1. ASSUME NEW p \in Callers, Send(p)
      PROVE  Kept \/ Taken
  BY <1>0, <1>1 DEF Send, Receive, IdleThread, TypeOK
<1>2. ASSUME NEW u \in Threads, Reply(u)
      PROVE  Kept
  BY <1>0, <1>2 DEF Reply, IdleThread, TypeOK
<1>3. ASSUME NEW u \in Threads, Step(u)
      PROVE  Kept
  BY <1>0, <1>3, StepKeepsCommand
<1>4. ASSUME UNCHANGED thread
      PROVE  Kept
  BY <1>4
<1>5. ASSUME Restart
      PROVE  FALSE
  BY <1>5 DEF Restart, IdleThread
<1> HIDE DEF Kept, Taken
<1>6. ASSUME NEW r \in Requests, NEW c \in Commands, Submit(r, c)
      PROVE  Kept
  BY <1>4, <1>6 DEF Submit, accountVars
<1>7. ASSUME NEW p \in Callers, ResponseArrives(p) \/ OutcomeUnsaved(p)
      PROVE  Kept
  BY <1>2, <1>7 DEF ResponseArrives, OutcomeUnsaved
<1>8. ASSUME NEW r \in Requests, RequestStep(r)
      PROVE  Kept \/ Taken
  BY <1>1, <1>4, <1>7, <1>8
  DEF RequestStep, BeginDelivery, ConnectionLost, LogOutcome, Respond, Callers, accountVars
<1>9. WorkerStep => Kept \/ Taken
  BY <1>1, <1>4, <1>7
  DEF WorkerStep, Poll, TakeNext, ConnectionLost, BatchDone, Callers, accountVars
<1>10. ASSUME NEW u \in Threads,
              ServiceWorks(u) \/ AnswerDropped(u) \/ ServiceDatabaseFails(u)
       PROVE  Kept
  BY <1>2, <1>3, <1>10 DEF ServiceWorks, AnswerDropped, ServiceDatabaseFails, Step
<1>11. Fault => Kept
  BY <1>4, <1>5, <1>7, <1>10
  DEF Fault, ConnectFails, TimesOut, GatewayDatabaseError, UnavailableUnsaved,
      BalanceAttemptFails, ServiceRestarts, GatewayRestarts, accountVars
<1>12. BalanceAnswered \/ RecoveryElapses \/ BackoffElapses \/ UNCHANGED vars => Kept
  BY <1>4 DEF BalanceAnswered, RecoveryElapses, BackoffElapses, vars, accountVars
<1> QED
  BY <1>6, <1>8, <1>9, <1>10, <1>11, <1>12 DEF Next, Kept, Taken

-----------------------------------------------------------------------------
(* Events.                                                                 *)

(* Columns never change and statuses follow the arrows.                    *)
EventsMove ==
    \A e \in EventIds :
        /\ ~Stored(e) /\ Stored(e)' => events'[e].status = "PENDING"
        /\ Stored(e) =>
               /\ Stored(e)'
               /\ events'[e].row = events[e].row
               /\ \/ events'[e].status = events[e].status
                  \/ <<events[e].status, events'[e].status>> \in Arrows

(* What an outcome does to the events.                                     *)
LEMMA StatusSet ==
    ASSUME GInv, NEW p \in Callers, Delivers(call[p]), NEW status \in Statuses,
           SetStatus(call[p].command, status)
    PROVE  LET f == call[p].command.eventId IN
           /\ f \in EventIds /\ Stored(f)
           /\ events'[f] = [row |-> events[f].row, status |-> status]
           /\ events'[f] # NoEvent
           /\ \A e \in EventIds : e # f => events'[e] = events[e]
           /\ events' \in [EventIds -> EventType \cup {NoEvent}]
<1> DEFINE f == call[p].command.eventId
<1>1. f \in EventIds /\ Stored(f)
  BY DeliveringTasks DEF HasStatus
<1>2. events[f] \in EventType /\ events \in [EventIds -> EventType \cup {NoEvent}]
  BY <1>1 DEF GInv, GatewayTypeOK, Stored
<1> DEFINE new == [row |-> events[f].row, status |-> status]
<1>3. new \in EventType /\ new # NoEvent
  BY <1>2, GatewayNullsAssumption DEF EventType
<1>4. [events[f] EXCEPT !.status = status] = new
  BY <1>2 DEF EventType
<1>5. events' = [events EXCEPT ![f] = new]
  BY <1>4 DEF SetStatus
<1> HIDE DEF new
<1> QED
  BY <1>1, <1>2, <1>3, <1>5 DEF new

(* Whatever the kind of the step, columns stay and statuses follow the     *)
(* arrows.                                                                 *)
LEMMA EventsStep ==
    ASSUME GInv, Kinds
    PROVE  EventsMove
<1>1. ASSUME NEW r \in Requests, NEW c \in Commands, Accepts(r, c)
      PROVE  EventsMove
  <2>1. c.eventId \in EventIds
    BY CommandFacts
  <2>2. /\ events'[c.eventId] = [row |-> EventRow(c), status |-> "PENDING"]
        /\ \A e \in EventIds : e # c.eventId => events'[e] = events[e]
    BY <1>1, <2>1 DEF Accepts, GInv, GatewayTypeOK
  <2> QED
    BY <1>1, <2>1, <2>2 DEF EventsMove, Accepts, Stored
<1>2. ASSUME NEW p \in Callers, Delivers(call[p]), NEW status \in {"QUEUED", "APPLIED", "FAILED"},
             SetStatus(call[p].command, status), p = Worker => status # "QUEUED"
      PROVE  EventsMove
  <2> DEFINE f == call[p].command.eventId
  <2>1. /\ f \in EventIds /\ Stored(f)
        /\ events'[f] = [row |-> events[f].row, status |-> status]
        /\ events'[f] # NoEvent
        /\ \A e \in EventIds : e # f => events'[e] = events[e]
    BY <1>2, StatusSet DEF Statuses
  <2>2. events[f].status = IF p = Worker THEN "QUEUED" ELSE "PENDING"
    BY <1>2, DeliveringTasks DEF HasStatus
  <2> QED
    BY <1>2, <2>1, <2>2 DEF EventsMove, Stored, Arrows
<1>3. ASSUME UNCHANGED events
      PROVE  EventsMove
  BY <1>3 DEF EventsMove, Stored
<1> QED
  BY <1>1, <1>2, <1>3, GatewayAssumption
  DEF Kinds, Queues, RequestSettles, WorkerSettles, Quiet, Callers

-----------------------------------------------------------------------------
(* The tables of both services.                                            *)

(* The transaction of a command says what its event says.                  *)
LEMMA RowsAgree ==
    ASSUME NEW c
    PROVE  \A f \in DOMAIN TransactionRow(c) : TransactionRow(c)[f] = EventRow(c)[f]
<1>1. DOMAIN TransactionRow(c) =
          {"accountId", "type", "amount", "currency", "eventTimestamp"}
  BY DEF TransactionRow
<1> QED
  BY <1>1 DEF TransactionRow, EventRow

(* A transaction that appears is that of a stored event.                   *)
LEMMA NewlyRecorded ==
    ASSUME GInv, [AccountNext]_accountVars, NEW e \in EventIds, Recorded(e)'
    PROVE  \/ Recorded(e) /\ transactions'[e] = transactions[e]
           \/ \E c \in Commands :
                  /\ c.eventId = e /\ ~Recorded(e)
                  /\ transactions' = [transactions EXCEPT ![e] = TransactionRow(c)]
                  /\ transactions'[e] = TransactionRow(c)
                  /\ StoredAs(c)
<1>1. TypeOK /\ BusyThreads /\ SeenAccountExists
  BY DEF GInv, IInv
<1>2. CASE LedgerUntouched
  BY <1>2 DEF LedgerUntouched, Recorded
<1>3. ASSUME NEW t \in Threads, Commits(t), ~Recorded(e)
      PROVE  \E c \in Commands :
                  /\ c.eventId = e /\ ~Recorded(e)
                  /\ transactions' = [transactions EXCEPT ![e] = TransactionRow(c)]
                  /\ transactions'[e] = TransactionRow(c)
                  /\ StoredAs(c)
  <2> DEFINE c == thread[t].command
  <2>1. /\ c \in Commands
        /\ transactions' = [transactions EXCEPT ![c.eventId] = TransactionRow(c)]
    BY <1>1, <1>3, CommitFacts
  <2>2. c.eventId \in EventIds
    BY <2>1, CommandFacts
  <2>3. c.eventId = e
    BY <1>1, <1>3, <2>1, <2>2 DEF Recorded, TypeOK
  <2>4. StoredAs(c)
    BY <1>3 DEF Commits, CommitAnswering, GInv, TableInv, AttemptsCarryStored
  <2>5. transactions'[e] = TransactionRow(c)
    BY <1>1, <2>1, <2>3 DEF TypeOK
  <2> QED BY <1>3, <2>1, <2>3, <2>4, <2>5
<1> QED
  BY <1>1, <1>2, <1>3, StepKinds, RecordedKept

(* The ledger stays within what the Gateway stored.                        *)
LEMMA LedgerKnownStep ==
    ASSUME GInv, [AccountNext]_accountVars, EventsMove
    PROVE  LedgerKnownToGateway'
<1> SUFFICES ASSUME NEW e \in EventIds, Recorded(e)'
             PROVE  /\ Stored(e)'
                    /\ \A f \in DOMAIN transactions'[e] :
                           transactions'[e][f] = events'[e].row[f]
  BY DEF LedgerKnownToGateway
<1>1. CASE Recorded(e) /\ transactions'[e] = transactions[e]
  BY <1>1 DEF GInv, TableInv, LedgerKnownToGateway, EventsMove
<1>2. ASSUME NEW c \in Commands, c.eventId = e, transactions'[e] = TransactionRow(c),
             StoredAs(c)
      PROVE  /\ Stored(e)'
             /\ \A f \in DOMAIN transactions'[e] : transactions'[e][f] = events'[e].row[f]
  <2>1. Stored(e)' /\ events'[e].row = EventRow(c)
    BY <1>2 DEF StoredAs, EventsMove
  <2> QED BY <1>2, <2>1, RowsAgree
<1> QED
  BY <1>1, <1>2, NewlyRecorded

(* A status becomes APPLIED only when the transaction is there.            *)
LEMMA NewlyApplied ==
    ASSUME GInv, Kinds, NEW e \in EventIds, HasStatus(e, {"APPLIED"})'
    PROVE  HasStatus(e, {"APPLIED"}) \/ Recorded(e)
<1>1. ASSUME NEW r \in Requests, NEW c \in Commands, Accepts(r, c)
      PROVE  HasStatus(e, {"APPLIED"})
  <2>1. c.eventId \in EventIds
    BY CommandFacts
  <2> QED
    BY <1>1, <2>1 DEF Accepts, GInv, GatewayTypeOK, HasStatus, Stored
<1>2. ASSUME NEW p \in Callers, Delivers(call[p]), NEW status \in {"QUEUED", "APPLIED", "FAILED"},
             SetStatus(call[p].command, status),
             status = "APPLIED" => Recorded(call[p].command.eventId)
      PROVE  HasStatus(e, {"APPLIED"}) \/ Recorded(e)
  <2> DEFINE f == call[p].command.eventId
  <2>1. /\ events'[f] = [row |-> events[f].row, status |-> status]
        /\ \A d \in EventIds : d # f => events'[d] = events[d]
    BY <1>2, StatusSet DEF Statuses
  <2>2. events'[e] # NoEvent /\ events'[e].status = "APPLIED"
    BY DEF HasStatus, Stored
  <2>3. CASE e = f
    BY <1>2, <2>1, <2>2, <2>3
  <2>4. CASE e # f
    BY <2>1, <2>2, <2>4 DEF HasStatus, Stored
  <2> QED BY <2>3, <2>4
<1>3. ASSUME UNCHANGED events
      PROVE  HasStatus(e, {"APPLIED"})
  BY <1>3 DEF HasStatus, Stored
<1> QED
  BY <1>1, <1>2, <1>3 DEF Kinds, Queues, RequestSettles, WorkerSettles, Quiet, Callers

(* What is shown as APPLIED is in the ledger, and the ledger loses         *)
(* nothing.                                                                *)
LEMMA AppliedStep ==
    ASSUME GInv, Kinds, [AccountNext]_accountVars, EventsMove, LedgerKnownToGateway'
    PROVE  AppliedMeansRecorded'
<1> SUFFICES ASSUME NEW e \in EventIds, HasStatus(e, {"APPLIED"})'
             PROVE  Recorded(e)'
  BY DEF AppliedMeansRecorded, LedgerKnownToGateway
<1>1. Recorded(e)
  BY NewlyApplied DEF GInv, TableInv, AppliedMeansRecorded
<1> QED
  BY <1>1, RecordedKept DEF GInv, IInv, Recorded

(* Attempts go on carrying stored events.                                  *)
LEMMA StoredAsKept ==
    ASSUME EventsMove, NEW c, StoredAs(c)
    PROVE  StoredAs(c)'
  BY CommandFacts DEF StoredAs, EventsMove

(* A thread keeps the command it works on, and takes only that of a task   *)
(* that delivers a stored event.                                           *)
LEMMA AttemptsStep ==
    ASSUME GInv, [Next]_vars, EventsMove
    PROVE  AttemptsCarryStored'
<1> SUFFICES ASSUME NEW t \in Threads, thread'[t].pc # "idle",
                    NEW c, c = thread'[t].command
             PROVE  StoredAs(c)'
  BY DEF AttemptsCarryStored, StoredAs
<1>1. StoredAs(c)
  BY ThreadsKept, DeliveringTasks DEF GInv, TableInv, AttemptsCarryStored, Delivers
<1> QED BY <1>1, StoredAsKept

(* A delivery that becomes due or not stays what it was.                   *)
LEMMA QueueStaysFacts ==
    ASSUME GInv, QueueStays
    PROVE  /\ deliveries' \in [EventIds -> DeliveryType \cup {NoDelivery}]
           /\ \A e \in EventIds : deliveries'[e] = NoDelivery <=> deliveries[e] = NoDelivery
           /\ \A e \in EventIds : deliveries[e] # NoDelivery =>
                  deliveries'[e].payload = deliveries[e].payload
<1>1. deliveries \in [EventIds -> DeliveryType \cup {NoDelivery}]
  BY DEF GInv, GatewayTypeOK
<1>2. CASE UNCHANGED deliveries
  BY <1>1, <1>2
<1>3. ASSUME NEW d \in Waiting, NEW due \in BOOLEAN,
             deliveries' = [deliveries EXCEPT ![d].due = due]
      PROVE  /\ deliveries' \in [EventIds -> DeliveryType \cup {NoDelivery}]
             /\ \A e \in EventIds : deliveries'[e] = NoDelivery <=> deliveries[e] = NoDelivery
             /\ \A e \in EventIds : deliveries[e] # NoDelivery =>
                    deliveries'[e].payload = deliveries[e].payload
  <2> DEFINE new == [payload |-> deliveries[d].payload, due |-> due]
  <2>1. d \in EventIds /\ deliveries[d] \in DeliveryType
    BY <1>1 DEF Waiting
  <2>2. [deliveries[d] EXCEPT !.due = due] = new
    BY <2>1 DEF DeliveryType
  <2>3. new \in DeliveryType /\ new # NoDelivery /\ new.payload = deliveries[d].payload
    BY <2>1, GatewayNullsAssumption DEF DeliveryType
  <2>4. deliveries' = [deliveries EXCEPT ![d] = new]
    BY <1>3, <2>2
  <2> HIDE DEF new
  <2> QED
    BY <1>1, <2>1, <2>3, <2>4 DEF Waiting
<1> QED
  BY <1>2, <1>3 DEF QueueStays

(* The queue and the statuses stay in step.                                *)
LEMMA QueueStep ==
    ASSUME GInv, Kinds, EventsMove
    PROVE  QueueMatchesStatus'
<1>0. /\ QueueMatchesStatus
      /\ deliveries \in [EventIds -> DeliveryType \cup {NoDelivery}]
  BY DEF GInv, TableInv, GatewayTypeOK
<1>1. ASSUME NEW r \in Requests, NEW c \in Commands, Accepts(r, c)
      PROVE  QueueMatchesStatus'
  <2>1. c.eventId \in EventIds
    BY CommandFacts
  <2>2. /\ events'[c.eventId] = [row |-> EventRow(c), status |-> "PENDING"]
        /\ \A e \in EventIds : e # c.eventId => events'[e] = events[e]
        /\ ~Stored(c.eventId) /\ UNCHANGED deliveries
    BY <1>1, <2>1 DEF Accepts, GInv, GatewayTypeOK
  <2>3. deliveries[c.eventId] = NoDelivery
    BY <1>0, <2>1, <2>2 DEF QueueMatchesStatus, HasStatus
  <2> QED
    BY <1>0, <2>1, <2>2, <2>3 DEF QueueMatchesStatus, HasStatus, Stored
<1>2. ASSUME NEW p \in Callers, Delivers(call[p]), NEW status \in {"QUEUED", "APPLIED", "FAILED"},
             SetStatus(call[p].command, status),
             \/ /\ status = "QUEUED"
                /\ deliveries' = [deliveries EXCEPT ![call[p].command.eventId] =
                                     [payload |-> call[p].command, due |-> TRUE]]
             \/ status # "QUEUED" /\ p = Worker
                /\ deliveries' = [deliveries EXCEPT ![call[p].command.eventId] = NoDelivery]
             \/ status # "QUEUED" /\ p # Worker /\ UNCHANGED deliveries
      PROVE  QueueMatchesStatus'
  <2> DEFINE c == call[p].command
  <2> DEFINE f == c.eventId
  <2>1. /\ f \in EventIds /\ Stored(f)
        /\ events'[f] = [row |-> events[f].row, status |-> status]
        /\ events'[f] # NoEvent
        /\ \A e \in EventIds : e # f => events'[e] = events[e]
    BY <1>2, StatusSet DEF Statuses
  <2>2. /\ c \in Commands /\ StoredAs(c)
        /\ events[f].status = IF p = Worker THEN "QUEUED" ELSE "PENDING"
    BY <1>2, DeliveringTasks DEF HasStatus
  <2>3. \A e \in EventIds : e # f => deliveries'[e] = deliveries[e]
    BY <1>0, <1>2
  <2>4. CASE status = "QUEUED"
    <3> DEFINE new == [payload |-> c, due |-> TRUE]
    <3>1. deliveries'[f] = new
      BY <1>0, <1>2, <2>1, <2>4
    <3>2. new \in DeliveryType /\ new.payload = c
      BY <2>2 DEF DeliveryType
    <3> HIDE DEF new
    <3>3. /\ events'[f].status = "QUEUED" /\ events'[f].row = EventRow(c)
          /\ deliveries'[f] # NoDelivery /\ deliveries'[f].payload = c
      BY <2>1, <2>2, <2>4, <3>1, <3>2, GatewayNullsAssumption DEF StoredAs
    <3> QED
      BY <1>0, <2>1, <2>3, <3>3 DEF QueueMatchesStatus, HasStatus, Stored
  <2>5. CASE status # "QUEUED"
    <3>1. deliveries'[f] = NoDelivery
      BY <1>0, <1>2, <2>1, <2>2, <2>5 DEF QueueMatchesStatus, HasStatus
    <3> QED
      BY <1>0, <2>1, <2>3, <2>5, <3>1 DEF QueueMatchesStatus, HasStatus, Stored
  <2> QED BY <2>4, <2>5
<1>3. CASE Quiet
  BY <1>0, <1>3, QueueStaysFacts DEF Quiet, QueueMatchesStatus, HasStatus, Stored
<1> QED
  BY <1>1, <1>2, <1>3, GatewayAssumption
  DEF Kinds, Queues, RequestSettles, WorkerSettles, Callers

(* One delivery at a time enters the queue.                                *)
LEMMA FiniteStep ==
    ASSUME GInv, Kinds
    PROVE  QueueIsFinite'
<1>0. IsFiniteSet(Waiting) /\ deliveries \in [EventIds -> DeliveryType \cup {NoDelivery}]
  BY DEF GInv, TableInv, QueueIsFinite, GatewayTypeOK
<1>1. \E d : Waiting' \subseteq Waiting \cup {d}
  <2>1. CASE UNCHANGED deliveries
    BY <2>1 DEF Waiting
  <2>2. ASSUME NEW d, NEW new, deliveries' = [deliveries EXCEPT ![d] = new]
        PROVE  Waiting' \subseteq Waiting \cup {d}
    BY <1>0, <2>2 DEF Waiting
  <2>3. CASE QueueStays
    BY <2>3, QueueStaysFacts DEF Waiting
  <2> QED
    BY <2>1, <2>2, <2>3
    DEF Kinds, Accepts, Queues, RequestSettles, WorkerSettles, Quiet
<1>2. PICK d : Waiting' \subseteq Waiting \cup {d}
  BY <1>1
<1>3. IsFiniteSet(Waiting \cup {d})
  BY <1>0, FS_AddElement
<1> QED
  BY <1>2, <1>3, FS_Subset DEF QueueIsFinite

-----------------------------------------------------------------------------
(* The audit trail of the Gateway.                                         *)
Audited(action, e) == [action |-> action, eventId |-> e] \in gatewayAudit

(* AuditExplainsStatus for one event.                                      *)
Explained(e) ==
    /\ Audited("EVENT_APPLIED", e) \/ Audited("EVENT_APPLIED_FROM_QUEUE", e) =>
           HasStatus(e, {"APPLIED"})
    /\ Audited("EVENT_PROCESSING_FAILED", e) \/ Audited("EVENT_QUEUE_REJECTED", e) =>
           HasStatus(e, {"FAILED"})
    /\ Audited("EVENT_QUEUED", e) => HasStatus(e, {"QUEUED", "APPLIED", "FAILED"})
    /\ Audited("EVENT_APPLIED_FROM_QUEUE", e) \/ Audited("EVENT_QUEUE_REJECTED", e) =>
           Audited("EVENT_QUEUED", e)
    /\ HasStatus(e, {"QUEUED"}) => Audited("EVENT_QUEUED", e)

(* The audit invariant is Explained of every event, before and after a     *)
(* step.                                                                   *)
LEMMA ExplainedIsInvariant ==
    /\ AuditExplainsStatus <=> \A e \in EventIds : Explained(e)
    /\ (AuditExplainsStatus <=> \A e \in EventIds : Explained(e))'
  BY DEF AuditExplainsStatus, Explained, Audited

(* The trail explains each status after any step.                          *)
LEMMA AuditStepExplained ==
    ASSUME GInv, Kinds, NEW e \in EventIds
    PROVE  Explained(e)'
<1>0. Explained(e)
  BY ExplainedIsInvariant DEF GInv, TableInv
<1>1. ASSUME NEW r \in Requests, NEW c \in Commands, Accepts(r, c)
      PROVE  Explained(e)'
  <2>1. c.eventId \in EventIds
    BY CommandFacts
  <2>2. /\ events'[c.eventId] = [row |-> EventRow(c), status |-> "PENDING"]
        /\ \A d \in EventIds : d # c.eventId => events'[d] = events[d]
        /\ ~Stored(c.eventId)
        /\ \A action, d : Audited(action, d)' <=> Audited(action, d)
    BY <1>1, <2>1 DEF Accepts, GInv, GatewayTypeOK, Audited
  <2>3. CASE e = c.eventId
    BY <1>0, <2>2, <2>3 DEF Explained, HasStatus
  <2>4. CASE e # c.eventId
    BY <1>0, <2>2, <2>4 DEF Explained, HasStatus, Stored
  <2> QED BY <2>3, <2>4
<1>2. ASSUME NEW p \in Callers, Delivers(call[p]), NEW status \in {"QUEUED", "APPLIED", "FAILED"},
             SetStatus(call[p].command, status), NEW actions,
             gatewayAudit' = gatewayAudit \cup
                 {[action |-> a, eventId |-> call[p].command.eventId] : a \in actions},
             \/ status = "QUEUED" /\ p # Worker /\ "EVENT_QUEUED" \in actions
                /\ actions \subseteq {"EVENT_STORED", "EVENT_QUEUED"}
             \/ status # "QUEUED" /\ p # Worker /\ actions \subseteq {"EVENT_STORED"}
             \/ status = "APPLIED" /\ p = Worker /\ actions = {"EVENT_APPLIED_FROM_QUEUE"}
             \/ status = "FAILED" /\ p = Worker /\ actions = {"EVENT_QUEUE_REJECTED"}
      PROVE  Explained(e)'
  <2> DEFINE f == call[p].command.eventId
  <2>1. /\ f \in EventIds /\ Stored(f)
        /\ events'[f] = [row |-> events[f].row, status |-> status]
        /\ events'[f] # NoEvent
        /\ \A d \in EventIds : d # f => events'[d] = events[d]
    BY <1>2, StatusSet DEF Statuses
  <2>2. events[f].status = IF p = Worker THEN "QUEUED" ELSE "PENDING"
    BY <1>2, DeliveringTasks DEF HasStatus
  <2>3. \A action, d : Audited(action, d)' <=> Audited(action, d) \/ (d = f /\ action \in actions)
    BY <1>2 DEF Audited
  <2>4. CASE e = f
    <3>1. events'[e].status = status /\ Stored(e)' /\ Stored(e)
      BY <2>1, <2>4 DEF Stored
    <3>2. ~Audited("EVENT_APPLIED", e) /\ ~Audited("EVENT_APPLIED_FROM_QUEUE", e)
          /\ ~Audited("EVENT_PROCESSING_FAILED", e) /\ ~Audited("EVENT_QUEUE_REJECTED", e)
      BY <1>0, <2>2, <2>4 DEF Explained, HasStatus
    <3>3. p = Worker => Audited("EVENT_QUEUED", e)
      BY <1>0, <2>1, <2>2, <2>4 DEF Explained, HasStatus
    <3>4. Audited("EVENT_QUEUED", e) => p = Worker
      BY <1>0, <2>2, <2>4 DEF Explained, HasStatus
    <3> QED
      BY <1>2, <2>3, <2>4, <3>1, <3>2, <3>3, <3>4 DEF Explained, HasStatus
  <2>5. CASE e # f
    BY <1>0, <2>1, <2>3, <2>5 DEF Explained, HasStatus, Stored
  <2> QED BY <2>4, <2>5
<1>3. CASE Quiet
  <2>1. UNCHANGED events
    BY <1>3 DEF Quiet
  <2>2. CASE UNCHANGED gatewayAudit
    BY <1>0, <2>1, <2>2 DEF Explained, Audited, HasStatus, Stored
  <2>3. ASSUME NEW a \in GatewayActions, NEW f \in EventIds, Claim(a, f),
               gatewayAudit' = gatewayAudit \cup {[action |-> a, eventId |-> f]}
        PROVE  Explained(e)'
    <3>1. \A action, d : Audited(action, d)' <=> Audited(action, d) \/ (d = f /\ action = a)
      BY <2>3 DEF Audited
    <3> QED
      BY <1>0, <2>1, <2>3, <3>1 DEF Explained, Claim, HasStatus, Stored
  <2> QED
    BY <1>3, <2>2, <2>3 DEF Quiet, AuditClaims
<1>4. ASSUME NEW r \in Requests, Queues(r)
      PROVE  Explained(e)'
  <2>1. PICK actions \in {{"EVENT_QUEUED"}, {"EVENT_STORED", "EVENT_QUEUED"}} :
            gatewayAudit' = gatewayAudit \cup
                {[action |-> a, eventId |-> call[r].command.eventId] : a \in actions}
    BY <1>4 DEF Queues, RecordGateway, GatewayNote
  <2> QED
    BY <1>2, <1>4, <2>1, GatewayAssumption DEF Queues, Callers
<1>5. ASSUME NEW r \in Requests, NEW status \in {"APPLIED", "FAILED"}, RequestSettles(r, status)
      PROVE  Explained(e)'
  <2>1. PICK actions \in {{}, {"EVENT_STORED"}} :
            gatewayAudit' = gatewayAudit \cup
                {[action |-> a, eventId |-> call[r].command.eventId] : a \in actions}
    BY <1>5 DEF RequestSettles, RecordGateway, GatewayNote
  <2> QED
    BY <1>2, <1>5, <2>1, GatewayAssumption DEF RequestSettles, Callers
<1>6. ASSUME NEW status \in {"APPLIED", "FAILED"}, WorkerSettles(status)
      PROVE  Explained(e)'
  <2> DEFINE actions == IF status = "APPLIED" THEN {"EVENT_APPLIED_FROM_QUEUE"}
                        ELSE {"EVENT_QUEUE_REJECTED"}
  <2>1. gatewayAudit' = gatewayAudit \cup
            {[action |-> a, eventId |-> call[Worker].command.eventId] : a \in actions}
    BY <1>6 DEF WorkerSettles, RecordGateway, GatewayNote
  <2>2. Delivers(call[Worker]) /\ SetStatus(call[Worker].command, status)
    BY <1>6 DEF WorkerSettles
  <2>3. Worker \in Callers
    BY DEF Callers
  <2>4. CASE status = "APPLIED"
    BY <1>2, <2>1, <2>2, <2>3, <2>4
  <2>5. CASE status = "FAILED"
    <3>1. actions = {"EVENT_QUEUE_REJECTED"}
      BY <2>5
    <3> HIDE DEF actions
    <3> QED BY <1>2, <2>1, <2>2, <2>3, <2>5, <3>1
  <2> QED BY <2>4, <2>5
<1> QED
  BY <1>1, <1>3, <1>4, <1>5, <1>6 DEF Kinds

-----------------------------------------------------------------------------
(* Tasks.                                                                  *)

(* An outcome is no other task's business: the event is delivered by one   *)
(* task, and not logged yet.                                               *)
LEMMA OtherEvents ==
    ASSUME GInv, NEW p \in Callers, Delivers(call[p]), NEW q \in Callers, q # p,
           Delivers(call[q]) \/ (q # Worker /\ call[q].pc = "log")
    PROVE  call[q].command.eventId # call[p].command.eventId
<1>1. HasStatus(call[p].command.eventId, {IF p = Worker THEN "QUEUED" ELSE "PENDING"})
  BY DeliveringTasks
<1>2. CASE Delivers(call[q]) /\ (q = Worker \/ p = Worker)
  <2>1. HasStatus(call[q].command.eventId, {IF q = Worker THEN "QUEUED" ELSE "PENDING"})
    BY <1>2, DeliveringTasks
  <2> QED BY <1>1, <1>2, <2>1 DEF HasStatus
<1>3. CASE Delivers(call[q]) /\ q # Worker /\ p # Worker
  BY <1>3 DEF GInv, TaskInv, OneRequestPerEvent, Callers
<1>4. CASE q # Worker /\ call[q].pc = "log"
  <2>1. HasStatus(call[q].command.eventId, {"APPLIED", "FAILED"})
    BY <1>4 DEF GInv, TaskInv, RequestFits, HasStatus, Callers
  <2> QED BY <1>1, <2>1 DEF HasStatus
<1> QED BY <1>2, <1>3, <1>4

(* A task whose event a step leaves alone still fits.                      *)
LEMMA FitsKept ==
    ASSUME GInv, EventsMove, [AccountNext]_accountVars, NEW task,
           Delivers(task) \/ task.pc = "log" =>
               events'[task.command.eventId] = events[task.command.eventId]
    PROVE  /\ RequestFits(task) => RequestFits(task)'
           /\ WorkerFits(task) => WorkerFits(task)'
<1>1. ASSUME Delivers(task) \/ task.pc = "log", StoredAs(task.command)
      PROVE  /\ StoredAs(task.command)'
             /\ \A statuses : HasStatus(task.command.eventId, statuses) =>
                                  HasStatus(task.command.eventId, statuses)'
  BY <1>1 DEF StoredAs, HasStatus, Stored
<1>2. ASSUME task.command \in Commands
      PROVE  LET e == task.command.eventId IN
             /\ Recorded(e) => Recorded(e)'
             /\ HasStatus(e, {"QUEUED", "APPLIED", "FAILED"}) =>
                    HasStatus(e, {"QUEUED", "APPLIED", "FAILED"})'
  <2>1. task.command.eventId \in EventIds
    BY <1>2, CommandFacts
  <2> QED
    BY <2>1, RecordedKept DEF GInv, IInv, Recorded, EventsMove, HasStatus, Arrows
<1>3. Delivers(task)' <=> Delivers(task)
  BY DEF Delivers
<1>4. WorkerFits(task) => WorkerFits(task)'
  BY <1>1, <1>3 DEF WorkerFits
<1>5. ASSUME RequestFits(task)
      PROVE  RequestFits(task)'
  <2>1. Delivers(task) => StoredAs(task.command)' /\ HasStatus(task.command.eventId, {"PENDING"})'
    BY <1>1, <1>5 DEF RequestFits
  <2>2. task.pc = "log" =>
           /\ StoredAs(task.command)'
           /\ \/ task.answer = "CREATED" /\ HasStatus(task.command.eventId, {"APPLIED"})'
              \/ /\ task.answer \in {"REJECTED", "UNAVAILABLE"}
                 /\ HasStatus(task.command.eventId, {"FAILED"})'
    BY <1>1, <1>5 DEF RequestFits
  <2>3. task.pc = "answered" =>
           /\ task.command \in Commands
           /\ task.answer = "CREATED" => Recorded(task.command.eventId)'
           /\ task.answer = "ACCEPTED" =>
                  HasStatus(task.command.eventId, {"QUEUED", "APPLIED", "FAILED"})'
    BY <1>2, <1>5 DEF RequestFits
  <2> QED
    BY <1>3, <1>5, <2>1, <2>2, <2>3 DEF RequestFits
<1> QED BY <1>4, <1>5

(* The predicates on tasks, read in the state after a step.                *)
LEMMA FitsAfter ==
    ASSUME NEW p, NEW task, task = call'[p]
    PROVE  /\ RequestFits(task)' => RequestFits(call[p])'
           /\ WorkerFits(task)' => WorkerFits(call[p])'
  BY DEF RequestFits, WorkerFits, Delivers, StoredAs, HasStatus, Stored, Recorded

FitsNext(p) ==
    /\ p = Worker => WorkerFits(call[p])'
    /\ p # Worker => RequestFits(call[p])'

(* A task the step leaves alone, its event included.                       *)
LEMMA UnmovedFits ==
    ASSUME GInv, EventsMove, [AccountNext]_accountVars, NEW p \in Callers,
           call'[p] = call[p],
           Delivers(call[p]) \/ (p # Worker /\ call[p].pc = "log") =>
               events'[call[p].command.eventId] = events[call[p].command.eventId]
    PROVE  FitsNext(p)
<1> SUFFICES ASSUME NEW task, task = call[p]
             PROVE  FitsNext(p)
  OBVIOUS
<1>1. CASE p = Worker
  <2>1. WorkerFits(task) /\ task.pc # "log"
    BY <1>1 DEF GInv, TaskInv, WorkerFits
  <2>2. WorkerFits(task)'
    BY <1>1, <2>1, FitsKept
  <2> QED BY <1>1, <2>2, FitsAfter DEF FitsNext
<1>2. CASE p # Worker
  <2>1. RequestFits(task)
    BY <1>2 DEF GInv, TaskInv, Callers
  <2>2. RequestFits(task)'
    BY <1>2, <2>1, FitsKept
  <2> QED BY <1>2, <2>2, FitsAfter DEF FitsNext
<1> QED BY <1>1, <1>2

(* A task that moves while no event changes.                               *)
LEMMA MovedFits ==
    ASSUME GInv, EventsMove, [AccountNext]_accountVars, NEW p \in Callers,
           NEW task, call'[p] = task, UNCHANGED events,
           p = Worker => WorkerFits(task), p # Worker => RequestFits(task)
    PROVE  FitsNext(p)
<1>1. /\ RequestFits(task) => RequestFits(task)'
      /\ WorkerFits(task) => WorkerFits(task)'
  BY FitsKept
<1> QED
  BY <1>1, FitsAfter DEF FitsNext

(* A request that stored its event, or brought it to an outcome, fits, and *)
(* the others are not disturbed.                                           *)
LEMMA AcceptFits ==
    ASSUME GInv, EventsMove, [AccountNext]_accountVars,
           NEW r \in Requests, NEW c \in Commands, Accepts(r, c)
    PROVE  \A p \in Callers : FitsNext(p)
<1>1. c.eventId \in EventIds
  BY CommandFacts
<1>2. /\ events'[c.eventId] = [row |-> EventRow(c), status |-> "PENDING"]
      /\ [row |-> EventRow(c), status |-> "PENDING"] # NoEvent
      /\ \A e \in EventIds : e # c.eventId => events'[e] = events[e]
      /\ ~Stored(c.eventId)
  <2>1. EventRow(c) \in EventRowType
    BY CommandsAssumption DEF CommandType, EventRow, EventRowType, Clock
  <2>2. [row |-> EventRow(c), status |-> "PENDING"] \in EventType
    BY <2>1 DEF EventType, Statuses
  <2> QED
    BY <1>1, <2>2, GatewayNullsAssumption DEF Accepts, GInv, GatewayTypeOK
<1>3. call'[r] = Task("stored", c, "none") /\ \A q \in Callers : q # r => call'[q] = call[q]
  BY DEF Accepts, Becomes, GInv, GatewayTypeOK, Callers
<1>4. FitsNext(r)
  <2> DEFINE task == Task("stored", c, "none")
  <2>1. StoredAs(c)' /\ HasStatus(c.eventId, {"PENDING"})'
    BY <1>2 DEF StoredAs, HasStatus, Stored
  <2>2. /\ task.pc = "stored" /\ task.command = c /\ task.thread = NoThread
        /\ task.answer = "none"
    BY TaskFacts
  <2>3. RequestFits(task)'
    BY <2>1, <2>2 DEF RequestFits, Delivers
  <2> QED
    BY <1>3, <2>3, FitsAfter, GatewayAssumption DEF FitsNext
<1>5. ASSUME NEW q \in Callers, q # r
      PROVE  FitsNext(q)
  <2>1. Delivers(call[q]) \/ (q # Worker /\ call[q].pc = "log") =>
            StoredAs(call[q].command)
    BY DEF GInv, TaskInv, RequestFits, WorkerFits, Callers
  <2>2. Delivers(call[q]) \/ (q # Worker /\ call[q].pc = "log") =>
            events'[call[q].command.eventId] = events[call[q].command.eventId]
    BY <1>2, <2>1, CommandFacts DEF StoredAs
  <2> QED
    BY <1>3, <1>5, <2>2, UnmovedFits
<1> QED BY <1>4, <1>5

(* The task that brings an outcome logs or tells what it saved; the event  *)
(* of no other task is touched.                                            *)
LEMMA OutcomeFits ==
    ASSUME GInv, EventsMove, [AccountNext]_accountVars,
           NEW p \in Callers, Delivers(call[p]),
           NEW status \in {"QUEUED", "APPLIED", "FAILED"}, SetStatus(call[p].command, status),
           NEW task, Becomes(p, task), task.thread = NoThread,
           p = Worker => task.pc = "next",
           p # Worker =>
               /\ task.command = call[p].command
               /\ \/ task.pc = "answered" /\ task.answer = "ACCEPTED" /\ status = "QUEUED"
                  \/ task.pc = "log" /\ task.answer = "CREATED" /\ status = "APPLIED"
                  \/ /\ task.pc = "log" /\ task.answer \in {"REJECTED", "UNAVAILABLE"}
                     /\ status = "FAILED"
    PROVE  \A q \in Callers : FitsNext(q)
<1> DEFINE f == call[p].command.eventId
<1>1. /\ f \in EventIds /\ Stored(f)
      /\ events'[f] = [row |-> events[f].row, status |-> status]
      /\ events'[f] # NoEvent
      /\ \A e \in EventIds : e # f => events'[e] = events[e]
  BY StatusSet DEF Statuses
<1>2. call'[p] = task /\ \A q \in Callers : q # p => call'[q] = call[q]
  BY DEF Becomes, GInv, GatewayTypeOK
<1>3. FitsNext(p)
  <2>1. CASE p = Worker
    <3>1. WorkerFits(task)'
      BY <2>1 DEF WorkerFits, Delivers
    <3> QED BY <1>2, <2>1, <3>1, FitsAfter DEF FitsNext
  <2>2. CASE p # Worker
    <3> DEFINE c == call[p].command
    <3>1. StoredAs(c)
      BY DeliveringTasks
    <3> SUFFICES ASSUME NEW d, d = call[p].command
                 PROVE  FitsNext(p)
      OBVIOUS
    <3>2. StoredAs(d)' /\ d \in Commands
      BY <3>1, StoredAsKept DEF StoredAs
    <3>3. HasStatus(d.eventId, {status})'
      BY <1>1 DEF HasStatus, Stored
    <3>4. HasStatus(d.eventId, {"QUEUED", "APPLIED", "FAILED"})'
      BY <3>3 DEF HasStatus
    <3>5. task.command = d
      BY <2>2
    <3>6. RequestFits(task)'
      BY <2>2, <3>2, <3>3, <3>4, <3>5 DEF RequestFits, Delivers
    <3> QED BY <1>2, <2>2, <3>6, FitsAfter DEF FitsNext
  <2> QED BY <2>1, <2>2
<1>4. ASSUME NEW q \in Callers, q # p
      PROVE  FitsNext(q)
  <2>1. Delivers(call[q]) \/ (q # Worker /\ call[q].pc = "log") =>
            /\ call[q].command.eventId \in EventIds
            /\ call[q].command.eventId # f
    BY <1>4, OtherEvents, DeliveringTasks, CommandFacts
    DEF GInv, TaskInv, RequestFits, StoredAs, Callers
  <2>2. Delivers(call[q]) \/ (q # Worker /\ call[q].pc = "log") =>
            events'[call[q].command.eventId] = events[call[q].command.eventId]
    BY <1>1, <2>1
  <2> QED
    BY <1>2, <1>4, <2>2, UnmovedFits
<1> QED BY <1>3, <1>4

(* A step that changes no event leaves every task fitting.                 *)
LEMMA QuietFits ==
    ASSUME GInv, EventsMove, [AccountNext]_accountVars, Quiet
    PROVE  \A p \in Callers : FitsNext(p)
<1>0. UNCHANGED events /\ call \in [Callers -> CallType]
  BY DEF Quiet, GInv, GatewayTypeOK
<1>1. CASE UNCHANGED call
  BY <1>0, <1>1, UnmovedFits
<1>2. ASSUME NEW q \in Callers, NEW task \in CallType, TaskMoves(q, task), NEW p \in Callers
      PROVE  FitsNext(p)
  <2>1. CASE p = q
    <3>1. call'[p] = task
      BY <1>0, <1>2, <2>1 DEF TaskMoves, Becomes
    <3> QED
      BY <1>0, <1>2, <2>1, <3>1, MovedFits DEF TaskMoves
  <2>2. CASE p # q
    <3>1. call'[p] = call[p]
      BY <1>0, <1>2, <2>2 DEF TaskMoves, Becomes
    <3> QED BY <1>0, <3>1, UnmovedFits
  <2> QED BY <2>1, <2>2
<1>3. ASSUME call' = [p \in Callers |-> IdleCall], NEW p \in Callers
      PROVE  FitsNext(p)
  <2>1. RequestFits(IdleCall) /\ WorkerFits(IdleCall)
    BY TaskFacts DEF IdleCall, RequestFits, WorkerFits, Delivers
  <2> QED BY <1>0, <1>3, <2>1, MovedFits
<1>4. ASSUME call' = [p \in Callers |-> [call[p] EXCEPT !.thread = NoThread]],
             NEW p \in Callers
      PROVE  FitsNext(p)
  <2> DEFINE task == [call[p] EXCEPT !.thread = NoThread]
  <2>1. /\ task.pc = call[p].pc /\ task.command = call[p].command
        /\ task.answer = call[p].answer /\ task.thread = NoThread
    BY <1>0 DEF CallType
  <2>2. call'[p] = task
    BY <1>4
  <2> HIDE DEF task
  <2>3. p = Worker => WorkerFits(task)
    BY <2>1 DEF GInv, TaskInv, WorkerFits, Delivers
  <2>4. p # Worker => RequestFits(task)
    BY <2>1 DEF GInv, TaskInv, RequestFits, Delivers, Callers
  <2> QED BY <1>0, <2>2, <2>3, <2>4, MovedFits
<1> QED
  BY <1>1, <1>2, <1>3, <1>4 DEF Quiet, TasksStay

(* Only a submission makes a request deliver an event, and a new one.      *)
LEMMA OneRequestStep ==
    ASSUME GInv, Kinds
    PROVE  OneRequestPerEvent'
<1>0. call \in [Callers -> CallType] /\ OneRequestPerEvent
  BY DEF GInv, GatewayTypeOK, TaskInv
<1>1. ASSUME \A q \in Requests :
                 Delivers(call'[q]) =>
                     Delivers(call[q]) /\ call'[q].command = call[q].command
      PROVE  OneRequestPerEvent'
  BY <1>0, <1>1 DEF OneRequestPerEvent, Delivers
<1>2. ASSUME NEW r \in Requests, NEW c \in Commands, Accepts(r, c)
      PROVE  OneRequestPerEvent'
  <2>1. /\ call'[r] = Task("stored", c, "none")
        /\ \A q \in Requests : q # r => call'[q] = call[q]
    BY <1>0, <1>2 DEF Accepts, Becomes, Callers
  <2>2. \A q \in Requests : Delivers(call[q]) => call[q].command.eventId # c.eventId
    BY <1>2, DeliveringTasks DEF HasStatus, Accepts, Callers
  <2>3. call'[r].command = c
    BY <2>1, TaskFacts
  <2> QED
    BY <1>0, <2>1, <2>2, <2>3 DEF OneRequestPerEvent, Delivers
<1>3. ASSUME NEW p \in Callers, NEW task, Becomes(p, task),
             p # Worker /\ Delivers(task) => Delivers(call[p]) /\ task.command = call[p].command
      PROVE  OneRequestPerEvent'
  <2>1. call'[p] = task /\ \A q \in Callers : q # p => call'[q] = call[q]
    BY <1>0, <1>3 DEF Becomes
  <2> QED
    BY <1>1, <1>3, <2>1, GatewayAssumption DEF Callers
<1>4. ASSUME NEW r \in Requests, Queues(r) \/ \E status : RequestSettles(r, status)
      PROVE  OneRequestPerEvent'
  <2>1. PICK pc \in {"log", "answered"} :
            \E answer : Becomes(r, Task(pc, call[r].command, answer))
    BY <1>4 DEF Queues, RequestSettles
  <2>2. PICK answer : Becomes(r, Task(pc, call[r].command, answer))
    BY <2>1
  <2>3. ~Delivers(Task(pc, call[r].command, answer))
    BY TaskFacts DEF Delivers
  <2> QED BY <1>3, <2>2, <2>3 DEF Callers
<1>5. ASSUME NEW status, WorkerSettles(status)
      PROVE  OneRequestPerEvent'
  BY <1>3, <1>5 DEF WorkerSettles, Callers
<1>6. CASE Quiet
  <2>1. CASE UNCHANGED call
    BY <1>0, <2>1 DEF OneRequestPerEvent, Delivers
  <2>2. CASE \E p \in Callers, task \in CallType : TaskMoves(p, task)
    BY <1>3, <2>2 DEF TaskMoves
  <2>3. CASE call' = [p \in Callers |-> IdleCall]
    <3>1. \A q \in Requests : call'[q] = IdleCall
      BY <2>3 DEF Callers
    <3>2. ~Delivers(IdleCall)
      BY TaskFacts DEF IdleCall, Delivers
    <3> QED BY <1>1, <3>1, <3>2
  <2>4. CASE call' = [p \in Callers |-> [call[p] EXCEPT !.thread = NoThread]]
    <3>1. \A q \in Requests : call'[q].pc = call[q].pc /\ call'[q].command = call[q].command
      BY <1>0, <2>4 DEF CallType, Callers
    <3> QED BY <1>1, <3>1 DEF Delivers
  <2> QED BY <1>6, <2>1, <2>2, <2>3, <2>4 DEF Quiet, TasksStay
<1> QED
  BY <1>2, <1>4, <1>5, <1>6 DEF Kinds

(* Every task still fits.                                                  *)
LEMMA TasksStep ==
    ASSUME GInv, Kinds, EventsMove, [AccountNext]_accountVars
    PROVE  (\A r \in Requests : RequestFits(call[r]))' /\ WorkerFits(call[Worker])'
<1>1. ASSUME NEW r \in Requests, Queues(r)
      PROVE  \A p \in Callers : FitsNext(p)
  BY <1>1, OutcomeFits, TaskFacts, GatewayAssumption DEF Queues, Callers
<1>2. ASSUME NEW r \in Requests, NEW status \in {"APPLIED", "FAILED"}, RequestSettles(r, status)
      PROVE  \A p \in Callers : FitsNext(p)
  <2>1. PICK answer \in {"CREATED", "REJECTED", "UNAVAILABLE"} :
            /\ Becomes(r, Task("log", call[r].command, answer))
            /\ IF answer = "CREATED" THEN status = "APPLIED" ELSE status = "FAILED"
    BY <1>2 DEF RequestSettles
  <2> QED
    BY <1>2, <2>1, OutcomeFits, TaskFacts, GatewayAssumption DEF RequestSettles, Callers
<1>3. ASSUME NEW status \in {"APPLIED", "FAILED"}, WorkerSettles(status)
      PROVE  \A p \in Callers : FitsNext(p)
  BY <1>3, OutcomeFits, TaskFacts DEF WorkerSettles, Callers
<1>4. \A p \in Callers : FitsNext(p)
  BY <1>1, <1>2, <1>3, AcceptFits, QuietFits DEF Kinds
<1> QED
  BY <1>4, GatewayAssumption DEF FitsNext, Callers

-----------------------------------------------------------------------------
(* Connections.                                                            *)

(* A task gives up its connection, if it had one.                          *)
Drops(p) == \E task : Becomes(p, task) /\ task.thread = NoThread

(* No task gets a connection.                                              *)
NoneConnects ==
    \A q \in Callers :
        call'[q].thread # NoThread =>
            call'[q].thread = call[q].thread /\ call'[q].command = call[q].command

(* An attempt or the delivery of an event comes to an end.                 *)
Concludes(p) ==
    \E task : Becomes(p, task) /\ task.thread = NoThread /\ task.answer # "CONFLICT"

(* Whatever comes of an attempt, its caller drops the connection, and no   *)
(* client is told of a conflict.                                           *)
LEMMA OutcomeConcludes ==
    ASSUME NEW p, NEW notes,
           \/ AttemptFailed(p) \/ Applied(p) \/ Rejected(p) \/ Escapes(p)
           \/ RequestUnavailable(p, notes)
    PROVE  Concludes(p)
<1>1. ASSUME NEW pc, NEW answer, answer # "CONFLICT", RequestSays(p, pc, answer)
      PROVE  Concludes(p)
  <2> DEFINE task == Task(pc, call[p].command, answer)
  <2>1. Becomes(p, task)
    BY <1>1 DEF RequestSays, Becomes
  <2>2. task.thread = NoThread /\ task.answer # "CONFLICT"
    BY <1>1, TaskFacts
  <2> HIDE DEF task
  <2> QED BY <2>1, <2>2 DEF Concludes
<1>2. p = Worker /\ (WorkerMovesOn \/ call' = [call EXCEPT ![Worker] = IdleCall]) => Concludes(p)
  <2>1. /\ Task("next", NoCommand, "none").thread = NoThread
        /\ Task("next", NoCommand, "none").answer = "none"
        /\ IdleCall.thread = NoThread /\ IdleCall.answer = "none"
    BY TaskFacts DEF IdleCall
  <2> QED BY <2>1 DEF WorkerMovesOn, Concludes, Becomes
<1>3. ASSUME NEW n, RequestUnavailable(p, n)
      PROVE  Concludes(p)
  BY <1>1, <1>3 DEF RequestUnavailable
<1>4. AttemptFailed(p) => Concludes(p)
  <2>1. ASSUME NEW command, NEW attempt,
               call' = [call EXCEPT ![p] =
                   [pc |-> "attempt", command |-> command, attempt |-> attempt,
                    thread |-> NoThread, answer |-> "none"]]
        PROVE  Concludes(p)
    <3> DEFINE task == [pc |-> "attempt", command |-> command, attempt |-> attempt,
                        thread |-> NoThread, answer |-> "none"]
    <3>1. Becomes(p, task) /\ task.thread = NoThread /\ task.answer # "CONFLICT"
      BY <2>1 DEF Becomes
    <3> HIDE DEF task
    <3> QED BY <3>1 DEF Concludes
  <2> QED
    BY <1>2, <1>3, <2>1 DEF AttemptFailed, WorkerUnavailable
<1>5. Escapes(p) => Concludes(p)
  BY <1>1, <1>2 DEF Escapes
<1> QED
  BY <1>1, <1>2, <1>3, <1>4, <1>5 DEF Applied, Rejected

(* In particular its caller has no connection afterwards.                  *)
LEMMA OutcomeDrops ==
    ASSUME NEW p, NEW notes,
           \/ AttemptFailed(p) \/ Applied(p) \/ Rejected(p) \/ Escapes(p)
           \/ RequestUnavailable(p, notes)
    PROVE  Drops(p)
  BY OutcomeConcludes DEF Concludes, Drops

(* A task that drops its connection or goes on with it connects nobody.    *)
LEMMA DropConnectsNone ==
    ASSUME GInv, NEW p \in Callers,
           \/ UNCHANGED call \/ Drops(p)
           \/ \E pc : call' = [call EXCEPT ![p].pc = pc]
    PROVE  NoneConnects
<1>0. call \in [Callers -> CallType]
  BY DEF GInv, GatewayTypeOK
<1>1. CASE UNCHANGED call
  BY <1>1 DEF NoneConnects
<1>2. CASE Drops(p)
  BY <1>0, <1>2 DEF Drops, Becomes, NoneConnects
<1>3. CASE \E pc : call' = [call EXCEPT ![p].pc = pc]
  BY <1>0, <1>3 DEF CallType, NoneConnects
<1> QED BY <1>1, <1>2, <1>3

(* Connections stay sound while nobody connects and the threads callers    *)
(* still wait for stay at work.                                            *)
LEMMA ConnectionsKept ==
    ASSUME Connections, NoneConnects,
           \A q \in Callers : LET t == call'[q].thread IN
               t # NoThread =>
                   /\ thread'[t].pc # "idle" \/ thread[t].pc = "idle"
                   /\ thread'[t].command = thread[t].command
    PROVE  Connections'
  BY DEF Connections, NoneConnects

(* The answer of a thread reaches the caller that waited for it, and frees *)
(* no thread another caller waits for.                                     *)
LEMMA AnsweredConnections ==
    ASSUME GInv, NEW p \in Callers, NEW t \in Threads, call[p].thread = t,
           Reply(t), Drops(p)
    PROVE  Connections'
<1>0. call \in [Callers -> CallType] /\ thread \in [Threads -> ThreadType]
      /\ Connections
  BY DEF GInv, GatewayTypeOK, IInv, TypeOK, TaskInv
<1>1. NoneConnects
  BY DropConnectsNone
<1>2. /\ call'[p].thread = NoThread
      /\ \A q \in Callers : q # p => call'[q] = call[q]
  BY <1>0 DEF Drops, Becomes
<1>3. ASSUME NEW q \in Callers, call'[q].thread # NoThread
      PROVE  thread'[call'[q].thread] = thread[call'[q].thread]
  <2>1. q # p /\ call'[q] = call[q]
    BY <1>2, <1>3
  <2>2. call[q].thread # t
    BY <1>0, <1>3, <2>1, GatewayAssumption DEF Connections
  <2>3. call[q].thread \in Threads
    BY <1>0, <1>3, <2>1 DEF CallType
  <2> QED
    BY <1>0, <2>1, <2>2, <2>3 DEF Reply
<1>4. ASSUME NEW q \in Callers, NEW u, u = call'[q].thread, u # NoThread
      PROVE  /\ thread'[u].pc # "idle" \/ thread[u].pc = "idle"
             /\ thread'[u].command = thread[u].command
  <2>1. thread'[u] = thread[u]
    BY <1>3, <1>4
  <2> QED BY <2>1
<1> QED
  BY <1>0, <1>1, <1>4, ConnectionsKept

(* A thread that takes an attempt has no caller yet.                       *)
LEMMA SendConnections ==
    ASSUME GInv, NEW p \in Callers, Send(p)
    PROVE  Connections'
<1>0. call \in [Callers -> CallType] /\ thread \in [Threads -> ThreadType]
      /\ Connections
  BY DEF GInv, GatewayTypeOK, IInv, TypeOK, TaskInv
<1>1. PICK t \in Threads :
          /\ Receive(t, call[p].command.accountId, call[p].command)
          /\ call' = [call EXCEPT ![p] =
                 [pc |-> "waiting", command |-> call[p].command,
                  attempt |-> call[p].attempt, thread |-> t, answer |-> "none"]]
  BY DEF Send
<1>2. /\ call'[p].thread = t /\ call'[p].command = call[p].command
      /\ \A q \in Callers : q # p => call'[q] = call[q]
  BY <1>0, <1>1
<1>3. /\ thread[t].pc = "idle"
      /\ thread'[t].pc # "idle" /\ thread'[t].command = call[p].command
      /\ \A u \in Threads : u # t => thread'[u] = thread[u]
  BY <1>0, <1>1 DEF Receive, IdleThread
<1>4. ASSUME NEW q \in Callers, q # p, call[q].thread # NoThread
      PROVE  call[q].thread \in Threads /\ call[q].thread # t
  BY <1>0, <1>3, <1>4 DEF Connections, CallType
<1>5. ASSUME NEW q \in Callers, call'[q].thread # NoThread
      PROVE  /\ thread'[call'[q].thread].pc # "idle"
             /\ thread'[call'[q].thread].command = call'[q].command
  BY <1>0, <1>2, <1>3, <1>4, <1>5 DEF Connections
<1>6. ASSUME NEW q \in Callers, NEW r \in Callers,
             call'[q].thread # NoThread /\ call'[q].thread = call'[r].thread
      PROVE  q = r
  BY <1>0, <1>2, <1>4, <1>6, GatewayAssumption DEF Connections
<1> QED
  BY <1>5, <1>6 DEF Connections

(* Connections are sound after any step.                                   *)
LEMMA ConnectionsStep ==
    ASSUME GInv, [Next]_vars
    PROVE  Connections'
<1>0. /\ call \in [Callers -> CallType] /\ Connections /\ TypeOK
      /\ \A r \in Requests : r \in Callers
      /\ Worker \in Callers
  BY DEF GInv, GatewayTypeOK, IInv, TaskInv, Callers
<1>1. ASSUME NEW p \in Callers, UNCHANGED thread,
             \/ UNCHANGED call \/ Drops(p)
             \/ \E pc : call' = [call EXCEPT ![p].pc = pc]
      PROVE  Connections'
  <2>1. NoneConnects
    BY <1>1, DropConnectsNone
  <2> QED BY <1>0, <1>1, <2>1, ConnectionsKept
<1>2. ASSUME NEW r \in Requests, NEW c \in Commands, Submit(r, c)
      PROVE  Connections'
  <2>1. PICK pc, answer : Becomes(r, Task(pc, c, answer))
    BY <1>2 DEF Submit, Becomes
  <2>2. Drops(r)
    BY <2>1, TaskFacts DEF Drops
  <2> QED BY <1>0, <1>1, <1>2, <2>2 DEF Submit, accountVars
<1>3. ASSUME NEW p \in Callers, ResponseArrives(p) \/ OutcomeUnsaved(p)
      PROVE  Connections'
  <2>1. PICK t \in Threads : call[p].thread = t /\ Reply(t) /\ Drops(p)
    BY <1>3, OutcomeDrops DEF ResponseArrives, OutcomeUnsaved
  <2> QED BY <2>1, AnsweredConnections
<1>4. ASSUME NEW r \in Requests, RequestStep(r)
      PROVE  Connections'
  <2>1. CASE BeginDelivery(r)
    BY <1>0, <1>1, <2>1, OutcomeDrops DEF BeginDelivery, accountVars
  <2>2. CASE ConnectionLost(r)
    BY <1>0, <1>1, <2>2, OutcomeDrops DEF ConnectionLost, accountVars
  <2>3. CASE LogOutcome(r)
    BY <1>0, <1>1, <2>3 DEF LogOutcome, accountVars
  <2>4. CASE Respond(r)
    <3>1. IdleCall.thread = NoThread
      BY TaskFacts DEF IdleCall
    <3>2. Drops(r)
      BY <2>4, <3>1 DEF Respond, Drops, Becomes
    <3> QED BY <1>0, <1>1, <2>4, <3>2 DEF Respond, accountVars
  <2> QED
    BY <1>0, <1>3, <1>4, <2>1, <2>2, <2>3, <2>4, SendConnections DEF RequestStep
<1>5. CASE WorkerStep
  <2>1. CASE Poll
    BY <1>0, <1>1, <2>1 DEF Poll, accountVars
  <2>2. CASE TakeNext
    <3>1. ASSUME NEW pc, NEW c, Becomes(Worker, Task(pc, c, "none"))
          PROVE  Drops(Worker)
      <4> DEFINE task == Task(pc, c, "none")
      <4>1. task.thread = NoThread /\ Becomes(Worker, task)
        BY <3>1, TaskFacts
      <4> HIDE DEF task
      <4> QED BY <4>1 DEF Drops
    <3>2. UNCHANGED call \/ Drops(Worker)
      BY <2>2, <3>1 DEF TakeNext, WorkerUnavailable, WorkerMovesOn, Becomes
    <3> QED BY <1>0, <1>1, <2>2, <3>2 DEF TakeNext, accountVars
  <2>3. CASE BatchDone
    <3>1. IdleCall.thread = NoThread
      BY TaskFacts DEF IdleCall
    <3>2. Drops(Worker)
      BY <2>3, <3>1 DEF BatchDone, Drops, Becomes
    <3> QED BY <1>0, <1>1, <2>3, <3>2 DEF BatchDone, accountVars
  <2>4. CASE ConnectionLost(Worker)
    BY <1>0, <1>1, <2>4, OutcomeDrops DEF ConnectionLost, accountVars
  <2> QED
    BY <1>0, <1>3, <1>5, <2>1, <2>2, <2>3, <2>4, SendConnections DEF WorkerStep
<1>6. ASSUME NEW t \in Threads, ServiceWorks(t) \/ ServiceDatabaseFails(t)
      PROVE  Connections'
  <2>1. Step(t) /\ UNCHANGED call
    BY <1>6 DEF ServiceWorks, ServiceDatabaseFails, Step, gatewayVars
  <2>2. NoneConnects
    BY <2>1 DEF NoneConnects
  <2>3. \A q \in Callers : call'[q].thread # NoThread => call'[q].thread \in Threads
    BY <1>0, <2>1 DEF CallType
  <2>4. \A u \in Threads : /\ thread'[u].pc # "idle" \/ thread[u].pc = "idle"
                           /\ thread'[u].command = thread[u].command
    BY <1>0, <2>1, StepKeepsCommand
  <2> QED BY <1>0, <2>2, <2>3, <2>4, ConnectionsKept
<1>7. ASSUME NEW t \in Threads, AnswerDropped(t)
      PROVE  Connections'
  <2>1. UNCHANGED call /\ \A q \in Callers : call[q].thread # t
    BY <1>7 DEF AnswerDropped, gatewayVars
  <2>2. NoneConnects
    BY <2>1 DEF NoneConnects
  <2>3. \A q \in Callers : call'[q].thread # NoThread =>
            call'[q].thread \in Threads /\ call'[q].thread # t
    BY <1>0, <2>1 DEF CallType
  <2>4. \A u \in Threads : u # t => thread'[u] = thread[u]
    BY <1>0, <1>7 DEF AnswerDropped, Reply, TypeOK
  <2> QED BY <1>0, <2>2, <2>3, <2>4, ConnectionsKept
<1>8. CASE ServiceRestarts \/ GatewayRestarts
  <2>1. IdleCall.thread = NoThread
    BY TaskFacts DEF IdleCall
  <2>2. \A q \in Callers : call'[q].thread = NoThread
    BY <1>0, <1>8, <2>1 DEF ServiceRestarts, GatewayRestarts, CallType
  <2> QED BY <2>2 DEF Connections
<1>9. CASE Fault
  <2>1. ASSUME NEW p \in Callers, ConnectFails(p) \/ TimesOut(p)
                                  \/ GatewayDatabaseError(p) \/ UnavailableUnsaved(p)
        PROVE  Connections'
    BY <1>1, <2>1, OutcomeDrops
    DEF ConnectFails, TimesOut, GatewayDatabaseError, UnavailableUnsaved, accountVars
  <2>2. BalanceAttemptFails => Connections'
    BY <1>0, <1>1 DEF BalanceAttemptFails, accountVars
  <2> QED
    BY <1>3, <1>6, <1>8, <1>9, <2>1, <2>2 DEF Fault
<1>10. BalanceAnswered \/ RecoveryElapses \/ BackoffElapses \/ UNCHANGED vars => Connections'
  BY <1>0, <1>1 DEF BalanceAnswered, RecoveryElapses, BackoffElapses, accountVars, vars
<1> QED
  BY <1>2, <1>4, <1>5, <1>6, <1>7, <1>9, <1>10 DEF Next

-----------------------------------------------------------------------------
(* Types.                                                                  *)

(* The events, whatever the kind of the step.                              *)
LEMMA EventTypes ==
    ASSUME GInv, Kinds
    PROVE  events' \in [EventIds -> EventType \cup {NoEvent}]
<1>0. events \in [EventIds -> EventType \cup {NoEvent}]
  BY DEF GInv, GatewayTypeOK
<1>1. ASSUME NEW r \in Requests, NEW c \in Commands, Accepts(r, c)
      PROVE  events' \in [EventIds -> EventType \cup {NoEvent}]
  <2>1. EventRow(c) \in EventRowType
    BY CommandsAssumption DEF CommandType, EventRow, EventRowType, Clock
  <2>2. [row |-> EventRow(c), status |-> "PENDING"] \in EventType
    BY <2>1 DEF EventType, Statuses
  <2> QED BY <1>0, <1>1, <2>2 DEF Accepts
<1>2. ASSUME NEW p \in Callers, Delivers(call[p]),
             NEW status \in {"QUEUED", "APPLIED", "FAILED"},
             SetStatus(call[p].command, status)
      PROVE  events' \in [EventIds -> EventType \cup {NoEvent}]
  BY <1>2, StatusSet DEF Statuses
<1> QED
  BY <1>0, <1>1, <1>2 DEF Kinds, Queues, RequestSettles, WorkerSettles, Quiet, Callers

(* The queue.                                                              *)
LEMMA DeliveryTypes ==
    ASSUME GInv, Kinds
    PROVE  deliveries' \in [EventIds -> DeliveryType \cup {NoDelivery}]
<1>0. deliveries \in [EventIds -> DeliveryType \cup {NoDelivery}]
  BY DEF GInv, GatewayTypeOK
<1>1. ASSUME NEW r \in Requests, Queues(r)
      PROVE  deliveries' \in [EventIds -> DeliveryType \cup {NoDelivery}]
  <2>1. [payload |-> call[r].command, due |-> TRUE] \in DeliveryType
    BY <1>1, DeliveringTasks DEF Queues, DeliveryType, Callers
  <2> QED BY <1>0, <1>1, <2>1 DEF Queues
<1> QED
  BY <1>0, <1>1, QueueStaysFacts DEF Kinds, Accepts, RequestSettles, WorkerSettles, Quiet

(* The audit trail.                                                        *)
LEMMA GatewayAuditTypes ==
    ASSUME GInv, Kinds
    PROVE  gatewayAudit' \subseteq [action : GatewayActions, eventId : EventIds]
<1>0. gatewayAudit \subseteq [action : GatewayActions, eventId : EventIds]
  BY DEF GInv, GatewayTypeOK
<1>1. ASSUME NEW p \in Callers, Delivers(call[p]), NEW actions \in SUBSET GatewayActions,
             gatewayAudit' = gatewayAudit \cup
                 {GatewayNote(a, call[p].command) : a \in actions}
      PROVE  gatewayAudit' \subseteq [action : GatewayActions, eventId : EventIds]
  <2>1. call[p].command.eventId \in EventIds
    BY <1>1, DeliveringTasks
  <2> QED BY <1>0, <1>1, <2>1 DEF GatewayNote
<1>2. ASSUME NEW r \in Requests, Queues(r)
      PROVE  gatewayAudit' \subseteq [action : GatewayActions, eventId : EventIds]
  <2>1. PICK actions \in {{"EVENT_QUEUED"}, {"EVENT_STORED", "EVENT_QUEUED"}} :
            gatewayAudit' = gatewayAudit \cup
                {GatewayNote(a, call[r].command) : a \in actions}
    BY <1>2 DEF Queues, RecordGateway
  <2>2. actions \in SUBSET GatewayActions
    BY <2>1 DEF GatewayActions
  <2> QED BY <1>1, <1>2, <2>1, <2>2 DEF Queues, Callers
<1>3. ASSUME NEW r \in Requests, NEW status \in {"APPLIED", "FAILED"}, RequestSettles(r, status)
      PROVE  gatewayAudit' \subseteq [action : GatewayActions, eventId : EventIds]
  <2>1. PICK actions \in {{}, {"EVENT_STORED"}} :
            gatewayAudit' = gatewayAudit \cup
                {GatewayNote(a, call[r].command) : a \in actions}
    BY <1>3 DEF RequestSettles, RecordGateway
  <2>2. actions \in SUBSET GatewayActions
    BY <2>1 DEF GatewayActions
  <2> QED BY <1>1, <1>3, <2>1, <2>2 DEF RequestSettles, Callers
<1>4. ASSUME NEW status \in {"APPLIED", "FAILED"}, WorkerSettles(status)
      PROVE  gatewayAudit' \subseteq [action : GatewayActions, eventId : EventIds]
  <2>1. PICK a \in {"EVENT_APPLIED_FROM_QUEUE", "EVENT_QUEUE_REJECTED"} :
            gatewayAudit' = gatewayAudit \cup
                {GatewayNote(b, call[Worker].command) : b \in {a}}
    BY <1>4 DEF WorkerSettles, RecordGateway
  <2>2. {a} \in SUBSET GatewayActions
    BY <2>1 DEF GatewayActions
  <2> QED BY <1>1, <1>4, <2>1, <2>2 DEF WorkerSettles, Callers
<1>5. CASE AuditClaims
  BY <1>0, <1>5 DEF AuditClaims
<1>6. ASSUME NEW r \in Requests, NEW c \in Commands, Accepts(r, c)
      PROVE  gatewayAudit' \subseteq [action : GatewayActions, eventId : EventIds]
  BY <1>0, <1>6 DEF Accepts
<1> QED
  BY <1>2, <1>3, <1>4, <1>5, <1>6 DEF Kinds, Quiet

(* The tasks.                                                              *)
LEMMA CallTypes ==
    ASSUME GInv, Kinds
    PROVE  call' \in [Callers -> CallType]
<1>0. call \in [Callers -> CallType]
  BY DEF GInv, GatewayTypeOK
<1>1. ASSUME NEW p \in Callers, NEW task \in CallType, Becomes(p, task)
      PROVE  call' \in [Callers -> CallType]
  BY <1>0, <1>1 DEF Becomes
<1>2. ASSUME NEW p \in Callers, NEW c \in Commands \cup {NoCommand},
             NEW pc \in {"stored", "next", "log", "answered"},
             NEW answer \in GatewayAnswers \cup {"none"},
             Becomes(p, Task(pc, c, answer))
      PROVE  call' \in [Callers -> CallType]
  <2>1. Task(pc, c, answer) \in CallType
    BY TaskFacts
  <2> QED BY <1>1, <1>2, <2>1
<1>3. ASSUME NEW r \in Requests, Queues(r) \/ \E status : RequestSettles(r, status)
      PROVE  call' \in [Callers -> CallType]
  <2>1. call[r].command \in Commands
    BY <1>3, DeliveringTasks DEF Queues, RequestSettles, Callers
  <2>2. PICK pc \in {"log", "answered"},
             answer \in {"ACCEPTED", "CREATED", "REJECTED", "UNAVAILABLE"} :
                 Becomes(r, Task(pc, call[r].command, answer))
    BY <1>3 DEF Queues, RequestSettles
  <2> QED BY <1>2, <2>1, <2>2 DEF GatewayAnswers, Callers
<1>4. CASE Quiet
  <2>1. IdleCall \in CallType
    BY TaskFacts DEF IdleCall
  <2>2. \A p \in Callers : [call[p] EXCEPT !.thread = NoThread] \in CallType
    BY <1>0 DEF CallType
  <2> QED BY <1>0, <1>1, <1>4, <2>1, <2>2 DEF Quiet, TasksStay, TaskMoves
<1> QED
  BY <1>2, <1>3, <1>4 DEF Kinds, Accepts, WorkerSettles, Callers

(* The worker's batch: at most BatchSize ids, each of an event.            *)
BatchType == batch \in Seq(EventIds) /\ Len(batch) <= BatchSize

(* A poll reads due ids, at most BatchSize of them: the due deliveries are *)
(* finite in number because the queue is.                                  *)
LEMMA PollTypes ==
    ASSUME GInv, Poll
    PROVE  BatchType'
<1> DEFINE size == IF Cardinality(Due) < BatchSize THEN Cardinality(Due) ELSE BatchSize
<1>1. Due \subseteq Waiting /\ Due \subseteq EventIds
  BY DEF Due, Waiting
<1>2. IsFiniteSet(Due)
  BY <1>1, FS_Subset DEF GInv, TableInv, QueueIsFinite
<1>3. Cardinality(Due) \in Nat
  BY <1>2, FS_CardinalityType
<1>4. size \in Nat /\ size <= BatchSize
  BY <1>3, GatewayAssumption
<1>5. batch' \in [1..size -> Due]
  BY DEF Poll
<1> HIDE DEF size
<1>6. batch' \in [1..size -> EventIds]
  BY <1>1, <1>5
<1>7. batch' \in Seq(EventIds) /\ Len(batch') = size
  BY <1>4, <1>6
<1> QED
  BY <1>4, <1>7 DEF BatchType

(* Only a poll fills the batch; the worker shortens it or abandons it.     *)
LEMMA BatchTypes ==
    ASSUME GInv, [Next]_vars
    PROVE  BatchType'
<1>0. BatchType
  BY DEF GInv, GatewayTypeOK, BatchType
<1>1. UNCHANGED batch => BatchType'
  BY <1>0 DEF BatchType
<1>2. batch' = <<>> => BatchType'
  BY GatewayAssumption DEF BatchType
<1>3. ASSUME NEW p, Escapes(p)
      PROVE  BatchType'
  BY <1>1, <1>2, <1>3 DEF Escapes
<1>4. TakeNext => BatchType'
  BY <1>0, GatewayAssumption DEF TakeNext, BatchType
<1>5. ASSUME NEW r \in Requests, RequestStep(r)
      PROVE  BatchType'
  BY <1>1, <1>3, <1>5
  DEF RequestStep, BeginDelivery, Send, ResponseArrives, ConnectionLost, LogOutcome, Respond
<1>6. WorkerStep => BatchType'
  BY <1>1, <1>3, <1>4, PollTypes
  DEF WorkerStep, Send, ResponseArrives, ConnectionLost, BatchDone
<1>7. Fault => BatchType'
  BY <1>1, <1>2, <1>3
  DEF Fault, ConnectFails, TimesOut, GatewayDatabaseError, OutcomeUnsaved,
      UnavailableUnsaved, ServiceDatabaseFails, BalanceAttemptFails, ServiceRestarts,
      GatewayRestarts
<1> QED
  BY <1>1, <1>5, <1>6, <1>7
  DEF Next, Submit, BalanceAnswered, RecoveryElapses, BackoffElapses, ServiceWorks,
      AnswerDropped, gatewayVars, vars

(* The circuit breaker all tasks share.                                    *)
LEMMA BreakerStep ==
    ASSUME GInv, [Next]_vars
    PROVE  breaker' \in BreakerType
<1>0. breaker \in BreakerType
  BY DEF GInv, GatewayTypeOK, BreakerType
<1>1. /\ ClosedBreaker \in BreakerType
      /\ BreakerSuccess => breaker' \in BreakerType
      /\ BreakerFailure => breaker' \in BreakerType
      /\ RecoveryElapses => breaker' \in BreakerType
  BY <1>0, BreakerTypes
<1>2. UNCHANGED breaker => breaker' \in BreakerType
  BY <1>0
<1>3. ASSUME NEW p, ResponseArrives(p) \/ ConnectFails(p) \/ TimesOut(p)
      PROVE  breaker' \in BreakerType
  BY <1>1, <1>3 DEF ResponseArrives, ConnectFails, TimesOut, AttemptFailed
<1>4. ASSUME NEW r \in Requests, RequestStep(r)
      PROVE  breaker' \in BreakerType
  BY <1>2, <1>3, <1>4
  DEF RequestStep, BeginDelivery, Send, ConnectionLost, LogOutcome, Respond
<1>5. WorkerStep => breaker' \in BreakerType
  BY <1>2, <1>3 DEF WorkerStep, Send, ConnectionLost, BatchDone, Poll, TakeNext
<1>6. Fault => breaker' \in BreakerType
  BY <1>1, <1>2, <1>3
  DEF Fault, GatewayDatabaseError, OutcomeUnsaved, UnavailableUnsaved,
      ServiceDatabaseFails, BalanceAttemptFails, ServiceRestarts, GatewayRestarts
<1>7. BalanceAnswered => breaker' \in BreakerType
  BY <1>1 DEF BalanceAnswered
<1> QED
  BY <1>1, <1>2, <1>4, <1>5, <1>6, <1>7
  DEF Next, Submit, BackoffElapses, ServiceWorks, AnswerDropped, gatewayVars, vars

(* The fault budget and the setting.                                       *)
SurroundingsKept == faults' \in 0..MaxFaults /\ UNCHANGED fallbackEnabled

(* A fault spends the budget; nothing changes the setting.                 *)
LEMMA SurroundingsStep ==
    ASSUME GInv, [Next]_vars
    PROVE  SurroundingsKept
<1>0. faults \in 0..MaxFaults
  BY DEF GInv, GatewayTypeOK
<1>1. UNCHANGED surroundings => SurroundingsKept
  BY <1>0 DEF SurroundingsKept, surroundings
<1>2. Faulty => SurroundingsKept
  BY <1>0, GatewayAssumption DEF Faulty, SurroundingsKept
<1>3. ASSUME NEW r \in Requests, RequestStep(r)
      PROVE  SurroundingsKept
  BY <1>1, <1>3
  DEF RequestStep, BeginDelivery, Send, ResponseArrives, ConnectionLost, LogOutcome, Respond
<1>4. WorkerStep => SurroundingsKept
  BY <1>1
  DEF WorkerStep, Send, ResponseArrives, ConnectionLost, BatchDone, Poll, TakeNext
<1>5. Fault => SurroundingsKept
  BY <1>2
  DEF Fault, ConnectFails, TimesOut, GatewayDatabaseError, OutcomeUnsaved,
      UnavailableUnsaved, ServiceDatabaseFails, BalanceAttemptFails, ServiceRestarts,
      GatewayRestarts
<1>6. UNCHANGED gatewayVars \/ UNCHANGED vars => SurroundingsKept
  BY <1>0 DEF gatewayVars, vars, SurroundingsKept
<1> QED
  BY <1>1, <1>3, <1>4, <1>5, <1>6
  DEF Next, Submit, BalanceAnswered, RecoveryElapses, BackoffElapses, ServiceWorks,
      AnswerDropped

-----------------------------------------------------------------------------
(* The inductive invariant.                                                *)

(* Both services start with nothing stored, recorded, queued or audited.   *)
LEMMA InitGInv == Init => GInv
<1> SUFFICES ASSUME Init
             PROVE  GInv
  OBVIOUS
<1>1. IInv
  BY InitIInv DEF Init
<1>2. /\ IdleCall \in CallType
      /\ IdleCall.pc = "idle" /\ IdleCall.thread = NoThread /\ IdleCall.answer = "none"
  BY TaskFacts DEF IdleCall
<1>3. \A p \in Callers : call[p] = IdleCall
  BY DEF Init
<1>4. GatewayTypeOK
  <2>1. breaker \in BreakerType
    BY GatewayAssumption DEF Init, ClosedBreaker, BreakerType
  <2>2. call \in [Callers -> CallType]
    BY <1>2 DEF Init
  <2>3. batch \in Seq(EventIds) /\ Len(batch) <= BatchSize
    BY GatewayAssumption DEF Init
  <2>4. faults \in 0..MaxFaults
    BY GatewayAssumption DEF Init
  <2>5. TypeOK
    BY <1>1 DEF IInv
  <2> QED
    BY <2>1, <2>2, <2>3, <2>4, <2>5 DEF Init, GatewayTypeOK, BreakerType
<1>5. TaskInv
  <2>1. \A p \in Requests \cup {Worker} : call[p].pc = "idle" /\ call[p].thread = NoThread
                                          /\ call[p].answer = "none"
    BY <1>2, <1>3 DEF Callers
  <2> QED
    BY <2>1
    DEF TaskInv, RequestFits, WorkerFits, OneRequestPerEvent, Connections, Delivers, Callers
<1>6. \A e \in EventIds : ~Stored(e) /\ ~Recorded(e) /\ deliveries[e] = NoDelivery
  BY DEF Init, AccountInit, Stored, Recorded
<1>7. TableInv
  <2>1. AttemptsCarryStored
    BY DEF Init, AccountInit, IdleThread, AttemptsCarryStored
  <2>2. QueueIsFinite
    <3>1. Waiting = {}
      BY <1>6 DEF Waiting
    <3> QED BY <3>1, FS_EmptySet DEF QueueIsFinite
  <2>3. LedgerKnownToGateway /\ AppliedMeansRecorded /\ QueueMatchesStatus
    BY <1>6 DEF LedgerKnownToGateway, AppliedMeansRecorded, QueueMatchesStatus, HasStatus
  <2>4. AuditExplainsStatus
    BY <1>6 DEF Init, AuditExplainsStatus, HasStatus
  <2> QED BY <2>1, <2>2, <2>3, <2>4 DEF TableInv
<1> QED
  BY <1>1, <1>4, <1>5, <1>7 DEF GInv

(* Every step preserves it.                                                *)
LEMMA StepGInv == GInv /\ [Next]_vars => GInv'
<1> SUFFICES ASSUME GInv, [Next]_vars
             PROVE  GInv'
  OBVIOUS
<1>1. [AccountNext]_accountVars
  BY AccountStep DEF GInv
<1>2. Kinds
  BY StepHasKind
<1>3. EventsMove
  BY <1>2, EventsStep
<1>4. IInv'
  BY <1>1, StepIInv DEF GInv
<1>5. GatewayTypeOK'
  <2>1. TypeOK'
    BY <1>4 DEF IInv
  <2>2. /\ events' \in [EventIds -> EventType \cup {NoEvent}]
        /\ deliveries' \in [EventIds -> DeliveryType \cup {NoDelivery}]
        /\ gatewayAudit' \subseteq [action : GatewayActions, eventId : EventIds]
        /\ call' \in [Callers -> CallType]
    BY <1>2, EventTypes, DeliveryTypes, GatewayAuditTypes, CallTypes
  <2>3. BatchType' /\ breaker' \in BreakerType /\ SurroundingsKept
    BY BatchTypes, BreakerStep, SurroundingsStep
  <2> QED
    BY <2>1, <2>2, <2>3 DEF GInv, GatewayTypeOK, BatchType, BreakerType, SurroundingsKept
<1>6. TaskInv'
  <2>1. (\A r \in Requests : RequestFits(call[r]))' /\ WorkerFits(call[Worker])'
    BY <1>1, <1>2, <1>3, TasksStep
  <2>2. OneRequestPerEvent' /\ Connections'
    BY <1>2, OneRequestStep, ConnectionsStep
  <2> QED BY <2>1, <2>2 DEF TaskInv
<1>7. TableInv'
  <2>1. LedgerKnownToGateway'
    BY <1>1, <1>3, LedgerKnownStep
  <2>2. AppliedMeansRecorded'
    BY <1>1, <1>2, <1>3, <2>1, AppliedStep
  <2>3. AttemptsCarryStored' /\ QueueMatchesStatus' /\ QueueIsFinite'
    BY <1>2, <1>3, AttemptsStep, QueueStep, FiniteStep
  <2>4. AuditExplainsStatus'
    BY <1>2, AuditStepExplained, ExplainedIsInvariant
  <2> QED BY <2>1, <2>2, <2>3, <2>4 DEF TableInv
<1> QED
  BY <1>4, <1>5, <1>6, <1>7 DEF GInv

(* The inductive invariant holds in every state the two services reach,    *)
(* whatever fails.                                                         *)
THEOREM GatewayInvariance == Spec => []GInv
  BY InitGInv, StepGInv, PTL DEF Spec

(* Tables, queue, trail, tasks, batch and breaker keep their shape.        *)
THEOREM GatewayTypeCorrect == Spec => []GatewayTypeOK
<1>1. GInv => GatewayTypeOK
  BY DEF GInv
<1> QED
  BY GatewayInvariance, <1>1, PTL

(* The ledger of the Account Service holds nothing the Gateway does not    *)
(* know, and every transaction as the Gateway stored it: no retry, no late *)
(* attempt and no worker sends anything else.                              *)
THEOREM LedgerKnown == Spec => []LedgerKnownToGateway
<1>1. GInv => LedgerKnownToGateway
  BY DEF GInv, TableInv
<1> QED
  BY GatewayInvariance, <1>1, PTL

(* An event shown as APPLIED is in the ledger, by whichever path it came.  *)
THEOREM AppliedIsRecorded == Spec => []AppliedMeansRecorded
<1>1. GInv => AppliedMeansRecorded
  BY DEF GInv, TableInv
<1> QED
  BY GatewayInvariance, <1>1, PTL

(* The queue holds exactly the events shown as QUEUED, with their stored   *)
(* contents as payload: none is lost, none is delivered after it settled.  *)
THEOREM QueueIsTrue == Spec => []QueueMatchesStatus
<1>1. GInv => QueueMatchesStatus
  BY DEF GInv, TableInv
<1> QED
  BY GatewayInvariance, <1>1, PTL

(* No audit record of the Gateway contradicts the status of its event.     *)
THEOREM AuditIsTrue == Spec => []AuditExplainsStatus
<1>1. GInv => AuditExplainsStatus
  BY DEF GInv, TableInv
<1> QED
  BY GatewayInvariance, <1>1, PTL

(* What a client was told of its event is so and stays so.                 *)
THEOREM AnswersKept == Spec => []AnswersAreKept
<1>1. GInv => AnswersAreKept
  BY DEF GInv, TaskInv, RequestFits, AnswersAreKept
<1> QED
  BY GatewayInvariance, <1>1, PTL

(* Statuses move along the documented arrows only and columns never change *)
(* (the body of StatusFollowsArrows is EventsMove).                        *)
THEOREM StatusSafe == Spec => StatusFollowsArrows
<1>1. ASSUME GInv, [Next]_vars
      PROVE  [EventsMove]_vars
  BY <1>1, StepHasKind, EventsStep
<1>2. Spec => [][EventsMove]_vars
  BY <1>1, GatewayInvariance, PTL DEF Spec
<1> QED
  BY <1>2 DEF StatusFollowsArrows, EventsMove

(* Behind the Gateway the Account Service behaves as by itself: all that   *)
(* is proved of AccountSpec holds of the composition.                      *)
THEOREM AccountServiceBehind == Spec => AccountSpec
<1>1. Init => AccountInit
  BY DEF Init
<1>2. ASSUME GInv, [Next]_vars
      PROVE  [AccountNext]_accountVars
  BY <1>2, AccountStep DEF GInv
<1> QED
  BY <1>1, <1>2, GatewayInvariance, PTL DEF Spec, AccountSpec

-----------------------------------------------------------------------------
(* Conflicts.                                                              *)

(* A client is refused when what it sent does not compare as a replay of   *)
(* the stored row, which never changes afterwards.                         *)
ConflictsCompared ==
    \A r \in Requests :
        call[r].answer = "CONFLICT" =>
            /\ call[r].command \in Commands
            /\ Stored(call[r].command.eventId)
            /\ ~SameEvent(events[call[r].command.eventId].row, call[r].command)

(* Only a submission tells a client CONFLICT.                              *)
LEMMA RefusedBySubmission ==
    ASSUME GInv, [Next]_vars, NEW q \in Requests, call'[q].answer = "CONFLICT"
    PROVE  \/ call[q].answer = "CONFLICT" /\ call'[q].command = call[q].command
           \/ \E c \in Commands :
                  /\ call'[q].command = c
                  /\ Stored(c.eventId) /\ ~SameEvent(events[c.eventId].row, c)
<1> DEFINE Before == call[q].answer = "CONFLICT" /\ call'[q].command = call[q].command
<1> DEFINE Now == \E c \in Commands :
                      /\ call'[q].command = c
                      /\ Stored(c.eventId) /\ ~SameEvent(events[c.eventId].row, c)
<1>0. /\ call \in [Callers -> CallType]
      /\ \A r \in Requests : r \in Callers
      /\ q \in Callers /\ Worker \in Callers
  BY DEF GInv, GatewayTypeOK, Callers
<1>1. ASSUME NEW p \in Callers,
             \/ UNCHANGED call \/ Concludes(p)
             \/ \E pc : call' = [call EXCEPT ![p].pc = pc]
      PROVE  Before
  <2>1. CASE Concludes(p)
    BY <1>0, <2>1 DEF Concludes, Becomes
  <2>2. CASE \E pc : call' = [call EXCEPT ![p].pc = pc]
    BY <1>0, <2>2 DEF CallType
  <2> QED BY <1>1, <2>1, <2>2
<1>2. ASSUME NEW r \in Requests, NEW c \in Commands, Submit(r, c)
      PROVE  Before \/ Now
  <2>1. PICK pc, answer :
            /\ Becomes(r, Task(pc, c, answer))
            /\ answer = "CONFLICT" =>
                   Stored(c.eventId) /\ ~SameEvent(events[c.eventId].row, c)
    BY <1>2 DEF Submit, Becomes, Stored
  <2>2. call'[r] = Task(pc, c, answer) /\ (q # r => call'[q] = call[q])
    BY <1>0, <2>1 DEF Becomes
  <2>3. call'[r].command = c /\ call'[r].answer = answer
    BY <2>2, TaskFacts
  <2> QED BY <2>1, <2>2, <2>3
<1>3. ASSUME NEW p \in Callers, Send(p)
      PROVE  Before
  <2>1. \E t \in Threads :
            call' = [call EXCEPT ![p] =
               [pc |-> "waiting", command |-> call[p].command,
                attempt |-> call[p].attempt, thread |-> t, answer |-> "none"]]
    BY <1>3 DEF Send
  <2> QED BY <1>0, <2>1
<1>4. IdleCall.answer = "none" /\ IdleCall.thread = NoThread
  BY TaskFacts DEF IdleCall
<1>5. ASSUME NEW p \in Callers, call' = [call EXCEPT ![p] = IdleCall]
      PROVE  Before
  BY <1>0, <1>4, <1>5
<1>6. ASSUME ServiceRestarts \/ GatewayRestarts
      PROVE  Before
  BY <1>0, <1>4, <1>6 DEF ServiceRestarts, GatewayRestarts, CallType
<1>7. ASSUME TakeNext
      PROVE  Before
  <2>1. \/ UNCHANGED call
        \/ \E c, pc : call' = [call EXCEPT ![Worker] = Task(pc, c, "none")]
    BY <1>7 DEF TakeNext, WorkerUnavailable, WorkerMovesOn
  <2>2. call'[q] = call[q]
    BY <1>0, <2>1, GatewayAssumption
  <2> QED BY <2>2
<1> HIDE DEF Before, Now
<1>8. ASSUME NEW p \in Callers,
             \/ ResponseArrives(p) \/ OutcomeUnsaved(p) \/ ConnectFails(p) \/ TimesOut(p)
             \/ GatewayDatabaseError(p) \/ UnavailableUnsaved(p) \/ ConnectionLost(p)
      PROVE  Before
  <2>1. Concludes(p)
    BY <1>8, OutcomeConcludes
    DEF ResponseArrives, OutcomeUnsaved, ConnectFails, TimesOut, GatewayDatabaseError,
        UnavailableUnsaved, ConnectionLost
  <2> QED BY <1>1, <2>1
<1>9. ASSUME NEW r \in Requests, RequestStep(r)
      PROVE  Before
  <2>1. BeginDelivery(r) => Before
    BY <1>0, <1>1, OutcomeConcludes DEF BeginDelivery
  <2>2. LogOutcome(r) => Before
    BY <1>0, <1>1 DEF LogOutcome
  <2>3. Respond(r) => Before
    BY <1>0, <1>5 DEF Respond
  <2> QED BY <1>0, <1>3, <1>8, <1>9, <2>1, <2>2, <2>3 DEF RequestStep
<1>10. ASSUME WorkerStep
       PROVE  Before \/ Now
  <2>1. Poll => Before
    BY <1>0, <1>1 DEF Poll
  <2>2. BatchDone => Before
    BY <1>0, <1>5 DEF BatchDone
  <2> QED BY <1>0, <1>3, <1>7, <1>8, <1>10, <2>1, <2>2 DEF WorkerStep
<1>11. ASSUME Fault
       PROVE  Before \/ Now
  <2>1. ASSUME UNCHANGED call
        PROVE  Before
    BY <1>0, <1>1, <2>1
  <2>2. ASSUME NEW t \in Threads, ServiceDatabaseFails(t)
        PROVE  Before
    BY <2>1, <2>2 DEF ServiceDatabaseFails
  <2>3. BalanceAttemptFails => Before
    BY <2>1 DEF BalanceAttemptFails
  <2> QED
    BY <1>6, <1>8, <1>11, <2>2, <2>3 DEF Fault
<1>12. ASSUME BalanceAnswered \/ RecoveryElapses \/ BackoffElapses \/ UNCHANGED vars
       PROVE  Before
  BY <1>0, <1>1, <1>12 DEF BalanceAnswered, RecoveryElapses, BackoffElapses, vars
<1>13. ASSUME NEW t \in Threads, ServiceWorks(t) \/ AnswerDropped(t)
       PROVE  Before
  BY <1>0, <1>1, <1>13 DEF ServiceWorks, AnswerDropped, gatewayVars
<1> QED
  BY <1>2, <1>9, <1>10, <1>11, <1>12, <1>13 DEF Next, Before, Now

(* A request that differs from the stored row as the code compares them    *)
(* goes on doing so.                                                       *)
LEMMA ConflictsStep == GInv /\ ConflictsCompared /\ [Next]_vars => ConflictsCompared'
<1> SUFFICES ASSUME GInv, ConflictsCompared, [Next]_vars,
                    NEW r \in Requests, call'[r].answer = "CONFLICT",
                    NEW c, c = call'[r].command
             PROVE  /\ c \in Commands
                    /\ Stored(c.eventId)'
                    /\ ~SameEvent(events'[c.eventId].row, c)
  BY DEF ConflictsCompared, Stored
<1>1. c \in Commands /\ Stored(c.eventId) /\ ~SameEvent(events[c.eventId].row, c)
  BY RefusedBySubmission DEF ConflictsCompared
<1>2. c.eventId \in EventIds
  BY <1>1, CommandFacts
<1>3. EventsMove
  BY StepHasKind, EventsStep
<1>4. Stored(c.eventId)' /\ events'[c.eventId].row = events[c.eventId].row
  BY <1>1, <1>2, <1>3 DEF EventsMove
<1> QED
  BY <1>1, <1>4

(* As long as clients send their timestamps in UTC and no empty metadata   *)
(* object, a client refused with 409 sent something other than what is     *)
(* stored.  Without that the property is false: the comparison takes the   *)
(* client's own event for another one.                                     *)
THEOREM GatewayConflictSafe ==
    ASSUME \A c \in Commands :
               c.eventTimestamp.offset = 0 /\ c.metadata # EmptyMetadata
    PROVE  Spec => []GatewayConflictIsReal
<1>1. Init => ConflictsCompared
  <2> SUFFICES ASSUME Init, NEW r \in Requests
               PROVE  call[r].answer # "CONFLICT"
    BY DEF ConflictsCompared
  <2>1. call[r] = IdleCall
    BY DEF Init, Callers
  <2> QED BY <2>1, TaskFacts DEF IdleCall
<1>2. GInv /\ ConflictsCompared => GatewayConflictIsReal
  <2> SUFFICES ASSUME ConflictsCompared, NEW r \in Requests,
                      call[r].answer = "CONFLICT", NEW c, c = call[r].command,
                      events[c.eventId].row = EventRow(c)
               PROVE  FALSE
    BY DEF GatewayConflictIsReal
  <2>1. c \in Commands /\ ~SameEvent(EventRow(c), c)
    BY DEF ConflictsCompared
  <2>2. c.eventTimestamp.offset = 0 /\ c.metadata # EmptyMetadata
        /\ c.eventTimestamp.clock \in Int
    BY <2>1, CommandsAssumption DEF CommandType, Clock
  <2> QED
    BY <2>1, <2>2 DEF SameEvent, EventRow, UtcNaive, OrNone
<1> QED
  BY <1>1, <1>2, ConflictsStep, GatewayInvariance, PTL DEF Spec

-----------------------------------------------------------------------------
(***************************************************************************)
(* The Gateway, its worker and the Account Service together implement      *)
(* EventLifecycle, and the Account Service behind the Gateway implements   *)
(* Ledger.                                                                 *)
(***************************************************************************)

(* The abstract status and contents, as functions of a state.              *)
StatusOf(e) ==
    IF ~Stored(e) THEN "unknown"
    ELSE IF events[e].status \in {"PENDING", "QUEUED"} THEN "open"
    ELSE events[e].status

ContentOf(e) ==
    IF ~Stored(e) THEN NoTransaction ELSE TransactionOf(events[e].row)

Shown == [e \in EventIds |-> StatusOf(e)]

Sent == [e \in EventIds |-> ContentOf(e)]

(* The abstract state follows the events table and the ledger.             *)
LEMMA ShownKept ==
    ASSUME NEW e, events'[e] = events[e]
    PROVE  StatusOf(e)' = StatusOf(e) /\ ContentOf(e)' = ContentOf(e)
  BY DEF StatusOf, ContentOf, Stored

(* A step that touches neither is invisible.                               *)
LEMMA InvisibleStep ==
    ASSUME \A e \in EventIds : StatusOf(e)' = StatusOf(e) /\ ContentOf(e)' = ContentOf(e),
           UNCHANGED transactions
    PROVE  UNCHANGED Lifecycle!lifecycleVars
<1>1. Shown' = Shown /\ Sent' = Sent
  BY DEF Shown, Sent
<1> QED
  BY <1>1 DEF Lifecycle!lifecycleVars, Shown, Sent, StatusOf, ContentOf

(* A request that stores a new event accepts it.                           *)
LEMMA AcceptsImplements ==
    ASSUME GInv, NEW r \in Requests, NEW c \in Commands, Accepts(r, c)
    PROVE  Lifecycle!Accept(c.eventId)
<1> DEFINE e == c.eventId
<1>1. e \in EventIds
  BY CommandFacts
<1>2. EventRow(c) \in EventRowType
  BY CommandsAssumption DEF CommandType, EventRow, EventRowType, Clock
<1>3. [row |-> EventRow(c), status |-> "PENDING"] # NoEvent
  BY <1>2, GatewayNullsAssumption DEF EventType, Statuses
<1>4. /\ events'[e] = [row |-> EventRow(c), status |-> "PENDING"]
      /\ \A d \in EventIds : d # e => events'[d] = events[d]
      /\ ~Stored(e)
  BY <1>1 DEF Accepts, GInv, GatewayTypeOK
<1>5. Stored(e)'
  BY <1>3, <1>4 DEF Stored
<1>6. StatusOf(e) = "unknown" /\ StatusOf(e)' = "open"
  BY <1>4, <1>5 DEF StatusOf
<1>7. ContentOf(e)' = TransactionOf(EventRow(c))
  BY <1>4, <1>5 DEF ContentOf
<1>8. ContentOf(e)' \in TransactionRowType
  BY <1>2, <1>7 DEF TransactionOf, EventRowType, TransactionRowType
<1>9. \A d \in EventIds : d # e => StatusOf(d)' = StatusOf(d) /\ ContentOf(d)' = ContentOf(d)
  BY <1>4, ShownKept
<1>10. /\ Shown[e] = "unknown"
       /\ Shown' = [Shown EXCEPT ![e] = "open"]
       /\ Sent' = [Sent EXCEPT ![e] = Sent'[e]]
       /\ Sent'[e] \in TransactionRowType
  BY <1>1, <1>6, <1>8, <1>9 DEF Shown, Sent
<1> QED
  BY <1>10 DEF Lifecycle!Accept, Accepts, Shown, Sent, StatusOf, ContentOf

(* An outcome changes the abstract status of its event and nothing else.   *)
LEMMA OutcomeShows ==
    ASSUME GInv, NEW p \in Callers, Delivers(call[p]),
           NEW status \in {"QUEUED", "APPLIED", "FAILED"},
           SetStatus(call[p].command, status), NEW e, e = call[p].command.eventId
    PROVE  /\ e \in EventIds
           /\ Shown[e] = "open"
           /\ Shown' = [Shown EXCEPT ![e] = IF status = "QUEUED" THEN "open" ELSE status]
           /\ Sent' = Sent
<1>1. /\ e \in EventIds /\ Stored(e)
      /\ events'[e] = [row |-> events[e].row, status |-> status]
      /\ events'[e] # NoEvent
      /\ \A d \in EventIds : d # e => events'[d] = events[d]
  BY StatusSet DEF Statuses
<1>2. events[e].status \in {"PENDING", "QUEUED"}
  BY DeliveringTasks DEF HasStatus
<1>3. StatusOf(e) = "open"
  BY <1>1, <1>2 DEF StatusOf
<1>4. StatusOf(e)' = IF status = "QUEUED" THEN "open" ELSE status
  BY <1>1 DEF StatusOf, Stored
<1>5. ContentOf(e)' = ContentOf(e)
  BY <1>1 DEF ContentOf, Stored
<1>6. \A d \in EventIds : d # e => StatusOf(d)' = StatusOf(d) /\ ContentOf(d)' = ContentOf(d)
  BY <1>1, ShownKept
<1> QED
  BY <1>1, <1>3, <1>4, <1>5, <1>6 DEF Shown, Sent

(* An event that settles is confirmed, with its transaction in the ledger, *)
(* or given up.                                                            *)
LEMMA SettlesImplements ==
    ASSUME GInv, NEW p \in Callers, Delivers(call[p]),
           NEW status \in {"APPLIED", "FAILED"}, SetStatus(call[p].command, status),
           UNCHANGED transactions,
           status = "APPLIED" => Recorded(call[p].command.eventId)
    PROVE  Lifecycle!LifecycleNext
<1> SUFFICES ASSUME NEW e, e = call[p].command.eventId
             PROVE  Lifecycle!LifecycleNext
  OBVIOUS
<1>1. /\ e \in EventIds
      /\ Shown[e] = "open"
      /\ Shown' = [Shown EXCEPT ![e] = status]
      /\ Sent' = Sent
  BY OutcomeShows
<1>2. CASE status = "APPLIED"
  <2>1. Lifecycle!Confirm(e)
    BY <1>1, <1>2 DEF Lifecycle!Confirm, Shown, Sent, StatusOf, ContentOf, Recorded
  <2> QED BY <1>1, <2>1 DEF Lifecycle!LifecycleNext
<1>3. CASE status = "FAILED"
  <2>1. Lifecycle!GiveUp(e)
    BY <1>1, <1>3 DEF Lifecycle!GiveUp, Shown, Sent, StatusOf, ContentOf
  <2> QED BY <1>1, <2>1 DEF Lifecycle!LifecycleNext
<1> QED BY <1>2, <1>3

(* A commit of the Account Service puts an event in the ledger as it was   *)
(* stored, whether anybody still waits for the attempt or not; an event    *)
(* shown as APPLIED is there already.                                      *)
LEMMA CommitImplements ==
    ASSUME GInv, NEW t \in Threads, Commits(t), UNCHANGED events
    PROVE  Lifecycle!LifecycleNext
<1> DEFINE c == thread[t].command
<1> DEFINE e == c.eventId
<1>1. /\ c \in Commands
      /\ transactions[e] = NoTransaction
      /\ transactions' = [transactions EXCEPT ![e] = TransactionRow(c)]
  BY CommitFacts DEF GInv, IInv
<1>2. e \in EventIds
  BY <1>1, CommandFacts
<1>3. StoredAs(c)
  BY DEF Commits, CommitAnswering, GInv, TableInv, AttemptsCarryStored
<1>4. events[e] \in EventType
  BY <1>2, <1>3 DEF GInv, GatewayTypeOK, StoredAs, Stored
<1>5. events[e].status # "APPLIED"
  BY <1>1, <1>2, <1>3
  DEF GInv, TableInv, AppliedMeansRecorded, HasStatus, StoredAs, Recorded
<1>6. StatusOf(e) \in {"open", "FAILED"}
  BY <1>3, <1>4, <1>5 DEF StatusOf, StoredAs, EventType, Statuses
<1>7. ContentOf(e) = TransactionRow(c)
  BY <1>3 DEF ContentOf, StoredAs, TransactionOf, EventRow, TransactionRow
<1>8. \A d \in EventIds : StatusOf(d)' = StatusOf(d) /\ ContentOf(d)' = ContentOf(d)
  BY ShownKept
<1>9. /\ Shown[e] \in {"open", "FAILED"}
      /\ transactions' = [transactions EXCEPT ![e] = Sent[e]]
      /\ Shown' = Shown /\ Sent' = Sent
  BY <1>1, <1>2, <1>6, <1>7, <1>8 DEF Shown, Sent
<1>10. Lifecycle!Enter(e)
  BY <1>1, <1>9 DEF Lifecycle!Enter, Shown, Sent, StatusOf, ContentOf
<1> QED
  BY <1>2, <1>10 DEF Lifecycle!LifecycleNext

(* Every step of the composition is a step of the lifecycle of one event   *)
(* or a stutter.                                                           *)
LEMMA LifecycleStep ==
    ASSUME GInv, [Next]_vars
    PROVE  [Lifecycle!LifecycleNext]_(Lifecycle!lifecycleVars)
<1>1. Kinds /\ [AccountNext]_accountVars
  BY StepHasKind, AccountStep DEF GInv
<1>2. ASSUME NEW r \in Requests, NEW c \in Commands, Accepts(r, c)
      PROVE  Lifecycle!LifecycleNext
  BY <1>2, AcceptsImplements, CommandFacts DEF Lifecycle!LifecycleNext
<1>3. ASSUME NEW r \in Requests, Queues(r)
      PROVE  UNCHANGED Lifecycle!lifecycleVars
  <2>1. PICK e \in EventIds : /\ Shown[e] = "open"
                             /\ Shown' = [Shown EXCEPT ![e] = "open"]
                             /\ Sent' = Sent
    BY <1>3, OutcomeShows DEF Queues, Callers
  <2>2. Shown' = Shown
    BY <2>1 DEF Shown
  <2> QED
    BY <1>3, <2>1, <2>2 DEF Queues, Lifecycle!lifecycleVars, Shown, Sent, StatusOf, ContentOf
<1>4. ASSUME NEW r \in Requests, NEW status \in {"APPLIED", "FAILED"}, RequestSettles(r, status)
      PROVE  Lifecycle!LifecycleNext
  BY <1>4, SettlesImplements DEF RequestSettles, Callers
<1>5. ASSUME NEW status \in {"APPLIED", "FAILED"}, WorkerSettles(status)
      PROVE  Lifecycle!LifecycleNext
  BY <1>5, SettlesImplements DEF WorkerSettles, Callers
<1>6. ASSUME UNCHANGED events
      PROVE  [Lifecycle!LifecycleNext]_(Lifecycle!lifecycleVars)
  <2>1. CASE LedgerUntouched
    BY <1>6, <2>1, ShownKept, InvisibleStep DEF LedgerUntouched
  <2> QED
    BY <1>1, <1>6, <2>1, StepKinds, CommitImplements
<1> QED
  BY <1>1, <1>2, <1>3, <1>4, <1>5, <1>6 DEF Kinds, Quiet

(* Whatever fails, every event goes through the promised lifecycle: it is  *)
(* accepted once, its contents never change, it enters the ledger at most  *)
(* once and as accepted, by whichever attempt commits first, and it is     *)
(* shown as APPLIED only after that.                                       *)
THEOREM LifecycleImplemented == Spec => ImplementsLifecycle
<1>1. Init => Lifecycle!LifecycleInit
  <2> SUFFICES ASSUME Init
               PROVE  Lifecycle!LifecycleInit
    OBVIOUS
  <2>1. \A e \in EventIds : ~Stored(e)
    BY DEF Init, Stored
  <2> QED
    BY <2>1 DEF Init, AccountInit, Lifecycle!LifecycleInit
<1> QED
  BY <1>1, LifecycleStep, GatewayInvariance, PTL
  DEF Spec, ImplementsLifecycle, Lifecycle!LifecycleSpec

(* Behind the Gateway, with its retries, its worker and the attempts it    *)
(* abandons, the Account Service still is the atomic ledger.               *)
THEOREM LedgerBehindGateway == Spec => ImplementsLedger
  BY AccountServiceBehind, LedgerImplemented, PTL

-----------------------------------------------------------------------------
(***************************************************************************)
(* What FAILED means while there is a queue for what could not be          *)
(* delivered: the Account Service refused the event for good.              *)
(***************************************************************************)

(* An answered thread has an answer, and a refusal its reason.             *)
AnswersExplained ==
    \A t \in Threads :
        LET c == thread[t].command IN
        /\ thread[t].pc = "done" => thread[t].answer # "none"
        /\ thread[t].answer = "CURRENCY_MISMATCH" =>
               /\ accounts[c.accountId] # NoAccount
               /\ accounts[c.accountId].currency # c.currency
        /\ thread[t].answer = "ACCOUNT_ID_MISMATCH" => thread[t].path # c.accountId

(* The client builds the URL from the event it sends.                      *)
PathsMatch ==
    \A t \in Threads : thread[t].pc # "idle" => thread[t].path = thread[t].command.accountId

(* A task waits for a thread that has answered event e with a refusal: the *)
(* account is kept in another currency, or EVENT_ID_CONFLICT.              *)
RefusalAwaited(e) ==
    \E p \in Callers, t \in Threads :
        /\ call[p].pc = "waiting" /\ call[p].thread = t
        /\ thread[t].pc = "done" /\ thread[t].command.eventId = e
        /\ \/ thread[t].answer = "EVENT_ID_CONFLICT"
           \/ LET row == events[e].row IN
              /\ thread[t].answer = "CURRENCY_MISMATCH"
              /\ accounts[row.accountId] # NoAccount
              /\ accounts[row.accountId].currency # row.currency

(* With the fallback enabled, an event becomes FAILED when the task that   *)
(* delivers it receives a refusal of the Account Service, and at no other  *)
(* time; and the Account Service answers EVENT_ID_CONFLICT to a delivery   *)
(* that has just lost the race to open its account, and to no other.       *)
FailuresHaveReasons ==
    [][/\ fallbackEnabled =>
              \A e \in EventIds :
                  ~HasStatus(e, {"FAILED"}) /\ HasStatus(e, {"FAILED"})' => RefusalAwaited(e)
       /\ \A t \in Threads :
              thread[t].answer # "EVENT_ID_CONFLICT" /\ thread'[t].answer = "EVENT_ID_CONFLICT" =>
                  LostTheOpening(t)]_vars

(* What remains of that in later states: another event has opened the      *)
(* account of a FAILED one.                                                *)
OpenedByAnother(e) == \E r \in Openings(events[e].row.accountId) : r.eventId # e

FailedMeansRefused ==
    fallbackEnabled =>
        \A e \in EventIds : HasStatus(e, {"FAILED"}) => OpenedByAnother(e)

RefusalInv == GInv /\ RaceInv /\ AnswersExplained /\ PathsMatch /\ FailedMeansRefused

(* What a step does to a thread: nothing, or it is not answered, or it is  *)
(* answered now.                                                           *)
LEMMA ThreadAnswers ==
    ASSUME TypeOK, BusyThreads, [AccountNext]_accountVars, NEW t \in Threads
    PROVE  \/ thread'[t] = thread[t]
           \/ thread'[t].pc # "done" /\ thread'[t].answer = "none"
           \/ /\ thread'[t].answer # "none"
              /\ thread'[t].command = thread[t].command /\ thread'[t].path = thread[t].path
              /\ thread'[t].answer = "CURRENCY_MISMATCH" =>
                     /\ thread[t].pc = "account"
                     /\ accounts[thread[t].path] # NoAccount
                     /\ accounts[thread[t].path].currency # thread[t].command.currency
              /\ thread'[t].answer = "ACCOUNT_ID_MISMATCH" =>
                     thread[t].path # thread[t].command.accountId
<1> DEFINE Same == thread'[t] = thread[t]
<1> DEFINE Open == thread'[t].pc # "done" /\ thread'[t].answer = "none"
<1> DEFINE Answered(answer) ==
               /\ thread'[t].answer = answer
               /\ thread'[t].command = thread[t].command /\ thread'[t].path = thread[t].path
<1> DEFINE Fits(answer) ==
               /\ answer # "none"
               /\ answer = "CURRENCY_MISMATCH" =>
                      /\ thread[t].pc = "account"
                      /\ accounts[thread[t].path] # NoAccount
                      /\ accounts[thread[t].path].currency # thread[t].command.currency
               /\ answer = "ACCOUNT_ID_MISMATCH" => thread[t].path # thread[t].command.accountId
<1> DEFINE Goal == Same \/ Open \/ \E answer : Answered(answer) /\ Fits(answer)
<1>1. ASSUME NEW u \in Threads, NEW answer, Answer(u, answer), u = t => Fits(answer)
      PROVE  Goal
  <2>1. CASE u = t
    <3>1. Answered(answer)
      BY <1>1, <2>1 DEF Answer, TypeOK, ThreadType
    <3> QED BY <1>1, <2>1, <3>1
  <2>2. CASE u # t
    BY <1>1, <2>2 DEF Answer, TypeOK
  <2> QED BY <2>1, <2>2
<1>2. ASSUME NEW u \in Threads, thread[u].pc # "done", NEW pc, pc # "done", Move(u, pc)
      PROVE  Goal
  BY <1>2 DEF Move, TypeOK, ThreadType, BusyThreads
<1>3. ASSUME NEW u \in Threads, thread[u].pc # "done", NEW row,
             thread' = [thread EXCEPT ![u].pc = "commit", ![u].seen = row]
      PROVE  Goal
  BY <1>3 DEF TypeOK, ThreadType, BusyThreads
<1>4. ASSUME NEW u \in Threads, thread' = [thread EXCEPT ![u] = IdleThread]
      PROVE  Goal
  BY <1>4 DEF IdleThread, TypeOK
<1>5. ASSUME NEW u \in Threads, NEW path, NEW c, Receive(u, path, c)
      PROVE  Goal
  BY <1>5 DEF Receive, IdleThread, TypeOK
<1>6. Restart \/ UNCHANGED accountVars => Goal
  BY DEF Restart, IdleThread, accountVars
<1>7. \A answer \in Answers \ {"CURRENCY_MISMATCH", "ACCOUNT_ID_MISMATCH"} : Fits(answer)
  BY DEF Answers
<1> HIDE DEF Goal
<1>8. ASSUME NEW u \in Threads, NEW answer \in Answers \ {"CURRENCY_MISMATCH", "ACCOUNT_ID_MISMATCH"},
             Answer(u, answer)
      PROVE  Goal
  BY <1>1, <1>7, <1>8
<1>9. ASSUME NEW u \in Threads, AnswerExisting(u)
      PROVE  Goal
  BY <1>8, <1>9 DEF AnswerExisting, RecordAndAnswer, Answers
<1>10. ASSUME NEW u \in Threads, Step(u)
       PROVE  Goal
  <2>1. CASE RejectMismatch(u)
    BY <1>1, <2>1 DEF RejectMismatch, RecordAndAnswer
  <2>2. CASE LookupTransaction(u)
    BY <1>2, <1>9, <2>2 DEF LookupTransaction
  <2>3. CASE LookupAccount(u)
    BY <1>1, <1>3, <2>3 DEF LookupAccount, RecordAndAnswer
  <2>4. CASE Commits(u)
    BY <1>8, <2>4 DEF Commits, CommitAnswering, Answers
  <2>5. CASE CommitRefused(u)
    BY <1>2, <2>5 DEF CommitRefused
  <2>6. CASE Resolve(u)
    BY <1>8, <1>9, <2>6 DEF Resolve, RecordAndAnswer, Answers
  <2>7. CASE DatabaseError(u)
    BY <1>8, <2>7 DEF DatabaseError, Answers
  <2> QED
    BY <1>10, <2>1, <2>2, <2>3, <2>4, <2>5, <2>6, <2>7 DEF Step, Work, Fail, Commits, Commit,
        CommitUnconfirmed
<1>11. Goal
  BY <1>4, <1>5, <1>6, <1>10 DEF AccountNext, Step, Reply
<1> QED
  BY <1>11 DEF Goal

(* An account keeps its currency, so a refusal keeps its reason.           *)
LEMMA AnswersExplainedStep ==
    ASSUME IInv, AnswersExplained, [AccountNext]_accountVars, BusyThreads'
    PROVE  AnswersExplained'
<1>1. \A a \in AccountIds : accounts[a] # NoAccount =>
          accounts'[a] # NoAccount /\ accounts'[a].currency = accounts[a].currency
  BY AccountsKept, StepKinds DEF IInv, LedgerUntouched
<1> SUFFICES ASSUME NEW t \in Threads
             PROVE  LET c == thread'[t].command IN
                    /\ thread'[t].pc = "done" => thread'[t].answer # "none"
                    /\ thread'[t].answer = "CURRENCY_MISMATCH" =>
                           /\ accounts'[c.accountId] # NoAccount
                           /\ accounts'[c.accountId].currency # c.currency
                    /\ thread'[t].answer = "ACCOUNT_ID_MISMATCH" => thread'[t].path # c.accountId
  BY DEF AnswersExplained
<1>2. thread'[t].answer # "none" => thread'[t].command.accountId \in AccountIds
  BY CommandFacts DEF BusyThreads
<1>3. CASE thread'[t] = thread[t]
  BY <1>1, <1>2, <1>3 DEF AnswersExplained
<1>4. CASE thread'[t].pc # "done" /\ thread'[t].answer = "none"
  BY <1>4
<1>5. ASSUME thread'[t].answer # "none",
             thread'[t].command = thread[t].command, thread'[t].path = thread[t].path,
             thread'[t].answer = "CURRENCY_MISMATCH" =>
                 /\ thread[t].pc = "account"
                 /\ accounts[thread[t].path] # NoAccount
                 /\ accounts[thread[t].path].currency # thread[t].command.currency,
             thread'[t].answer = "ACCOUNT_ID_MISMATCH" =>
                 thread[t].path # thread[t].command.accountId
      PROVE  /\ thread'[t].answer = "CURRENCY_MISMATCH" =>
                    /\ accounts'[thread'[t].command.accountId] # NoAccount
                    /\ accounts'[thread'[t].command.accountId].currency
                           # thread'[t].command.currency
             /\ thread'[t].answer = "ACCOUNT_ID_MISMATCH" =>
                    thread'[t].path # thread'[t].command.accountId
  <2>1. thread[t].pc = "account" => thread[t].path = thread[t].command.accountId
    BY DEF IInv, BusyThreads
  <2> QED BY <1>1, <1>2, <1>5, <2>1
<1> QED
  BY <1>3, <1>4, <1>5, ThreadAnswers DEF IInv

(* A thread takes its path from the task it works for.                     *)
LEMMA PathsStep ==
    ASSUME GInv, PathsMatch, [Next]_vars
    PROVE  PathsMatch'
  BY ThreadsKept DEF PathsMatch

(* While timestamps are in UTC a recorded event compares equal to every    *)
(* retry of it.                                                            *)
LEMMA RetriesCompareEqual ==
    ASSUME GInv, \A c \in Commands : c.eventTimestamp.offset = 0,
           NEW t \in Threads, thread[t].pc # "idle",
           Recorded(thread[t].command.eventId)
    PROVE  SameTransaction(transactions[thread[t].command.eventId], thread[t].command)
<1>1. PICK c, e : c = thread[t].command /\ e = c.eventId
  OBVIOUS
<1>2. c \in Commands /\ Stored(e) /\ events[e].row = EventRow(c)
  BY <1>1 DEF GInv, TableInv, AttemptsCarryStored, StoredAs
<1>3. e \in EventIds
  BY <1>1, <1>2, CommandFacts
<1>4. transactions[e] \in TransactionRowType
  BY <1>1, <1>3 DEF GInv, IInv, TypeOK, Recorded
<1>5. DOMAIN transactions[e] = {"accountId", "type", "amount", "currency", "eventTimestamp"}
  BY <1>4 DEF TransactionRowType
<1>6. \A f \in DOMAIN transactions[e] : transactions[e][f] = EventRow(c)[f]
  BY <1>1, <1>2, <1>3 DEF GInv, TableInv, LedgerKnownToGateway
<1>7. UtcNaive(c.eventTimestamp) = c.eventTimestamp.clock
  <2>1. c.eventTimestamp.offset = 0 /\ c.eventTimestamp.clock \in Int
    BY <1>2, CommandsAssumption DEF CommandType, Clock
  <2> QED BY <2>1 DEF UtcNaive
<1>8. SameTransaction(transactions[e], c)
  BY <1>5, <1>6, <1>7 DEF SameTransaction, EventRow
<1> QED
  BY <1>1, <1>8

(* A refused thread carries a stored event whose account another event has *)
(* opened: the first currency of an account is that of the event that      *)
(* opened it, and a recorded event compares equal to its retries.          *)
LEMMA RefusedByAnother ==
    ASSUME GInv, RaceInv, AnswersExplained, PathsMatch,
           \A c \in Commands : c.eventTimestamp.offset = 0,
           NEW t \in Threads,
           thread[t].answer \in
               {"EVENT_ID_CONFLICT", "CURRENCY_MISMATCH", "ACCOUNT_ID_MISMATCH"}
    PROVE  OpenedByAnother(thread[t].command.eventId)
<1>1. PICK c : c = thread[t].command
  OBVIOUS
<1>2. PICK e, a : e = c.eventId /\ a = c.accountId
  OBVIOUS
<1>3. thread[t].pc # "idle"
  BY DEF GInv, IInv, BusyThreads
<1>4. c \in Commands /\ Stored(e) /\ events[e].row = EventRow(c)
  BY <1>1, <1>2, <1>3 DEF GInv, TableInv, AttemptsCarryStored, StoredAs
<1>5. e \in EventIds /\ a \in AccountIds /\ events[e].row.accountId = a
  BY <1>2, <1>4, CommandFacts DEF EventRow
<1>6. SUFFICES \E r \in Openings(a) : r.eventId # e
  BY <1>1, <1>2, <1>5 DEF OpenedByAnother
<1>7. CASE thread[t].answer = "CURRENCY_MISMATCH"
  <2>1. accounts[a] # NoAccount /\ accounts[a].currency # c.currency
    BY <1>1, <1>2, <1>7 DEF AnswersExplained
  <2>2. PICK r : r \in Openings(a)
    BY <1>5, <2>1 DEF RaceInv, TrailInv, OpenedByOne
  <2>3. PICK d \in Commands : d.eventId = r.eventId /\ d.accountId = a
                              /\ transactions[r.eventId] = TransactionRow(d)
                              /\ Recorded(r.eventId)
    BY <2>2 DEF Openings, RaceInv, AuditedIsRecorded, RecordedFor, LedgerActions
  <2>4. accounts[a].currency = TransactionRow(d).currency
    <3>1. r.eventId \in EventIds
      BY <2>3, CommandFacts
    <3>2. TransactionRow(d).accountId = a
      BY <2>3 DEF TransactionRow
    <3> QED BY <2>3, <3>1, <3>2 DEF GInv, IInv, CurrencyConsistent
  <2>5. r.eventId # e
    <3>1. SUFFICES ASSUME r.eventId = e PROVE FALSE
      OBVIOUS
    <3>2. "currency" \in DOMAIN TransactionRow(d)
      BY DEF TransactionRow
    <3>3. TransactionRow(d)["currency"] = events[e].row["currency"]
      BY <1>5, <2>3, <3>1, <3>2 DEF GInv, TableInv, LedgerKnownToGateway
    <3>4. events[e].row["currency"] = c.currency
      BY <1>4 DEF EventRow
    <3> QED BY <2>1, <2>4, <3>3, <3>4
  <2> QED BY <2>2, <2>5
<1>8. CASE thread[t].answer = "EVENT_ID_CONFLICT"
  <2>1. \/ Recorded(e) /\ ~SameTransaction(transactions[e], c)
        \/ \E r \in Openings(a) : r.eventId # e
    BY <1>1, <1>2, <1>8 DEF RaceInv, ConflictExplained
  <2>2. Recorded(e) => SameTransaction(transactions[e], c)
    BY <1>1, <1>2, <1>3, RetriesCompareEqual
  <2> QED BY <2>1, <2>2
<1>9. thread[t].answer # "ACCOUNT_ID_MISMATCH"
  BY <1>3 DEF AnswersExplained, PathsMatch
<1> QED
  BY <1>7, <1>8, <1>9

(* With the fallback enabled, an event becomes FAILED only by an answer    *)
(* that refuses it.                                                        *)
LEMMA NewlyFailed ==
    ASSUME GInv, AnswersExplained, fallbackEnabled, [Next]_vars,
           PathsMatch, NEW e \in EventIds, HasStatus(e, {"FAILED"})'
    PROVE  HasStatus(e, {"FAILED"}) \/ RefusalAwaited(e)
<1> DEFINE Old == HasStatus(e, {"FAILED"})
<1> DEFINE Refused == RefusalAwaited(e)
<1>1. ASSUME UNCHANGED events
      PROVE  Old
  BY <1>1 DEF HasStatus, Stored
<1>2. ASSUME NEW p \in Callers, Delivers(call[p]), NEW status \in Statuses,
             SetStatus(call[p].command, status)
      PROVE  Old \/ (status = "FAILED" /\ e = call[p].command.eventId)
  <2> DEFINE f == call[p].command.eventId
  <2>1. /\ events'[f] = [row |-> events[f].row, status |-> status]
        /\ \A d \in EventIds : d # f => events'[d] = events[d]
    BY <1>2, StatusSet
  <2>2. events'[e] # NoEvent /\ events'[e].status = "FAILED"
    BY DEF HasStatus, Stored
  <2>3. CASE e = f
    BY <1>2, <2>1, <2>2, <2>3
  <2>4. CASE e # f
    BY <2>1, <2>2, <2>4 DEF HasStatus, Stored
  <2> QED BY <2>3, <2>4
<1>3. ASSUME NEW r \in Requests, NEW c \in Commands, Submit(r, c)
      PROVE  Old
  <2>1. CASE Stored(c.eventId)
    BY <1>1, <1>3, <2>1 DEF Submit, Stored
  <2>2. CASE ~Stored(c.eventId)
    <3>1. c.eventId \in EventIds
      BY CommandFacts
    <3>2. /\ events'[c.eventId].status = "PENDING"
          /\ \A d \in EventIds : d # c.eventId => events'[d] = events[d]
      BY <1>3, <2>2, <3>1 DEF Submit, Stored, GInv, GatewayTypeOK
    <3> QED BY <3>2 DEF HasStatus, Stored
  <2> QED BY <2>1, <2>2
<1> HIDE DEF Old, Refused
<1>4. ASSUME NEW p \in Callers, NEW notes, Delivers(call[p]), RequestUnavailable(p, notes)
      PROVE  Old
  BY <1>2, <1>4 DEF RequestUnavailable, Statuses
<1>5. ASSUME NEW c, WorkerUnavailable(c)
      PROVE  Old
  BY <1>1, <1>5 DEF WorkerUnavailable
<1>6. ASSUME NEW p \in Callers, Delivers(call[p]), AttemptFailed(p)
      PROVE  Old
  BY <1>1, <1>4, <1>5, <1>6 DEF AttemptFailed, tables
<1>7. ASSUME NEW p \in Callers, ResponseArrives(p)
      PROVE  Old \/ Refused
  <2>1. PICK t \in Threads :
            /\ call[p].pc = "waiting" /\ call[p].thread = t /\ Reply(t)
            /\ CASE thread[t].answer = "DATABASE_UNAVAILABLE" -> AttemptFailed(p)
                 [] thread[t].answer \in {"APPLIED", "REPLAYED"} -> BreakerSuccess /\ Applied(p)
                 [] OTHER -> BreakerSuccess /\ Rejected(p)
    BY <1>7 DEF ResponseArrives
  <2>2. Delivers(call[p])
    BY <2>1 DEF Delivers
  <2>3. CASE thread[t].answer = "DATABASE_UNAVAILABLE"
    BY <1>6, <2>1, <2>2, <2>3
  <2>4. CASE thread[t].answer \in {"APPLIED", "REPLAYED"}
    <3>1. Applied(p)
      BY <2>1, <2>4
    <3> QED BY <1>2, <2>2, <3>1 DEF Applied, Statuses
  <2>5. CASE thread[t].answer \notin {"DATABASE_UNAVAILABLE", "APPLIED", "REPLAYED"}
    <3>1. SetStatus(call[p].command, "FAILED")
      BY <2>1, <2>5 DEF Rejected
    <3>2. Old \/ e = call[p].command.eventId
      BY <1>2, <2>2, <3>1 DEF Statuses
    <3>3. thread[t].command = call[p].command
      BY <2>1, GatewayAssumption DEF GInv, TaskInv, Connections
    <3>4. thread[t].answer \in Answers \cup {"none"} /\ thread[t].answer # "none"
      BY <2>1 DEF Reply, AnswersExplained, GInv, IInv, TypeOK, ThreadType
    <3>5. thread[t].pc = "done"
      BY <2>1 DEF Reply
    <3>6. thread[t].answer \in {"EVENT_ID_CONFLICT", "CURRENCY_MISMATCH"}
      <4>1. thread[t].answer \in {"EVENT_ID_CONFLICT", "CURRENCY_MISMATCH", "ACCOUNT_ID_MISMATCH"}
        BY <2>5, <3>4 DEF Answers
      <4>2. thread[t].answer # "ACCOUNT_ID_MISMATCH"
        BY <3>5 DEF AnswersExplained, PathsMatch
      <4> QED BY <4>1, <4>2
    <3>7. ASSUME e = call[p].command.eventId, thread[t].answer = "CURRENCY_MISMATCH"
          PROVE  /\ accounts[events[e].row.accountId] # NoAccount
                 /\ accounts[events[e].row.accountId].currency # events[e].row.currency
      <4>1. events[e].row = EventRow(thread[t].command)
        BY <2>2, <3>3, <3>7, DeliveringTasks DEF StoredAs
      <4>2. /\ events[e].row.accountId = thread[t].command.accountId
            /\ events[e].row.currency = thread[t].command.currency
        BY <4>1 DEF EventRow
      <4> QED BY <3>7, <4>2 DEF AnswersExplained
    <3>8. e = call[p].command.eventId => Refused
      BY <2>1, <3>3, <3>5, <3>6, <3>7 DEF Refused, RefusalAwaited
    <3> QED BY <3>2, <3>8
  <2> QED BY <2>3, <2>4, <2>5
<1>8. ASSUME NEW p \in Callers, Escapes(p)
      PROVE  Old
  BY <1>1, <1>8 DEF Escapes, tables
<1>9. ASSUME NEW p \in Callers, Send(p) \/ ConnectionLost(p)
      PROVE  Old
  BY <1>1, <1>8, <1>9 DEF Send, ConnectionLost, tables
<1>10. ASSUME NEW r \in Requests, RequestStep(r)
       PROVE  Old \/ Refused
  <2>1. BeginDelivery(r) => Old
    BY <1>1, <1>4 DEF BeginDelivery, Delivers, Callers
  <2>2. LogOutcome(r) \/ Respond(r) => Old
    BY <1>1 DEF LogOutcome, Respond, tables
  <2> QED BY <1>7, <1>9, <1>10, <2>1, <2>2 DEF RequestStep, Callers
<1>11. WorkerStep => Old \/ Refused
  <2>1. Poll \/ BatchDone => Old
    BY <1>1 DEF Poll, BatchDone, tables
  <2>2. TakeNext => Old
    BY <1>1, <1>5 DEF TakeNext, tables
  <2> QED BY <1>7, <1>9, <2>1, <2>2 DEF WorkerStep, Callers
<1>12. Fault => Old
  <2>1. ASSUME NEW p \in Callers, ConnectFails(p) \/ TimesOut(p)
        PROVE  Old
    BY <1>6, <2>1 DEF ConnectFails, TimesOut, Delivers
  <2>2. ASSUME NEW p \in Callers,
               GatewayDatabaseError(p) \/ OutcomeUnsaved(p) \/ UnavailableUnsaved(p)
        PROVE  Old
    BY <1>8, <2>2 DEF GatewayDatabaseError, OutcomeUnsaved, UnavailableUnsaved
  <2>3. ASSUME NEW t \in Threads, ServiceDatabaseFails(t)
        PROVE  Old
    BY <1>1, <2>3 DEF ServiceDatabaseFails, tables
  <2>4. BalanceAttemptFails \/ ServiceRestarts \/ GatewayRestarts => Old
    BY <1>1 DEF BalanceAttemptFails, ServiceRestarts, GatewayRestarts, tables
  <2> QED BY <2>1, <2>2, <2>3, <2>4 DEF Fault
<1>13. BalanceAnswered \/ RecoveryElapses \/ BackoffElapses \/ UNCHANGED vars => Old
  BY <1>1 DEF BalanceAnswered, RecoveryElapses, BackoffElapses, tables, vars
<1>14. ASSUME NEW t \in Threads, ServiceWorks(t) \/ AnswerDropped(t)
       PROVE  Old
  BY <1>1, <1>14 DEF ServiceWorks, AnswerDropped, gatewayVars
<1> QED
  BY <1>3, <1>10, <1>11, <1>12, <1>13, <1>14 DEF Next, Old, Refused

(* Openings are never withdrawn and rows never change.                     *)
LEMMA StepRefusalInv ==
    ASSUME \A c \in Commands : c.eventTimestamp.offset = 0
    PROVE  RefusalInv /\ [Next]_vars => RefusalInv'
<1> SUFFICES ASSUME RefusalInv, [Next]_vars PROVE RefusalInv'
  OBVIOUS
<1>1. GInv' /\ [AccountNext]_accountVars /\ EventsMove
  BY StepGInv, AccountStep, StepHasKind, EventsStep DEF RefusalInv, GInv
<1>2. RaceInv'
  BY <1>1, StepRaceInv DEF RefusalInv
<1>3. AnswersExplained' /\ PathsMatch'
  BY <1>1, AnswersExplainedStep, PathsStep DEF RefusalInv, GInv, IInv
<1>4. fallbackEnabled' = fallbackEnabled
  BY SurroundingsStep DEF RefusalInv, SurroundingsKept
<1>5. audit \subseteq audit'
  BY <1>1, StepKinds, CommitFacts DEF RefusalInv, GInv, IInv, LedgerUntouched
<1>6. ASSUME fallbackEnabled, NEW e \in EventIds, HasStatus(e, {"FAILED"})'
      PROVE  OpenedByAnother(e)'
  <2>1. OpenedByAnother(e)
    <3>1. CASE HasStatus(e, {"FAILED"})
      BY <1>6, <3>1 DEF RefusalInv, FailedMeansRefused
    <3>2. CASE RefusalAwaited(e)
      BY <3>2, RefusedByAnother DEF RefusalAwaited, RefusalInv
    <3> QED BY <1>6, <3>1, <3>2, NewlyFailed DEF RefusalInv
  <2>2. Stored(e)
    <3>1. Stored(e)' /\ events'[e].status = "FAILED"
      BY <1>6 DEF HasStatus, Stored
    <3> QED BY <1>1, <3>1 DEF EventsMove
  <2>3. events'[e].row = events[e].row
    BY <1>1, <2>2 DEF EventsMove
  <2> QED BY <1>5, <2>1, <2>3 DEF OpenedByAnother, Openings
<1>7. FailedMeansRefused'
  BY <1>4, <1>6 DEF FailedMeansRefused
<1> QED
  BY <1>1, <1>2, <1>3, <1>7 DEF RefusalInv

(* The invariant of refusals.                                              *)
LEMMA RefusalInvariance ==
    ASSUME \A c \in Commands : c.eventTimestamp.offset = 0
    PROVE  Spec => []RefusalInv
<1>1. Init => RefusalInv
  <2> SUFFICES ASSUME Init PROVE RefusalInv
    OBVIOUS
  <2>1. GInv /\ RaceInv
    BY InitGInv, InitRaceInv DEF Init
  <2>2. AnswersExplained /\ PathsMatch
    BY DEF Init, AccountInit, IdleThread, AnswersExplained, PathsMatch
  <2>3. FailedMeansRefused
    BY DEF Init, FailedMeansRefused, HasStatus, Stored
  <2> QED BY <2>1, <2>2, <2>3 DEF RefusalInv
<1>2. RefusalInv /\ [Next]_vars => RefusalInv'
  BY StepRefusalInv
<1> QED
  BY <1>1, <1>2, PTL DEF Spec

(* While clients send their timestamps in UTC, and with the fallback       *)
(* enabled, FAILED says one thing: the Account Service refused the event   *)
(* when it was delivered, because its account is kept in another currency  *)
(* or because the delivery lost the race to open the account.  No timeout, *)
(* restart, open circuit or late answer makes an event FAILED, whoever     *)
(* opened its account.                                                     *)
THEOREM FailuresRefused ==
    ASSUME \A c \in Commands : c.eventTimestamp.offset = 0
    PROVE  Spec => FailuresHaveReasons
<1> DEFINE Reasoned ==
        /\ fallbackEnabled =>
               \A e \in EventIds :
                   ~HasStatus(e, {"FAILED"}) /\ HasStatus(e, {"FAILED"})' => RefusalAwaited(e)
        /\ \A t \in Threads :
               thread[t].answer # "EVENT_ID_CONFLICT" /\ thread'[t].answer = "EVENT_ID_CONFLICT" =>
                   LostTheOpening(t)
<1>1. ASSUME RefusalInv, [Next]_vars
      PROVE  [Reasoned]_vars
  <2>1. ASSUME fallbackEnabled, NEW e \in EventIds, HasStatus(e, {"FAILED"})',
               ~HasStatus(e, {"FAILED"})
        PROVE  RefusalAwaited(e)
    BY <1>1, <2>1, NewlyFailed DEF RefusalInv
  <2>2. ASSUME NEW t \in Threads, thread[t].answer # "EVENT_ID_CONFLICT",
               thread'[t].answer = "EVENT_ID_CONFLICT"
        PROVE  LostTheOpening(t)
    <3>1. TypeOK /\ BusyThreads /\ [AccountNext]_accountVars
      BY <1>1, AccountStep DEF RefusalInv, GInv, IInv
    <3>2. \/ /\ thread[t].pc \in {"lookup", "resolve"}
             /\ Recorded(thread[t].command.eventId)
             /\ ~SameTransaction(transactions[thread[t].command.eventId], thread[t].command)
          \/ thread[t].pc = "resolve" /\ ~Recorded(thread[t].command.eventId)
      BY <2>2, <3>1, ConflictGiven
    <3>3. thread[t].pc = "resolve" /\ ~Recorded(thread[t].command.eventId)
      BY <1>1, <3>2, RetriesCompareEqual DEF RefusalInv
    <3> QED BY <1>1, <3>3, RefusedLost DEF RefusalInv, RaceInv, TrailInv
  <2> QED BY <2>1, <2>2
<1> QED
  BY RefusalInvariance, <1>1, PTL DEF Spec, FailuresHaveReasons

(* If moreover no two events of one account have the same currency, so     *)
(* that the refusal is for good, a FAILED event is not in the ledger and   *)
(* never will be.  Otherwise the property is false: an event that lost the *)
(* race to open its account may still be recorded by an earlier attempt.   *)
THEOREM FailedNotRecorded ==
    ASSUME \A c \in Commands : c.eventTimestamp.offset = 0,
           \A c, d \in Commands :
               c.accountId = d.accountId /\ c.currency = d.currency => c.eventId = d.eventId
    PROVE  Spec => []FailedMeansNotRecorded
<1>1. GInv /\ RaceInv /\ FailedMeansRefused => FailedMeansNotRecorded
  <2> SUFFICES ASSUME GInv, RaceInv, FailedMeansRefused, fallbackEnabled,
                      NEW e \in EventIds, HasStatus(e, {"FAILED"}), Recorded(e)
               PROVE  FALSE
    BY DEF FailedMeansNotRecorded
  <2>1. PICK a : a = events[e].row.accountId
    OBVIOUS
  <2>2. PICK r \in Openings(a) : r.eventId # e
    BY <2>1 DEF FailedMeansRefused, OpenedByAnother
  <2>3. PICK d \in Commands : d.eventId = r.eventId /\ d.accountId = a
                              /\ transactions[d.eventId] = TransactionRow(d)
                              /\ Recorded(d.eventId)
    BY <2>2 DEF Openings, RaceInv, AuditedIsRecorded, RecordedFor, LedgerActions
  <2>4. PICK q \in audit : q.action = "TRANSACTION_APPLIED" /\ q.eventId = e
    BY DEF GInv, IInv, AuditMatchesLedger
  <2>5. PICK c \in Commands : c.eventId = e /\ transactions[e] = TransactionRow(c)
    BY <2>4 DEF RaceInv, AuditedIsRecorded, RecordedFor, LedgerActions
  <2>6. c.accountId = a
    <3>1. "accountId" \in DOMAIN TransactionRow(c)
          /\ TransactionRow(c)["accountId"] = c.accountId
      BY DEF TransactionRow
    <3> QED BY <2>1, <2>5, <3>1 DEF GInv, TableInv, LedgerKnownToGateway
  <2>7. accounts[a].currency = c.currency /\ accounts[a].currency = d.currency
    <3>1. /\ TransactionRow(c).accountId = a /\ TransactionRow(c).currency = c.currency
          /\ TransactionRow(d).accountId = a /\ TransactionRow(d).currency = d.currency
      BY <2>3, <2>6 DEF TransactionRow
    <3>2. d.eventId \in EventIds
      BY <2>3, CommandFacts
    <3> QED BY <2>3, <2>5, <3>1, <3>2 DEF GInv, IInv, CurrencyConsistent
  <2> QED BY <2>2, <2>3, <2>5, <2>6, <2>7
<1>2. AccountSpec => []RaceInv
  BY RaceInvariance
<1>3. RefusalInv => FailedMeansRefused
  BY DEF RefusalInv
<1> QED
  BY <1>1, <1>2, <1>3, RefusalInvariance, GatewayInvariance, AccountServiceBehind, PTL
-----------------------------------------------------------------------------
(***************************************************************************)
(* What becomes of an event when things fail: who lets go of it.           *)
(***************************************************************************)

(* The two ways out of LetGoOnlyByError.                                   *)
LetGo(e) ==
    \E r \in Requests :
        /\ call[r].pc \notin {"idle", "answered"}
        /\ call[r].command.eventId = e
        /\ \/ call'[r].answer = "ERROR"
           \/ faults' > faults /\ call' = [p \in Callers |-> IdleCall]

Delivering == {"stored", "attempt", "waiting"}

OutcomeAudited(e) ==
    \/ /\ HasStatus(e, {"APPLIED"})
       /\ Audited("EVENT_APPLIED", e) \/ Audited("EVENT_APPLIED_FROM_QUEUE", e)
    \/ /\ HasStatus(e, {"FAILED"})
       /\ Audited("EVENT_PROCESSING_FAILED", e) \/ Audited("EVENT_QUEUE_REJECTED", e)

(* InHand by its parts, before and after a step.                           *)
LEMMA InHandParts ==
    ASSUME NEW e
    PROVE  /\ InHand(e) <=>
                  \/ HasStatus(e, {"PENDING"}) /\ HasRequest(e, Delivering)
                  \/ HasStatus(e, {"QUEUED"})
                  \/ HasStatus(e, {"APPLIED", "FAILED"}) /\ HasRequest(e, {"log"})
                  \/ OutcomeAudited(e)
           /\ InHand(e)' <=>
                  \/ HasStatus(e, {"PENDING"})' /\ HasRequest(e, Delivering)'
                  \/ HasStatus(e, {"QUEUED"})'
                  \/ HasStatus(e, {"APPLIED", "FAILED"})' /\ HasRequest(e, {"log"})'
                  \/ OutcomeAudited(e)'
<1>1. /\ HasStatus(e, {"APPLIED", "FAILED"}) <=>
             HasStatus(e, {"APPLIED"}) \/ HasStatus(e, {"FAILED"})
      /\ HasStatus(e, {"APPLIED", "FAILED"})' <=>
             HasStatus(e, {"APPLIED"})' \/ HasStatus(e, {"FAILED"})'
  BY DEF HasStatus, Stored
<1> QED
  BY <1>1, Zenon DEF InHand, Delivering, OutcomeAudited, Audited

(* A step of one task that leaves the row of an event, and what the task   *)
(* does for it, keeps the event in hand.                                   *)
LEMMA TurnKeepsInHand ==
    ASSUME call \in [Callers -> CallType], NEW p \in Callers, NEW task, Becomes(p, task),
           gatewayAudit \subseteq gatewayAudit',
           NEW e \in EventIds, events'[e] = events[e], InHand(e),
           \/ p = Worker
           \/ call[p].pc \in {"idle", "answered"}
           \/ call[p].command.eventId # e
           \/ /\ task.command = call[p].command
              /\ \/ call[p].pc \in Delivering /\ task.pc \in Delivering
                 \/ call[p].pc = "log" /\ task.pc = "log"
    PROVE  InHand(e)'
<1>1. \A s : HasStatus(e, s)' <=> HasStatus(e, s)
  BY DEF HasStatus, Stored
<1>2. OutcomeAudited(e) => OutcomeAudited(e)'
  BY <1>1 DEF OutcomeAudited, Audited
<1>3. ASSUME NEW points \in {Delivering, {"log"}}, HasRequest(e, points)
      PROVE  HasRequest(e, points)'
  <2>1. PICK r \in Requests : call[r].pc \in points /\ call[r].command.eventId = e
    BY <1>3 DEF HasRequest
  <2>2. r # Worker /\ r \in Callers
    BY GatewayAssumption DEF Callers
  <2>3. CASE r # p
    <3>1. call'[r] = call[r]
      BY <2>2, <2>3 DEF Becomes
    <3> QED BY <2>1, <3>1 DEF HasRequest
  <2>4. CASE r = p
    <3>1. call'[r] = task
      BY <2>2, <2>4 DEF Becomes
    <3>2. task.command = call[r].command /\ task.pc \in points
      BY <1>3, <2>1, <2>2, <2>4 DEF Delivering
    <3> QED BY <2>1, <3>1, <3>2 DEF HasRequest
  <2> QED BY <2>3, <2>4
<1>4. HasRequest(e, Delivering) => HasRequest(e, Delivering)'
  BY <1>3
<1>5. HasRequest(e, {"log"}) => HasRequest(e, {"log"})'
  BY <1>3
<1> QED
  BY <1>1, <1>2, <1>4, <1>5, InHandParts

(* The task that delivers an event leaves it in the queue, or with an      *)
(* outcome that it audits at once or goes on to audit.                     *)
LEMMA OutcomeInHand ==
    ASSUME GInv, NEW p \in Callers, Delivers(call[p]), NEW status \in Statuses,
           SetStatus(call[p].command, status), NEW task, Becomes(p, task),
           gatewayAudit \subseteq gatewayAudit',
           NEW f, f = call[p].command.eventId,
           \/ status = "QUEUED"
           \/ /\ status \in {"APPLIED", "FAILED"}
              /\ p # Worker /\ task.pc = "log" /\ task.command = call[p].command
           \/ status = "APPLIED" /\ Audited("EVENT_APPLIED_FROM_QUEUE", f)'
           \/ status = "FAILED" /\ Audited("EVENT_QUEUE_REJECTED", f)',
           NEW e \in EventIds, Stored(e) => InHand(e), Stored(e)'
    PROVE  InHand(e)'
<1>1. /\ events'[f] = [row |-> events[f].row, status |-> status]
      /\ events'[f] # NoEvent
      /\ \A d \in EventIds : d # f => events'[d] = events[d]
  BY StatusSet
<1>2. CASE e # f
  <2>1. events'[e] = events[e]
    BY <1>1, <1>2
  <2>2. call \in [Callers -> CallType] /\ Stored(e)
    BY <2>1 DEF GInv, GatewayTypeOK, Stored
  <2> QED
    BY <1>2, <2>1, <2>2, TurnKeepsInHand
<1>3. CASE e = f
  <2>1. HasStatus(e, {status})'
    BY <1>1, <1>3 DEF HasStatus, Stored
  <2>2. CASE status = "QUEUED"
    BY <2>1, <2>2, InHandParts
  <2>3. CASE /\ status \in {"APPLIED", "FAILED"}
             /\ p # Worker /\ task.pc = "log" /\ task.command = call[p].command
    <3>1. HasStatus(e, {"APPLIED", "FAILED"})'
      BY <2>1, <2>3 DEF HasStatus
    <3>2. p \in Requests /\ call'[p] = task
      BY <2>3 DEF Callers, Becomes, GInv, GatewayTypeOK
    <3>3. HasRequest(e, {"log"})'
      BY <1>3, <2>3, <3>2 DEF HasRequest
    <3> QED BY <3>1, <3>3, InHandParts
  <2>4. CASE \/ status = "APPLIED" /\ Audited("EVENT_APPLIED_FROM_QUEUE", f)'
             \/ status = "FAILED" /\ Audited("EVENT_QUEUE_REJECTED", f)'
    <3>1. OutcomeAudited(e)'
      BY <1>3, <2>1, <2>4 DEF OutcomeAudited
    <3> QED BY <3>1, InHandParts
  <2> QED BY <2>2, <2>3, <2>4
<1> QED
  BY <1>2, <1>3

(* Every step keeps an event in hand, or is one of the two that let go.    *)
LEMMA LetGoStep ==
    ASSUME GInv, [Next]_vars, NEW e \in EventIds, Stored(e) => InHand(e), Stored(e)'
    PROVE  InHand(e)' \/ LetGo(e)
<1> DEFINE Good == InHand(e)' \/ LetGo(e)
<1>0. call \in [Callers -> CallType] /\ faults \in Nat
  BY GatewayAssumption DEF GInv, GatewayTypeOK
<1>1. ASSUME NEW p \in Callers, NEW task, Becomes(p, task), UNCHANGED events,
             gatewayAudit \subseteq gatewayAudit',
             \/ p = Worker
             \/ call[p].pc \in {"idle", "answered"}
             \/ call[p].command.eventId # e
             \/ /\ task.command = call[p].command
                /\ \/ call[p].pc \in Delivering /\ task.pc \in Delivering
                   \/ call[p].pc = "log" /\ task.pc = "log"
      PROVE  Good
  <2>1. Stored(e)
    BY <1>1 DEF Stored
  <2> QED BY <1>0, <1>1, <2>1, TurnKeepsInHand
<1>2. ASSUME UNCHANGED <<events, gatewayAudit>>,
             \A r \in Requests : call'[r].pc = call[r].pc /\ call'[r].command = call[r].command
      PROVE  Good
  <2>1. \A s : HasStatus(e, s)' <=> HasStatus(e, s)
    BY <1>2 DEF HasStatus, Stored
  <2>2. OutcomeAudited(e)' <=> OutcomeAudited(e)
    BY <1>2, <2>1 DEF OutcomeAudited, Audited
  <2>3. \A points : HasRequest(e, points)' <=> HasRequest(e, points)
    BY <1>2 DEF HasRequest
  <2>4. InHand(e)
    BY <1>2 DEF Stored
  <2> QED BY <2>1, <2>2, <2>3, <2>4, InHandParts
<1>3. ASSUME NEW r \in Requests, NEW c \in Commands, Submit(r, c)
      PROVE  Good
  <2>1. r \in Callers /\ c.eventId \in EventIds /\ call[r].pc = "idle"
    BY <1>3, CommandFacts DEF Submit, Callers
  <2>2. CASE Stored(c.eventId)
    <3>1. \E task : Becomes(r, task)
      BY <1>3, <2>2 DEF Submit, Stored, Becomes
    <3>2. UNCHANGED events /\ gatewayAudit \subseteq gatewayAudit'
      BY <1>3, <2>2 DEF Submit, Stored, RecordGateway
    <3> QED BY <1>1, <2>1, <3>1, <3>2
  <2>3. CASE ~Stored(c.eventId)
    <3>1. /\ Becomes(r, Task("stored", c, "none"))
          /\ UNCHANGED gatewayAudit
          /\ events' = [events EXCEPT ![c.eventId] = [row |-> EventRow(c), status |-> "PENDING"]]
      BY <1>3, <2>3 DEF Submit, Stored, Becomes
    <3>2. /\ events'[c.eventId].status = "PENDING"
          /\ \A d \in EventIds : d # c.eventId => events'[d] = events[d]
      BY <2>1, <3>1 DEF GInv, GatewayTypeOK
    <3>3. CASE e = c.eventId
      <4>1. HasStatus(e, {"PENDING"})'
        BY <3>2, <3>3 DEF HasStatus, Stored
      <4>2. call'[r].pc = "stored" /\ call'[r].command = c
        BY <1>0, <2>1, <3>1, TaskFacts DEF Becomes
      <4>3. HasRequest(e, Delivering)'
        BY <3>3, <4>2 DEF HasRequest, Delivering
      <4> QED BY <4>1, <4>3, InHandParts
    <3>4. CASE e # c.eventId
      <4>1. events'[e] = events[e] /\ Stored(e)
        BY <3>2, <3>4 DEF Stored
      <4> QED BY <1>0, <2>1, <3>1, <4>1, TurnKeepsInHand
    <3> QED BY <3>3, <3>4
  <2> QED BY <2>2, <2>3
<1>4. ASSUME NEW r \in Requests, Delivers(call[r]), NEW notes, RequestUnavailable(r, notes)
      PROVE  Good
  <2>1. r \in Callers /\ r # Worker /\ gatewayAudit \subseteq gatewayAudit'
    BY <1>4, GatewayAssumption DEF RequestUnavailable, RecordGateway, Callers
  <2>2. CASE fallbackEnabled
    <3>1. /\ SetStatus(call[r].command, "QUEUED") /\ "QUEUED" \in Statuses
          /\ Becomes(r, Task("answered", call[r].command, "ACCEPTED"))
      BY <1>4, <2>2 DEF RequestUnavailable, RequestSays, Becomes, Statuses
    <3> QED BY <1>4, <2>1, <3>1, OutcomeInHand
  <2>3. CASE ~fallbackEnabled
    <3>1. /\ SetStatus(call[r].command, "FAILED") /\ "FAILED" \in Statuses
          /\ Becomes(r, Task("log", call[r].command, "UNAVAILABLE"))
      BY <1>4, <2>3 DEF RequestUnavailable, RequestSays, Becomes, Statuses
    <3>2. PICK task : task = Task("log", call[r].command, "UNAVAILABLE")
      OBVIOUS
    <3>3. task.pc = "log" /\ task.command = call[r].command
      BY <3>2, TaskFacts
    <3> QED BY <1>4, <2>1, <3>1, <3>2, <3>3, OutcomeInHand
  <2> QED BY <2>2, <2>3
<1>5. ASSUME NEW c, WorkerUnavailable(c)
      PROVE  Good
  <2>1. UNCHANGED events /\ gatewayAudit \subseteq gatewayAudit' /\ Worker \in Callers
    BY <1>5 DEF WorkerUnavailable, RecordGateway, Callers
  <2>2. Becomes(Worker, Task("next", NoCommand, "none"))
    BY <1>5 DEF WorkerUnavailable, WorkerMovesOn, Becomes
  <2> QED BY <1>1, <2>1, <2>2
<1>6. ASSUME NEW p \in Callers, call[p].pc \in {"attempt", "waiting"}, AttemptFailed(p)
      PROVE  Good
  <2>1. CASE call[p].attempt + 1 < MaxAttempts
    <3>1. PICK task : /\ task = [pc |-> "attempt", command |-> call[p].command,
                                 attempt |-> call[p].attempt + 1, thread |-> NoThread,
                                 answer |-> "none"]
                      /\ Becomes(p, task)
      BY <1>6, <2>1 DEF AttemptFailed, Becomes
    <3>2. UNCHANGED <<events, gatewayAudit>>
      BY <1>6, <2>1 DEF AttemptFailed, tables
    <3>3. task.command = call[p].command /\ task.pc \in Delivering /\ call[p].pc \in Delivering
      BY <1>6, <3>1 DEF Delivering
    <3> QED BY <1>1, <3>1, <3>2, <3>3
  <2>2. CASE ~(call[p].attempt + 1 < MaxAttempts) /\ p = Worker
    BY <1>5, <1>6, <2>2 DEF AttemptFailed
  <2>3. CASE ~(call[p].attempt + 1 < MaxAttempts) /\ p # Worker
    <3>1. p \in Requests /\ RequestUnavailable(p, {}) /\ Delivers(call[p])
      BY <1>6, <2>3 DEF AttemptFailed, Callers, Delivers
    <3> QED BY <1>4, <3>1
  <2> QED BY <2>1, <2>2, <2>3
<1>7. ASSUME NEW p \in Callers, Delivers(call[p]), Applied(p) \/ Rejected(p)
      PROVE  Good
  <2>1. PICK f : f = call[p].command.eventId
    OBVIOUS
  <2>2. gatewayAudit \subseteq gatewayAudit'
    BY <1>7 DEF Applied, Rejected, RecordGateway
  <2>3. CASE p = Worker
    <3>1. Becomes(p, Task("next", NoCommand, "none"))
      BY <1>7, <2>3 DEF Applied, Rejected, WorkerMovesOn, Becomes
    <3>2. CASE Applied(p)
      <4>1. SetStatus(call[p].command, "APPLIED") /\ "APPLIED" \in Statuses
        BY <3>2 DEF Applied, Statuses
      <4>2. Audited("EVENT_APPLIED_FROM_QUEUE", f)'
        BY <2>1, <2>3, <3>2 DEF Applied, RecordGateway, GatewayNote, Audited
      <4> QED BY <1>7, <2>1, <2>2, <3>1, <4>1, <4>2, OutcomeInHand
    <3>3. CASE Rejected(p)
      <4>1. SetStatus(call[p].command, "FAILED") /\ "FAILED" \in Statuses
        BY <3>3 DEF Rejected, Statuses
      <4>2. Audited("EVENT_QUEUE_REJECTED", f)'
        BY <2>1, <2>3, <3>3 DEF Rejected, RecordGateway, GatewayNote, Audited
      <4> QED BY <1>7, <2>1, <2>2, <3>1, <4>1, <4>2, OutcomeInHand
    <3> QED BY <1>7, <3>2, <3>3
  <2>4. CASE p # Worker
    <3>1. PICK status, answer :
              /\ status \in {"APPLIED", "FAILED"}
              /\ SetStatus(call[p].command, status)
              /\ Becomes(p, Task("log", call[p].command, answer))
      <4>1. CASE Applied(p)
        <5>1. SetStatus(call[p].command, "APPLIED") /\ RequestSays(p, "log", "CREATED")
          BY <2>4, <4>1 DEF Applied
        <5>2. Becomes(p, Task("log", call[p].command, "CREATED"))
          BY <5>1 DEF RequestSays, Becomes
        <5> QED BY <5>1, <5>2
      <4>2. CASE Rejected(p)
        <5>1. SetStatus(call[p].command, "FAILED") /\ RequestSays(p, "log", "REJECTED")
          BY <2>4, <4>2 DEF Rejected
        <5>2. Becomes(p, Task("log", call[p].command, "REJECTED"))
          BY <5>1 DEF RequestSays, Becomes
        <5> QED BY <5>1, <5>2
      <4> QED BY <1>7, <4>1, <4>2
    <3>2. PICK task : task = Task("log", call[p].command, answer)
      OBVIOUS
    <3>3. task.pc = "log" /\ task.command = call[p].command
      BY <3>2, TaskFacts
    <3>4. /\ status \in {"APPLIED", "FAILED"} /\ status \in Statuses
          /\ SetStatus(call[p].command, status) /\ Becomes(p, task)
      BY <3>1, <3>2 DEF Statuses
    <3> QED BY <1>7, <2>1, <2>2, <2>4, <3>3, <3>4, OutcomeInHand
  <2> QED BY <2>3, <2>4
<1>8. ASSUME NEW p \in Callers, call[p].pc \notin {"idle", "answered"}, Escapes(p)
      PROVE  Good
  <2>1. UNCHANGED <<events, gatewayAudit>>
    BY <1>8 DEF Escapes, tables
  <2>2. CASE p = Worker
    <3>1. Becomes(Worker, IdleCall)
      BY <1>8, <2>2 DEF Escapes, Becomes
    <3> QED BY <1>1, <1>8, <2>1, <2>2, <3>1
  <2>3. CASE p # Worker
    <3>1. Becomes(p, Task("answered", call[p].command, "ERROR")) /\ p \in Requests
      BY <1>8, <2>3 DEF Escapes, RequestSays, Becomes, Callers
    <3>2. CASE call[p].command.eventId # e
      BY <1>1, <1>8, <2>1, <3>1, <3>2
    <3>3. CASE call[p].command.eventId = e
      <4>1. call'[p].answer = "ERROR"
        BY <1>0, <1>8, <3>1, TaskFacts DEF Becomes
      <4> QED BY <1>8, <3>1, <3>3, <4>1 DEF LetGo
    <3> QED BY <3>2, <3>3
  <2> QED BY <2>2, <2>3
<1>9. ASSUME NEW p \in Callers, ResponseArrives(p)
      PROVE  Good
  <2>1. PICK t \in Threads :
            /\ call[p].pc = "waiting"
            /\ CASE thread[t].answer = "DATABASE_UNAVAILABLE" -> AttemptFailed(p)
                 [] thread[t].answer \in {"APPLIED", "REPLAYED"} -> BreakerSuccess /\ Applied(p)
                 [] OTHER -> BreakerSuccess /\ Rejected(p)
    BY <1>9 DEF ResponseArrives
  <2>2. Delivers(call[p]) /\ call[p].pc \in {"attempt", "waiting"}
    BY <2>1 DEF Delivers
  <2>3. AttemptFailed(p) \/ Applied(p) \/ Rejected(p)
    BY <2>1
  <2> QED BY <1>6, <1>7, <2>2, <2>3
<1>10. ASSUME NEW p \in Callers, Send(p) \/ ConnectionLost(p)
       PROVE  Good
  <2>1. CASE Send(p)
    <3>1. PICK task, t :
              /\ task = [pc |-> "waiting", command |-> call[p].command,
                         attempt |-> call[p].attempt, thread |-> t, answer |-> "none"]
              /\ Becomes(p, task)
      BY <2>1 DEF Send, Becomes
    <3>2. call[p].pc = "attempt" /\ UNCHANGED <<events, gatewayAudit>>
      BY <2>1 DEF Send, tables
    <3>3. task.command = call[p].command /\ task.pc \in Delivering /\ call[p].pc \in Delivering
      BY <3>1, <3>2 DEF Delivering
    <3> QED BY <1>1, <3>1, <3>2, <3>3
  <2>2. CASE ConnectionLost(p)
    BY <1>8, <2>2 DEF ConnectionLost
  <2> QED BY <1>10, <2>1, <2>2
<1>11. ASSUME NEW r \in Requests, BeginDelivery(r)
       PROVE  Good
  <2>1. Delivers(call[r]) /\ r \in Callers /\ call[r].pc = "stored"
    BY <1>11 DEF BeginDelivery, Delivers, Callers
  <2>2. CASE BreakerRefuses
    BY <1>4, <1>11, <2>1, <2>2 DEF BeginDelivery
  <2>3. CASE ~BreakerRefuses
    <3>1. PICK task : task = [call[r] EXCEPT !.pc = "attempt"] /\ Becomes(r, task)
      BY <1>11, <2>3 DEF BeginDelivery, Becomes
    <3>2. UNCHANGED events /\ gatewayAudit \subseteq gatewayAudit'
      BY <1>11, <2>3 DEF BeginDelivery, RecordGateway
    <3>3. task.command = call[r].command /\ task.pc \in Delivering /\ call[r].pc \in Delivering
      BY <1>0, <2>1, <3>1 DEF Delivering, CallType
    <3> QED BY <1>1, <2>1, <3>1, <3>2, <3>3
  <2> QED BY <2>2, <2>3
<1>12. ASSUME NEW r \in Requests, LogOutcome(r)
       PROVE  Good
  <2>1. PICK task : task = [call[r] EXCEPT !.pc = "answered"] /\ Becomes(r, task)
    BY <1>12 DEF LogOutcome, Becomes
  <2>2. /\ r \in Callers /\ UNCHANGED events /\ gatewayAudit \subseteq gatewayAudit'
        /\ call[r].pc = "log"
    BY <1>12 DEF LogOutcome, RecordGateway, Callers
  <2>3. CASE call[r].command.eventId # e
    BY <1>1, <2>1, <2>2, <2>3
  <2>4. CASE call[r].command.eventId = e
    <3>1. \/ call[r].answer = "CREATED" /\ HasStatus(e, {"APPLIED"})
          \/ call[r].answer \in {"REJECTED", "UNAVAILABLE"} /\ HasStatus(e, {"FAILED"})
      BY <2>2, <2>4 DEF GInv, TaskInv, RequestFits
    <3>2. /\ call[r].answer = "CREATED" => Audited("EVENT_APPLIED", e)'
          /\ call[r].answer # "CREATED" => Audited("EVENT_PROCESSING_FAILED", e)'
      BY <1>12, <2>4 DEF LogOutcome, RecordGateway, GatewayNote, Audited
    <3>3. \A s : HasStatus(e, s)' <=> HasStatus(e, s)
      BY <2>2 DEF HasStatus, Stored
    <3>4. OutcomeAudited(e)'
      BY <3>1, <3>2, <3>3 DEF OutcomeAudited
    <3> QED BY <3>4, InHandParts
  <2> QED BY <2>3, <2>4
<1>13. ASSUME NEW r \in Requests, Respond(r)
       PROVE  Good
  <2>1. /\ Becomes(r, IdleCall) /\ r \in Callers /\ call[r].pc = "answered"
        /\ UNCHANGED <<events, gatewayAudit>>
    BY <1>13 DEF Respond, Becomes, Callers, tables
  <2> QED BY <1>1, <2>1
<1>14. ASSUME WorkerStep PROVE Good
  <2>1. Worker \in Callers
    BY DEF Callers
  <2>2. CASE Poll \/ BatchDone \/ TakeNext
    <3>1. ASSUME UNCHANGED call, UNCHANGED <<events, gatewayAudit>>
          PROVE  Good
      BY <1>2, <3>1
    <3>2. ASSUME NEW task, Becomes(Worker, task), UNCHANGED <<events, gatewayAudit>>
          PROVE  Good
      BY <1>1, <2>1, <3>2
    <3>3. Poll => Good
      <4>1. Poll => \E task : Becomes(Worker, task) /\ UNCHANGED <<events, gatewayAudit>>
        BY DEF Poll, tables, Becomes
      <4> QED BY <3>2, <4>1
    <3>4. BatchDone => Good
      BY <3>2 DEF BatchDone, tables, Becomes
    <3>5. TakeNext => Good
      BY <1>5, <3>1, <3>2 DEF TakeNext, tables, Becomes
    <3> QED BY <2>2, <3>3, <3>4, <3>5
  <2> QED BY <1>9, <1>10, <1>14, <2>1, <2>2 DEF WorkerStep
<1>15. ASSUME Fault PROVE Good
  <2>1. ASSUME NEW p \in Callers, ConnectFails(p) \/ TimesOut(p)
        PROVE  Good
    BY <1>6, <2>1 DEF ConnectFails, TimesOut
  <2>2. ASSUME NEW p \in Callers,
               GatewayDatabaseError(p) \/ OutcomeUnsaved(p) \/ UnavailableUnsaved(p)
        PROVE  Good
    BY <1>8, <2>2 DEF GatewayDatabaseError, OutcomeUnsaved, UnavailableUnsaved
  <2>3. ASSUME NEW t \in Threads, ServiceDatabaseFails(t)
        PROVE  Good
    BY <1>2, <2>3 DEF ServiceDatabaseFails, tables
  <2>4. BalanceAttemptFails => Good
    BY <1>2 DEF BalanceAttemptFails, tables
  <2>5. ServiceRestarts => Good
    <3>1. ASSUME ServiceRestarts
          PROVE  \A r \in Requests :
                     call'[r].pc = call[r].pc /\ call'[r].command = call[r].command
      BY <1>0, <3>1 DEF ServiceRestarts, CallType, Callers
    <3> QED BY <1>2, <3>1 DEF ServiceRestarts, tables
  <2>6. GatewayRestarts => Good
    <3>1. ASSUME GatewayRestarts
          PROVE  faults' > faults /\ call' = [p \in Callers |-> IdleCall]
      BY <1>0, <3>1 DEF GatewayRestarts, Faulty
    <3>2. ASSUME GatewayRestarts, HasRequest(e, Delivering) \/ HasRequest(e, {"log"})
          PROVE  Good
      BY <3>1, <3>2 DEF HasRequest, Delivering, LetGo
    <3>3. ASSUME GatewayRestarts
          PROVE  /\ Stored(e)
                 /\ OutcomeAudited(e) => OutcomeAudited(e)'
                 /\ HasStatus(e, {"QUEUED"}) => HasStatus(e, {"QUEUED"})'
      BY <3>3 DEF GatewayRestarts, tables, Stored, HasStatus, OutcomeAudited, Audited
    <3>4. ASSUME GatewayRestarts, ~HasRequest(e, Delivering), ~HasRequest(e, {"log"})
          PROVE  Good
      BY <3>3, <3>4, InHandParts
    <3> QED BY <3>2, <3>4
  <2> QED BY <1>15, <2>1, <2>2, <2>3, <2>4, <2>5, <2>6 DEF Fault
<1>16. BalanceAnswered \/ RecoveryElapses \/ BackoffElapses \/ UNCHANGED vars => Good
  BY <1>2 DEF BalanceAnswered, RecoveryElapses, BackoffElapses, tables, vars
<1>17. ASSUME NEW t \in Threads, ServiceWorks(t) \/ AnswerDropped(t)
       PROVE  Good
  BY <1>2, <1>17 DEF ServiceWorks, AnswerDropped, gatewayVars
<1>18. ASSUME NEW r \in Requests, RequestStep(r)
       PROVE  Good
  BY <1>9, <1>10, <1>11, <1>12, <1>13, <1>18 DEF RequestStep, Callers
<1> HIDE DEF Good
<1>19. Good
  <2>1. CASE \E r \in Requests, c \in Commands : Submit(r, c)
    BY <1>3, <2>1
  <2>2. CASE \E r \in Requests : RequestStep(r)
    BY <1>18, <2>2
  <2>3. CASE \E t \in Threads : ServiceWorks(t) \/ AnswerDropped(t)
    BY <1>17, <2>3
  <2> QED BY <1>14, <1>15, <1>16, <2>1, <2>2, <2>3 DEF Next
<1> QED
  BY <1>19 DEF Good

(* Whatever fails and whenever, an event is left PENDING with nobody at    *)
(* it, or settled without the record of its outcome, only while a request  *)
(* works on it: by a kill of the Gateway or by an exception that the       *)
(* client is told of.                                                      *)
THEOREM OnlyErrorsLetGo == Spec => LetGoOnlyByError
<1> DEFINE Kept ==
        \A e \in EventIds : (Stored(e) => InHand(e)) /\ Stored(e)' => InHand(e)' \/ LetGo(e)
<1>1. ASSUME GInv, [Next]_vars
      PROVE  [Kept]_vars
  BY <1>1, LetGoStep
<1>2. [Kept]_vars =>
          [\A e \in EventIds :
              (Stored(e) => InHand(e)) /\ Stored(e)' =>
                  \/ InHand(e)'
                  \/ \E r \in Requests :
                         /\ call[r].pc \notin {"idle", "answered"}
                         /\ call[r].command.eventId = e
                         /\ \/ call'[r].answer = "ERROR"
                            \/ faults' > faults /\ call' = [p \in Callers |-> IdleCall]]_vars
  BY DEF LetGo
<1> HIDE DEF Kept
<1> QED
  BY GatewayInvariance, <1>1, <1>2, PTL DEF Spec, LetGoOnlyByError
=============================================================================
