---------------------------- MODULE EventGateway ----------------------------
(***************************************************************************)
(* The Event Gateway in front of the Account Service: POST /events, the    *)
(* HTTP client with its retries and circuit breaker, the durable fallback  *)
(* queue and the worker that drains it.                                    *)
(*                                                                         *)
(* The Gateway is one process with one event loop.  Its handlers and its   *)
(* worker are tasks of that loop and its database calls do not yield, so   *)
(* tasks interleave only where they await the Account Service; a kill of   *)
(* the process can still come between two commits.  An attempt the client  *)
(* gives up on goes on running in the Account Service.                     *)
(***************************************************************************)
EXTENDS AccountService, Sequences

CONSTANTS
    Requests,          \* tasks that handle POST /events
    Worker,            \* the task of AsyncFallbackWorker.run
    NoThread,          \* no connection to a thread of the Account Service
    NoEvent,           \* no events row
    NoDelivery,        \* no pending_deliveries row
    FallbackModes,     \* the settings of async_fallback_enabled considered
    MaxAttempts,       \* settings.account_service_max_attempts
    FailureThreshold,  \* settings.circuit_breaker_failure_threshold
    BatchSize,         \* settings.async_fallback_batch_size
    MaxFaults          \* bound on the faults of one behaviour

ASSUME GatewayAssumption ==
    /\ Worker \notin Requests
    /\ NoThread \notin Threads
    /\ FallbackModes \subseteq BOOLEAN
    /\ MaxAttempts \in Nat \ {0}
    /\ FailureThreshold \in Nat \ {0}
    /\ BatchSize \in Nat \ {0}
    /\ MaxFaults \in Nat

VARIABLES
    events,        \* the events table
    deliveries,    \* the pending_deliveries table
    gatewayAudit,  \* the distinct contents of the Gateway's audit_records
    call,          \* what each task is doing
    batch,         \* due event ids the worker has read and not yet tried
    breaker,       \* the circuit breaker all tasks share
    faults,        \* faults so far
    fallbackEnabled \* settings.async_fallback_enabled, fixed by the environment

tables == <<events, deliveries, gatewayAudit>>
surroundings == <<faults, fallbackEnabled>>
gatewayVars ==
    <<events, deliveries, gatewayAudit, call, batch, breaker, faults, fallbackEnabled>>
vars == <<accounts, transactions, audit, thread,
          events, deliveries, gatewayAudit, call, batch, breaker, faults,
          fallbackEnabled>>

Callers == Requests \cup {Worker}

Statuses == {"PENDING", "QUEUED", "APPLIED", "FAILED"}

EventRowType ==
    [accountId : AccountIds, type : {"CREDIT", "DEBIT"}, amount : Nat \ {0},
     currency : Currencies, eventTimestamp : Clock,
     metadata : Metadata \cup {NoMetadata, EmptyMetadata}]

(* A delivery is due when its next_attempt_at is not in the future.        *)
DeliveryType == [payload : Commands, due : BOOLEAN]

EventType == [row : EventRowType, status : Statuses]

ASSUME GatewayNullsAssumption ==
    /\ NoEvent \notin EventType
    /\ NoDelivery \notin DeliveryType

GatewayActions ==
    {"EVENT_STORED", "EVENT_REPLAYED", "EVENT_CONFLICT_REJECTED", "EVENT_APPLIED",
     "EVENT_PROCESSING_FAILED", "EVENT_QUEUED", "EVENT_QUEUE_RETRY_SCHEDULED",
     "EVENT_QUEUE_REJECTED", "EVENT_APPLIED_FROM_QUEUE"}

(* What a client of POST /events is told: 201, 202, 200, 409, the status   *)
(* the Account Service rejected the event with, 503, and 500 or 503 after  *)
(* an exception the handler does not expect.                               *)
GatewayAnswers ==
    {"CREATED", "ACCEPTED", "REPLAY", "CONFLICT", "REJECTED", "UNAVAILABLE", "ERROR"}

(* idle: no request, or the worker between two polls; stored: the event is *)
(* committed as PENDING; next: the worker is at the head of its loop;      *)
(* attempt: about to send, or asleep before a retry; waiting: awaiting the *)
(* response of a thread; log: the outcome is saved, its audit record is    *)
(* not; answered: the response goes out.                                   *)
CallType ==
    [pc : {"idle", "stored", "next", "attempt", "waiting", "log", "answered"},
     command : Commands \cup {NoCommand},
     attempt : 0..(MaxAttempts - 1),
     thread : Threads \cup {NoThread},
     answer : GatewayAnswers \cup {"none"}]

(* A task outside the client's loop of attempts, or at its start.          *)
Task(pc, command, answer) ==
    [pc |-> pc, command |-> command, attempt |-> 0, thread |-> NoThread,
     answer |-> answer]

IdleCall == Task("idle", NoCommand, "none")

ClosedBreaker == [failures |-> 0, circuit |-> "closed"]

-----------------------------------------------------------------------------
(* The circuit breaker.  "open" and "elapsed" are the two phases of an     *)
(* opened_at that is set: before and after recovery_seconds have passed.   *)
(* Failures are counted up to the threshold, beyond which the count makes  *)
(* no difference.                                                          *)

BreakerRefuses == breaker.circuit = "open"

BreakerSuccess == breaker' = ClosedBreaker

BreakerFailure ==
    LET counted == IF breaker.failures < FailureThreshold
                   THEN breaker.failures + 1 ELSE FailureThreshold
    IN breaker' = [failures |-> counted,
                   circuit |-> IF counted = FailureThreshold THEN "open"
                               ELSE breaker.circuit]

RecoveryElapses ==
    /\ breaker.circuit = "open"
    /\ breaker' = [breaker EXCEPT !.circuit = "elapsed"]
    /\ UNCHANGED <<accountVars, tables, call, batch, surroundings>>

-----------------------------------------------------------------------------
(* Helpers.                                                                *)

GatewayNote(action, c) == [action |-> action, eventId |-> c.eventId]

Faulty == faults < MaxFaults /\ faults' = faults + 1 /\ UNCHANGED fallbackEnabled

SetStatus(c, status) == events' = [events EXCEPT ![c.eventId].status = status]

RecordGateway(notes) == gatewayAudit' = gatewayAudit \cup notes

(* Where the task stands after an outcome: a request tells its client once *)
(* the audit record is written, the worker goes on with its batch.         *)
RequestSays(r, pc, answer) ==
    call' = [call EXCEPT ![r] = Task(pc, call[r].command, answer)]

WorkerMovesOn ==
    call' = [call EXCEPT ![Worker] = Task("next", NoCommand, "none")]

(* Variant of RequestUnavailable: the event fails although the fallback is *)
(* enabled.                                                                *)
RequestUnavailableFails(r, notes) ==
    /\ SetStatus(call[r].command, "FAILED")
    /\ RecordGateway(notes)
    /\ RequestSays(r, "log", "UNAVAILABLE")
    /\ UNCHANGED deliveries

(* AccountServiceUnavailable in submit: queue the event, its delivery and  *)
(* an audit record in one commit, or fail the event.  notes are audit      *)
(* records committed on the way here.                                      *)
RequestUnavailable(r, notes) ==
    LET c == call[r].command IN
    IF fallbackEnabled
    THEN /\ SetStatus(c, "QUEUED")
         /\ deliveries' = [deliveries EXCEPT ![c.eventId] = [payload |-> c, due |-> TRUE]]
         /\ RecordGateway(notes \cup {GatewayNote("EVENT_QUEUED", c)})
         /\ RequestSays(r, "answered", "ACCEPTED")
    ELSE /\ SetStatus(c, "FAILED")
         /\ RecordGateway(notes)
         /\ RequestSays(r, "log", "UNAVAILABLE")
         /\ UNCHANGED deliveries

(* Variant of WorkerUnavailable: the event goes back to PENDING.           *)
WorkerUnavailableResets(c) ==
    /\ deliveries' = [deliveries EXCEPT ![c.eventId].due = FALSE]
    /\ RecordGateway({GatewayNote("EVENT_QUEUE_RETRY_SCHEDULED", c)})
    /\ WorkerMovesOn
    /\ SetStatus(c, "PENDING")

(* AccountServiceUnavailable in _process_event: try again after a backoff. *)
WorkerUnavailable(c) ==
    /\ deliveries' = [deliveries EXCEPT ![c.eventId].due = FALSE]
    /\ RecordGateway({GatewayNote("EVENT_QUEUE_RETRY_SCHEDULED", c)})
    /\ WorkerMovesOn
    /\ UNCHANGED events

(* Variant of AttemptFailed: one attempt too many.                         *)
AttemptFailedOffByOne(p) ==
    /\ BreakerFailure
    /\ IF call[p].attempt < MaxAttempts
       THEN /\ call' = [call EXCEPT ![p].pc = "attempt", ![p].thread = NoThread,
                                    ![p].attempt = @ + 1]
            /\ UNCHANGED tables
       ELSE IF p = Worker
            THEN WorkerUnavailable(call[p].command)
            ELSE RequestUnavailable(p, {})

(* An attempt failed: the next one follows after a sleep, until there are  *)
(* no more.                                                                *)
AttemptFailed(p) ==
    /\ BreakerFailure
    /\ IF call[p].attempt + 1 < MaxAttempts
       THEN /\ call' = [call EXCEPT ![p] =
                   [pc |-> "attempt", command |-> call[p].command,
                    attempt |-> call[p].attempt + 1, thread |-> NoThread,
                    answer |-> "none"]]
            /\ UNCHANGED tables
       ELSE IF p = Worker
            THEN WorkerUnavailable(call[p].command)
            ELSE RequestUnavailable(p, {})

-----------------------------------------------------------------------------
(* EventService.submit                                                     *)

(* Variants of Submit for a known eventId: it is refused while PENDING,    *)
(* its row is overwritten, or it is taken up again once FAILED.            *)
SubmitRefusesPending(r, c) ==
    /\ call[r].pc = "idle"
    /\ IF events[c.eventId] = NoEvent
       THEN /\ events' = [events EXCEPT ![c.eventId] =
                            [row |-> EventRow(c), status |-> "PENDING"]]
            /\ call' = [call EXCEPT ![r] = Task("stored", c, "none")]
       ELSE /\ call' = [call EXCEPT ![r] =
                   Task("answered", c, IF events[c.eventId].status # "PENDING"
                                       THEN "REPLAY" ELSE "CONFLICT")]
            /\ UNCHANGED events
    /\ UNCHANGED <<accountVars, deliveries, gatewayAudit, batch, breaker, surroundings>>

SubmitUpserts(r, c) ==
    /\ call[r].pc = "idle"
    /\ events' = [events EXCEPT ![c.eventId] =
                      [row |-> EventRow(c), status |-> "PENDING"]]
    /\ call' = [call EXCEPT ![r] = Task("stored", c, "none")]
    /\ UNCHANGED <<accountVars, deliveries, gatewayAudit, batch, breaker, surroundings>>

SubmitRetriesFailed(r, c) ==
    /\ call[r].pc = "idle"
    /\ events[c.eventId] # NoEvent => events[c.eventId].status = "FAILED"
    /\ events' = [events EXCEPT ![c.eventId] =
                      [row |-> EventRow(c), status |-> "PENDING"]]
    /\ call' = [call EXCEPT ![r] = Task("stored", c, "none")]
    /\ UNCHANGED <<accountVars, deliveries, gatewayAudit, batch, breaker, surroundings>>

(* A new eventId is stored as PENDING; a known one is answered as a replay *)
(* or a conflict, whatever its status.                                     *)
Submit(r, c) ==
    /\ call[r].pc = "idle"
    /\ IF events[c.eventId] = NoEvent
       THEN /\ events' = [events EXCEPT ![c.eventId] =
                            [row |-> EventRow(c), status |-> "PENDING"]]
            /\ call' = [call EXCEPT ![r] = Task("stored", c, "none")]
            /\ UNCHANGED gatewayAudit
       ELSE LET replay == SameEvent(events[c.eventId].row, c) IN
            /\ RecordGateway({GatewayNote(
                   IF replay THEN "EVENT_REPLAYED" ELSE "EVENT_CONFLICT_REJECTED", c)})
            /\ call' = [call EXCEPT ![r] =
                   Task("answered", c, IF replay THEN "REPLAY" ELSE "CONFLICT")]
            /\ UNCHANGED events
    /\ UNCHANGED <<accountVars, deliveries, batch, breaker, surroundings>>

(* The commit of EVENT_STORED, then breaker.allow().                       *)
BeginDelivery(r) ==
    LET stored == {GatewayNote("EVENT_STORED", call[r].command)} IN
    /\ call[r].pc = "stored"
    /\ IF BreakerRefuses
       THEN RequestUnavailable(r, stored)
       ELSE /\ call' = [call EXCEPT ![r].pc = "attempt"]
            /\ RecordGateway(stored)
            /\ UNCHANGED <<events, deliveries>>
    /\ UNCHANGED <<accountVars, batch, breaker, surroundings>>

(* The audit record of an outcome, in a commit of its own after the one    *)
(* that saved the status.                                                  *)
LogOutcome(r) ==
    LET action == IF call[r].answer = "CREATED"
                  THEN "EVENT_APPLIED" ELSE "EVENT_PROCESSING_FAILED"
    IN /\ call[r].pc = "log"
       /\ RecordGateway({GatewayNote(action, call[r].command)})
       /\ call' = [call EXCEPT ![r].pc = "answered"]
       /\ UNCHANGED <<accountVars, events, deliveries, batch, breaker, surroundings>>

(* The HTTP response is sent.                                              *)
Respond(r) ==
    /\ call[r].pc = "answered"
    /\ call' = [call EXCEPT ![r] = IdleCall]
    /\ UNCHANGED <<accountVars, tables, batch, breaker, surroundings>>

-----------------------------------------------------------------------------
(* AccountServiceClient._request                                           *)

(* An attempt reaches the Account Service and occupies a thread there.     *)
(* accountId goes into the URL as it is, so the path names the account of  *)
(* the body only for ids that need no escaping: AccountIds stands for      *)
(* those.                                                                  *)
Send(p) ==
    \E t \in Threads :
        /\ call[p].pc = "attempt"
        /\ Receive(t, call[p].command.accountId, call[p].command)
        /\ call' = [call EXCEPT ![p] =
               [pc |-> "waiting", command |-> call[p].command,
                attempt |-> call[p].attempt, thread |-> t, answer |-> "none"]]
        /\ UNCHANGED <<tables, batch, breaker, surroundings>>

(* ConnectError, or a timeout before the request got through.              *)
ConnectFails(p) ==
    /\ call[p].pc = "attempt"
    /\ Faulty
    /\ AttemptFailed(p)
    /\ UNCHANGED <<accountVars, batch>>

(* A timeout with the request in progress: the thread goes on by itself.   *)
TimesOut(p) ==
    /\ call[p].pc = "waiting"
    /\ Faulty
    /\ AttemptFailed(p)
    /\ UNCHANGED <<accountVars, batch>>

(* Variant of Applied: the delivery stays in the queue.                    *)
AppliedKeepsDelivery(p) ==
    LET c == call[p].command IN
    /\ SetStatus(c, "APPLIED")
    /\ IF p = Worker
       THEN RecordGateway({GatewayNote("EVENT_APPLIED_FROM_QUEUE", c)}) /\ WorkerMovesOn
       ELSE RequestSays(p, "log", "CREATED") /\ UNCHANGED gatewayAudit
    /\ UNCHANGED deliveries

(* Variant of Applied: a request answers without the audit record of the   *)
(* outcome.                                                                *)
AppliedUnlogged(p) ==
    LET c == call[p].command IN
    /\ SetStatus(c, "APPLIED")
    /\ IF p = Worker
       THEN /\ deliveries' = [deliveries EXCEPT ![c.eventId] = NoDelivery]
            /\ RecordGateway({GatewayNote("EVENT_APPLIED_FROM_QUEUE", c)})
            /\ WorkerMovesOn
       ELSE RequestSays(p, "answered", "CREATED") /\ UNCHANGED <<deliveries, gatewayAudit>>

(* A response below 400: the event is APPLIED.                             *)
Applied(p) ==
    LET c == call[p].command IN
    /\ SetStatus(c, "APPLIED")
    /\ IF p = Worker
       THEN /\ deliveries' = [deliveries EXCEPT ![c.eventId] = NoDelivery]
            /\ RecordGateway({GatewayNote("EVENT_APPLIED_FROM_QUEUE", c)})
            /\ WorkerMovesOn
       ELSE RequestSays(p, "log", "CREATED") /\ UNCHANGED <<deliveries, gatewayAudit>>

(* Variants of Rejected: the rejection is taken for a success, or the      *)
(* worker drops the delivery without saving the status.                    *)
RejectedFallsThrough(p) == Applied(p)

RejectedUnsaved(p) ==
    LET c == call[p].command IN
    IF p = Worker
    THEN /\ deliveries' = [deliveries EXCEPT ![c.eventId] = NoDelivery]
         /\ RecordGateway({GatewayNote("EVENT_QUEUE_REJECTED", c)})
         /\ WorkerMovesOn
         /\ UNCHANGED events
    ELSE /\ SetStatus(c, "FAILED")
         /\ RequestSays(p, "log", "REJECTED")
         /\ UNCHANGED <<deliveries, gatewayAudit>>

(* A response of 400 or more that is not transient: the event is FAILED.   *)
Rejected(p) ==
    LET c == call[p].command IN
    /\ SetStatus(c, "FAILED")
    /\ IF p = Worker
       THEN /\ deliveries' = [deliveries EXCEPT ![c.eventId] = NoDelivery]
            /\ RecordGateway({GatewayNote("EVENT_QUEUE_REJECTED", c)})
            /\ WorkerMovesOn
       ELSE RequestSays(p, "log", "REJECTED") /\ UNCHANGED <<deliveries, gatewayAudit>>

(* Variant of ResponseArrives: a 503 is not told from a success.           *)
ResponseArrivesTrusting(p) ==
    \E t \in Threads :
        /\ call[p].pc = "waiting"
        /\ call[p].thread = t
        /\ Reply(t)
        /\ BreakerSuccess
        /\ Applied(p)
        /\ UNCHANGED <<batch, surroundings>>

(* The response arrives: 503 counts as a failed attempt, anything else as  *)
(* a success of the breaker.                                               *)
ResponseArrives(p) ==
    \E t \in Threads :
        /\ call[p].pc = "waiting"
        /\ call[p].thread = t
        /\ Reply(t)
        /\ CASE thread[t].answer = "DATABASE_UNAVAILABLE" -> AttemptFailed(p)
             [] thread[t].answer \in {"APPLIED", "REPLAYED"} -> BreakerSuccess /\ Applied(p)
             [] OTHER -> BreakerSuccess /\ Rejected(p)
        /\ UNCHANGED <<batch, surroundings>>

(* Variant of Escapes: the exception ends the worker's task.               *)
EscapesEndsWorker(p) ==
    /\ RequestSays(p, "answered", "ERROR")
    /\ UNCHANGED <<tables, batch>>

(* An exception nobody on the way expects: for a request the handler ends  *)
(* with the event as it is; for the worker the whole batch is abandoned    *)
(* and run() polls again later.                                            *)
Escapes(p) ==
    /\ IF p = Worker
       THEN call' = [call EXCEPT ![Worker] = IdleCall] /\ batch' = <<>>
       ELSE RequestSays(p, "answered", "ERROR") /\ UNCHANGED batch
    /\ UNCHANGED tables

(* The connection breaks under a waiting request: ReadError and            *)
(* RemoteProtocolError are not among the exceptions _request retries.      *)
ConnectionLost(p) ==
    /\ call[p].pc = "waiting"
    /\ call[p].thread = NoThread
    /\ Escapes(p)
    /\ UNCHANGED <<accountVars, breaker, surroundings>>

(* The Gateway's own database fails where a task touches it without having *)
(* called the Account Service.                                             *)
GatewayDatabaseError(p) ==
    /\ call[p].pc \in {"stored", "log", "next"}
    /\ Faulty
    /\ Escapes(p)
    /\ UNCHANGED <<accountVars, breaker>>

(* The commit of what an answer of the Account Service means fails.        *)
OutcomeUnsaved(p) ==
    \E t \in Threads :
        /\ call[p].pc = "waiting"
        /\ call[p].thread = t
        /\ thread[t].answer # "DATABASE_UNAVAILABLE"
        /\ Reply(t)
        /\ BreakerSuccess
        /\ Faulty
        /\ Escapes(p)

(* The last attempt fails, and so does the commit that queues the event or *)
(* reschedules its delivery.                                               *)
UnavailableUnsaved(p) ==
    /\ call[p].pc \in {"attempt", "waiting"}
    /\ call[p].attempt + 1 = MaxAttempts
    /\ BreakerFailure
    /\ Faulty
    /\ Escapes(p)
    /\ UNCHANGED accountVars

(* GET /accounts/{id}/balance goes through the same client: an attempt of  *)
(* it that is answered, or that fails, moves the breaker.  It may have     *)
(* passed allow() long before, so the circuit does not hold it back.       *)
BalanceAnswered ==
    /\ BreakerSuccess
    /\ UNCHANGED <<accountVars, tables, call, batch, surroundings>>

BalanceAttemptFails ==
    /\ BreakerFailure
    /\ Faulty
    /\ UNCHANGED <<accountVars, tables, call, batch>>

-----------------------------------------------------------------------------
(* AsyncFallbackWorker                                                     *)

Due == {e \in EventIds : deliveries[e] # NoDelivery /\ deliveries[e].due}

(* process_once reads at most BatchSize due ids; the order they come in    *)
(* depends on their next_attempt_at, which is left open here.              *)
Poll ==
    LET size == IF Cardinality(Due) < BatchSize THEN Cardinality(Due) ELSE BatchSize IN
    /\ fallbackEnabled
    /\ call[Worker].pc = "idle"
    /\ Due # {}
    /\ \E ids \in [1..size -> Due] :
           /\ \A i, j \in 1..size : ids[i] = ids[j] => i = j
           /\ batch' = ids
    /\ call' = [call EXCEPT ![Worker].pc = "next"]
    /\ UNCHANGED <<accountVars, tables, breaker, surroundings>>

(* _process_event up to its await: load the rows, drop a delivery without  *)
(* an event, ask the breaker.                                              *)
TakeNext ==
    LET e == Head(batch) IN
    /\ call[Worker].pc = "next"
    /\ batch # <<>>
    /\ batch' = Tail(batch)
    /\ IF deliveries[e] = NoDelivery
       THEN UNCHANGED <<tables, call>>
       ELSE IF events[e] = NoEvent
       THEN /\ deliveries' = [deliveries EXCEPT ![e] = NoDelivery]
            /\ UNCHANGED <<events, gatewayAudit, call>>
       ELSE IF BreakerRefuses
       THEN WorkerUnavailable(deliveries[e].payload)
       ELSE /\ call' = [call EXCEPT ![Worker] =
                 Task("attempt", deliveries[e].payload, "none")]
            /\ UNCHANGED tables
    /\ UNCHANGED <<accountVars, breaker, surroundings>>

BatchDone ==
    /\ call[Worker].pc = "next"
    /\ batch = <<>>
    /\ call' = [call EXCEPT ![Worker] = IdleCall]
    /\ UNCHANGED <<accountVars, tables, batch, breaker, surroundings>>

(* next_attempt_at of a rescheduled delivery is reached.                   *)
BackoffElapses ==
    \E e \in EventIds :
        /\ deliveries[e] # NoDelivery
        /\ ~deliveries[e].due
        /\ deliveries' = [deliveries EXCEPT ![e].due = TRUE]
        /\ UNCHANGED <<accountVars, events, gatewayAudit, call, batch, breaker, surroundings>>

-----------------------------------------------------------------------------
(* The Account Service at work, and the processes that fail.               *)

ServiceWorks(t) == Work(t) /\ UNCHANGED gatewayVars

ServiceDatabaseFails(t) ==
    /\ Fail(t)
    /\ Faulty
    /\ UNCHANGED <<tables, call, batch, breaker>>

(* A thread whose caller gave up answers nobody.                           *)
AnswerDropped(t) ==
    /\ \A p \in Callers : call[p].thread # t
    /\ Reply(t)
    /\ UNCHANGED gatewayVars

(* The Account Service is killed: the connections to it break.             *)
ServiceRestarts ==
    /\ Faulty
    /\ Restart
    /\ call' = [p \in Callers |-> [call[p] EXCEPT !.thread = NoThread]]
    /\ UNCHANGED <<tables, batch, breaker>>

(* The Gateway is killed: tasks and breaker are lost, the tables are not.  *)
GatewayRestarts ==
    /\ Faulty
    /\ call' = [p \in Callers |-> IdleCall]
    /\ batch' = <<>>
    /\ breaker' = ClosedBreaker
    /\ UNCHANGED <<accountVars, tables>>

-----------------------------------------------------------------------------
Init ==
    /\ AccountInit
    /\ events = [e \in EventIds |-> NoEvent]
    /\ deliveries = [e \in EventIds |-> NoDelivery]
    /\ gatewayAudit = {}
    /\ call = [p \in Callers |-> IdleCall]
    /\ batch = <<>>
    /\ breaker = ClosedBreaker
    /\ faults = 0
    /\ fallbackEnabled \in FallbackModes

(* What the event loop does for a request once it is submitted.            *)
RequestStep(r) ==
    \/ BeginDelivery(r)
    \/ Send(r)
    \/ ResponseArrives(r)
    \/ ConnectionLost(r)
    \/ LogOutcome(r)
    \/ Respond(r)

WorkerStep ==
    \/ Poll
    \/ TakeNext
    \/ Send(Worker)
    \/ ResponseArrives(Worker)
    \/ ConnectionLost(Worker)
    \/ BatchDone

Fault ==
    \/ \E p \in Callers :
           \/ ConnectFails(p)
           \/ TimesOut(p)
           \/ GatewayDatabaseError(p)
           \/ OutcomeUnsaved(p)
           \/ UnavailableUnsaved(p)
    \/ \E t \in Threads : ServiceDatabaseFails(t)
    \/ BalanceAttemptFails
    \/ ServiceRestarts
    \/ GatewayRestarts

Next ==
    \/ \E r \in Requests, c \in Commands : Submit(r, c)
    \/ \E r \in Requests : RequestStep(r)
    \/ WorkerStep
    \/ BalanceAnswered
    \/ RecoveryElapses
    \/ BackoffElapses
    \/ \E t \in Threads : ServiceWorks(t) \/ AnswerDropped(t)
    \/ Fault

Spec == Init /\ [][Next]_vars

(* The event loop serves every task it has, threads of the Account Service *)
(* are scheduled, time passes.  Clients need not submit and nothing need   *)
(* fail.                                                                   *)
Fairness ==
    /\ \A r \in Requests : WF_vars(RequestStep(r))
    /\ WF_vars(WorkerStep)
    /\ WF_vars(RecoveryElapses)
    /\ \A t \in Threads : WF_vars(ServiceWorks(t)) /\ WF_vars(AnswerDropped(t))
    /\ \A e \in EventIds :
           WF_vars(BackoffElapses /\ deliveries'[e] # deliveries[e])

FairSpec == Spec /\ Fairness

-----------------------------------------------------------------------------
(* Properties.                                                             *)

Stored(e) == events[e] # NoEvent

HasStatus(e, statuses) == Stored(e) /\ events[e].status \in statuses

(* Every variable keeps the shape the code gives it.                       *)
GatewayTypeOK ==
    /\ TypeOK
    /\ events \in [EventIds -> EventType \cup {NoEvent}]
    /\ deliveries \in [EventIds -> DeliveryType \cup {NoDelivery}]
    /\ gatewayAudit \subseteq [action : GatewayActions, eventId : EventIds]
    /\ call \in [Callers -> CallType]
    /\ batch \in Seq(EventIds) /\ Len(batch) <= BatchSize
    /\ breaker \in [failures : 0..FailureThreshold,
                    circuit : {"closed", "open", "elapsed"}]
    /\ faults \in 0..MaxFaults
    /\ fallbackEnabled \in FallbackModes

(* An event the Gateway shows as APPLIED is in the ledger of the Account   *)
(* Service with the same account, type, amount, currency and time, however *)
(* its delivery got there: first attempt, retry or queue.                  *)
AppliedMeansRecorded ==
    \A e \in EventIds :
        HasStatus(e, {"APPLIED"}) =>
            /\ Recorded(e)
            /\ \A f \in DOMAIN transactions[e] : transactions[e][f] = events[e].row[f]

(* The ledger never holds a transaction the Gateway does not know: the     *)
(* event is stored before the first attempt leaves, and an attempt that    *)
(* outlives its caller still carries the stored event.                     *)
LedgerKnownToGateway ==
    \A e \in EventIds :
        Recorded(e) =>
            /\ Stored(e)
            /\ \A f \in DOMAIN transactions[e] : transactions[e][f] = events[e].row[f]

(* An event waits in the queue exactly while its status is QUEUED, and the *)
(* payload that will be delivered is the stored event.                     *)
QueueMatchesStatus ==
    \A e \in EventIds :
        /\ HasStatus(e, {"QUEUED"}) <=> deliveries[e] # NoDelivery
        /\ deliveries[e] # NoDelivery =>
               /\ deliveries[e].payload.eventId = e
               /\ EventRow(deliveries[e].payload) = events[e].row

(* The audit trail never runs ahead of the status it explains, and an      *)
(* event applied from the queue was audited as queued first.               *)
AuditExplainsStatus ==
    \A e \in EventIds :
        LET Audited(action) == [action |-> action, eventId |-> e] \in gatewayAudit IN
        /\ Audited("EVENT_APPLIED") \/ Audited("EVENT_APPLIED_FROM_QUEUE") =>
               HasStatus(e, {"APPLIED"})
        /\ Audited("EVENT_PROCESSING_FAILED") \/ Audited("EVENT_QUEUE_REJECTED") =>
               HasStatus(e, {"FAILED"})
        /\ Audited("EVENT_QUEUED") => HasStatus(e, {"QUEUED", "APPLIED", "FAILED"})
        /\ Audited("EVENT_APPLIED_FROM_QUEUE") \/ Audited("EVENT_QUEUE_REJECTED") =>
               Audited("EVENT_QUEUED")
        /\ HasStatus(e, {"QUEUED"}) => Audited("EVENT_QUEUED")

(* A client told 201 has its event in the ledger and one told 202 has it   *)
(* in the queue or settled, whatever failed before or after the answer.    *)
AnswersAreKept ==
    \A r \in Requests :
        call[r].pc = "answered" =>
            LET e == call[r].command.eventId IN
            /\ call[r].answer = "CREATED" => Recorded(e)
            /\ call[r].answer = "ACCEPTED" => HasStatus(e, {"QUEUED", "APPLIED", "FAILED"})

(* With the fallback enabled, an event shown as FAILED is not in the       *)
(* ledger, and no attempt still under way will put it there.               *)
FailedMeansNotRecorded ==
    fallbackEnabled =>
        \A e \in EventIds : HasStatus(e, {"FAILED"}) => ~Recorded(e)

(* A client refused with 409 sent something other than what is stored.     *)
GatewayConflictIsReal ==
    \A r \in Requests :
        call[r].answer = "CONFLICT" =>
            events[call[r].command.eventId].row # EventRow(call[r].command)

(* A request is at one of these points with event e.                       *)
HasRequest(e, points) ==
    \E r \in Requests : call[r].pc \in points /\ call[r].command.eventId = e

(* Somebody still has to do what remains to be done for event e, or all of *)
(* it is done: a PENDING event is being delivered, a QUEUED one is the     *)
(* worker's, and a settled one is audited or about to be.                  *)
InHand(e) ==
    LET Audited(action) == [action |-> action, eventId |-> e] \in gatewayAudit IN
    \/ HasStatus(e, {"PENDING"}) /\ HasRequest(e, {"stored", "attempt", "waiting"})
    \/ HasStatus(e, {"QUEUED"})
    \/ /\ HasStatus(e, {"APPLIED"})
       /\ \/ HasRequest(e, {"log"})
          \/ Audited("EVENT_APPLIED") \/ Audited("EVENT_APPLIED_FROM_QUEUE")
    \/ /\ HasStatus(e, {"FAILED"})
       /\ \/ HasRequest(e, {"log"})
          \/ Audited("EVENT_PROCESSING_FAILED") \/ Audited("EVENT_QUEUE_REJECTED")

(* Of the failures a behaviour may have, two let go of an event, both      *)
(* while a request works on it: the kill of the Gateway, and an exception  *)
(* that ends the request, whose client is then told so.  No timeout, late  *)
(* answer, open circuit, restart of the Account Service or fault of the    *)
(* worker leaves an event PENDING with nobody at it, or settled without    *)
(* the audit record of its outcome.                                        *)
LetGoOnlyByError ==
    [][\A e \in EventIds :
          (Stored(e) => InHand(e)) /\ Stored(e)' =>
              \/ InHand(e)'
              \/ \E r \in Requests :
                     /\ call[r].pc \notin {"idle", "answered"}
                     /\ call[r].command.eventId = e
                     /\ \/ call'[r].answer = "ERROR"
                        \/ faults' > faults /\ call' = [p \in Callers |-> IdleCall]]_vars

(* A status only moves along the documented arrows, and the columns of an  *)
(* event never change: a request, the worker and a late response cannot    *)
(* take an event back from APPLIED or FAILED.                              *)
Arrows ==
    {<<"PENDING", "APPLIED">>, <<"PENDING", "QUEUED">>, <<"PENDING", "FAILED">>,
     <<"QUEUED", "APPLIED">>, <<"QUEUED", "FAILED">>}

StatusFollowsArrows ==
    [][\A e \in EventIds :
          /\ ~Stored(e) /\ Stored(e)' => events'[e].status = "PENDING"
          /\ Stored(e) =>
                 /\ Stored(e)'
                 /\ events'[e].row = events[e].row
                 /\ \/ events'[e].status = events[e].status
                    \/ <<events[e].status, events'[e].status>> \in Arrows]_vars

(* Once the faults end, everything in the queue is delivered or rejected.  *)
QueueDrains ==
    \A e \in EventIds : HasStatus(e, {"QUEUED"}) ~> HasStatus(e, {"APPLIED", "FAILED"})

(* Every event the Gateway stores is eventually settled.                   *)
PendingSettles ==
    \A e \in EventIds :
        HasStatus(e, {"PENDING"}) ~> HasStatus(e, {"QUEUED", "APPLIED", "FAILED"})

-----------------------------------------------------------------------------
(* Refinement: PENDING and QUEUED are one open phase, and of the many ways *)
(* a transaction reaches the ledger (an attempt, its retry, the queue, an  *)
(* attempt nobody waits for) only the first that commits is a step.        *)

(* What the transactions row of an event says.                             *)
TransactionOf(row) ==
    [accountId |-> row.accountId, type |-> row.type, amount |-> row.amount,
     currency |-> row.currency, eventTimestamp |-> row.eventTimestamp]

Lifecycle == INSTANCE EventLifecycle WITH
    Contents <- TransactionRowType,
    Nothing <- NoTransaction,
    status <- [e \in EventIds |->
                  IF ~Stored(e) THEN "unknown"
                  ELSE IF events[e].status \in {"PENDING", "QUEUED"} THEN "open"
                  ELSE events[e].status],
    content <- [e \in EventIds |->
                   IF ~Stored(e) THEN NoTransaction
                   ELSE TransactionOf(events[e].row)],
    ledger <- transactions

(* The Gateway, its worker and the Account Service together take every     *)
(* event through the lifecycle promised, whatever fails.                   *)
ImplementsLifecycle == Lifecycle!LifecycleSpec
=============================================================================
