--------------------------- MODULE FallbackQueue ----------------------------
(***************************************************************************)
(* The durable fallback queue of the Gateway and the worker that drains    *)
(* it, in time: which due delivery is taken next, how long a failed one    *)
(* waits, what a shutdown, a cancellation or a kill leaves behind, and     *)
(* which trace id an attempt carries.  Handlers of POST /events and of     *)
(* balance reads use the same client and circuit breaker.                  *)
(*                                                                         *)
(* Event ids are numbers because due deliveries are ordered by them.  The  *)
(* trace id of a submission is named by its event.                         *)
(***************************************************************************)
EXTENDS CircuitBreaker, Sequences, Functions

CONSTANTS
    Worker,          \* the task of AsyncFallbackWorker.run
    EventIds,
    NoEvent,         \* no event, and the default trace id
    NoDelivery,      \* no pending_deliveries row
    BatchSize,       \* settings.async_fallback_batch_size
    PollSeconds,     \* settings.async_fallback_poll_seconds
    BaseBackoff,     \* settings.async_fallback_base_backoff_seconds
    MaxBackoff,      \* settings.async_fallback_max_backoff_seconds
    MaxExponent,     \* 16 in the code
    JitterSeconds,   \* settings.async_fallback_jitter_seconds
    StopSeconds      \* how long shutdown waits for the worker

DeliveryType == [attempts : Nat, dueAt : Int, trace : EventIds]

ASSUME QueueAssumption ==
    /\ Worker \in Callers
    /\ EventIds \subseteq Nat /\ NoEvent \notin Nat
    /\ NoDelivery \notin DeliveryType
    /\ BatchSize \in Nat \ {0} /\ BaseBackoff \in Nat \ {0}
    /\ {PollSeconds, MaxBackoff, MaxExponent, JitterSeconds, StopSeconds} \subseteq Nat

Requests == Callers \ {Worker}

VARIABLES
    process,    \* the Gateway process: down, up or stopping
    stopAt,     \* when shutdown gives up on the worker
    worker,     \* where the worker's loop stands
    subject,    \* the event each caller works on
    context,    \* trace_id_ctx of each task
    header,     \* X-Trace-ID of the attempt each caller sent last
    known,      \* the events table: the ids submitted so far
    rows,       \* the pending_deliveries table
    queuedAt,   \* when each event was put into the queue
    answered,   \* events the Account Service has answered for good
    passed      \* deliveries that failed while another one was due

vars == <<now, breaker, call, sent, process, stopAt, worker, subject, context, header,
          known, rows, queuedAt, answered, passed>>
lifecycle == <<process, stopAt>>
tables == <<known, rows, queuedAt>>
service == <<answered, passed>>

(* absent: no task; loop: before the check of the stop event; batch: going *)
(* through the batch; wait: between two polls.                             *)
WorkerType ==
    [pc : {"absent", "loop", "batch", "wait"}, batch : Seq(EventIds), wakeAt : Nat]

WorkerAt(pc, batch, wakeAt) == [pc |-> pc, batch |-> batch, wakeAt |-> wakeAt]

NoWorker == WorkerAt("absent", <<>>, 0)

Queued(e) == e \in EventIds /\ rows[e] # NoDelivery

Lesser(m, n) == IF m < n THEN m ELSE n

-----------------------------------------------------------------------------
(* The backoff.                                                            *)

(* Variant of Backoff: the maximum is forgotten.                           *)
BackoffUnbounded(attempts) == BaseBackoff * 2 ^ Lesser(attempts - 1, MaxExponent)

(* _backoff_seconds without the jitter; attempts >= 1 at its only call.    *)
Backoff(attempts) ==
    Lesser(BaseBackoff * 2 ^ Lesser(attempts - 1, MaxExponent), MaxBackoff)

-----------------------------------------------------------------------------
(* Helpers.                                                                *)

Due == {e \in EventIds : Queued(e) /\ rows[e].dueAt <= now}

(* Variant of Before: latest first.                                        *)
LatestBefore(e, f) ==
    \/ rows[e].dueAt > rows[f].dueAt
    \/ rows[e].dueAt = rows[f].dueAt /\ e < f

(* ORDER BY next_attempt_at, event_id                                      *)
Before(e, f) ==
    \/ rows[e].dueAt < rows[f].dueAt
    \/ rows[e].dueAt = rows[f].dueAt /\ e < f

(* due_event_ids(limit=BatchSize): the first due deliveries, in order.     *)
(* There is one such batch, because the order is total.                    *)
DueBatches ==
    {batch \in UNION {[1..n -> Due] : n \in 0..BatchSize} :
        /\ \A i, j \in DOMAIN batch : i < j => Before(batch[i], batch[j])
        /\ \A e \in Due \ Range(batch) :
               Len(batch) = BatchSize /\ \A i \in DOMAIN batch : Before(batch[i], e)}

(* Variant of SetContext: one trace id for the whole process.              *)
SetContextOfAll(p, trace) == context' = [q \in Callers |-> trace]

(* trace_id_ctx.set, in the context of task p alone.                       *)
SetContext(p, trace) == context' = [context EXCEPT ![p] = trace]

(* The task leaves the context it entered with its event.                  *)
Leave(p) ==
    /\ SetContext(p, NoEvent)
    /\ header' = [header EXCEPT ![p] = NoEvent]
    /\ subject' = [subject EXCEPT ![p] = NoEvent]

(* The attempt p sends now carries current_trace_id().                     *)
Carry(p, trace) == header' = [header EXCEPT ![p] = trace]

(* The worker is through with the head of its batch.                       *)
NextOfBatch == worker' = WorkerAt("batch", Tail(worker.batch), 0)

(* It waits for the stop event, one poll interval at most.                 *)
AwaitPoll == worker' = WorkerAt("wait", <<>>, now + PollSeconds)

-----------------------------------------------------------------------------
(* Requests: an event that cannot be delivered at once is queued.          *)

Enqueue(e, trace) ==
    /\ rows' = [rows EXCEPT ![e] = [attempts |-> 0, dueAt |-> now, trace |-> trace]]
    /\ queuedAt' = [queuedAt EXCEPT ![e] = now]

(* A new event of a client, while the process serves requests; the circuit *)
(* lets its delivery begin.                                                *)
Submit(r, e) ==
    /\ process = "up"
    /\ e \notin known
    /\ Begin(r)
    /\ known' = known \cup {e}
    /\ subject' = [subject EXCEPT ![r] = e]
    /\ SetContext(r, e)
    /\ Carry(r, e)
    /\ UNCHANGED <<lifecycle, worker, rows, queuedAt, service>>

(* The same with the circuit open: straight into the queue.                *)
SubmitWhileOpen(r, e) ==
    /\ process = "up"
    /\ e \notin known
    /\ ~InFlight(r) /\ ~Allows
    /\ known' = known \cup {e}
    /\ Enqueue(e, e)
    /\ UNCHANGED <<breakerVars, lifecycle, worker, subject, context, header, service>>

(* GET /accounts/{accountId}/balance                                       *)
ReadBalance(r) ==
    /\ process = "up"
    /\ Begin(r)
    /\ Carry(r, context[r])
    /\ UNCHANGED <<lifecycle, worker, subject, context, tables, service>>

RequestSucceeds(r) ==
    /\ subject[r] \in answered \cup {NoEvent}
    /\ Succeeds(r)
    /\ Leave(r)
    /\ UNCHANGED <<lifecycle, worker, tables, service>>

(* After the last attempt an event goes into the queue, with the trace id  *)
(* of the request's context.                                               *)
RequestFails(r) ==
    /\ AttemptFails(r)
    /\ IF InFlight(r)'
       THEN UNCHANGED <<subject, context, header>>
       ELSE Leave(r)
    /\ IF InFlight(r)' \/ subject[r] = NoEvent
       THEN UNCHANGED tables
       ELSE Enqueue(subject[r], context[r]) /\ UNCHANGED known
    /\ UNCHANGED <<lifecycle, worker, service>>

(* An unexpected exception: the connection breaks under the attempt, or    *)
(* the call ends and the commit of what it means fails.                    *)
Raises(p) ==
    /\ Breaks(p) \/ Succeeds(p) \/ AttemptFails(p)
    /\ ~InFlight(p)'

(* It ends a request, whose event stays PENDING.                           *)
RequestBreaks(r) ==
    /\ Raises(r)
    /\ Leave(r)
    /\ UNCHANGED <<lifecycle, worker, tables, service>>

(* The sleep of any call ends: the attempt is sent from the task's context.*)
Resend(p) ==
    /\ SendAgain(p)
    /\ Carry(p, context[p])
    /\ UNCHANGED <<lifecycle, worker, subject, context, tables, service>>

(* The Account Service applies or rejects the event of an attempt; whether *)
(* the answer gets back is another matter.                                 *)
ServiceAnswers(p) ==
    /\ call[p].pc = "sent"
    /\ subject[p] \in EventIds \ answered
    /\ answered' = answered \cup {subject[p]}
    /\ UNCHANGED <<breakerVars, lifecycle, worker, subject, context, header, tables, passed>>

-----------------------------------------------------------------------------
(* The worker: run, process_once and _process_event.                       *)

(* The stop event is not set: read the due deliveries.                     *)
Poll ==
    /\ worker.pc = "loop"
    /\ process # "stopping"
    /\ \E batch \in DueBatches : worker' = WorkerAt("batch", batch, 0)
    /\ UNCHANGED <<breakerVars, lifecycle, subject, context, header, tables, service>>

(* The stop event is set: run() returns.                                   *)
Stop ==
    /\ worker.pc = "loop"
    /\ process = "stopping"
    /\ worker' = NoWorker
    /\ UNCHANGED <<breakerVars, lifecycle, subject, context, header, tables, service>>

AtHead == worker.pc = "batch" /\ ~InFlight(Worker) /\ worker.batch # <<>>

(* Variant of Take: the row goes before the delivery is known to arrive.   *)
TakeDeletesRow ==
    LET e == Head(worker.batch) IN
    /\ AtHead
    /\ Queued(e)
    /\ Begin(Worker)
    /\ subject' = [subject EXCEPT ![Worker] = e]
    /\ SetContext(Worker, rows[e].trace)
    /\ Carry(Worker, rows[e].trace)
    /\ rows' = [rows EXCEPT ![e] = NoDelivery]
    /\ UNCHANGED <<lifecycle, worker, known, queuedAt, service>>

(* The delivery of the head of the batch begins, with its own trace id.    *)
Take ==
    LET e == Head(worker.batch) IN
    /\ AtHead
    /\ Queued(e)
    /\ Begin(Worker)
    /\ subject' = [subject EXCEPT ![Worker] = e]
    /\ SetContext(Worker, rows[e].trace)
    /\ Carry(Worker, rows[e].trace)
    /\ UNCHANGED <<lifecycle, worker, tables, service>>

(* AccountServiceUnavailable: one more attempt, and the time of the next.  *)
(* Every other delivery that is due has been passed by this one.           *)
Reschedule(e) ==
    LET attempts == rows[e].attempts + 1 IN
    /\ \E jitter \in 0..JitterSeconds :
           rows' = [rows EXCEPT ![e] = [attempts |-> attempts,
                                        dueAt |-> now + Backoff(attempts) + jitter,
                                        trace |-> rows[e].trace]]
    /\ passed' = [f \in EventIds |->
                     IF f = e THEN {} ELSE IF f \in Due THEN passed[f] \cup {e}
                     ELSE passed[f]]
    /\ NextOfBatch
    /\ UNCHANGED <<known, queuedAt, answered>>

(* The circuit is open: the delivery fails without an attempt.             *)
TakeWhileOpen ==
    /\ AtHead
    /\ ~Allows
    /\ Queued(Head(worker.batch))
    /\ Reschedule(Head(worker.batch))
    /\ UNCHANGED <<breakerVars, lifecycle, subject, context, header>>

DeliveryFails ==
    /\ AttemptFails(Worker)
    /\ IF InFlight(Worker)'
       THEN UNCHANGED <<worker, subject, context, header, tables, service>>
       ELSE Leave(Worker) /\ Reschedule(subject[Worker])
    /\ UNCHANGED lifecycle

(* The event is applied or rejected: the row goes.                         *)
DeliverySucceeds ==
    /\ subject[Worker] \in answered
    /\ Succeeds(Worker)
    /\ Leave(Worker)
    /\ rows' = [rows EXCEPT ![subject[Worker]] = NoDelivery]
    /\ NextOfBatch
    /\ UNCHANGED <<lifecycle, known, queuedAt, service>>

(* It abandons the worker's batch; the row stays as it is.                 *)
BatchBreaks ==
    /\ Raises(Worker)
    /\ Leave(Worker)
    /\ AwaitPoll
    /\ UNCHANGED <<lifecycle, tables, service>>

BatchDone ==
    /\ worker.pc = "batch"
    /\ worker.batch = <<>>
    /\ AwaitPoll
    /\ UNCHANGED <<breakerVars, lifecycle, subject, context, header, tables, service>>

(* wait_for(stop_event.wait(), timeout=poll) returns or times out.         *)
WaitEnds ==
    /\ worker.pc = "wait"
    /\ now >= worker.wakeAt \/ process = "stopping"
    /\ worker' = WorkerAt("loop", <<>>, 0)
    /\ UNCHANGED <<breakerVars, lifecycle, subject, context, header, tables, service>>

-----------------------------------------------------------------------------
(* The process.                                                            *)

Startup ==
    /\ process = "down"
    /\ process' = "up"
    /\ NewClient
    /\ worker' = WorkerAt("loop", <<>>, 0)
    /\ UNCHANGED <<stopAt, subject, context, header, tables, service>>

(* Requests are done; the stop event is set.                               *)
Shutdown ==
    /\ process = "up"
    /\ \A r \in Requests : ~InFlight(r)
    /\ process' = "stopping"
    /\ stopAt' = now + StopSeconds
    /\ UNCHANGED <<breakerVars, worker, subject, context, header, tables, service>>

(* wait_for gives up and cancels the worker where it awaits.               *)
CancelWorker ==
    /\ process = "stopping"
    /\ now >= stopAt
    /\ Breaks(Worker)
    /\ Leave(Worker)
    /\ worker' = NoWorker
    /\ UNCHANGED <<lifecycle, tables, service>>

Down ==
    /\ process' = "down"
    /\ stopAt' = 0
    /\ NewClient
    /\ worker' = NoWorker
    /\ subject' = [p \in Callers |-> NoEvent]
    /\ context' = [p \in Callers |-> NoEvent]
    /\ header' = [p \in Callers |-> NoEvent]
    /\ UNCHANGED <<tables, service>>

(* The process ends once the worker has.                                   *)
Exit == process = "stopping" /\ worker.pc = "absent" /\ Down

(* The process is killed before that.                                      *)
Kill == worker.pc # "absent" /\ Down

(* The worker awaits a response, the end of a sleep or the next poll.      *)
WorkerAwaits ==
    \/ worker.pc = "absent"
    \/ InFlight(Worker)
    \/ worker.pc = "wait" /\ now < worker.wakeAt /\ process # "stopping"

(* What the event loop does between two awaits takes no time, and the      *)
(* shutdown does not outlast its limit.                                    *)
TimePasses ==
    /\ WorkerAwaits
    /\ process = "stopping" /\ worker.pc # "absent" => now < stopAt
    /\ Tick
    /\ UNCHANGED <<lifecycle, worker, subject, context, header, tables, service>>

-----------------------------------------------------------------------------
Init ==
    /\ BreakerInit
    /\ process = "down"
    /\ stopAt = 0
    /\ worker = NoWorker
    /\ subject = [p \in Callers |-> NoEvent]
    /\ context = [p \in Callers |-> NoEvent]
    /\ header = [p \in Callers |-> NoEvent]
    /\ known = {}
    /\ rows = [e \in EventIds |-> NoDelivery]
    /\ queuedAt = [e \in EventIds |-> Never]
    /\ answered = {}
    /\ passed = [e \in EventIds |-> {}]

RequestStep(r) ==
    \/ \E e \in EventIds : Submit(r, e) \/ SubmitWhileOpen(r, e)
    \/ ReadBalance(r)
    \/ RequestSucceeds(r)
    \/ RequestFails(r)
    \/ RequestBreaks(r)

WorkerStep ==
    \/ Poll
    \/ Stop
    \/ Take
    \/ TakeWhileOpen
    \/ DeliveryFails
    \/ DeliverySucceeds
    \/ BatchBreaks
    \/ BatchDone
    \/ WaitEnds

ProcessStep == Startup \/ Shutdown \/ CancelWorker \/ Exit \/ Kill

Next ==
    \/ \E r \in Requests : RequestStep(r)
    \/ \E p \in Callers : Resend(p) \/ ServiceAnswers(p)
    \/ WorkerStep
    \/ ProcessStep
    \/ TimePasses

Spec == Init /\ [][Next]_vars

-----------------------------------------------------------------------------
(* Properties.                                                             *)

(* Every variable keeps the shape the code gives it, and only a running    *)
(* process has tasks at work.                                              *)
TypeOK ==
    /\ BreakerTypeOK
    /\ process \in {"down", "up", "stopping"}
    /\ worker \in WorkerType
    /\ subject \in [Callers -> EventIds \cup {NoEvent}]
    /\ context \in [Callers -> EventIds \cup {NoEvent}]
    /\ header \in [Callers -> EventIds \cup {NoEvent}]
    /\ rows \in [EventIds -> DeliveryType \cup {NoDelivery}]
    /\ queuedAt \in [EventIds -> Nat \cup {Never}]
    /\ process = "down" => \A p \in Callers : ~InFlight(p) /\ subject[p] = NoEvent

(* An event the client was told is queued stays in the queue until the     *)
(* Account Service has answered it, wherever an exception, a shutdown that *)
(* runs out of time or a kill interrupts its delivery.                     *)
QueuedIsKept ==
    \A e \in EventIds :
        queuedAt[e] # Never => Queued(e) \/ e \in answered

(* Failing deliveries take turns: while one is due, no other fails twice   *)
(* before it, whatever batches, breaker, new events and restarts do.       *)
FailuresTakeTurns ==
    [][\A e, f \in EventIds :
          /\ e # f /\ e \in Due
          /\ Queued(f) /\ Queued(f)' /\ rows'[f].attempts > rows[f].attempts
          => f \notin passed[e]]_vars

(* The n-th failure of a delivery postpones it by the n-th of the doubling *)
(* delays and never beyond the maximum and the jitter: over any number of  *)
(* restarts the retries of an event thin out and do not stop.              *)
RetriesAreSpaced ==
    LET ceiling == Lesser(BaseBackoff * 2 ^ MaxExponent, MaxBackoff)
        Delays(n) == SumFunction([k \in 1..n |-> Lesser(BaseBackoff * 2 ^ (k - 1), ceiling)])
    IN \A e \in EventIds :
           Queued(e) =>
               /\ rows[e].dueAt >= queuedAt[e] + Delays(rows[e].attempts)
               /\ rows[e].dueAt <= now + ceiling + JitterSeconds

(* Every attempt to deliver an event carries the trace id of the request   *)
(* that submitted it, however many tasks and restarts lie in between.      *)
TraceFollowsEvent ==
    \A p \in Callers :
        call[p].pc = "sent" /\ subject[p] # NoEvent => header[p] = subject[p]
=============================================================================
