------------------------ MODULE FallbackQueue_proofs ------------------------
(***************************************************************************)
(* The fallback queue for any number of callers and events and any         *)
(* settings: it keeps what it accepted; deliveries carry the trace ids of  *)
(* their submissions; failing ones take turns; and the retries of each are *)
(* spaced by the doubling delays.  Its actions are built from those of     *)
(* CircuitBreaker, so what is proved of the breaker holds here.            *)
(***************************************************************************)
EXTENDS FallbackQueue, CircuitBreaker_proofs, Arithmetic_proofs, SequenceTheorems

(* Every step is a step of one caller of the breaker, a new client, a tick *)
(* of the clock, or does not touch the breaker.                            *)
LEMMA StepUsesBreaker == [Next]_vars => [BreakerNext]_breakerVars
<1> SUFFICES ASSUME [Next]_vars PROVE [BreakerNext]_breakerVars
  OBVIOUS
<1> USE DEF BreakerNext
<1>1. Worker \in Callers /\ Requests \subseteq Callers
  BY QueueAssumption DEF Requests
<1>2. ASSUME NEW r \in Requests, RequestStep(r) PROVE [BreakerNext]_breakerVars
  BY <1>1, <1>2
  DEF RequestStep, Submit, SubmitWhileOpen, ReadBalance, RequestSucceeds, RequestFails,
      RequestBreaks, Raises
<1>3. ASSUME NEW p \in Callers, Resend(p) \/ ServiceAnswers(p) PROVE [BreakerNext]_breakerVars
  BY <1>3 DEF Resend, ServiceAnswers
<1>4. CASE WorkerStep
  BY <1>1, <1>4
  DEF WorkerStep, Poll, Stop, Take, TakeWhileOpen, DeliveryFails, DeliverySucceeds,
      BatchBreaks, BatchDone, WaitEnds, Raises
<1>5. CASE ProcessStep
  BY <1>1, <1>5 DEF ProcessStep, Startup, Shutdown, CancelWorker, Exit, Kill, Down
<1>6. CASE TimePasses
  BY <1>6 DEF TimePasses
<1>7. CASE UNCHANGED vars
  BY <1>7 DEF vars, breakerVars
<1> QED
  BY <1>2, <1>3, <1>4, <1>5, <1>6, <1>7 DEF Next

(* So what is proved of BreakerSpec holds of the queue: that the actions   *)
(* are built so, and nothing about the code.                               *)
LEMMA QueueUsesBreaker == Spec => BreakerSpec
<1>1. Init => BreakerInit
  BY DEF Init
<1> QED
  BY <1>1, StepUsesBreaker, PTL DEF Spec, BreakerSpec

(* Whatever the worker, the requests, shutdowns and kills do, nothing in   *)
(* flight began after a circuit that refuses opened.                       *)
THEOREM QueueOpeningSafe == Spec => []InFlightPredatesOpening
  BY QueueUsesBreaker, OpeningSafe

(* Nor does a refusing circuit see more than the retries of those calls.   *)
THEOREM QueueLoadBounded == Spec => []OpenCircuitBoundsLoad
  BY QueueUsesBreaker, LoadBounded

-----------------------------------------------------------------------------
(* The shape of the variables the arguments below rest on.                 *)
Shape ==
    /\ rows \in [EventIds -> DeliveryType \cup {NoDelivery}]
    /\ queuedAt \in [EventIds -> Nat \cup {Never}]
    /\ subject \in [Callers -> EventIds \cup {NoEvent}]
    /\ header \in [Callers -> EventIds \cup {NoEvent}]
    /\ context = subject

(* Rows, contexts and attempts all name the event as its trace.            *)
Traced ==
    /\ \A e \in EventIds : Queued(e) => rows[e].trace = e
    /\ \A p \in Callers : call[p].pc = "sent" => header[p] = context[p]

(* The row of a delivery in progress is still there when it ends.          *)
Kept ==
    /\ QueuedIsKept
    /\ InFlight(Worker) => Queued(subject[Worker])

QInv == Shape /\ Traced /\ Kept

(* No delay is longer than the last of the doubling ones.                  *)
Ceiling == Lesser(BaseBackoff * 2 ^ MaxExponent, MaxBackoff)

(* A delay doubles with each failure until it reaches the longest, which   *)
(* is at most the maximum, and is positive if the maximum is.              *)
LEMMA BackoffFacts ==
    ASSUME NEW attempts \in Nat \ {0}
    PROVE  /\ Backoff(attempts) \in Nat
           /\ Backoff(attempts) <= Ceiling /\ Ceiling \in Nat /\ Ceiling <= MaxBackoff
           /\ MaxBackoff > 0 => Backoff(attempts) > 0
           /\ Backoff(attempts) = Lesser(BaseBackoff * 2 ^ (attempts - 1), Ceiling)
<1> DEFINE Scaled(n) == BaseBackoff * 2 ^ n
<1>1. /\ MaxExponent \in Nat /\ MaxBackoff \in Nat /\ attempts - 1 \in Nat
      /\ BaseBackoff \in Nat /\ BaseBackoff > 0
  BY QueueAssumption
<1>2. ASSUME NEW n \in Nat
      PROVE  Scaled(n) \in Nat /\ Scaled(n) > 0
  <2>1. PICK power \in Nat \ {0} : power = 2 ^ n
    BY PowerPositive
  <2>2. BaseBackoff * power \in Nat /\ BaseBackoff * power > 0
    BY <1>1, <2>1
  <2> QED BY <2>1, <2>2
<1>3. ASSUME NEW m \in Nat, NEW n \in Nat, m <= n
      PROVE  Scaled(m) <= Scaled(n)
  <2>1. PICK p \in Nat : p = 2 ^ m
    BY PowerPositive
  <2>2. PICK q \in Nat : q = 2 ^ n
    BY PowerPositive
  <2>3. p <= q
    BY <1>3, <2>1, <2>2, PowerGrows
  <2>4. BaseBackoff * p <= BaseBackoff * q
    BY <1>1, <2>3
  <2> QED BY <2>1, <2>2, <2>4
<1>4. PICK k \in Nat : k = attempts - 1
  BY <1>1
<1>5. /\ Backoff(attempts) = Lesser(Scaled(Lesser(k, MaxExponent)), MaxBackoff)
      /\ Ceiling = Lesser(Scaled(MaxExponent), MaxBackoff)
  BY <1>4 DEF Backoff, Ceiling
<1> HIDE DEF Scaled
<1>6. CASE k < MaxExponent
  <2>1. Lesser(k, MaxExponent) = k
    BY <1>6 DEF Lesser
  <2>2. Scaled(k) <= Scaled(MaxExponent)
    BY <1>1, <1>3, <1>6
  <2>3. /\ Backoff(attempts) \in Nat /\ Ceiling \in Nat
        /\ Backoff(attempts) <= Ceiling /\ Ceiling <= MaxBackoff
        /\ MaxBackoff > 0 => Backoff(attempts) > 0
        /\ Backoff(attempts) = Lesser(Scaled(k), Ceiling)
    BY <1>1, <1>2, <1>5, <2>1, <2>2 DEF Lesser
  <2> QED BY <1>4, <2>3 DEF Scaled
<1>7. CASE ~ (k < MaxExponent)
  <2>1. Lesser(k, MaxExponent) = MaxExponent
    BY <1>7 DEF Lesser
  <2>2. Scaled(MaxExponent) <= Scaled(k)
    BY <1>1, <1>3, <1>7
  <2>3. /\ Backoff(attempts) \in Nat /\ Ceiling \in Nat
        /\ Backoff(attempts) <= Ceiling /\ Ceiling <= MaxBackoff
        /\ MaxBackoff > 0 => Backoff(attempts) > 0
        /\ Backoff(attempts) = Lesser(Scaled(k), Ceiling)
    BY <1>1, <1>2, <1>5, <2>1, <2>2 DEF Lesser
  <2> QED BY <1>4, <2>3 DEF Scaled
<1> QED
  BY <1>6, <1>7

(* A failure counts once and sets the time of the next attempt.            *)
LEMMA RescheduleTimes ==
    ASSUME QInv, now \in Nat, NEW e \in EventIds, Queued(e), Reschedule(e)
    PROVE  \E due \in Int :
               /\ rows' = [rows EXCEPT ![e] = [attempts |-> rows[e].attempts + 1,
                                               dueAt |-> due, trace |-> rows[e].trace]]
               /\ due >= now + Backoff(rows[e].attempts + 1)
               /\ due <= now + Ceiling + JitterSeconds
               /\ MaxBackoff > 0 => due > now
<1> DEFINE delay == Backoff(rows[e].attempts + 1)
<1>1. rows[e].attempts + 1 \in Nat \ {0}
  BY DEF QInv, Shape, Queued, DeliveryType
<1>2. /\ delay \in Nat /\ Ceiling \in Nat
      /\ delay <= Ceiling
      /\ MaxBackoff > 0 => delay > 0
  BY <1>1, BackoffFacts
<1>3. PICK jitter \in 0..JitterSeconds :
          rows' = [rows EXCEPT ![e] = [attempts |-> rows[e].attempts + 1,
                                       dueAt |-> now + delay + jitter,
                                       trace |-> rows[e].trace]]
  BY DEF Reschedule
<1> HIDE DEF delay
<1>4. JitterSeconds \in Nat
  BY QueueAssumption
<1>5. /\ now + delay + jitter \in Int
      /\ now + delay + jitter >= now + delay
      /\ now + delay + jitter <= now + Ceiling + JitterSeconds
      /\ MaxBackoff > 0 => now + delay + jitter > now
  BY <1>2, <1>3, <1>4
<1> QED
  BY <1>3, <1>5 DEF delay

(* Rescheduling changes the times of one row.                              *)
LEMMA RescheduleFacts ==
    ASSUME QInv, now \in Nat, NEW e \in EventIds, Queued(e), Reschedule(e)
    PROVE  /\ rows' \in [EventIds -> DeliveryType \cup {NoDelivery}]
           /\ \A f \in EventIds : Queued(f)' <=> Queued(f)
           /\ \A f \in EventIds : Queued(f) => rows'[f].trace = rows[f].trace
           /\ UNCHANGED <<queuedAt, answered>>
<1>1. PICK due \in Int :
          rows' = [rows EXCEPT ![e] = [attempts |-> rows[e].attempts + 1, dueAt |-> due,
                                       trace |-> rows[e].trace]]
  BY RescheduleTimes
<1>2. rows[e] \in DeliveryType
  BY DEF QInv, Shape, Queued
<1>3. [attempts |-> rows[e].attempts + 1, dueAt |-> due, trace |-> rows[e].trace] \in DeliveryType
  BY <1>2 DEF DeliveryType
<1> QED
  BY <1>1, <1>2, <1>3, QueueAssumption DEF QInv, Shape, Queued, Reschedule

(* What a call's step does to the caller's call, and to no other.          *)
LEMMA CallSteps ==
    ASSUME BreakerTypeOK, NEW p \in Callers
    PROVE  /\ Begin(p) \/ SendAgain(p) =>
                  \A q \in Callers : q # p => call'[q] = call[q]
           /\ Succeeds(p) \/ AttemptFails(p) \/ Breaks(p) =>
                  /\ call'[p].pc # "sent"
                  /\ \A q \in Callers : q # p => call'[q] = call[q]
  BY DEF BreakerTypeOK, CallType, Begin, SendAgain, Succeeds, AttemptFails, Breaks, IdleCall

(* Requests add rows that name their event, and take none away.            *)
LEMMA RequestKeeps ==
    ASSUME QInv, BreakerTypeOK, NEW r \in Requests, RequestStep(r)
    PROVE  QInv'
<1> USE DEF QInv, Shape, Traced, Kept, QueuedIsKept, Queued, InFlight
<1>1. r \in Callers /\ r # Worker /\ Worker \in Callers
  BY QueueAssumption DEF Requests
<1>2. now \in Nat /\ now # Never
  BY BreakerAssumption DEF BreakerTypeOK
<1>3. ASSUME NEW e \in EventIds PROVE
        /\ [attempts |-> 0, dueAt |-> now, trace |-> e] \in DeliveryType
        /\ [attempts |-> 0, dueAt |-> now, trace |-> e] # NoDelivery
  BY <1>2, QueueAssumption DEF DeliveryType
<1>4. ASSUME NEW e \in EventIds, Submit(r, e) PROVE QInv'
  BY <1>1, <1>4, CallSteps DEF Submit, SetContext, Carry, service
<1>5. ASSUME NEW e \in EventIds, SubmitWhileOpen(r, e) PROVE QInv'
  BY <1>1, <1>2, <1>3, <1>5 DEF SubmitWhileOpen, Enqueue, service, breakerVars
<1>6. CASE ReadBalance(r)
  BY <1>1, <1>6, CallSteps DEF ReadBalance, Carry, tables, service
<1>7. CASE RequestSucceeds(r)
  BY <1>1, <1>7, CallSteps DEF RequestSucceeds, Leave, SetContext, tables, service
<1>8. CASE RequestFails(r)
  BY <1>1, <1>2, <1>3, <1>8, CallSteps
  DEF RequestFails, Leave, SetContext, Enqueue, tables, service
<1>9. CASE RequestBreaks(r)
  BY <1>1, <1>9, CallSteps DEF RequestBreaks, Raises, Leave, SetContext, tables, service
<1> QED
  BY <1>4, <1>5, <1>6, <1>7, <1>8, <1>9 DEF RequestStep

(* The worker takes a row away once its event is answered for good.        *)
LEMMA WorkerKeeps ==
    ASSUME QInv, BreakerTypeOK, WorkerStep
    PROVE  QInv'
<1> USE DEF QInv, Shape, Traced, Kept, QueuedIsKept, Queued, InFlight
<1>1. Worker \in Callers /\ NoDelivery \notin DeliveryType
  BY QueueAssumption
<1>2. now \in Nat
  BY DEF BreakerTypeOK
<1>3. CASE Poll \/ Stop \/ BatchDone \/ WaitEnds
  BY <1>3 DEF Poll, Stop, BatchDone, WaitEnds, tables, service, breakerVars
<1>4. CASE Take
  <2> DEFINE e == Head(worker.batch)
  <2>1. e \in EventIds /\ rows[e].trace = e
    BY <1>4 DEF Take
  <2>2. UNCHANGED <<rows, queuedAt, answered>>
    BY <1>4 DEF Take, tables, service
  <2>3. /\ subject' = [subject EXCEPT ![Worker] = e]
        /\ context' = [context EXCEPT ![Worker] = e]
        /\ header' = [header EXCEPT ![Worker] = e]
        /\ Queued(e)
        /\ Begin(Worker)
    BY <1>4, <2>1 DEF Take, SetContext, Carry
  <2> HIDE DEF e
  <2> QED
    BY <1>1, <2>1, <2>2, <2>3, CallSteps
<1>5. CASE TakeWhileOpen
  <2> DEFINE e == Head(worker.batch)
  <2>1. e \in EventIds /\ Queued(e) /\ Reschedule(e)
    BY <1>5 DEF TakeWhileOpen
  <2>2. UNCHANGED <<call, subject, context, header>>
    BY <1>5 DEF TakeWhileOpen, breakerVars
  <2> HIDE DEF e
  <2> QED
    BY <1>1, <1>2, <2>1, <2>2, RescheduleFacts
<1>6. CASE DeliveryFails
  <2>1. AttemptFails(Worker) /\ InFlight(Worker)
    BY <1>6 DEF DeliveryFails, AttemptFails
  <2>2. CASE InFlight(Worker)'
    BY <1>1, <1>6, <2>1, <2>2, CallSteps DEF DeliveryFails, tables, service
  <2>3. CASE ~InFlight(Worker)'
    <3> DEFINE e == subject[Worker]
    <3>1. Leave(Worker) /\ Reschedule(e)
      BY <1>6, <2>3 DEF DeliveryFails
    <3>2. e \in EventIds /\ Queued(e)
      BY <2>1
    <3> HIDE DEF e
    <3>3. /\ rows' \in [EventIds -> DeliveryType \cup {NoDelivery}]
          /\ \A f \in EventIds : Queued(f)' <=> Queued(f)
          /\ \A f \in EventIds : Queued(f) => rows'[f].trace = rows[f].trace
          /\ UNCHANGED <<queuedAt, answered>>
      BY <1>2, <3>1, <3>2, RescheduleFacts
    <3> QED
      BY <1>1, <2>1, <2>3, <3>1, <3>3, CallSteps DEF Leave, SetContext
  <2> QED
    BY <2>2, <2>3
<1>7. CASE DeliverySucceeds
  BY <1>1, <1>7, CallSteps DEF DeliverySucceeds, Succeeds, IdleCall, Leave, SetContext, service,
     BreakerTypeOK
<1>8. CASE BatchBreaks
  BY <1>1, <1>8, CallSteps DEF BatchBreaks, Raises, Leave, SetContext, tables, service
<1> QED
  BY <1>3, <1>4, <1>5, <1>6, <1>7, <1>8 DEF WorkerStep

(* Starts, shutdowns, kills and the clock leave the queue as it is.        *)
LEMMA ProcessKeeps ==
    ASSUME QInv, BreakerTypeOK, ProcessStep \/ TimePasses
    PROVE  QInv'
<1> USE DEF QInv, Shape, Traced, Kept, QueuedIsKept, Queued, InFlight
<1>1. Worker \in Callers
  BY QueueAssumption
<1>2. CASE Startup
  BY <1>1, <1>2 DEF Startup, NewClient, IdleCall, tables, service
<1>3. CASE Shutdown
  BY <1>3 DEF Shutdown, tables, service, breakerVars
<1>4. CASE CancelWorker
  BY <1>1, <1>4, CallSteps
  DEF CancelWorker, Breaks, IdleCall, Leave, SetContext, tables, service, BreakerTypeOK
<1>5. CASE Exit \/ Kill
  BY <1>1, <1>5 DEF Exit, Kill, Down, NewClient, IdleCall, tables, service
<1>6. CASE TimePasses
  BY <1>6 DEF TimePasses, Tick, tables, service
<1> QED
  BY <1>2, <1>3, <1>4, <1>5, <1>6 DEF ProcessStep

(* So every step keeps the queue.                                          *)
LEMMA StepKeeps == QInv /\ BreakerTypeOK /\ [Next]_vars => QInv'
<1> SUFFICES ASSUME QInv, BreakerTypeOK, [Next]_vars PROVE QInv'
  OBVIOUS
<1>1. ASSUME NEW r \in Requests, RequestStep(r) PROVE QInv'
  BY <1>1, RequestKeeps
<1>2. ASSUME NEW p \in Callers, Resend(p) PROVE QInv'
  <2>1. InFlight(p) /\ \A q \in Callers : q # p => call'[q] = call[q]
    BY <1>2, CallSteps DEF Resend, SendAgain, InFlight
  <2>2. /\ header' = [header EXCEPT ![p] = context[p]]
        /\ UNCHANGED <<subject, context, rows, queuedAt, answered>>
    BY <1>2 DEF Resend, Carry, tables, service
  <2>3. InFlight(Worker)' => InFlight(Worker)
    BY <2>1, QueueAssumption DEF InFlight
  <2> QED
    BY <2>1, <2>2, <2>3 DEF QInv, Shape, Traced, Kept, QueuedIsKept, Queued
<1>3. ASSUME NEW p \in Callers, ServiceAnswers(p) PROVE QInv'
  BY <1>3
  DEF QInv, Shape, Traced, Kept, QueuedIsKept, Queued, InFlight, ServiceAnswers, tables,
      breakerVars
<1>4. CASE UNCHANGED vars
  BY <1>4
  DEF QInv, Shape, Traced, Kept, QueuedIsKept, Queued, InFlight, vars, tables, service,
      breakerVars
<1> QED
  BY <1>1, <1>2, <1>3, <1>4, WorkerKeeps, ProcessKeeps DEF Next

(* The queue starts empty.                                                 *)
LEMMA InitKeeps == Init => QInv
  BY QueueAssumption
  DEF Init, BreakerInit, IdleCall, QInv, Shape, Traced, Kept, QueuedIsKept, Queued, InFlight

(* The invariant of the queue holds in every reachable state.              *)
LEMMA QueueInvariance == Spec => []QInv
<1>1. Spec => []BreakerTypeOK
  BY QueueUsesBreaker, BreakerTypeCorrect
<1> QED
  BY <1>1, InitKeeps, StepKeeps, PTL DEF Spec

(* Every accepted event stays queued until it is answered for good.        *)
THEOREM QueueKeeps == Spec => []QueuedIsKept
  BY QueueInvariance, PTL DEF QInv, Kept

(* Attempts carry the trace id of the submission.                          *)
THEOREM QueueTraces == Spec => []TraceFollowsEvent
<1>1. QInv => TraceFollowsEvent
  BY DEF QInv, Shape, Traced, TraceFollowsEvent
<1> QED
  BY <1>1, QueueInvariance, PTL

-----------------------------------------------------------------------------
(* The worker and the turns of the deliveries.                             *)

(* What the worker is going through is due, each delivery once, and its    *)
(* call is about the first of them.                                        *)
WorkerInv ==
    /\ worker \in WorkerType
    /\ worker.pc # "batch" => worker.batch = <<>>
    /\ \A i \in 1..Len(worker.batch) : worker.batch[i] \in Due
    /\ \A i, j \in 1..Len(worker.batch) : worker.batch[i] = worker.batch[j] => i = j
    /\ InFlight(Worker) =>
           worker.pc = "batch" /\ worker.batch # <<>> /\ subject[Worker] = Head(worker.batch)

(* The client has had its answer: the event is with the queue for good.    *)
Settled(e) == e \in known /\ \A r \in Requests : subject[r] # e

(* One request works on an event, and only before it is queued.            *)
SubmittedOnce ==
    /\ passed \in [EventIds -> SUBSET EventIds]
    /\ known \subseteq EventIds
    /\ \A r \in Requests : subject[r] # NoEvent => subject[r] \in known
    /\ \A r, s \in Requests : subject[r] = subject[s] /\ subject[r] # NoEvent => r = s
    /\ \A e \in EventIds : Queued(e) \/ passed[e] # {} => Settled(e)
    /\ \A e \in EventIds : \A f \in passed[e] : Settled(f)

(* A delivery that was passed is before those that passed it: by its time, *)
(* and in any batch they are part of.                                      *)
PassedIsNext ==
    /\ \A e \in EventIds : Queued(e) /\ e \notin Due => passed[e] = {}
    /\ \A e \in Due : \A f \in passed[e] :
           /\ Queued(f) => rows[f].dueAt > rows[e].dueAt
           /\ \A i \in 1..Len(worker.batch) :
                  worker.batch[i] = f => \E j \in 1..(i - 1) : worker.batch[j] = e

TurnInv == QInv /\ WorkerInv /\ SubmittedOnce /\ PassedIsNext

(* A failure counts once and postpones the delivery, from the time it was  *)
(* due, by the delay for its number, and never beyond the longest delay    *)
(* and the jitter; nothing else moves a row of the queue.                  *)
RetrySpacing ==
    [][\A e \in EventIds :
          Queued(e) /\ Queued(e)' /\ rows'[e] # rows[e] =>
              LET attempts == rows[e].attempts + 1 IN
              /\ rows'[e].attempts = attempts
              /\ rows'[e].trace = rows[e].trace
              /\ rows'[e].dueAt >= rows[e].dueAt + Backoff(attempts)
              /\ rows'[e].dueAt <= now + Ceiling + JitterSeconds]_vars

-----------------------------------------------------------------------------
(* The rows of a batch, without its first.                                 *)
LEMMA BatchFacts ==
    ASSUME WorkerInv, worker.batch # <<>>
    PROVE  /\ Len(worker.batch) \in Nat \ {0}
           /\ Head(worker.batch) = worker.batch[1]
           /\ Head(worker.batch) \in Due
           /\ Tail(worker.batch) \in Seq(EventIds)
           /\ Len(Tail(worker.batch)) = Len(worker.batch) - 1
           /\ \A i \in 1..(Len(worker.batch) - 1) : Tail(worker.batch)[i] = worker.batch[i + 1]
<1>1. worker.batch \in Seq(EventIds)
  BY DEF WorkerInv, WorkerType
<1>2. Len(worker.batch) \in Nat \ {0} /\ Head(worker.batch) = worker.batch[1]
  BY <1>1, EmptySeq
<1>3. /\ Tail(worker.batch) \in Seq(EventIds)
      /\ Len(Tail(worker.batch)) = Len(worker.batch) - 1
      /\ \A i \in 1..(Len(worker.batch) - 1) : Tail(worker.batch)[i] = worker.batch[i + 1]
  BY <1>1, HeadTailProperties
<1>4. worker.batch[1] \in Due
  BY <1>2 DEF WorkerInv
<1> QED
  BY <1>2, <1>3, <1>4

Enqueued(e) == rows' = [rows EXCEPT ![e] = [attempts |-> 0, dueAt |-> now, trace |-> e]]

(* What a request does to the queue: it takes an event nobody knew, queues *)
(* one that nobody knew or its own, or ends.                               *)
LEMMA RequestEffects ==
    ASSUME QInv, BreakerTypeOK, NEW r \in Requests, RequestStep(r)
    PROVE  /\ UNCHANGED <<now, worker, passed, process>>
           /\ call'[Worker] = call[Worker] /\ subject'[Worker] = subject[Worker]
           /\ \/ \E e \in EventIds \ known :
                     /\ known' = known \cup {e}
                     /\ \/ rows' = rows /\ subject' = [subject EXCEPT ![r] = e]
                        \/ Enqueued(e) /\ subject' = subject
              \/ /\ known' = known
                 /\ \/ rows' = rows
                    \/ subject[r] \in EventIds /\ Enqueued(subject[r])
                 /\ \/ rows' = rows /\ subject' = subject
                    \/ subject' = [subject EXCEPT ![r] = NoEvent]
<1> DEFINE Effects ==
        /\ UNCHANGED <<now, worker, passed, process>>
        /\ call'[Worker] = call[Worker] /\ subject'[Worker] = subject[Worker]
        /\ \/ \E e \in EventIds \ known :
                  /\ known' = known \cup {e}
                  /\ \/ rows' = rows /\ subject' = [subject EXCEPT ![r] = e]
                     \/ Enqueued(e) /\ subject' = subject
           \/ /\ known' = known
              /\ \/ rows' = rows
                 \/ subject[r] \in EventIds /\ Enqueued(subject[r])
              /\ \/ rows' = rows /\ subject' = subject
                 \/ subject' = [subject EXCEPT ![r] = NoEvent]
<1>1. r \in Callers /\ r # Worker /\ Worker \in Callers
  BY QueueAssumption DEF Requests
<1>2. subject \in [Callers -> EventIds \cup {NoEvent}] /\ context = subject
  BY DEF QInv, Shape
<1>3. ASSUME NEW e \in EventIds, Submit(r, e) PROVE Effects
  BY <1>1, <1>2, <1>3, CallSteps DEF Submit, Begin, lifecycle, service
<1>4. ASSUME NEW e \in EventIds, SubmitWhileOpen(r, e) PROVE Effects
  BY <1>1, <1>2, <1>4 DEF SubmitWhileOpen, Enqueue, Enqueued, lifecycle, service, breakerVars
<1>5. CASE ReadBalance(r)
  BY <1>1, <1>2, <1>5, CallSteps DEF ReadBalance, Begin, lifecycle, tables, service
<1>6. CASE RequestSucceeds(r)
  BY <1>1, <1>2, <1>6, CallSteps
  DEF RequestSucceeds, Succeeds, Leave, lifecycle, tables, service
<1>7. CASE RequestFails(r)
  BY <1>1, <1>2, <1>7, CallSteps
  DEF RequestFails, AttemptFails, Leave, Enqueue, Enqueued, lifecycle, tables, service
<1>8. CASE RequestBreaks(r)
  BY <1>1, <1>2, <1>8, CallSteps
  DEF RequestBreaks, Raises, Succeeds, AttemptFails, Breaks, Leave, lifecycle, tables, service
<1> HIDE DEF Effects
<1>9. CASE \E e \in EventIds : Submit(r, e) \/ SubmitWhileOpen(r, e)
  BY <1>3, <1>4, <1>9 DEF Effects
<1> QED
  BY <1>5, <1>6, <1>7, <1>8, <1>9 DEF RequestStep, Effects

(* A row of the queue as it is put there: due at once.                     *)
LEMMA EnqueuedFacts ==
    ASSUME QInv, BreakerTypeOK, NEW e \in EventIds, Enqueued(e), now' = now
    PROVE  /\ \A f \in EventIds : f # e => rows'[f] = rows[f]
           /\ Queued(e)' /\ rows'[e].dueAt = now
           /\ Due' = Due \cup {e}
<1>1. now \in Nat
  BY DEF BreakerTypeOK
<1>2. rows'[e] = [attempts |-> 0, dueAt |-> now, trace |-> e]
      /\ \A f \in EventIds : f # e => rows'[f] = rows[f]
  BY DEF Enqueued, QInv, Shape
<1>3. rows'[e] \in DeliveryType /\ rows'[e].dueAt = now
  BY <1>1, <1>2 DEF DeliveryType
<1>4. Queued(e)'
  BY <1>3, QueueAssumption DEF Queued
<1>5. \A f \in EventIds : f \in Due' <=> f \in Due \/ f = e
  BY <1>1, <1>2, <1>3, <1>4 DEF Due, Queued
<1> QED
  BY <1>2, <1>3, <1>4, <1>5 DEF Due

(* A request queues each event once, and then it is settled.               *)
LEMMA RequestSubmits ==
    ASSUME QInv, SubmittedOnce, BreakerTypeOK, NEW r \in Requests, RequestStep(r)
    PROVE  SubmittedOnce'
<1>1. UNCHANGED <<now, passed>>
  BY RequestEffects
<1>2. r \in Callers /\ Requests \subseteq Callers /\ NoEvent \notin EventIds
  BY QueueAssumption DEF Requests
<1>3. subject \in [Callers -> EventIds \cup {NoEvent}]
  BY DEF QInv, Shape
<1>4. ASSUME rows' = rows
      PROVE  \A e \in EventIds : Queued(e)' <=> Queued(e)
  BY <1>4 DEF Queued
<1>5. ASSUME NEW e \in EventIds, Enqueued(e)
      PROVE  \A f \in EventIds : Queued(f)' => Queued(f) \/ f = e
  BY <1>1, <1>5, EnqueuedFacts DEF Queued
<1>6. ASSUME NEW e \in EventIds \ known, known' = known \cup {e}, rows' = rows,
             subject' = [subject EXCEPT ![r] = e]
      PROVE  SubmittedOnce'
  BY <1>1, <1>2, <1>3, <1>4, <1>6 DEF SubmittedOnce, Settled
<1>7. ASSUME NEW e \in EventIds \ known, known' = known \cup {e}, Enqueued(e),
             subject' = subject
      PROVE  SubmittedOnce'
  BY <1>1, <1>2, <1>3, <1>5, <1>7 DEF SubmittedOnce, Settled
<1>8. ASSUME known' = known, rows' = rows, subject' = subject
      PROVE  SubmittedOnce'
  BY <1>1, <1>4, <1>8 DEF SubmittedOnce, Settled
<1>9. ASSUME known' = known, rows' = rows, subject' = [subject EXCEPT ![r] = NoEvent]
      PROVE  SubmittedOnce'
  BY <1>1, <1>2, <1>3, <1>4, <1>9 DEF SubmittedOnce, Settled
<1>10. ASSUME NEW e \in EventIds, e = subject[r], known' = known, Enqueued(e),
              subject' = [subject EXCEPT ![r] = NoEvent]
       PROVE  SubmittedOnce'
  <2>1. Settled(e)'
    BY <1>2, <1>3, <1>10 DEF SubmittedOnce, Settled
  <2>2. \A f \in EventIds : Settled(f) => Settled(f)'
    BY <1>2, <1>3, <1>10 DEF Settled
  <2>3. \A f \in EventIds : Queued(f)' => Queued(f) \/ f = e
    BY <1>5, <1>10
  <2> QED
    BY <1>1, <1>2, <1>3, <1>10, <2>1, <2>2, <2>3 DEF SubmittedOnce
<1> QED
  BY <1>6, <1>7, <1>8, <1>9, <1>10, RequestEffects

(* What leaves the worker alone keeps what it goes through due.            *)
LEMMA WorkerAlone ==
    ASSUME WorkerInv, worker' = worker, Due \subseteq Due',
           InFlight(Worker)' => InFlight(Worker) /\ subject'[Worker] = subject[Worker]
    PROVE  WorkerInv'
  BY DEF WorkerInv

(* Requests leave the worker alone, and passed deliveries their turn.      *)
LEMMA RequestTurns ==
    ASSUME QInv, WorkerInv, SubmittedOnce, BreakerTypeOK, NEW r \in Requests, RequestStep(r)
    PROVE  WorkerInv' /\ (PassedIsNext => PassedIsNext')
<1>1. /\ UNCHANGED <<now, worker, passed>>
      /\ InFlight(Worker)' => InFlight(Worker) /\ subject'[Worker] = subject[Worker]
  BY RequestEffects DEF InFlight
<1>2. CASE rows' = rows
  <2>1. Due' = Due /\ \A e : Queued(e)' <=> Queued(e)
    BY <1>1, <1>2 DEF Due, Queued
  <2>2. WorkerInv'
    BY <1>1, <2>1, WorkerAlone
  <2>3. PassedIsNext => PassedIsNext'
    BY <1>1, <1>2, <2>1 DEF PassedIsNext
  <2> QED
    BY <2>2, <2>3
<1>3. ASSUME NEW e \in EventIds, Enqueued(e), ~Settled(e)
      PROVE  WorkerInv' /\ (PassedIsNext => PassedIsNext')
  <2>1. /\ \A f \in EventIds : f # e => rows'[f] = rows[f]
        /\ Due' = Due \cup {e}
    BY <1>1, <1>3, EnqueuedFacts
  <2>2. passed'[e] = {} /\ \A f \in EventIds : e \notin passed[f]
    BY <1>1, <1>3 DEF SubmittedOnce
  <2>3. \A f \in EventIds : f # e => (Queued(f)' <=> Queued(f))
    BY <2>1 DEF Queued
  <2>4. WorkerInv'
    BY <1>1, <2>1, WorkerAlone
  <2>5. \A f \in Due : f \in EventIds
    BY DEF Due
  <2>6. passed \in [EventIds -> SUBSET EventIds]
    BY DEF SubmittedOnce
  <2>7. PassedIsNext => PassedIsNext'
    BY <1>1, <2>1, <2>2, <2>3, <2>5, <2>6 DEF PassedIsNext
  <2> QED
    BY <2>4, <2>7
<1>4. CASE rows' # rows
  <2>1. PICK e \in EventIds : Enqueued(e) /\ (e \notin known \/ e = subject[r])
    BY <1>4, RequestEffects
  <2>2. ~Settled(e)
    BY <2>1 DEF Settled
  <2> QED
    BY <1>3, <2>1, <2>2
<1> QED
  BY <1>2, <1>4

-----------------------------------------------------------------------------
(* The worker is through with the first of its batch, whose row is the     *)
(* only one that changes.                                                  *)
LEMMA BatchGoesOn ==
    ASSUME WorkerInv, worker.batch # <<>>, NextOfBatch, ~InFlight(Worker)', now' = now,
           \A f \in EventIds : f # Head(worker.batch) => rows'[f] = rows[f]
    PROVE  WorkerInv'
<1> DEFINE batch == worker.batch
<1> DEFINE rest == Tail(worker.batch)
<1>1. /\ Len(batch) \in Nat \ {0}
      /\ Head(batch) = batch[1]
      /\ rest \in Seq(EventIds)
      /\ Len(rest) = Len(batch) - 1
      /\ \A i \in 1..(Len(batch) - 1) : rest[i] = batch[i + 1]
  BY BatchFacts
<1>2. worker' = [pc |-> "batch", batch |-> rest, wakeAt |-> 0]
  BY DEF NextOfBatch, WorkerAt
<1> HIDE DEF rest
<1>3. worker' \in WorkerType /\ worker'.pc = "batch" /\ worker'.batch = rest
  BY <1>1, <1>2 DEF WorkerType
<1>4. /\ \A i \in 1..Len(batch) : batch[i] \in Due
      /\ \A i, j \in 1..Len(batch) : batch[i] = batch[j] => i = j
  BY DEF WorkerInv
<1> HIDE DEF batch
<1>5. \A i \in 1..Len(rest) : rest[i] \in Due'
  <2> SUFFICES ASSUME NEW i \in 1..Len(rest) PROVE rest[i] \in Due'
    OBVIOUS
  <2>1. rest[i] = batch[i + 1] /\ i + 1 \in 1..Len(batch) /\ 1 \in 1..Len(batch) /\ i + 1 # 1
    BY <1>1
  <2>2. rest[i] \in Due /\ rest[i] # Head(batch)
    BY <1>1, <1>4, <2>1
  <2> QED BY <2>2 DEF Due, Queued, batch
<1>6. \A i, j \in 1..Len(rest) : rest[i] = rest[j] => i = j
  <2> SUFFICES ASSUME NEW i \in 1..Len(rest), NEW j \in 1..Len(rest), rest[i] = rest[j]
               PROVE  i = j
    OBVIOUS
  <2>1. /\ rest[i] = batch[i + 1] /\ i + 1 \in 1..Len(batch)
        /\ rest[j] = batch[j + 1] /\ j + 1 \in 1..Len(batch)
    BY <1>1
  <2>2. i + 1 = j + 1
    BY <1>4, <2>1
  <2> QED BY <2>2
<1> QED
  BY <1>3, <1>5, <1>6 DEF WorkerInv

(* Those it left behind are still before the ones that passed them.        *)
LEMMA RestInTurn ==
    ASSUME WorkerInv, worker.batch # <<>>, NEW e, e # Head(worker.batch), NEW f,
           \A i \in 1..Len(worker.batch) :
               worker.batch[i] = f => \E j \in 1..(i - 1) : worker.batch[j] = e
    PROVE  \A i \in 1..Len(Tail(worker.batch)) :
               Tail(worker.batch)[i] = f => \E j \in 1..(i - 1) : Tail(worker.batch)[j] = e
<1> DEFINE batch == worker.batch
<1> DEFINE rest == Tail(worker.batch)
<1>1. /\ Len(batch) \in Nat \ {0}
      /\ Head(batch) = batch[1]
      /\ Len(rest) = Len(batch) - 1
      /\ \A i \in 1..(Len(batch) - 1) : rest[i] = batch[i + 1]
  BY BatchFacts
<1> HIDE DEF rest, batch
<1> SUFFICES ASSUME NEW i \in 1..Len(rest), rest[i] = f
             PROVE  \E j \in 1..(i - 1) : rest[j] = e
  BY DEF rest
<1>2. i + 1 \in 1..Len(batch) /\ batch[i + 1] = f
  BY <1>1
<1>3. PICK j \in 1..((i + 1) - 1) : batch[j] = e
  BY <1>2 DEF batch
<1>4. j # 1
  BY <1>1, <1>3 DEF batch
<1>5. j - 1 \in 1..(i - 1) /\ j - 1 \in 1..(Len(batch) - 1) /\ (j - 1) + 1 = j
  BY <1>1, <1>3, <1>4
<1>6. rest[j - 1] = e
  BY <1>1, <1>3, <1>5
<1> QED
  BY <1>5, <1>6

(* The first of the batch is not among the rest.                           *)
LEMMA HeadIsPast ==
    ASSUME WorkerInv, worker.batch # <<>>
    PROVE  \A i \in 1..Len(Tail(worker.batch)) : Tail(worker.batch)[i] # Head(worker.batch)
<1> SUFFICES ASSUME NEW i \in 1..Len(Tail(worker.batch))
             PROVE  Tail(worker.batch)[i] # Head(worker.batch)
  OBVIOUS
<1>1. /\ Len(worker.batch) \in Nat \ {0}
      /\ Head(worker.batch) = worker.batch[1]
      /\ Len(Tail(worker.batch)) = Len(worker.batch) - 1
      /\ \A k \in 1..(Len(worker.batch) - 1) : Tail(worker.batch)[k] = worker.batch[k + 1]
  BY BatchFacts
<1>2. /\ Tail(worker.batch)[i] = worker.batch[i + 1]
      /\ i + 1 \in 1..Len(worker.batch) /\ 1 \in 1..Len(worker.batch) /\ i + 1 # 1
  BY <1>1
<1> QED
  BY <1>1, <1>2 DEF WorkerInv

(* A failed delivery goes behind all that were due with it.                *)
LEMMA FailureTurns ==
    ASSUME QInv, WorkerInv, SubmittedOnce, BreakerTypeOK, worker.batch # <<>>,
           NEW e, e = Head(worker.batch), Reschedule(e), ~InFlight(Worker)',
           now' = now, \A r \in Requests : subject'[r] = subject[r]
    PROVE  /\ WorkerInv'
           /\ SubmittedOnce'
           /\ MaxBackoff > 0 /\ PassedIsNext => PassedIsNext'
<1>1. e \in EventIds /\ e \in Due /\ Queued(e) /\ now \in Nat
  BY BatchFacts DEF Due, BreakerTypeOK
<1>2. PICK due \in Int :
          /\ rows' = [rows EXCEPT ![e] = [attempts |-> rows[e].attempts + 1,
                                          dueAt |-> due, trace |-> rows[e].trace]]
          /\ MaxBackoff > 0 => due > now
  BY <1>1, RescheduleTimes
<1>3. /\ \A f \in EventIds : f # e => rows'[f] = rows[f]
      /\ rows'[e].dueAt = due
  BY <1>1, <1>2 DEF QInv, Shape
<1>4. \A f \in EventIds : Queued(f)' <=> Queued(f)
  BY <1>1, RescheduleFacts
<1>5. /\ passed' = [f \in EventIds |->
                       IF f = e THEN {} ELSE IF f \in Due THEN passed[f] \cup {e}
                       ELSE passed[f]]
      /\ known' = known
      /\ NextOfBatch
  BY DEF Reschedule
<1>6. WorkerInv'
  BY <1>3, <1>5, BatchGoesOn
<1>7. SubmittedOnce'
  <2>1. \A f \in EventIds : Settled(f)' <=> Settled(f)
    BY <1>5 DEF Settled
  <2>2. Settled(e) /\ passed' \in [EventIds -> SUBSET EventIds]
    BY <1>1, <1>5 DEF SubmittedOnce
  <2>3. \A f \in EventIds :
            /\ passed'[f] # {} => Settled(f)
            /\ \A g \in passed'[f] : g \in EventIds /\ Settled(g)
    <3>1. \A f \in EventIds : f \in Due => Settled(f)
      BY DEF Due, SubmittedOnce
    <3> QED
      BY <1>1, <1>5, <2>2, <3>1 DEF SubmittedOnce
  <2> QED
    BY <1>4, <1>5, <2>1, <2>2, <2>3 DEF SubmittedOnce
<1>8. ASSUME MaxBackoff > 0, PassedIsNext
      PROVE  PassedIsNext'
  <2>1. \A f \in EventIds : f # e => (f \in Due' <=> f \in Due)
    BY <1>3, <1>4 DEF Due, Queued
  <2>2. e \notin Due'
    BY <1>1, <1>2, <1>3, <1>8 DEF Due
  <2>3. worker'.batch = Tail(worker.batch)
    BY <1>5 DEF NextOfBatch, WorkerAt
  <2>4. ASSUME NEW f \in EventIds, Queued(f)', f \notin Due'
        PROVE  passed'[f] = {}
    BY <1>4, <1>5, <1>8, <2>1, <2>4 DEF PassedIsNext
  <2>5. ASSUME NEW f \in Due', NEW g \in passed'[f]
        PROVE  /\ Queued(g)' => rows'[g].dueAt > rows'[f].dueAt
               /\ \A i \in 1..Len(worker'.batch) :
                      worker'.batch[i] = g => \E j \in 1..(i - 1) : worker'.batch[j] = f
    <3>1. f \in EventIds /\ f # e /\ f \in Due
      BY <2>1, <2>2, <2>5 DEF Due
    <3>2. rows'[f] = rows[f] /\ rows[f].dueAt \in Int /\ rows[f].dueAt <= now
      BY <1>3, <3>1 DEF Due, Queued, QInv, Shape, DeliveryType
    <3>3. CASE g = e
      <4>1. rows'[g].dueAt > rows'[f].dueAt
        BY <1>1, <1>2, <1>3, <1>8, <3>2, <3>3
      <4> QED BY <2>3, <3>3, <4>1, HeadIsPast
    <3>4. CASE g # e
      <4>1. g \in passed[f] /\ g \in EventIds
        BY <1>5, <3>1, <3>4, <2>5 DEF SubmittedOnce
      <4>2. Queued(g)' => rows'[g].dueAt > rows'[f].dueAt
        BY <1>3, <1>4, <1>8, <3>1, <3>2, <3>4, <4>1 DEF PassedIsNext
      <4>3. \A i \in 1..Len(worker.batch) :
                worker.batch[i] = g => \E j \in 1..(i - 1) : worker.batch[j] = f
        BY <1>8, <3>1, <4>1 DEF PassedIsNext
      <4>4. \A i \in 1..Len(Tail(worker.batch)) :
                Tail(worker.batch)[i] = g =>
                    \E j \in 1..(i - 1) : Tail(worker.batch)[j] = f
        BY <3>1, <4>3, RestInTurn
      <4> QED BY <2>3, <4>2, <4>4
    <3> QED BY <3>3, <3>4
  <2> QED
    BY <2>4, <2>5 DEF PassedIsNext
<1> QED
  BY <1>6, <1>7, <1>8

(* A delivered event leaves the queue, and the others in their order.      *)
LEMMA SuccessTurns ==
    ASSUME QInv, WorkerInv, SubmittedOnce, BreakerTypeOK, worker.batch # <<>>,
           NEW e, e = Head(worker.batch), rows' = [rows EXCEPT ![e] = NoDelivery],
           NextOfBatch, ~InFlight(Worker)', UNCHANGED <<now, known, passed>>,
           \A r \in Requests : subject'[r] = subject[r]
    PROVE  /\ WorkerInv'
           /\ SubmittedOnce'
           /\ PassedIsNext => PassedIsNext'
<1>1. e \in EventIds
  BY BatchFacts DEF Due
<1>2. /\ \A f \in EventIds : f # e => rows'[f] = rows[f]
      /\ rows'[e] = NoDelivery
  BY <1>1 DEF QInv, Shape
<1>3. \A f \in EventIds : Queued(f)' <=> Queued(f) /\ f # e
  BY <1>2 DEF Queued
<1>4. \A f \in EventIds : f \in Due' <=> f \in Due /\ f # e
  BY <1>2, <1>3 DEF Due
<1>5. WorkerInv'
  BY <1>2, BatchGoesOn
<1>6. SubmittedOnce'
  <2>1. \A f \in EventIds : Settled(f)' <=> Settled(f)
    BY DEF Settled
  <2> QED BY <1>3, <2>1 DEF SubmittedOnce
<1>7. ASSUME PassedIsNext
      PROVE  PassedIsNext'
  <2>1. worker'.batch = Tail(worker.batch)
    BY DEF NextOfBatch, WorkerAt
  <2>2. ASSUME NEW f \in EventIds, Queued(f)', f \notin Due'
        PROVE  passed'[f] = {}
    BY <1>3, <1>4, <1>7, <2>2 DEF PassedIsNext
  <2>3. ASSUME NEW f \in Due', NEW g \in passed'[f]
        PROVE  /\ Queued(g)' => rows'[g].dueAt > rows'[f].dueAt
               /\ \A i \in 1..Len(worker'.batch) :
                      worker'.batch[i] = g => \E j \in 1..(i - 1) : worker'.batch[j] = f
    <3>1. f \in EventIds /\ f # e /\ f \in Due /\ g \in passed[f]
      BY <1>4, <2>3 DEF Due
    <3>2. g \in EventIds
      BY <3>1 DEF SubmittedOnce
    <3>3. Queued(g)' => rows'[g].dueAt > rows'[f].dueAt
      BY <1>2, <1>3, <1>7, <3>1, <3>2 DEF PassedIsNext
    <3>4. \A i \in 1..Len(worker.batch) :
              worker.batch[i] = g => \E j \in 1..(i - 1) : worker.batch[j] = f
      BY <1>7, <3>1 DEF PassedIsNext
    <3>5. \A i \in 1..Len(Tail(worker.batch)) :
              Tail(worker.batch)[i] = g =>
                  \E j \in 1..(i - 1) : Tail(worker.batch)[j] = f
      BY <3>1, <3>4, RestInTurn
    <3> QED BY <2>1, <3>3, <3>5
  <2> QED
    BY <2>2, <2>3 DEF PassedIsNext
<1> QED
  BY <1>5, <1>6, <1>7

(* A batch is a stretch of the order, so whoever was passed comes before   *)
(* those that passed it.                                                   *)
LEMMA PollTurns ==
    ASSUME QInv, WorkerInv, SubmittedOnce, Poll
    PROVE  WorkerInv' /\ SubmittedOnce' /\ (PassedIsNext => PassedIsNext')
<1>1. UNCHANGED <<now, call, subject, rows, known, passed>>
  BY DEF Poll, breakerVars, tables, service
<1>0. PICK n \in 0..BatchSize : \E batch \in [1..n -> Due] :
          batch \in DueBatches /\ worker' = WorkerAt("batch", batch, 0)
  BY DEF Poll, DueBatches
<1>2. PICK batch \in [1..n -> Due] :
          /\ worker' = WorkerAt("batch", batch, 0)
          /\ \A i, j \in DOMAIN batch : i < j => Before(batch[i], batch[j])
          /\ \A e \in Due \ Range(batch) : \A i \in DOMAIN batch : Before(batch[i], e)
  BY <1>0 DEF DueBatches
<1>3. Due \subseteq EventIds /\ EventIds \subseteq Nat /\ BatchSize \in Nat
  BY QueueAssumption DEF Due
<1>4. /\ n \in Nat
      /\ batch \in Seq(EventIds)
      /\ Len(batch) = n
      /\ DOMAIN batch = 1..n
      /\ \A i \in 1..n : batch[i] \in Due
  <2>1. n \in Nat /\ DOMAIN batch = 1..n /\ \A i \in 1..n : batch[i] \in Due
    BY <1>2, <1>3
  <2>2. batch \in [1..n -> EventIds]
    BY <1>2, <1>3
  <2>3. batch \in Seq(EventIds)
    <3>1. Seq(EventIds) = UNION {[1..m -> EventIds] : m \in Nat}
      BY SeqDef
    <3>2. batch \in UNION {[1..m -> EventIds] : m \in Nat}
      BY <2>1, <2>2
    <3> QED BY <3>1, <3>2, Zenon
  <2>4. Len(batch) \in Nat /\ DOMAIN batch = 1..Len(batch)
    BY <2>3, LenProperties
  <2>5. Len(batch) = n
    <3>1. ASSUME NEW m \in Nat, 1..m = 1..n PROVE m = n
      BY <2>1, <3>1
    <3> QED BY <2>1, <2>4, <3>1, Zenon
  <2> QED BY <2>1, <2>3, <2>5
<1>5. \A e, f \in Due : Before(e, f) => e # f /\ ~Before(f, e) /\ rows[e].dueAt <= rows[f].dueAt
  <2>1. \A e \in Due : rows[e].dueAt \in Int /\ e \in Nat
    BY <1>3 DEF Due, Queued, QInv, Shape, DeliveryType
  <2> QED BY <2>1 DEF Before
<1>6. worker'.pc = "batch" /\ worker'.batch = batch /\ worker' \in WorkerType
  <2>1. worker' = [pc |-> "batch", batch |-> batch, wakeAt |-> 0]
    BY <1>2 DEF WorkerAt
  <2> QED BY <1>4, <2>1, Zenon DEF WorkerType
<1>7. Due' = Due /\ \A e : Queued(e)' <=> Queued(e)
  BY <1>1 DEF Due, Queued
<1>8. ~InFlight(Worker)'
  BY <1>1 DEF Poll, WorkerInv, InFlight
<1>9. \A i, j \in 1..n : batch[i] = batch[j] => i = j
  <2> SUFFICES ASSUME NEW i \in 1..n, NEW j \in 1..n, batch[i] = batch[j], i < j
               PROVE  FALSE
    BY <1>4
  <2> QED BY <1>2, <1>4, <1>5
<1>10. WorkerInv'
  BY <1>4, <1>6, <1>7, <1>8, <1>9 DEF WorkerInv
<1>11. SubmittedOnce'
  BY <1>1, <1>7 DEF SubmittedOnce, Settled
<1>12. ASSUME PassedIsNext
       PROVE  PassedIsNext'
  <2>1. ASSUME NEW e \in Due, NEW f \in passed[e], NEW i \in 1..n, batch[i] = f
        PROVE  \E j \in 1..(i - 1) : batch[j] = e
    <3>1. f \in Due /\ rows[f].dueAt > rows[e].dueAt
      BY <1>4, <1>12, <2>1 DEF PassedIsNext, Due
    <3>2. rows[e].dueAt \in Int /\ rows[f].dueAt \in Int
      BY <3>1 DEF Due, Queued, QInv, Shape, DeliveryType
    <3>3. ~Before(f, e) /\ f # e
      BY <3>1, <3>2 DEF Before
    <3>4. PICK j \in 1..n : batch[j] = e
      <4>1. e \in Range(batch)
        BY <1>2, <1>4, <2>1, <3>3
      <4> QED BY <1>4, <4>1 DEF Range
    <3>5. ~(i < j) /\ i # j
      BY <1>2, <1>4, <2>1, <3>3, <3>4
    <3> QED BY <1>4, <3>4, <3>5
  <2> QED
    BY <1>1, <1>4, <1>6, <1>7, <1>12, <2>1 DEF PassedIsNext
<1> QED
  BY <1>10, <1>11, <1>12

(* What a step must keep; a passed delivery keeps its turn if a failure    *)
(* always postpones the delivery.                                          *)
TurnsKept ==
    /\ WorkerInv' /\ SubmittedOnce'
    /\ MaxBackoff > 0 /\ PassedIsNext => PassedIsNext'

(* A step that leaves the queue as it is may end calls and drop the batch. *)
LEMMA QuietTurns ==
    ASSUME WorkerInv, SubmittedOnce, UNCHANGED <<now, rows, known, passed>>,
           \A r \in Requests : subject'[r] \in {subject[r], NoEvent},
           worker' \in WorkerType, worker'.pc # "batch" => worker'.batch = <<>>,
           worker'.batch \in {worker.batch, <<>>},
           InFlight(Worker)' =>
               /\ worker'.pc = "batch" /\ worker'.batch # <<>>
               /\ subject'[Worker] = Head(worker'.batch)
    PROVE  TurnsKept
<1>1. Due' = Due /\ \A e : Queued(e)' <=> Queued(e)
  BY DEF Due, Queued
<1>2. NoEvent \notin EventIds
  BY QueueAssumption
<1>3. \A i : i \notin 1..Len(<<>>)
  OBVIOUS
<1>4. WorkerInv'
  BY <1>1, <1>3 DEF WorkerInv
<1>5. \A e \in EventIds : Settled(e) => Settled(e)'
  BY <1>2 DEF Settled
<1>6. SubmittedOnce'
  BY <1>1, <1>2, <1>5 DEF SubmittedOnce
<1>7. PassedIsNext => PassedIsNext'
  <2>1. CASE worker'.batch = worker.batch
    BY <1>1, <2>1 DEF PassedIsNext
  <2>2. CASE worker'.batch = <<>>
    BY <1>1, <1>3, <2>2 DEF PassedIsNext
  <2> QED BY <2>1, <2>2
<1> QED
  BY <1>4, <1>6, <1>7 DEF TurnsKept

(* The worker's own steps.                                                 *)
LEMMA WorkerTurns ==
    ASSUME QInv, WorkerInv, SubmittedOnce, BreakerTypeOK, WorkerStep
    PROVE  TurnsKept
<1>1. Worker \in Callers /\ Requests = Callers \ {Worker} /\ PollSeconds \in Nat
  BY QueueAssumption DEF Requests
<1>2. now \in Nat /\ subject \in [Callers -> EventIds \cup {NoEvent}]
  BY DEF BreakerTypeOK, QInv, Shape
<1>3. <<>> \in Seq(EventIds)
  OBVIOUS
<1>4. ASSUME NEW pc \in {"absent", "loop", "wait"}, NEW wakeAt \in Nat,
             worker' = WorkerAt(pc, <<>>, wakeAt)
      PROVE  worker' \in WorkerType /\ worker'.pc # "batch" /\ worker'.batch = <<>>
  BY <1>3, <1>4 DEF WorkerAt, WorkerType
<1>5. CASE Poll
  BY <1>5, PollTurns DEF TurnsKept
<1>6. ASSUME Stop \/ BatchDone \/ WaitEnds PROVE TurnsKept
  <2>1. UNCHANGED <<now, call, subject, rows, known, passed>> /\ ~InFlight(Worker)
    BY <1>6 DEF Stop, BatchDone, WaitEnds, breakerVars, tables, service, WorkerInv
  <2>2. \E pc \in {"absent", "loop", "wait"}, wakeAt \in Nat : worker' = WorkerAt(pc, <<>>, wakeAt)
    <3>1. CASE Stop
      BY <3>1 DEF Stop, NoWorker
    <3>2. CASE BatchDone
      BY <1>1, <1>2, <3>2 DEF BatchDone, AwaitPoll
    <3>3. CASE WaitEnds
      BY <3>3 DEF WaitEnds
    <3> QED BY <1>6, <3>1, <3>2, <3>3
  <2>3. worker' \in WorkerType /\ worker'.pc # "batch" /\ worker'.batch = <<>>
    BY <1>4, <2>2
  <2>4. ~InFlight(Worker)'
    BY <2>1 DEF InFlight
  <2> QED BY <2>1, <2>3, <2>4, QuietTurns
<1>7. CASE Take
  <2>1. /\ worker.pc = "batch" /\ worker.batch # <<>>
        /\ subject' = [subject EXCEPT ![Worker] = Head(worker.batch)]
        /\ UNCHANGED <<now, worker, rows, known, passed>>
    BY <1>7 DEF Take, AtHead, Begin, tables, service
  <2>2. subject'[Worker] = Head(worker.batch) /\ \A r \in Requests : subject'[r] = subject[r]
    BY <1>1, <1>2, <2>1
  <2> QED
    BY <2>1, <2>2, QuietTurns DEF WorkerInv
<1>8. CASE TakeWhileOpen
  <2>1. /\ worker.batch # <<>> /\ Reschedule(Head(worker.batch))
        /\ UNCHANGED <<now, call, subject>> /\ ~InFlight(Worker)
    BY <1>8 DEF TakeWhileOpen, AtHead, breakerVars
  <2>2. ~InFlight(Worker)'
    BY <2>1 DEF InFlight
  <2> QED BY <2>1, <2>2, FailureTurns DEF TurnsKept
<1>9. CASE DeliveryFails
  <2>1. AttemptFails(Worker) /\ InFlight(Worker) /\ now' = now
    BY <1>9 DEF DeliveryFails, AttemptFails, InFlight
  <2>2. worker.pc = "batch" /\ worker.batch # <<>> /\ subject[Worker] = Head(worker.batch)
    BY <2>1 DEF WorkerInv
  <2>3. CASE InFlight(Worker)'
    <3>1. UNCHANGED <<worker, subject, rows, known, passed>>
      BY <1>9, <2>3 DEF DeliveryFails, tables, service
    <3> QED
      BY <2>1, <2>2, <3>1, QuietTurns DEF WorkerInv
  <2>4. CASE ~InFlight(Worker)'
    <3>1. Leave(Worker) /\ Reschedule(Head(worker.batch))
      BY <1>9, <2>2, <2>4 DEF DeliveryFails
    <3>2. \A r \in Requests : subject'[r] = subject[r]
      BY <1>1, <1>2, <3>1 DEF Leave
    <3> QED BY <2>1, <2>2, <2>4, <3>1, <3>2, FailureTurns DEF TurnsKept
  <2> QED BY <2>3, <2>4
<1>10. CASE DeliverySucceeds
  <2>1. /\ Succeeds(Worker) /\ Leave(Worker) /\ NextOfBatch
        /\ rows' = [rows EXCEPT ![subject[Worker]] = NoDelivery]
        /\ UNCHANGED <<now, known, passed>>
    BY <1>10 DEF DeliverySucceeds, Succeeds, service
  <2>2. InFlight(Worker) /\ ~InFlight(Worker)'
    BY <1>1, <2>1 DEF Succeeds, InFlight, IdleCall, BreakerTypeOK
  <2>3. worker.batch # <<>> /\ subject[Worker] = Head(worker.batch)
    BY <2>2 DEF WorkerInv
  <2>4. \A r \in Requests : subject'[r] = subject[r]
    BY <1>1, <1>2, <2>1 DEF Leave
  <2> QED BY <2>1, <2>2, <2>3, <2>4, SuccessTurns DEF TurnsKept
<1>11. CASE BatchBreaks
  <2>1. /\ Leave(Worker) /\ UNCHANGED <<now, rows, known, passed>>
        /\ ~InFlight(Worker)' /\ worker' = WorkerAt("wait", <<>>, now + PollSeconds)
    BY <1>11
    DEF BatchBreaks, Raises, Breaks, Succeeds, AttemptFails, AwaitPoll, tables, service
  <2>2. worker' \in WorkerType /\ worker'.pc # "batch" /\ worker'.batch = <<>>
    BY <1>1, <1>2, <1>4, <2>1
  <2>3. \A r \in Requests : subject'[r] = subject[r]
    BY <1>1, <1>2, <2>1 DEF Leave
  <2> QED BY <2>1, <2>2, <2>3, QuietTurns
<1> QED
  BY <1>5, <1>6, <1>7, <1>8, <1>9, <1>10, <1>11 DEF WorkerStep

(* The process: calls and batches end with it, the queue stays.            *)
LEMMA ProcessTurns ==
    ASSUME QInv, WorkerInv, SubmittedOnce, BreakerTypeOK, ProcessStep
    PROVE  TurnsKept
<1>1. Worker \in Callers /\ Requests = Callers \ {Worker}
  BY QueueAssumption DEF Requests
<1>2. subject \in [Callers -> EventIds \cup {NoEvent}] /\ call \in [Callers -> CallType]
  BY DEF BreakerTypeOK, QInv, Shape
<1>3. ASSUME NEW pc \in {"absent", "loop"}, worker' = WorkerAt(pc, <<>>, 0)
      PROVE  worker' \in WorkerType /\ worker'.pc # "batch" /\ worker'.batch = <<>>
  <2>1. <<>> \in Seq(EventIds)
    OBVIOUS
  <2> QED BY <1>3, <2>1 DEF WorkerAt, WorkerType
<1>4. CASE Startup
  <2>1. /\ UNCHANGED <<now, rows, known, passed, subject>>
        /\ worker' = WorkerAt("loop", <<>>, 0) /\ ~InFlight(Worker)'
    BY <1>1, <1>4 DEF Startup, NewClient, InFlight, IdleCall, tables, service
  <2> QED BY <1>3, <2>1, QuietTurns
<1>5. CASE Shutdown
  <2>1. UNCHANGED <<now, call, rows, known, passed, subject, worker>>
    BY <1>5 DEF Shutdown, breakerVars, tables, service
  <2> QED BY <2>1, QuietTurns DEF WorkerInv, InFlight
<1>6. CASE CancelWorker
  <2>1. /\ UNCHANGED <<now, rows, known, passed>> /\ Leave(Worker)
        /\ worker' = WorkerAt("absent", <<>>, 0) /\ ~InFlight(Worker)'
    BY <1>1, <1>2, <1>6
    DEF CancelWorker, Breaks, IdleCall, InFlight, NoWorker, tables, service
  <2>2. \A r \in Requests : subject'[r] = subject[r]
    BY <1>1, <1>2, <2>1 DEF Leave
  <2> QED BY <1>3, <2>1, <2>2, QuietTurns
<1>7. CASE Exit \/ Kill
  <2>1. /\ UNCHANGED <<now, rows, known, passed>>
        /\ subject' = [p \in Callers |-> NoEvent]
        /\ worker' = WorkerAt("absent", <<>>, 0) /\ ~InFlight(Worker)'
    BY <1>1, <1>7
    DEF Exit, Kill, Down, NewClient, IdleCall, InFlight, NoWorker, tables, service
  <2>2. \A r \in Requests : subject'[r] = NoEvent
    BY <1>1, <2>1
  <2> QED BY <1>3, <2>1, <2>2, QuietTurns
<1> QED
  BY <1>4, <1>5, <1>6, <1>7 DEF ProcessStep

(* With time more deliveries become due, behind those that are.            *)
LEMMA TimeTurns ==
    ASSUME QInv, WorkerInv, SubmittedOnce, BreakerTypeOK, TimePasses
    PROVE  TurnsKept
<1>1. /\ UNCHANGED <<call, worker, subject, rows, known, passed>>
      /\ now' = now + 1 /\ now \in Nat
  BY DEF TimePasses, Tick, tables, service, BreakerTypeOK
<1>2. \A e : Queued(e)' <=> Queued(e)
  BY <1>1 DEF Queued
<1>3. Due \subseteq Due'
  BY <1>1, <1>2 DEF Due, Queued, QInv, Shape, DeliveryType
<1>4. WorkerInv'
  BY <1>1, <1>3, WorkerAlone DEF InFlight
<1>5. SubmittedOnce'
  BY <1>1, <1>2 DEF SubmittedOnce, Settled
<1>6. ASSUME PassedIsNext PROVE PassedIsNext'
  <2>1. \A e \in Due' : e \in Due \/ passed[e] = {}
    BY <1>2, <1>6 DEF PassedIsNext, Due
  <2> QED
    BY <1>1, <1>2, <1>3, <1>6, <2>1 DEF PassedIsNext
<1> QED
  BY <1>4, <1>5, <1>6 DEF TurnsKept

(* Whatever happens next.                                                  *)
LEMMA StepTurns ==
    ASSUME QInv, WorkerInv, SubmittedOnce, BreakerTypeOK, [Next]_vars
    PROVE  TurnsKept
<1>1. ASSUME NEW r \in Requests, RequestStep(r) PROVE TurnsKept
  BY <1>1, RequestSubmits, RequestTurns DEF TurnsKept
<1>2. ASSUME NEW p \in Callers, Resend(p) PROVE TurnsKept
  <2>1. UNCHANGED <<now, worker, subject, rows, known, passed>>
    BY <1>2 DEF Resend, SendAgain, tables, service
  <2>2. InFlight(Worker)' => InFlight(Worker)
    BY <1>2, CallSteps, QueueAssumption DEF Resend, SendAgain, InFlight
  <2> QED BY <2>1, <2>2, QuietTurns DEF WorkerInv
<1>3. ASSUME NEW p \in Callers, ServiceAnswers(p) PROVE TurnsKept
  <2>1. UNCHANGED <<now, call, worker, subject, rows, known, passed>>
    BY <1>3 DEF ServiceAnswers, breakerVars, tables
  <2> QED BY <2>1, QuietTurns DEF WorkerInv, InFlight
<1>4. CASE UNCHANGED vars
  <2>1. UNCHANGED <<now, call, worker, subject, rows, known, passed>>
    BY <1>4 DEF vars
  <2> QED BY <2>1, QuietTurns DEF WorkerInv, InFlight
<1> QED
  BY <1>1, <1>2, <1>3, <1>4, WorkerTurns, ProcessTurns, TimeTurns DEF Next

(* At the start there is no worker, no event and no delivery.              *)
LEMMA InitTurns == Init => WorkerInv /\ SubmittedOnce /\ PassedIsNext
<1> SUFFICES ASSUME Init PROVE WorkerInv /\ SubmittedOnce /\ PassedIsNext
  OBVIOUS
<1>1. Worker \in Callers /\ Requests \subseteq Callers
  BY QueueAssumption DEF Requests
<1>2. /\ worker = [pc |-> "absent", batch |-> <<>>, wakeAt |-> 0]
      /\ \A p \in Callers : ~InFlight(p) /\ subject[p] = NoEvent
      /\ \A e \in EventIds : ~Queued(e) /\ passed[e] = {}
      /\ known = {} /\ passed = [e \in EventIds |-> {}]
  BY DEF Init, BreakerInit, IdleCall, InFlight, NoWorker, WorkerAt, Queued
<1>3. <<>> \in Seq(EventIds) /\ \A i : i \notin 1..Len(<<>>)
  OBVIOUS
<1>4. WorkerInv
  BY <1>1, <1>2, <1>3 DEF WorkerInv, WorkerType
<1>5. SubmittedOnce
  BY <1>1, <1>2 DEF SubmittedOnce
<1>6. PassedIsNext
  BY <1>2 DEF PassedIsNext, Due
<1> QED
  BY <1>4, <1>5, <1>6

(* The worker goes through due deliveries, each at most once a batch; one  *)
(* request at most works on an event, and none once it is queued.  Where   *)
(* a failure always postpones, passed deliveries are next.                 *)
THEOREM TurnInvariance ==
    Spec => [](/\ QInv /\ BreakerTypeOK
               /\ WorkerInv /\ SubmittedOnce
               /\ MaxBackoff > 0 => PassedIsNext)
<1> DEFINE Inv == WorkerInv /\ SubmittedOnce /\ (MaxBackoff > 0 => PassedIsNext)
<1>1. Spec => []BreakerTypeOK
  BY QueueUsesBreaker, BreakerTypeCorrect
<1>2. Init => Inv
  BY InitTurns
<1>3. QInv /\ BreakerTypeOK /\ Inv /\ [Next]_vars => Inv'
  <2> SUFFICES ASSUME QInv, BreakerTypeOK, WorkerInv, SubmittedOnce,
                      MaxBackoff > 0 => PassedIsNext, [Next]_vars
               PROVE  WorkerInv' /\ SubmittedOnce' /\ (MaxBackoff > 0 => PassedIsNext')
    OBVIOUS
  <2>1. TurnsKept
    BY StepTurns
  <2> QED BY <2>1 DEF TurnsKept
<1>4. Spec => []Inv
  <2> HIDE DEF Inv
  <2> QED BY <1>1, <1>2, <1>3, QueueInvariance, PTL DEF Spec
<1>5. Inv => WorkerInv /\ SubmittedOnce /\ (MaxBackoff > 0 => PassedIsNext)
  OBVIOUS
<1> HIDE DEF Inv
<1> QED
  BY <1>1, <1>4, <1>5, QueueInvariance, PTL

-----------------------------------------------------------------------------
(* A row of the queue changes only when its delivery, the first of the     *)
(* worker's batch, has failed.                                             *)
LEMMA RowChanges ==
    ASSUME QInv, WorkerInv, SubmittedOnce, BreakerTypeOK, [Next]_vars,
           NEW e \in EventIds, Queued(e), Queued(e)', rows'[e] # rows[e]
    PROVE  /\ Reschedule(e) /\ e \in Due
           /\ worker.batch # <<>> /\ e = Head(worker.batch)
<1> DEFINE Goal == /\ Reschedule(e) /\ e \in Due
                   /\ worker.batch # <<>> /\ e = Head(worker.batch)
<1>1. rows \in [EventIds -> DeliveryType \cup {NoDelivery}]
  BY DEF QInv, Shape
<1>2. rows' # rows
  OBVIOUS
<1>3. ASSUME NEW r \in Requests, RequestStep(r) PROVE FALSE
  <2>1. PICK f \in EventIds : Enqueued(f) /\ (f \notin known \/ f = subject[r])
    BY <1>2, <1>3, RequestEffects
  <2>2. ~Queued(f)
    BY <1>3, <2>1 DEF SubmittedOnce, Settled
  <2>3. e # f
    BY <2>2
  <2> QED BY <1>1, <2>1, <2>3 DEF Enqueued
<1>4. ASSUME NEW p \in Callers, Resend(p) \/ ServiceAnswers(p) PROVE FALSE
  BY <1>2, <1>4 DEF Resend, ServiceAnswers, tables
<1>5. CASE ProcessStep \/ TimePasses \/ UNCHANGED vars
  BY <1>2, <1>5
  DEF ProcessStep, Startup, Shutdown, CancelWorker, Exit, Kill, Down, TimePasses, tables, vars
<1>6. ASSUME NEW f, worker.batch # <<>>, f = Head(worker.batch), Reschedule(f)
      PROVE  Goal
  <2>1. f \in EventIds /\ f \in Due /\ Queued(f) /\ now \in Nat
    BY <1>6, BatchFacts DEF Due, BreakerTypeOK
  <2>2. PICK due \in Int :
            rows' = [rows EXCEPT ![f] = [attempts |-> rows[f].attempts + 1,
                                         dueAt |-> due, trace |-> rows[f].trace]]
    BY <1>6, <2>1, RescheduleTimes
  <2>3. e = f
    BY <1>1, <2>2
  <2> QED BY <1>6, <2>1, <2>3
<1>7. CASE WorkerStep
  <2>1. CASE TakeWhileOpen
    BY <1>6, <2>1 DEF TakeWhileOpen, AtHead
  <2>2. CASE DeliveryFails
    <3>1. ~InFlight(Worker)'
      BY <1>2, <2>2 DEF DeliveryFails, tables
    <3>2. InFlight(Worker) /\ Reschedule(subject[Worker])
      BY <2>2, <3>1 DEF DeliveryFails, AttemptFails, InFlight
    <3> QED BY <1>6, <3>2 DEF WorkerInv
  <2>3. CASE DeliverySucceeds
    <3>1. rows' = [rows EXCEPT ![subject[Worker]] = NoDelivery]
      BY <2>3 DEF DeliverySucceeds
    <3>2. rows'[e] = NoDelivery
      BY <1>1, <3>1
    <3> QED BY <3>2 DEF Queued
  <2>4. CASE Poll \/ Stop \/ Take \/ BatchBreaks \/ BatchDone \/ WaitEnds
    BY <1>2, <2>4 DEF Poll, Stop, Take, BatchBreaks, BatchDone, WaitEnds, tables
  <2> QED BY <1>7, <2>1, <2>2, <2>3, <2>4 DEF WorkerStep
<1> QED
  BY <1>3, <1>4, <1>5, <1>7 DEF Next

(* Every failure postpones the delivery by the delay for its number, from  *)
(* the time it was due, whatever restarts lie between.                     *)
THEOREM RetriesSpaced == Spec => RetrySpacing
<1> DEFINE Spaced ==
        \A e \in EventIds :
            Queued(e) /\ Queued(e)' /\ rows'[e] # rows[e] =>
                LET attempts == rows[e].attempts + 1 IN
                /\ rows'[e].attempts = attempts
                /\ rows'[e].trace = rows[e].trace
                /\ rows'[e].dueAt >= rows[e].dueAt + Backoff(attempts)
                /\ rows'[e].dueAt <= now + Ceiling + JitterSeconds
<1>1. QInv /\ BreakerTypeOK /\ WorkerInv /\ SubmittedOnce /\ [Next]_vars => [Spaced]_vars
  <2> SUFFICES ASSUME QInv, BreakerTypeOK, WorkerInv, SubmittedOnce, [Next]_vars,
                      NEW e \in EventIds, Queued(e), Queued(e)', rows'[e] # rows[e]
               PROVE  /\ rows'[e].attempts = rows[e].attempts + 1
                      /\ rows'[e].trace = rows[e].trace
                      /\ rows'[e].dueAt >= rows[e].dueAt + Backoff(rows[e].attempts + 1)
                      /\ rows'[e].dueAt <= now + Ceiling + JitterSeconds
    OBVIOUS
  <2>1. Reschedule(e) /\ e \in Due
    BY RowChanges
  <2>2. now \in Nat /\ rows[e] \in DeliveryType
    BY DEF BreakerTypeOK, QInv, Shape, Queued
  <2>3. PICK due \in Int :
            /\ rows' = [rows EXCEPT ![e] = [attempts |-> rows[e].attempts + 1,
                                            dueAt |-> due, trace |-> rows[e].trace]]
            /\ due >= now + Backoff(rows[e].attempts + 1)
            /\ due <= now + Ceiling + JitterSeconds
    BY <2>1, <2>2, RescheduleTimes
  <2>4. rows'[e] = [attempts |-> rows[e].attempts + 1, dueAt |-> due, trace |-> rows[e].trace]
    BY <2>3 DEF QInv, Shape
  <2>5. rows[e].dueAt \in Int /\ rows[e].dueAt <= now /\ rows[e].attempts + 1 \in Nat \ {0}
    BY <2>1, <2>2 DEF Due, DeliveryType
  <2>6. Backoff(rows[e].attempts + 1) \in Nat
    BY <2>5, BackoffFacts
  <2>7. due >= rows[e].dueAt + Backoff(rows[e].attempts + 1)
    BY <2>2, <2>3, <2>5, <2>6
  <2> QED BY <2>3, <2>4, <2>7
<1> HIDE DEF Spaced
<1>2. Spec => [][Spaced]_vars
  BY <1>1, TurnInvariance, PTL DEF Spec
<1> QED
  BY <1>2 DEF RetrySpacing, Spaced

(* While a delivery is due, no other fails twice before it.  A maximum     *)
(* delay of 0 seconds would let a failed delivery stay first in the order. *)
THEOREM TurnsTaken ==
    ASSUME MaxBackoff > 0
    PROVE  Spec => FailuresTakeTurns
<1> DEFINE Turns ==
        \A e, f \in EventIds :
            /\ e # f /\ e \in Due
            /\ Queued(f) /\ Queued(f)' /\ rows'[f].attempts > rows[f].attempts
            => f \notin passed[e]
<1>1. /\ QInv /\ BreakerTypeOK /\ WorkerInv /\ SubmittedOnce
      /\ (MaxBackoff > 0 => PassedIsNext)
      /\ [Next]_vars
      => [Turns]_vars
  <2> SUFFICES ASSUME QInv, BreakerTypeOK, WorkerInv, SubmittedOnce, PassedIsNext, [Next]_vars,
                      NEW e \in EventIds, NEW f \in EventIds, e \in Due,
                      Queued(f), Queued(f)', rows'[f].attempts > rows[f].attempts,
                      f \in passed[e]
               PROVE  FALSE
    OBVIOUS
  <2>1. rows[f].attempts \in Nat
    BY DEF QInv, Shape, Queued, DeliveryType
  <2>2. rows'[f] # rows[f]
    BY <2>1
  <2>3. worker.batch # <<>> /\ f = Head(worker.batch)
    BY <2>2, RowChanges
  <2>4. 1 \in 1..Len(worker.batch) /\ worker.batch[1] = f
    BY <2>3, BatchFacts
  <2>5. \E j \in 1..(1 - 1) : worker.batch[j] = e
    BY <2>4 DEF PassedIsNext
  <2> QED BY <2>5
<1> HIDE DEF Turns
<1>2. Spec => [][Turns]_vars
  BY <1>1, TurnInvariance, PTL DEF Spec
<1> QED
  BY <1>2 DEF FailuresTakeTurns, Turns

-----------------------------------------------------------------------------
(* Only a running process has a worker or tasks at work, and a task has a  *)
(* subject only during its call.                                           *)
ProcessInv ==
    /\ process \in {"down", "up", "stopping"}
    /\ process = "down" => worker.pc = "absent" /\ \A p \in Callers : ~InFlight(p)
    /\ \A p \in Callers : ~InFlight(p) => subject[p] = NoEvent

(* The steps of a task at work.                                            *)
LEMMA TaskInProcess ==
    ASSUME ProcessInv, BreakerTypeOK, NEW p \in Callers, process # "down",
           process' = process, subject \in [Callers -> EventIds \cup {NoEvent}],
           \A q \in Callers : q # p => call'[q] = call[q],
           \/ InFlight(p)' /\ \A q \in Callers : q # p => subject'[q] = subject[q]
           \/ subject' = [subject EXCEPT ![p] = NoEvent]
    PROVE  ProcessInv'
  BY DEF ProcessInv, InFlight

(* Tasks and process keep each other's state.                              *)
LEMMA StepInProcess ==
    ASSUME QInv, WorkerInv, ProcessInv, BreakerTypeOK, [Next]_vars
    PROVE  ProcessInv'
<1>1. Worker \in Callers /\ Requests = Callers \ {Worker}
  BY QueueAssumption DEF Requests
<1>2. subject \in [Callers -> EventIds \cup {NoEvent}] /\ call \in [Callers -> CallType]
  BY DEF BreakerTypeOK, QInv, Shape
<1>3. ASSUME NEW r \in Requests, RequestStep(r) PROVE ProcessInv'
  <2>1. r \in Callers
    BY <1>1
  <2>2. process' = process
    BY <1>3, RequestEffects
  <2>3. ASSUME NEW e \in EventIds, Submit(r, e) PROVE ProcessInv'
    BY <1>2, <2>1, <2>2, <2>3, TaskInProcess, CallSteps DEF Submit, Begin, InFlight
  <2>4. ASSUME NEW e \in EventIds, SubmitWhileOpen(r, e) PROVE ProcessInv'
    BY <2>4 DEF SubmitWhileOpen, breakerVars, lifecycle, ProcessInv, InFlight
  <2>5. CASE ReadBalance(r)
    BY <1>2, <2>1, <2>2, <2>5, TaskInProcess, CallSteps DEF ReadBalance, Begin, InFlight
  <2>6. ASSUME InFlight(r), \A q \in Callers : q # r => call'[q] = call[q],
               \/ InFlight(r)' /\ subject' = subject
               \/ Leave(r)
        PROVE  ProcessInv'
    <3>1. process # "down"
      BY <2>1, <2>6 DEF ProcessInv
    <3> QED BY <1>2, <2>1, <2>2, <2>6, <3>1, TaskInProcess DEF Leave
  <2>7. CASE RequestSucceeds(r)
    BY <2>1, <2>6, <2>7, CallSteps DEF RequestSucceeds, Succeeds, InFlight
  <2>8. CASE RequestFails(r)
    BY <2>1, <2>6, <2>8, CallSteps DEF RequestFails, AttemptFails, InFlight
  <2>9. CASE RequestBreaks(r)
    BY <2>1, <2>6, <2>9, CallSteps
    DEF RequestBreaks, Raises, Succeeds, AttemptFails, Breaks, InFlight
  <2> QED BY <1>3, <2>3, <2>4, <2>5, <2>7, <2>8, <2>9 DEF RequestStep
<1>4. ASSUME NEW p \in Callers, Resend(p) PROVE ProcessInv'
  <2>1. InFlight(p) /\ InFlight(p)'
    BY <1>2, <1>4 DEF Resend, SendAgain, InFlight, CallType
  <2>2. process # "down" /\ UNCHANGED <<process, subject>>
    BY <1>4, <2>1 DEF ProcessInv, Resend, lifecycle
  <2> QED BY <1>2, <1>4, <2>1, <2>2, TaskInProcess, CallSteps DEF Resend
<1>5. ASSUME NEW p \in Callers, ServiceAnswers(p) PROVE ProcessInv'
  BY <1>5 DEF ServiceAnswers, breakerVars, lifecycle, ProcessInv, InFlight
<1>6. CASE Poll \/ Stop \/ TakeWhileOpen \/ BatchDone \/ WaitEnds
  <2>1. UNCHANGED <<process, call, subject>>
    BY <1>6 DEF Poll, Stop, TakeWhileOpen, BatchDone, WaitEnds, breakerVars, lifecycle
  <2>2. worker.pc # "absent"
    BY <1>6 DEF Poll, Stop, TakeWhileOpen, AtHead, BatchDone, WaitEnds
  <2> QED BY <2>1, <2>2 DEF ProcessInv, InFlight
<1>7. CASE Take
  <2>1. process # "down"
    BY <1>7 DEF ProcessInv, Take, AtHead
  <2> QED
    BY <1>1, <1>2, <1>7, <2>1, TaskInProcess, CallSteps DEF Take, Begin, InFlight, lifecycle
<1>8. CASE DeliveryFails \/ DeliverySucceeds \/ BatchBreaks
  <2>1. InFlight(Worker)
    BY <1>8
    DEF DeliveryFails, DeliverySucceeds, BatchBreaks, Raises, AttemptFails, Succeeds, Breaks,
        InFlight
  <2>2. process # "down" /\ process' = process
    BY <1>1, <1>8, <2>1
    DEF ProcessInv, DeliveryFails, DeliverySucceeds, BatchBreaks, lifecycle
  <2>3. \A q \in Callers : q # Worker => call'[q] = call[q]
    BY <1>1, <1>8, CallSteps DEF DeliveryFails, DeliverySucceeds, BatchBreaks, Raises
  <2>4. \/ InFlight(Worker)' /\ subject' = subject
        \/ Leave(Worker)
    BY <1>8 DEF DeliveryFails, DeliverySucceeds, BatchBreaks
  <2> QED BY <1>1, <1>2, <2>2, <2>3, <2>4, TaskInProcess DEF Leave
<1>9. CASE Startup
  BY <1>9 DEF Startup, NewClient, IdleCall, ProcessInv, InFlight
<1>10. CASE Shutdown
  BY <1>10 DEF Shutdown, breakerVars, ProcessInv, InFlight
<1>11. CASE CancelWorker
  BY <1>1, <1>2, <1>11, TaskInProcess, CallSteps DEF CancelWorker, Leave, lifecycle
<1>12. CASE Exit \/ Kill
  BY <1>12
  DEF Exit, Kill, Down, NewClient, IdleCall, NoWorker, WorkerAt, ProcessInv, InFlight
<1>13. CASE TimePasses
  BY <1>13 DEF TimePasses, Tick, lifecycle, ProcessInv, InFlight
<1>14. CASE UNCHANGED vars
  BY <1>14 DEF vars, ProcessInv, InFlight
<1> QED
  BY <1>3, <1>4, <1>5, <1>6, <1>7, <1>8, <1>9, <1>10, <1>11, <1>12, <1>13, <1>14
  DEF Next, WorkerStep, ProcessStep

(* Every variable keeps its shape, and what the process has at work ends   *)
(* with it.                                                                *)
THEOREM QueueTypeCorrect == Spec => []TypeOK
<1>1. Init => ProcessInv
  BY DEF Init, BreakerInit, IdleCall, NoWorker, WorkerAt, ProcessInv, InFlight
<1>2. QInv /\ WorkerInv /\ BreakerTypeOK /\ ProcessInv /\ [Next]_vars => ProcessInv'
  BY StepInProcess
<1>3. Spec => []ProcessInv
  BY <1>1, <1>2, TurnInvariance, PTL DEF Spec
<1>4. QInv /\ WorkerInv /\ BreakerTypeOK /\ ProcessInv => TypeOK
  BY DEF QInv, Shape, WorkerInv, ProcessInv, TypeOK
<1> QED
  BY <1>3, <1>4, TurnInvariance, PTL

-----------------------------------------------------------------------------
(* Where the row of a queued event comes from: it was there, its delivery  *)
(* has just failed, or a request has just queued it.                       *)
RowSources(e) ==
    \/ Queued(e) /\ rows'[e] = rows[e] /\ queuedAt'[e] = queuedAt[e]
    \/ /\ Queued(e) /\ e \in Due /\ queuedAt'[e] = queuedAt[e]
       /\ \E due \in Int :
              /\ rows'[e] = [attempts |-> rows[e].attempts + 1, dueAt |-> due,
                             trace |-> rows[e].trace]
              /\ due >= now + Backoff(rows[e].attempts + 1)
              /\ due <= now + Ceiling + JitterSeconds
    \/ rows'[e] = [attempts |-> 0, dueAt |-> now, trace |-> e] /\ queuedAt'[e] = now

(* A request queues one event at most; no other step does, and none        *)
(* changes the time at which another was queued.                           *)
LEMMA QueueTimes ==
    ASSUME QInv, BreakerTypeOK, WorkerInv, SubmittedOnce, [Next]_vars
    PROVE  /\ now' \in {now, now + 1}
           /\ \/ UNCHANGED queuedAt /\ \A e \in EventIds : Queued(e)' => Queued(e)
              \/ \E e \in EventIds : Enqueue(e, e) /\ ~Queued(e)
<1> DEFINE Goal == /\ now' \in {now, now + 1}
                   /\ \/ UNCHANGED queuedAt /\ \A e \in EventIds : Queued(e)' => Queued(e)
                      \/ \E e \in EventIds : Enqueue(e, e) /\ ~Queued(e)
<1>0. rows' = rows => \A e \in EventIds : Queued(e)' => Queued(e)
  BY DEF Queued
<1>1. ASSUME NEW r \in Requests, RequestStep(r)
      PROVE  Goal
  <2>1. now' = now
    BY <1>1, RequestEffects
  <2>2. subject[r] \in EventIds \cup {NoEvent} /\ context[r] = subject[r]
    BY QueueAssumption DEF QInv, Shape, Requests
  <2>3. \A e \in EventIds : e \notin known \/ e = subject[r] => ~Queued(e)
    BY DEF SubmittedOnce, Settled
  <2>4. ASSUME NEW e \in EventIds, Submit(r, e) \/ SubmitWhileOpen(r, e)
        PROVE  Goal
    BY <1>0, <2>1, <2>3, <2>4 DEF Submit, SubmitWhileOpen
  <2>5. CASE ReadBalance(r) \/ RequestSucceeds(r) \/ RequestBreaks(r)
    BY <1>0, <2>1, <2>5 DEF ReadBalance, RequestSucceeds, RequestBreaks, tables
  <2>6. CASE RequestFails(r)
    BY <1>0, <2>1, <2>2, <2>3, <2>6 DEF RequestFails, tables
  <2> HIDE DEF Goal
  <2> QED BY <1>1, <2>4, <2>5, <2>6 DEF RequestStep
<1>2. ASSUME NEW p \in Callers, Resend(p) \/ ServiceAnswers(p)
      PROVE  Goal
  BY <1>0, <1>2 DEF Resend, SendAgain, ServiceAnswers, tables, breakerVars
<1>3. ASSUME NEW e \in EventIds, Queued(e), Reschedule(e), now' = now
      PROVE  Goal
  BY <1>3, RescheduleFacts DEF BreakerTypeOK
<1>4. CASE WorkerStep
  <2>1. CASE TakeWhileOpen
    BY <1>3, <2>1 DEF TakeWhileOpen, breakerVars, Queued
  <2>2. CASE DeliveryFails
    <3>1. now' = now /\ InFlight(Worker)
      BY <2>2 DEF DeliveryFails, AttemptFails, InFlight
    <3>2. CASE InFlight(Worker)'
      BY <1>0, <2>2, <3>1, <3>2 DEF DeliveryFails, tables
    <3>3. CASE ~InFlight(Worker)'
      <4>1. Queued(subject[Worker]) /\ subject[Worker] \in EventIds
        BY <3>1 DEF QInv, Kept, Queued
      <4> QED BY <1>3, <2>2, <3>1, <3>3, <4>1 DEF DeliveryFails
    <3> QED BY <3>2, <3>3
  <2>3. CASE DeliverySucceeds
    <3>1. now' = now /\ UNCHANGED queuedAt
      BY <2>3 DEF DeliverySucceeds, Succeeds
    <3>2. rows' = [rows EXCEPT ![subject[Worker]] = NoDelivery]
      BY <2>3 DEF DeliverySucceeds
    <3>3. \A e \in EventIds : Queued(e)' => Queued(e)
      BY <3>2 DEF Queued, QInv, Shape
    <3> QED BY <3>1, <3>3
  <2>4. CASE Poll \/ Stop \/ Take \/ BatchBreaks \/ BatchDone \/ WaitEnds
    BY <1>0, <2>4
    DEF Poll, Stop, Take, BatchBreaks, BatchDone, WaitEnds, Raises, Begin, Breaks, Succeeds,
        AttemptFails, tables, breakerVars
  <2> HIDE DEF Goal
  <2> QED BY <1>4, <2>1, <2>2, <2>3, <2>4 DEF WorkerStep
<1>5. CASE ProcessStep \/ TimePasses \/ UNCHANGED vars
  BY <1>0, <1>5
  DEF ProcessStep, Startup, Shutdown, CancelWorker, Exit, Kill, Down, NewClient, TimePasses,
      Tick, Breaks, tables, vars, breakerVars
<1> QED
  BY <1>1, <1>2, <1>4, <1>5 DEF Next

(* So a queued event has one of the three sources.                         *)
LEMMA QueuedFrom ==
    ASSUME QInv, BreakerTypeOK, WorkerInv, SubmittedOnce, [Next]_vars,
           NEW e \in EventIds, Queued(e)'
    PROVE  RowSources(e)
<1>1. /\ rows \in [EventIds -> DeliveryType \cup {NoDelivery}]
      /\ queuedAt \in [EventIds -> Nat \cup {Never}]
  BY DEF QInv, Shape
<1>2. CASE rows'[e] = rows[e]
  <2>1. Queued(e)
    BY <1>2 DEF Queued
  <2>2. queuedAt'[e] = queuedAt[e]
    BY <1>1, <2>1, QueueTimes DEF Enqueue
  <2> QED BY <1>2, <2>1, <2>2 DEF RowSources
<1>3. CASE rows'[e] # rows[e] /\ Queued(e)
  <2>1. Reschedule(e) /\ e \in Due
    BY <1>3, RowChanges
  <2>2. UNCHANGED queuedAt
    BY <2>1 DEF Reschedule
  <2>3. PICK due \in Int :
            /\ rows' = [rows EXCEPT ![e] = [attempts |-> rows[e].attempts + 1,
                                            dueAt |-> due, trace |-> rows[e].trace]]
            /\ due >= now + Backoff(rows[e].attempts + 1)
            /\ due <= now + Ceiling + JitterSeconds
    BY <1>3, <2>1, RescheduleTimes DEF BreakerTypeOK
  <2>4. rows'[e] = [attempts |-> rows[e].attempts + 1, dueAt |-> due, trace |-> rows[e].trace]
    BY <1>1, <2>3
  <2> QED BY <1>3, <2>1, <2>2, <2>3, <2>4 DEF RowSources
<1>4. CASE ~Queued(e)
  <2>1. PICK f \in EventIds : Enqueue(f, f)
    BY <1>4, QueueTimes
  <2>2. f = e
    BY <1>1, <1>4, <2>1 DEF Enqueue, Queued
  <2>3. /\ rows'[e] = [attempts |-> 0, dueAt |-> now, trace |-> e]
        /\ queuedAt'[e] = now
    BY <1>1, <2>1, <2>2 DEF Enqueue
  <2> QED BY <2>3 DEF RowSources
<1> QED
  BY <1>2, <1>3, <1>4

(* The first n delays, added up.                                           *)
Delays(n) == SumFunction([k \in 1..n |-> Lesser(BaseBackoff * 2 ^ (k - 1), Ceiling)])

(* One more failure adds the delay for its number.                         *)
LEMMA DelaysFacts ==
    ASSUME NEW n \in Nat
    PROVE  /\ Delays(n) \in Int
           /\ Delays(0) = 0
           /\ Delays(n + 1) = Delays(n) + Backoff(n + 1)
<1> DEFINE Delay == [k \in Nat \ {0} |-> Backoff(k)]
<1>1. ASSUME NEW m \in Nat
      PROVE  Delays(m) = SumFunctionOnSet(Delay, 1..m) /\ IsFiniteSet(1..m)
  <2>1. PICK F : F = [k \in 1..m |-> Lesser(BaseBackoff * 2 ^ (k - 1), Ceiling)]
    OBVIOUS
  <2>2. \A k \in 1..m : Delay[k] \in Int /\ F[k] = Delay[k]
    BY <2>1, BackoffFacts
  <2>3. IsFiniteSet(1..m)
    BY FS_Interval
  <2>4. SumFunctionOnSet(F, 1..m) = SumFunctionOnSet(Delay, 1..m)
    <3> HIDE DEF Delay
    <3> QED BY <2>2, <2>3, SumOfSame
  <2>5. Delays(m) = SumFunctionOnSet(F, 1..m)
    BY <2>1 DEF Delays, SumFunction
  <2> QED BY <2>3, <2>4, <2>5
<1>2. \A k \in Nat \ {0} : Delay[k] \in Int /\ Delay[k] = Backoff(k)
  BY BackoffFacts
<1> HIDE DEF Delay
<1>3. Delays(n) \in Int
  <2>1. \A k \in 1..n : Delay[k] \in Int
    BY <1>2
  <2> QED BY <1>1, <2>1, SumIsInteger
<1>4. Delays(0) = 0
  <2>1. 1..0 = {}
    OBVIOUS
  <2>2. Delays(0) = SumFunctionOnSet(Delay, 1..0)
    BY <1>1
  <2> QED BY <2>1, <2>2, SumOfNothing
<1>5. Delays(n + 1) = Delays(n) + Backoff(n + 1)
  <2>1. PICK m \in Nat \ {0} : m = n + 1
    OBVIOUS
  <2>2. 1..m = (1..n) \cup {m} /\ m \notin 1..n
    BY <2>1
  <2>3. Delay[m] \in Int /\ \A k \in 1..n : Delay[k] \in Int
    BY <1>2
  <2>4. SumFunctionOnSet(Delay, (1..n) \cup {m}) = SumFunctionOnSet(Delay, 1..n) + Delay[m]
    BY <1>1, <2>2, <2>3, SumOfOneMore
  <2>5. Delays(m) = SumFunctionOnSet(Delay, 1..m) /\ Delays(n) = SumFunctionOnSet(Delay, 1..n)
    BY <1>1
  <2> QED BY <1>2, <2>1, <2>2, <2>4, <2>5
<1> QED
  BY <1>3, <1>4, <1>5

(* An event in the queue was put there, its n-th retry is due no earlier   *)
(* than the first n delays after that, and no retry is further away than   *)
(* the longest delay and the jitter.                                       *)
SpacedOut ==
    \A e \in EventIds :
        Queued(e) =>
            /\ queuedAt[e] \in Nat
            /\ rows[e].dueAt >= queuedAt[e] + Delays(rows[e].attempts)
            /\ rows[e].dueAt <= now + Ceiling + JitterSeconds

(* A failed delivery waits for one more delay; a new one is due at once.   *)
LEMMA SpacedStep ==
    ASSUME QInv, BreakerTypeOK, WorkerInv, SubmittedOnce, SpacedOut, [Next]_vars
    PROVE  SpacedOut'
<1> SUFFICES ASSUME NEW e \in EventIds, Queued(e)'
             PROVE  /\ queuedAt'[e] \in Nat
                    /\ rows'[e].dueAt >= queuedAt'[e] + Delays(rows'[e].attempts)
                    /\ rows'[e].dueAt <= now' + Ceiling + JitterSeconds
  BY DEF SpacedOut
<1>1. now \in Nat /\ now' \in {now, now + 1}
  BY QueueTimes DEF BreakerTypeOK
<1>2. Ceiling \in Nat /\ JitterSeconds \in Nat
  BY BackoffFacts, QueueAssumption
<1>3. Queued(e) => rows[e] \in DeliveryType
  BY DEF QInv, Shape, Queued
<1>4. CASE Queued(e) /\ rows'[e] = rows[e] /\ queuedAt'[e] = queuedAt[e]
  <2>1. rows[e].dueAt \in Int
    BY <1>3, <1>4 DEF DeliveryType
  <2> QED BY <1>1, <1>2, <1>4, <2>1 DEF SpacedOut
<1>5. ASSUME Queued(e), e \in Due, queuedAt'[e] = queuedAt[e], NEW due \in Int,
             rows'[e] = [attempts |-> rows[e].attempts + 1, dueAt |-> due,
                         trace |-> rows[e].trace],
             due >= now + Backoff(rows[e].attempts + 1),
             due <= now + Ceiling + JitterSeconds
      PROVE  /\ queuedAt'[e] \in Nat
             /\ rows'[e].dueAt >= queuedAt'[e] + Delays(rows'[e].attempts)
             /\ rows'[e].dueAt <= now' + Ceiling + JitterSeconds
  <2>1. PICK n \in Nat : n = rows[e].attempts
    BY <1>3, <1>5 DEF DeliveryType
  <2>2. rows[e].dueAt \in Int /\ rows[e].dueAt <= now
    BY <1>3, <1>5 DEF DeliveryType, Due
  <2>3. queuedAt[e] \in Nat /\ rows[e].dueAt >= queuedAt[e] + Delays(n)
    BY <1>5, <2>1 DEF SpacedOut
  <2>4. /\ Delays(n) \in Int /\ Backoff(n + 1) \in Nat
        /\ Delays(n + 1) = Delays(n) + Backoff(n + 1)
    BY DelaysFacts, BackoffFacts
  <2>5. PICK total \in Int : total = Delays(n + 1)
    BY <2>4
  <2>6. due >= queuedAt[e] + total
    BY <1>1, <1>5, <2>1, <2>2, <2>3, <2>4, <2>5
  <2>7. rows'[e].dueAt = due /\ rows'[e].attempts = n + 1
    BY <1>5, <2>1
  <2>8. Delays(rows'[e].attempts) = total
    BY <2>5, <2>7, Zenon
  <2>9. rows'[e].dueAt >= queuedAt'[e] + Delays(rows'[e].attempts)
    BY <1>5, <2>6, <2>7, <2>8
  <2>10. due <= now' + Ceiling + JitterSeconds
    <3>1. due \in Int /\ due <= now + Ceiling + JitterSeconds
      BY <1>5
    <3>2. now \in Int /\ now' \in Int /\ now <= now'
      BY <1>1
    <3>3. \A from, later, c, j \in Int :
              from <= later /\ due <= from + c + j => due <= later + c + j
      OBVIOUS
    <3>4. Ceiling \in Int /\ JitterSeconds \in Int
      BY <1>2
    <3> QED BY <3>1, <3>2, <3>3, <3>4, Zenon
  <2> QED BY <1>5, <2>3, <2>7, <2>9, <2>10
<1>6. CASE rows'[e] = [attempts |-> 0, dueAt |-> now, trace |-> e] /\ queuedAt'[e] = now
  <2>1. rows'[e].dueAt = now /\ rows'[e].attempts = 0
    BY <1>6
  <2>2. Delays(0) = 0
    BY DelaysFacts
  <2>3. Delays(rows'[e].attempts) = 0
    BY <2>1, <2>2
  <2> QED BY <1>1, <1>2, <1>6, <2>1, <2>3
<1> QED
  BY <1>4, <1>5, <1>6, QueuedFrom DEF RowSources

(* The n-th retry of an event comes no earlier than the n doubling delays  *)
(* after it was queued, over any number of restarts, and always comes due. *)
THEOREM RetrySchedule == Spec => []RetriesAreSpaced
<1>1. Init => SpacedOut
  BY DEF Init, SpacedOut, Queued
<1>2. QInv /\ BreakerTypeOK /\ WorkerInv /\ SubmittedOnce /\ SpacedOut /\ [Next]_vars
          => SpacedOut'
  BY SpacedStep
<1>3. SpacedOut => RetriesAreSpaced
  BY DEF SpacedOut, RetriesAreSpaced, Delays, Ceiling
<1> QED
  BY <1>1, <1>2, <1>3, TurnInvariance, PTL DEF Spec
=============================================================================
