------------------------ MODULE CircuitBreaker_proofs -----------------------
(***************************************************************************)
(* The circuit breaker for any number of callers, attempts and failures,   *)
(* any recovery time and any timing.                                       *)
(***************************************************************************)
EXTENDS CircuitBreaker, TLAPS

(* Nothing began or opened in the future, and a call that did not begin    *)
(* before the circuit opened began after the recovery time.                *)
BegunInTime ==
    /\ breaker.openedAt # Never => breaker.openedAt <= now
    /\ \A p \in Callers :
           InFlight(p) =>
               /\ call[p].begunAt \in Nat
               /\ call[p].begunAt <= now
               /\ breaker.openedAt # Never =>
                      \/ call[p].begunAt <= breaker.openedAt
                      \/ call[p].begunAt >= breaker.openedAt + RecoverySeconds

(* What a call has sent into a refusing circuit are retries of its own.    *)
RetriesCounted ==
    /\ \A p \in Callers :
           /\ sent[p] < MaxAttempts
           /\ InFlight(p) => sent[p] <= call[p].attempt
           /\ call[p].pc = "asleep" => call[p].attempt + 1 < MaxAttempts
    /\ ~Refuses => sent = NoneSent

BInv == BreakerTypeOK /\ BegunInTime /\ RetriesCounted

-----------------------------------------------------------------------------
(* The breaker keeps its shape, and an opening is never in the future.     *)
LEMMA FailureFacts ==
    ASSUME BreakerTypeOK, Failure
    PROVE  /\ breaker' \in [failures : 0..FailureThreshold, openedAt : Nat \cup {Never}]
           /\ breaker'.openedAt \in {now, breaker.openedAt}
  BY BreakerAssumption DEF BreakerTypeOK, Failure

(* The types are kept by every step.                                       *)
LEMMA BreakerTypeStep ==
    ASSUME BInv, [BreakerNext]_breakerVars
    PROVE  BreakerTypeOK'
<1> USE BreakerAssumption DEF BInv, BreakerTypeOK, CallType
<1>1. ASSUME NEW p \in Callers, Begin(p) PROVE BreakerTypeOK'
  BY <1>1 DEF Begin, KeepCount, NoneSent
<1>2. ASSUME NEW p \in Callers, Succeeds(p) PROVE BreakerTypeOK'
  BY <1>2 DEF Succeeds, ClosedBreaker, IdleCall, KeepCount, NoneSent
<1>3. ASSUME NEW p \in Callers, AttemptFails(p) PROVE BreakerTypeOK'
  <2>1. breaker' \in [failures : 0..FailureThreshold, openedAt : Nat \cup {Never}]
    BY <1>3, FailureFacts DEF AttemptFails
  <2>2. call' \in [Callers -> CallType]
    BY <1>3 DEF AttemptFails, IdleCall
  <2> QED
    BY <1>3, <2>1, <2>2 DEF AttemptFails, KeepCount, NoneSent
<1>4. ASSUME NEW p \in Callers, SendAgain(p) PROVE BreakerTypeOK'
  <2>1. call' \in [Callers -> CallType]
    BY <1>4 DEF SendAgain, RetriesCounted
  <2> QED
    BY <1>4, <2>1 DEF SendAgain, NoneSent
<1>5. ASSUME NEW p \in Callers, Breaks(p) PROVE BreakerTypeOK'
  BY <1>5 DEF Breaks, IdleCall, KeepCount, NoneSent
<1>6. CASE NewClient
  BY <1>6 DEF NewClient, ClosedBreaker, IdleCall, NoneSent
<1>7. CASE Tick
  BY <1>7 DEF Tick, KeepCount, NoneSent
<1>8. CASE UNCHANGED breakerVars
  BY <1>8 DEF breakerVars
<1> QED
  BY <1>1, <1>2, <1>3, <1>4, <1>5, <1>6, <1>7, <1>8 DEF BreakerNext

(* So is the order of beginnings and openings.                             *)
LEMMA BegunStep ==
    ASSUME BInv, [BreakerNext]_breakerVars
    PROVE  BegunInTime'
<1> USE BreakerAssumption DEF BInv, BreakerTypeOK, BegunInTime, InFlight
<1>1. ASSUME NEW p \in Callers, Begin(p) PROVE BegunInTime'
  BY <1>1 DEF Begin, Allows
<1>2. ASSUME NEW p \in Callers, Succeeds(p) PROVE BegunInTime'
  BY <1>2 DEF Succeeds, ClosedBreaker, IdleCall
<1>3. ASSUME NEW p \in Callers, AttemptFails(p) PROVE BegunInTime'
  <2>1. breaker'.openedAt \in {now, breaker.openedAt}
    BY <1>3, FailureFacts DEF AttemptFails
  <2>2. \A q \in Callers : InFlight(q)' => InFlight(q) /\ call'[q].begunAt = call[q].begunAt
    BY <1>3 DEF AttemptFails, IdleCall, CallType
  <2> QED
    BY <1>3, <2>1, <2>2 DEF AttemptFails
<1>4. ASSUME NEW p \in Callers, SendAgain(p) PROVE BegunInTime'
  <2>1. \A q \in Callers : InFlight(q)' => InFlight(q) /\ call'[q].begunAt = call[q].begunAt
    BY <1>4 DEF SendAgain, CallType
  <2> QED
    BY <1>4, <2>1 DEF SendAgain
<1>5. ASSUME NEW p \in Callers, Breaks(p) PROVE BegunInTime'
  BY <1>5 DEF Breaks, IdleCall
<1>6. CASE NewClient
  BY <1>6 DEF NewClient, ClosedBreaker, IdleCall
<1>7. CASE Tick
  BY <1>7 DEF Tick
<1>8. CASE UNCHANGED breakerVars
  BY <1>8 DEF breakerVars
<1> QED
  BY <1>1, <1>2, <1>3, <1>4, <1>5, <1>6, <1>7, <1>8 DEF BreakerNext

(* And the count of retries.  While the circuit refuses no call begins, so *)
(* a caller's count stays below the attempt its call has reached.          *)
LEMMA RetriesStep ==
    ASSUME BInv, [BreakerNext]_breakerVars
    PROVE  RetriesCounted'
<1> USE BreakerAssumption DEF BInv, BreakerTypeOK, CallType, RetriesCounted, InFlight
<1>1. ASSUME NEW p \in Callers, Begin(p) PROVE RetriesCounted'
  <2>1. ~Refuses' /\ ~Refuses
    BY <1>1 DEF Begin, Allows, Refuses
  <2> QED
    BY <1>1, <2>1 DEF Begin, KeepCount, NoneSent
<1>2. ASSUME NEW p \in Callers, Succeeds(p) PROVE RetriesCounted'
  BY <1>2 DEF Succeeds, ClosedBreaker, IdleCall, KeepCount, NoneSent, Refuses
<1>3. ASSUME NEW p \in Callers, AttemptFails(p) PROVE RetriesCounted'
  <2>1. \A q \in Callers :
           /\ InFlight(q)' => InFlight(q) /\ call'[q].attempt = call[q].attempt
           /\ call'[q].pc = "asleep" => call'[q].attempt + 1 < MaxAttempts
    BY <1>3 DEF AttemptFails, IdleCall
  <2>2. sent' = sent \/ sent' = NoneSent
    BY <1>3 DEF AttemptFails, KeepCount
  <2>3. ~Refuses' => sent' = NoneSent
    BY <1>3 DEF AttemptFails, KeepCount
  <2> QED
    BY <2>1, <2>2, <2>3 DEF NoneSent
<1>4. ASSUME NEW p \in Callers, SendAgain(p) PROVE RetriesCounted'
  <2>1. /\ call'[p].attempt = call[p].attempt + 1 /\ call'[p].attempt < MaxAttempts
        /\ call'[p].pc = "sent"
        /\ \A q \in Callers : q # p => call'[q] = call[q]
        /\ sent[p] <= call[p].attempt
    BY <1>4 DEF SendAgain
  <2>2. CASE Refuses'
    BY <1>4, <2>1, <2>2 DEF SendAgain
  <2>3. CASE ~Refuses'
    BY <1>4, <2>1, <2>3 DEF SendAgain, NoneSent
  <2> QED
    BY <2>2, <2>3
<1>5. ASSUME NEW p \in Callers, Breaks(p) PROVE RetriesCounted'
  BY <1>5 DEF Breaks, IdleCall, KeepCount, NoneSent
<1>6. CASE NewClient
  BY <1>6 DEF NewClient, ClosedBreaker, IdleCall, NoneSent, Refuses
<1>7. CASE Tick
  BY <1>7 DEF Tick, KeepCount, NoneSent
<1>8. CASE UNCHANGED breakerVars
  BY <1>8 DEF breakerVars, Refuses
<1> QED
  BY <1>1, <1>2, <1>3, <1>4, <1>5, <1>6, <1>7, <1>8 DEF BreakerNext

(* The invariant is inductive.                                             *)
THEOREM BreakerInvariance == BreakerSpec => []BInv
<1>1. BreakerInit => BInv
  BY BreakerAssumption
  DEF BreakerInit, BInv, BreakerTypeOK, CallType, BegunInTime, RetriesCounted,
      ClosedBreaker, IdleCall, NoneSent, InFlight
<1>2. BInv /\ [BreakerNext]_breakerVars => BInv'
  BY BreakerTypeStep, BegunStep, RetriesStep DEF BInv
<1> QED
  BY <1>1, <1>2, PTL DEF BreakerSpec

(* Types.                                                                  *)
THEOREM BreakerTypeCorrect == BreakerSpec => []BreakerTypeOK
<1>1. BInv => BreakerTypeOK
  BY DEF BInv
<1> QED
  BY BreakerInvariance, <1>1, PTL

(* While the circuit refuses, everything in flight began before it opened. *)
THEOREM OpeningSafe == BreakerSpec => []InFlightPredatesOpening
<1>1. BInv => InFlightPredatesOpening
  BY BreakerAssumption
  DEF BInv, BreakerTypeOK, BegunInTime, InFlightPredatesOpening, Refuses
<1> QED
  BY BreakerInvariance, <1>1, PTL

(* A refusing circuit sees fewer than MaxAttempts attempts of each caller. *)
THEOREM LoadBounded == BreakerSpec => []OpenCircuitBoundsLoad
<1>1. BInv => OpenCircuitBoundsLoad
  BY DEF BInv, RetriesCounted, OpenCircuitBoundsLoad
<1> QED
  BY BreakerInvariance, <1>1, PTL
=============================================================================
