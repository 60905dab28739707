--------------------------- MODULE CircuitBreaker ---------------------------
(***************************************************************************)
(* AccountServiceClient._request and the circuit breaker all its callers   *)
(* share, in time: a caller asks the breaker once, when its call begins,   *)
(* and then sends up to MaxAttempts attempts with sleeps in between,       *)
(* whatever the circuit does meanwhile.  An attempt or a sleep may last    *)
(* any time.                                                               *)
(***************************************************************************)
EXTENDS Integers, FiniteSets

CONSTANTS
    Callers,           \* the tasks that use the client
    MaxAttempts,       \* settings.account_service_max_attempts
    FailureThreshold,  \* settings.circuit_breaker_failure_threshold
    RecoverySeconds,   \* settings.circuit_breaker_recovery_seconds
    Never              \* opened_at is None

ASSUME BreakerAssumption ==
    /\ MaxAttempts \in Nat \ {0}
    /\ FailureThreshold \in Nat \ {0}
    /\ RecoverySeconds \in Nat
    /\ Never \notin Nat

VARIABLES
    now,      \* time.monotonic()
    breaker,  \* the circuit breaker
    call,     \* the call each caller is making
    sent      \* attempts each caller sent since the circuit began to refuse

breakerVars == <<now, breaker, call, sent>>

(* idle: no call; sent: awaiting a response; asleep: before the next       *)
(* attempt.                                                                *)
CallType ==
    [pc : {"idle", "sent", "asleep"}, attempt : 0..(MaxAttempts - 1),
     begunAt : Nat \cup {Never}]

IdleCall == [pc |-> "idle", attempt |-> 0, begunAt |-> Never]

ClosedBreaker == [failures |-> 0, openedAt |-> Never]

Refuses == breaker.openedAt # Never /\ now - breaker.openedAt < RecoverySeconds

InFlight(p) == call[p].pc # "idle"

NoneSent == [p \in Callers |-> 0]

KeepCount == sent' = IF Refuses' THEN sent ELSE NoneSent

-----------------------------------------------------------------------------
(* Variant of Allows: opened_at is not subtracted.                         *)
AllowsByUptime == breaker.openedAt # Never => now >= RecoverySeconds

(* allow() returns.                                                        *)
Allows == breaker.openedAt # Never => now - breaker.openedAt >= RecoverySeconds

(* failure(): beyond the threshold the exact count makes no difference.    *)
Failure ==
    LET counted == IF breaker.failures < FailureThreshold
                   THEN breaker.failures + 1 ELSE FailureThreshold
    IN breaker' = [failures |-> counted,
                   openedAt |-> IF counted = FailureThreshold THEN now
                                ELSE breaker.openedAt]

-----------------------------------------------------------------------------
(* A call passes allow() and sends its first attempt.                      *)
Begin(p) ==
    /\ ~InFlight(p)
    /\ Allows
    /\ call' = [call EXCEPT ![p] = [pc |-> "sent", attempt |-> 0, begunAt |-> now]]
    /\ UNCHANGED <<now, breaker>>
    /\ KeepCount

(* A response that is not transient, however late it comes.                *)
Succeeds(p) ==
    /\ call[p].pc = "sent"
    /\ breaker' = ClosedBreaker
    /\ call' = [call EXCEPT ![p] = IdleCall]
    /\ UNCHANGED now
    /\ KeepCount

(* Variant of AttemptFails: one attempt too many.                          *)
AttemptFailsAgain(p) ==
    /\ call[p].pc = "sent"
    /\ Failure
    /\ call' = [call EXCEPT ![p] =
         IF @.attempt < MaxAttempts THEN [@ EXCEPT !.pc = "asleep"] ELSE IdleCall]
    /\ UNCHANGED now
    /\ KeepCount

(* A timeout, a refused connection or a 502, 503 or 504; after the last    *)
(* attempt AccountServiceUnavailable is raised.                            *)
AttemptFails(p) ==
    /\ call[p].pc = "sent"
    /\ Failure
    /\ call' = [call EXCEPT ![p] =
         IF @.attempt + 1 < MaxAttempts THEN [@ EXCEPT !.pc = "asleep"] ELSE IdleCall]
    /\ UNCHANGED now
    /\ KeepCount

(* The sleep ends and the next attempt is sent.                            *)
SendAgain(p) ==
    /\ call[p].pc = "asleep"
    /\ call' = [call EXCEPT ![p].pc = "sent", ![p].attempt = @ + 1]
    /\ UNCHANGED <<now, breaker>>
    /\ sent' = IF Refuses' THEN [sent EXCEPT ![p] = @ + 1] ELSE NoneSent

(* Any other exception, or the cancellation of the task, leaves the call   *)
(* without a word to the breaker.                                          *)
Breaks(p) ==
    /\ InFlight(p)
    /\ call' = [call EXCEPT ![p] = IdleCall]
    /\ UNCHANGED <<now, breaker>>
    /\ KeepCount

(* A new process starts with a new client.                                 *)
NewClient ==
    /\ breaker' = ClosedBreaker
    /\ call' = [p \in Callers |-> IdleCall]
    /\ sent' = NoneSent
    /\ UNCHANGED now

Tick ==
    /\ now' = now + 1
    /\ UNCHANGED <<breaker, call>>
    /\ KeepCount

BreakerInit ==
    /\ now = 0
    /\ breaker = ClosedBreaker
    /\ call = [p \in Callers |-> IdleCall]
    /\ sent = NoneSent

BreakerNext ==
    \/ \E p \in Callers :
           \/ Begin(p)
           \/ Succeeds(p)
           \/ AttemptFails(p)
           \/ SendAgain(p)
           \/ Breaks(p)
    \/ NewClient
    \/ Tick

BreakerSpec == BreakerInit /\ [][BreakerNext]_breakerVars

-----------------------------------------------------------------------------
(* Properties.                                                             *)

BreakerTypeOK ==
    /\ now \in Nat
    /\ breaker \in [failures : 0..FailureThreshold, openedAt : Nat \cup {Never}]
    /\ call \in [Callers -> CallType]
    /\ sent \in [Callers -> Nat]

(* While the circuit refuses, whatever is in flight began before it opened *)
(* for the last time: late failures, late successes and restarts never let *)
(* a later call through.                                                   *)
InFlightPredatesOpening ==
    Refuses =>
        \A p \in Callers : InFlight(p) => call[p].begunAt <= breaker.openedAt

(* A circuit that refuses still lets the retries of calls under way out,   *)
(* and no more than those: the load on a failing service is bounded.       *)
OpenCircuitBoundsLoad == \A p \in Callers : sent[p] < MaxAttempts
=============================================================================
