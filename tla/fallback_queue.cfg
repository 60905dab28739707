SPECIFICATION Spec
CONSTANTS
    Worker = Worker
    Callers = {Worker, r1}
    Never = Never
    NoEvent = NoEvent
    NoDelivery = NoDelivery
    EventIds = {1, 2}
    MaxAttempts = 2
    FailureThreshold = 2
    RecoverySeconds = 2
    BatchSize = 1
    PollSeconds = 1
    BaseBackoff = 1
    MaxBackoff = 3
    MaxExponent = 2
    JitterSeconds = 1
    StopSeconds = 2
    MaxTime = 3
CONSTRAINT Bounded
INVARIANTS TypeOK InFlightPredatesOpening OpenCircuitBoundsLoad QueuedIsKept RetriesAreSpaced TraceFollowsEvent
PROPERTIES FailuresTakeTurns
