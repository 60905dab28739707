SPECIFICATION Spec
CONSTANTS
    Keys = {k1}
    Limit = 2
    Window = 5
    Second = 2
    MaxTime = 13
    MaxAdmissions = 6
    NoDecision = NoDecision
CONSTRAINT Bounded
INVARIANTS TypeOK WindowRespected NoFalseRefusal LogBounded RetryAfterIsExact
