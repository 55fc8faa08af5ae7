\* Callers may drop a call mid-flight: the pooled conn keeps its answer.
CONSTANTS
    Callers = {c1, c2}
    Conns = {s1, s2, s3}
    MaxCalls = 4
    Cancellation = TRUE
    MaxLoss = 1
    NoConn = NoConn
SPECIFICATION Spec
INVARIANT ResponseMatchesRequest
