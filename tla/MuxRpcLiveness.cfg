\* With cancellation and server-task loss: conns are never shared and every call returns.
CONSTANTS
    Callers = {c1, c2}
    Conns = {s1, s2, s3}
    MaxCalls = 3
    Cancellation = TRUE
    MaxLoss = 1
    NoConn = NoConn
SPECIFICATION Spec
INVARIANT TypeOK
INVARIANT NoSharedConn
PROPERTY CallsComplete
