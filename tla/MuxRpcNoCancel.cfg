\* Calls run to completion: responses must match their requests.
CONSTANTS
    Callers = {c1, c2}
    Conns = {s1, s2, s3}
    MaxCalls = 4
    Cancellation = FALSE
    MaxLoss = 1
    NoConn = NoConn
SPECIFICATION Spec
INVARIANT ResponseMatchesRequest
SYMMETRY MCSymmetry
