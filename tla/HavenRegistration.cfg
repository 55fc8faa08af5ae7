\* Slow answers (17 s round trip, longer than the first three resend
\* intervals together), the relay online at t = 2 and two datagrams lost.
CONSTANTS
    Delays = {1, 17}
    MaxLoss = 2
    UpAt = 2
    MaxTime = 90
    RegTimeout = 30
    RetrySleep = 3
    Reannounce = 5
SPECIFICATION RegSpec
INVARIANT RegTypeOK
PROPERTY EventuallyRegistered
PROPERTY EventuallyPublished
