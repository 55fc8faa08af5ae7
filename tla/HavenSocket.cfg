\* Session eviction paths of the crypt-session cache.
CONSTANTS
    Remotes = {e1, e2}
    Senders = {t1, t2}
    MaxSessions = 3
SPECIFICATION Spec
INVARIANT TypeOK
PROPERTY SessionRemovedOnlyBySendFailureOrTTL
