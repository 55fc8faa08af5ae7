\* send_to removes whatever session is cached when its own send fails.
CONSTANTS
    Remotes = {e1, e2}
    Senders = {t1, t2}
    MaxSessions = 3
SPECIFICATION Spec
PROPERTY SendFailureEvictsOwnSession
