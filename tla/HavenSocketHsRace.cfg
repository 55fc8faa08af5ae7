\* A ClientHs arrives while a send_to to the same endpoint is building its
\* session.
CONSTANTS
    Remotes = {e1, e2}
    Senders = {t1, t2}
    MaxSessions = 3
SPECIFICATION Spec
PROPERTY SessionReplacedOnlyByClientHs
