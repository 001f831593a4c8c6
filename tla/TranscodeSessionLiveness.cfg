SPECIFICATION FairTranscodeSpec
CONSTANTS
    Clients = {c1}
    Titles = {t1}
    Offsets = {0}
    Cap = 2
    MaxRestarts = 1
    SegmentSecs = 1
    MaxSegments = 0
    Duration = 0
    MaxSessions = 2
    MaxMail = 1
PROPERTIES ChildlessResolves IdleReaped
CHECK_DEADLOCK FALSE
