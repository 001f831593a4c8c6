SPECIFICATION TranscodeSpec
CONSTANTS
    Clients = {c1}
    Titles = {t1}
    Offsets = {0, 3}
    Cap = 1
    MaxRestarts = 1
    SegmentSecs = 2
    MaxSegments = 1
    Duration = 5
    MaxSessions = 1
    MaxMail = 2
PROPERTY SeekHonored
CHECK_DEADLOCK FALSE
