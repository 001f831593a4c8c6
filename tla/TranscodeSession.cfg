SPECIFICATION TranscodeSpec
CONSTANTS
    Clients = {c1, c2}
    Titles = {t1}
    Offsets = {0, 1}
    Cap = 2
    MaxRestarts = 1
    SegmentSecs = 1
    MaxSegments = 0
    Duration = 1
    MaxSessions = 2
    MaxMail = 1
INVARIANTS TypeOK EncoderBacked Reclaimed DuplicateLapsed SessionSupervised
SYMMETRY ClientSymmetry
CHECK_DEADLOCK FALSE
