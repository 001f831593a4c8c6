\* Two viewers, two recordings, two channels and a title, caps 3/2/2.
CONSTANTS
    Viewers = {v1, v2}
    Recordings = {rec1, rec2}
    Channels = {c1, c2}
    Titles = {t}
    SessionIds = {s1, s2, s3, s4}
    Cap = 3
    LiveKindCap = 2
    UpstreamCap = 2
    Idle = 1
    RemuxIdle = 2
    NoRecording = NoRecording
SPECIFICATION TrackerSpec
SYMMETRY Symmetric
INVARIANTS TypeOK HouseholdCap NoDoubleBooking ViewerLiveBudget OvershootAtMostOne
PROPERTY EvictionJustified
