\* The smallest household in which a recording races a grant: caps 2/1/1.
CONSTANTS
    Viewers = {v1}
    Recordings = {rec1}
    Channels = {c1}
    Titles = {t}
    SessionIds = {s1, s2}
    Cap = 2
    LiveKindCap = 1
    UpstreamCap = 1
    Idle = 1
    RemuxIdle = 2
    NoRecording = NoRecording
SPECIFICATION TrackerSpec
INVARIANT SharedLiveBudget
