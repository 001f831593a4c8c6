SPECIFICATION DvrSpec
CONSTANTS
    Recordings = {r1}
    NoRecording = NoRecording
    MaxRestarts = 0
INVARIANT CancelStops
CHECK_DEADLOCK FALSE
