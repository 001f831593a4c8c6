SPECIFICATION DvrSpec
CONSTANTS
    Recordings = {r1}
    NoRecording = NoRecording
    MaxRestarts = 0
PROPERTY NoRespawn
CHECK_DEADLOCK FALSE
