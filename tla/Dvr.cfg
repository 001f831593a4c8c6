SPECIFICATION FairDvrSpec
CONSTANTS
    Recordings = {r1}
    NoRecording = NoRecording
    MaxRestarts = 2
INVARIANT TypeOK
PROPERTIES ImplementsLife NoSecondRecorder CompletedAfterExit InterruptionResumes RowSettles
CHECK_DEADLOCK FALSE
