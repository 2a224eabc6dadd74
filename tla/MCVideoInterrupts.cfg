CONSTANTS
    MaxWait = 2
    MaxElapsed = 2
    UserLines = {"RESET", "SERIAL"}
    Raised = {"RESET", "VIDEO", "SERIAL"}
SPECIFICATION InterruptFairSpec
INVARIANTS LineTypeOK WakeMeansNewFrame
PROPERTIES LostWakeupIsRecovered FramesEndTheWait InterruptsDrain
