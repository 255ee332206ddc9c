CONSTANTS
    Names <- MCNames
    Configured <- MCConfigured
    CAMERAS = 3
    Sources <- MCSources
    Calls <- MCCalls
    RoundedDown <- MCRoundedDown
    FitMayFail = TRUE
    SaveMayTear = TRUE
SPECIFICATION Spec
INVARIANT
    FramesAreExact
    ReadyWithEveryModel
    EveryStreamWatched
PROPERTY
    ModelsAreEarned
    FailureIsSaid
