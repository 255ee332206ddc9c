CONSTANTS
    c1 = c1
    c2 = c2
    Cameras <- TwoCameras
    Delivers <- OneMore
    MaxFrames = 2
    NoCamera = NoCamera
    Raises = TRUE
SPECIFICATION Spec
INVARIANT EntryIsOneFrame MetricsAreTrue
PROPERTY PublishesForward EveryFramePublished
CHECK_DEADLOCK FALSE
