CONSTANTS
    Cameras = {c1}
    MaxFrames = 2
    MaxOut = 2
SPECIFICATION PageSpec
INVARIANT CardsAreTrue
PROPERTY BackOnlyWhenOverlapped PageCatchesUp
