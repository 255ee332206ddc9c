CONSTANTS
    Cameras = {c1, c2}
    NoCamera = NoCamera
    MaxTime = 4
    Window = 3
SPECIFICATION Spec
INVARIANT EverySecondRolledOnce ChargedAtMostTheTimePassed PageIsRight
PROPERTY ChargesBecomeRates
CHECK_DEADLOCK FALSE
