CONSTANTS
    Frames <- MCFrames
    Lines = {"sensor"}
    ZeroUs = 24
    OneUs = 71
    PollUs = 200
    Jitters = {0}
    Preempts = {}
SPECIFICATION Spec
CHECK_DEADLOCK FALSE
INVARIANT
    ShowsTemperature
