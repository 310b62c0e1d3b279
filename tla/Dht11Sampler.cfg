CONSTANTS
    Frames <- MCFrames
    Lines <- MCLines
    ZeroUs = 24
    OneUs = 71
    PollUs = 200
    Jitters <- MCJitters
    Preempts <- MCPreempts
SPECIFICATION Spec
CHECK_DEADLOCK FALSE
INVARIANTS
    TypeOK
    ExactDecode
    NeverWrong
    SilentLine
PROPERTY
    Terminates
