CONSTANTS
    WriteLens = {}
    ReadLens = {1}
    CommandLens = {1, 3}
    FifoSize = 2
    PollsPerByte = 3
    FailsafeMod = 16
    Devices = {"good"}
    MaxCalls = 2
SPECIFICATION Spec
CHECK_DEADLOCK FALSE
PROPERTY
    ArbitraryCommand
