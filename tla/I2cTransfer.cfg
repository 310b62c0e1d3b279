CONSTANTS
    WriteLens = {0, 1, 3}
    ReadLens = {0, 1, 3}
    CommandLens = {0, 1, 2}
    FifoSize = 2
    PollsPerByte = 3
    FailsafeMod = 16
    Devices = {"good", "noisy", "nack", "stretch", "stuck"}
    MaxCalls = 2
SPECIFICATION Spec
CHECK_DEADLOCK FALSE
INVARIANTS
    TypeOK
    WriteDelivers
    ReadIsWhole
    NoOverrun
    NoFalseAlarm
PROPERTY
    CallReturns
