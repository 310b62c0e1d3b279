\* Without faults, two questions by each of two clients; with all faults, MaxFaulty in all.
CONSTANTS
    Clients = {c1, c2}
    MaxQuestions = 2
    QueueSize = 2
    Commands = {"v", "t"}
    FaultSets = {{}, {"loss", "copy", "outside", "unsafe", "stop"}}
    MaxFaulty = 2
    MaxCopies = 1
    MaxStops = 1
SPECIFICATION Spec
\* The clients may stop asking.
CHECK_DEADLOCK FALSE
INVARIANTS
    TypeOK
    FreshReading
    PairsUp
    DeviceReleased
PROPERTIES
    ServerAnswers
    ClientAnswered
