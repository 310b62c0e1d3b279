CONSTANTS
    Clients = {c1}
    MaxQuestions = 1
    QueueSize = 1
    Commands = {"t"}
    FaultSets = {{"stop"}}
    MaxFaulty = 1
    MaxCopies = 0
    MaxStops = 1
SPECIFICATION Spec
PROPERTY RestartServes
