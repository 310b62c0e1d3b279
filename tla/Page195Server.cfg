\* Two clients, two datagrams; the low half of the timer carries within a pulse.
SPECIFICATION Spec
CONSTANTS
    Clients = {c1, c2}
    none = none
    MaxDatagrams = 2
    Low = 3
    ZeroUs = 2
    OneUs = 5
    BitUs = 3
    RestUs = 2
    PollUs = 7
    MaxJitter = 1
    Wrap = 65536
INVARIANTS StReadExact RecordsTrue LampMeansStream
PROPERTY KeepsServing
\* The program may end.
CHECK_DEADLOCK FALSE
