\* Two callers, each pair of calls in every interleaving of their register accesses.
SPECIFICATION Spec
CONSTANTS
    Callers = {a, b}
    Pins = {9, 31, 40}
    Hz = {3815, 30518, 83333333}
    MaxCalls = 2
SYMMETRY Symmetry
INVARIANTS TypeOK ConfigExact SingleWritesSafe ResultsExact SpeedKept
\* The callers may stop calling.
CHECK_DEADLOCK FALSE
