\* One transfer of four words, twice as many as a FIFO of the auxiliary SPI holds.
SPECIFICATION Spec
CONSTANTS
    Depth = 2
    Calls = {"aux_spi_transfernb"}
    Lens = {10}
    MaxCalls = 1
INVARIANT AnyNumber
\* The caller may stop calling.
CHECK_DEADLOCK FALSE
