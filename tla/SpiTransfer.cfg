\* SPI0 and the auxiliary SPI, up to two calls one after the other.
SPECIFICATION Spec
CONSTANTS
    Depth = 2
    Calls = {"spi_transfer", "spi_transfernb", "spi_transfern", "spi_writenb", "spi_write",
             "aux_spi_transfer", "aux_spi_transfernb", "aux_spi_transfern",
             "aux_spi_writenb", "aux_spi_write"}
    Lens = {1, 4, 7}
    MaxCalls = 2
INVARIANTS TypeOK WireExact ReadExact
PROPERTY CallReturns
\* The caller may stop calling.
CHECK_DEADLOCK FALSE
