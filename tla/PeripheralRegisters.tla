------------------------- MODULE PeripheralRegisters -------------------------
(***************************************************************************)
(* The calls of the bcm2835 library that configure peripherals: GPIO       *)
(* functions, outputs, event detection, pulls and pads, the set-up of SPI0,*)
(* the auxiliary SPI, I2C and PWM, and the SMI bus.  A call is a program   *)
(* of register accesses; bcm2835_peri_set_bits is a read and, later, a     *)
(* write ("This is not atomic - can be interrupted").  Several callers run *)
(* programs at once, as the driver, other modules and user programs do: no *)
(* call takes a lock.                                                      *)
(*                                                                         *)
(* A register is the set of its bits that are 1, at <<block, word>>.       *)
(* The history variable want holds what each documented field was last set *)
(* to, whoever did it; lost holds the fields that the write-back of an     *)
(* overlapping set_bits has put back to an older value.                    *)
(***************************************************************************)
EXTENDS Integers, Sequences, FiniteSets, FiniteSetsExt, TLC

CONSTANTS
    Callers,    \* threads of control that use the peripherals
    Pins,       \* pins that are used and watched
    Hz,         \* speeds that are asked for
    MaxCalls    \* bound: calls by all callers

ASSUME RegistersAssumption == Pins \subseteq 0..53 /\ Hz \subseteq Nat \ {0} /\ MaxCalls \in Nat

VARIABLES
    mapped,     \* bcm2835_init has mapped the peripherals
    fill,       \* what every register held at boot: no bits or all of them
    reg,        \* the registers written since, and the library's static variables
    latch,      \* output latches of the pins, per bank of 32
    smi,        \* the SMI transfer on the bus: <<>> or one transfer
    served,     \* history: what the last SMI write transfer delivered
    call,       \* per caller: its request, the rest of its program, its result, and
                \* whether it had the SMI bus to itself and found no update lost
    calls,      \* calls begun
    want, lost  \* history, see above

vars == <<mapped, fill, reg, latch, smi, served, call, calls, want, lost>>

Word32 == 0..31

\* The bits of n, moved up by s.
Bits(n, s) == {s + i : i \in {j \in 0..17 : (n \div 2^j) % 2 = 1}}

\* The number that the n bits of v from s on stand for.
Num(v, s, n) == CHOOSE k \in 0..(2^n - 1) : Bits(k, s) = v \intersect (s..(s + n - 1))

\* A function of one value, and one function laid over another.
One(x, v) == [y \in {x} |-> v]
Over(f, g) == [x \in DOMAIN f \union DOMAIN g |-> IF x \in DOMAIN f THEN f[x] ELSE g[x]]

-----------------------------------------------------------------------------
(* bcm2835.h: offsets in bytes (SMI, PWM, clocks: in words), codes, masks. *)

GPFSEL == <<\h00, \h04, \h08, \h0c, \h10, \h14>>
GPIO == [GPSET  |-> <<\h1c, \h20>>, GPCLR  |-> <<\h28, \h2c>>, GPLEV  |-> <<\h34, \h38>>,
         GPEDS  |-> <<\h40, \h44>>, GPREN  |-> <<\h4c, \h50>>, GPFEN  |-> <<\h58, \h5c>>,
         GPHEN  |-> <<\h64, \h68>>, GPLEN  |-> <<\h70, \h74>>, GPAREN |-> <<\h7c, \h80>>,
         GPAFEN |-> <<\h88, \h8c>>]
GPPUPPDN == <<\he4, \he8, \hec, \hf0>>

\* The six kinds of event detection, each with an enable bit per pin.
Detects == DOMAIN GPIO \ {"GPSET", "GPCLR", "GPLEV", "GPEDS"}

FSEL == [INPT |-> 0, ALT0 |-> 4, ALT1 |-> 5, ALT4 |-> 3, ALT5 |-> 2, MASK |-> 7]
PUD  == [OFF |-> 0, DOWN |-> 1, UP |-> 2, ERROR |-> 8]
PADS_GPIO == <<\h2c, \h30, \h34>>
Passwrd(v) == Bits(\h5A, 24) \union v

SPI0 == [CS |-> \h00, CLK |-> \h08]
SPI0_CS == [CLEAR |-> Bits(3, 4), CPOL |-> {3}, CPHA |-> {2}, CS |-> {0, 1}]
AUX_ENABLE     == \h04
AUX_SPI        == [CNTL0 |-> \h00, CNTL1 |-> \h04]
AUX_SPI_CLOCK  == [MIN |-> 30500, MAX |-> 125000000, SPEED_MAX |-> \hFFF]
CLEARFIFO      == {9}
BSC == [A |-> \h0c, DIV |-> \h14]

SMI == [READ |-> <<4, 6, 8, 10>>, WRITE |-> <<5, 7, 9, 11>>,
        DIRCS |-> 13, DIRADDR |-> 14, DIRDATA |-> 15]
SMI_RW == [SETUP_LS |-> 24, HOLD_LS |-> 16, PACE_LS |-> 8, STROBE_LS |-> 0,
           SETUP_MSK |-> Bits(\h3F, 24), HOLD_MSK |-> Bits(\h3F, 16),
           PACE_MSK |-> Bits(\h7F, 8), STROBE_MSK |-> Bits(\h7F, 0), PACEALL |-> {15}]
DIRCS == [ENABLE |-> {0}, START |-> {1}, DONE |-> {2}, WRITE |-> {3}]
SMICLK == [CNTL |-> 44, DIV |-> 45]

PWM == [CONTROL |-> 0, RANGE |-> <<4, 8>>, DATA |-> <<5, 9>>,
        MS_MODE |-> <<{7}, {15}>>, ENABLE |-> <<{0}, {8}>>]
PWMCLK == [CNTL |-> 40, DIV |-> 41]

CORE_CLK_HZ == 250000000

\* Pins of the buses, as the header's pin numbers have them.
SpiPins == <<7, 8, 9, 10, 11>>
AuxPins == <<16, 19, 20, 21>>
I2cPins == <<2, 3>>
SmiPins == <<2, 3, 4, 5, 6, 7, 8, 9, 10, 11, 12, 13, 14, 15>>

-----------------------------------------------------------------------------
(* Register accesses.  "set" says which fields an access is meant to set.  *)

Get(a) == IF a \in DOMAIN reg THEN reg[a] ELSE fill
Put(a, v) == Over(One(a, v), reg)

nothing == <<>>

peri_write(a, v, set) == [op |-> "write", a |-> a, v |-> v, clear |-> Word32, set |-> set]

\* A read, and a write of what was read without the bits "clear" and with the bits v.
Modify(a, v, clear, set) == [op |-> "read", a |-> a, v |-> v, clear |-> clear, set |-> set]

\* Mutant: the value is not limited to the mask and the old bits stay.
peri_or_bits(a, v, mask, set) == Modify(a, v, {}, set)

peri_set_bits(a, v, mask, set) == Modify(a, v \intersect mask, mask, set)

\* A loop that reads until the bits of mask are all set, or all clear.
Await(a, mask, on) == [op |-> "await", a |-> a, v |-> mask, clear |-> on, set |-> nothing]

\* A read that skips the next access unless the bits of mask are set.
Test(a, mask) == [op |-> "test", a |-> a, v |-> mask, clear |-> {}, set |-> nothing]

\* The read whose result the call r returns.
Fetch(a, r) == [op |-> "fetch", a |-> a, v |-> r, clear |-> {}, set |-> nothing]

Idle == [name |-> "none", prog |-> <<>>, ret |-> 0, truth |-> 0, alone |-> TRUE]

\* The bus of SMI is used by one direct transfer at a time, or it is not.
Transfers == {"smi_read", "smi_write"}
Reads == {"gpio_get_pud", "gpio_pad", "gpio_lev", "gpio_eds", "gpio_eds_multi", "smi_read"}

\* Bound: the long programs that set up or leave a bus do not overlap each other.
Setups == {"spi_begin", "spi_end", "aux_spi_begin", "aux_spi_end", "i2c_begin", "i2c_end",
           "smi_begin", "smi_end"}

Running(c) == call[c].prog # <<>>

Ready(c) == ~Running(c) /\ calls < MaxCalls

Call(c, name, prog) ==
    LET other == \E d \in Callers \ {c} : Running(d) /\ call[d].name \in Transfers
    IN  /\ name \in Setups => \A d \in Callers : Running(d) => call[d].name \notin Setups
        /\ call' = [d \in Callers |->
              IF d = c THEN [Idle EXCEPT !.name = name, !.prog = prog,
                                         !.alone = name \in Transfers => ~other /\ smi = <<>>]
              ELSE [call[d] EXCEPT !.alone = @ /\ ~({name, call[d].name} \subseteq Transfers)]]
        /\ calls' = calls + 1
        /\ UNCHANGED <<mapped, fill, reg, latch, smi, served, want, lost>>

-----------------------------------------------------------------------------
(* GPIO. *)

gpio_fsel(pin, mode) ==
    LET shift == (pin % 10) * 3
    IN  <<peri_set_bits(<<"gpio", GPFSEL[1] \div 4 + pin \div 10>>, Bits(mode, shift),
                        Bits(FSEL.MASK, shift), One(<<"fsel", pin>>, mode))>>

Bank(r, pin) == <<"gpio", GPIO[r][1] \div 4 + pin \div 32>>

\* Mutant: the pin's number is not taken modulo 32.
ShiftAbsolute(pin) == {pin}

Shift(pin) == {pin % 32}

SetAll(name, pins, val) == [f \in {<<name, p>> : p \in pins} |-> val]

gpio_set(pin)       == <<peri_write(Bank("GPSET", pin), Shift(pin), SetAll("out", {pin}, 1))>>
gpio_clr(pin)       == <<peri_write(Bank("GPCLR", pin), Shift(pin), SetAll("out", {pin}, 0))>>
gpio_set_multi(mask) == <<peri_write(Bank("GPSET", 0), mask, SetAll("out", mask, 1))>>
gpio_clr_multi(mask) == <<peri_write(Bank("GPCLR", 0), mask, SetAll("out", mask, 0))>>
gpio_write(pin, on) == IF on THEN gpio_set(pin) ELSE gpio_clr(pin)
gpio_write_multi(mask, on) == IF on THEN gpio_set_multi(mask) ELSE gpio_clr_multi(mask)
gpio_write_mask(value, mask) ==
    gpio_set_multi(value \intersect mask) \o gpio_clr_multi((Word32 \ value) \intersect mask)

\* Mutant: the event of one pin is acknowledged like the enable bits are cleared.
gpio_set_eds_bits(pin) ==
    <<peri_set_bits(Bank("GPEDS", pin), Shift(pin), Shift(pin), SetAll("GPEDS", {pin}, 0))>>

\* Writing a 1 clears the event of that pin.
gpio_set_eds(pin)        == <<peri_write(Bank("GPEDS", pin), Shift(pin), SetAll("GPEDS", {pin}, 0))>>
gpio_set_eds_multi(mask) == <<peri_write(Bank("GPEDS", 0), mask, SetAll("GPEDS", mask, 0))>>

\* bcm2835_gpio_ren, _fen, _hen, _len, _aren, _afen and their _clr_ forms.
gpio_detect(r, pin, on) ==
    <<peri_set_bits(Bank(r, pin), IF on THEN Shift(pin) ELSE {}, Shift(pin),
                    SetAll(r, {pin}, IF on THEN 1 ELSE 0))>>

\* Up and down are 2 and 1 for the library, 1 and 2 for the chip.
Pull(pud) == CASE pud = PUD.OFF -> 0 [] pud = PUD.UP -> 1 [] pud = PUD.DOWN -> 2

PullReg(pin) == <<"gpio", GPPUPPDN[1] \div 4 + pin \div 16>>

\* bcm2835_init sets pud_type_rpi4: the other branch is never taken.
gpio_set_pud(pin, pud) ==
    LET shiftbits == (pin % 16) * 2
    IN  IF pud \notin {PUD.OFF, PUD.UP, PUD.DOWN} THEN <<>>
        ELSE <<Modify(PullReg(pin), Bits(Pull(pud), shiftbits), Bits(3, shiftbits),
                      One(<<"pull", pin>>, pud))>>
gpio_pud(pud) == <<peri_write(<<"lib", "pud_compat_setting">>, Bits(pud, 0), nothing)>>
gpio_pudclk(pin, on) ==
    IF on THEN gpio_set_pud(pin, Num(Get(<<"lib", "pud_compat_setting">>), 0, 2)) ELSE <<>>

gpio_set_pad(group, control) ==
    IF ~mapped THEN <<>> ELSE
    <<peri_write(<<"pads", PADS_GPIO[1] \div 4 + group>>, Passwrd(Bits(control, 0)),
                 One(<<"pad", group>>, control))>>

gpio_pad(group) ==
    IF ~mapped THEN <<>> ELSE
    <<Fetch(<<"pads", PADS_GPIO[1] \div 4 + group>>, <<"gpio_pad", group>>)>>

gpio_get_pud(pin) == <<Fetch(PullReg(pin), <<"gpio_get_pud", pin>>)>>
gpio_lev(pin)     == <<Fetch(Bank("GPLEV", pin), <<"gpio_lev", pin>>)>>
gpio_eds(pin)     == <<Fetch(Bank("GPEDS", pin), <<"gpio_eds", pin>>)>>
gpio_eds_multi(mask) == <<Fetch(Bank("GPEDS", 0), <<"gpio_eds_multi", mask>>)>>

\* Result: what a reading call makes of the bits v that it read.
Result(r, v) ==
    CASE r[1] = "gpio_get_pud" -> <<PUD.OFF, PUD.UP, PUD.DOWN, PUD.ERROR>>[Num(v, (r[2] % 16) * 2, 2) + 1]
      [] r[1] = "gpio_pad" -> v
      [] r[1] \in {"gpio_lev", "gpio_eds"} -> v \intersect Shift(r[2]) # {}
      [] r[1] = "gpio_eds_multi" -> v \intersect r[2]
      [] r[1] = "smi_read" -> v

-----------------------------------------------------------------------------
(* SPI0, auxiliary SPI and I2C. *)

FselAll(pins, mode) == [i \in DOMAIN pins |-> gpio_fsel(pins[i], mode)[1]]

SpiCs == <<"spi0", SPI0.CS \div 4>>

\* A write of the whole control register sets its other fields to 0.
SpiDefaults == [f \in {<<"spi_cs">>, <<"spi_mode">>, <<"cspol", 0>>, <<"cspol", 1>>, <<"cspol", 2>>} |-> 0]

spi_begin ==
    IF ~mapped THEN <<>> ELSE FselAll(SpiPins, FSEL.ALT0)
        \o <<peri_write(SpiCs, {}, SpiDefaults), peri_write(SpiCs, SPI0_CS.CLEAR, SpiDefaults)>>
spi_end(c) == Call(c, "spi_end", FselAll(SpiPins, FSEL.INPT))

\* hz is the speed that a divider is to give, 0 if the caller gave the divider itself.
Divider(a, name, d, hz) ==
    <<peri_write(a, Bits(d, 0), Over(One(<<name, "div">>, d), One(<<name, "hz">>, hz)))>>

SpiClk == <<"spi0", SPI0.CLK \div 4>>

spi_setClockDivider(d) == Divider(SpiClk, "spi0", d, 0)

\* Mutant: odd dividers are kept.
EvenDividerOdd(hz) == (CORE_CLK_HZ \div hz) % 2^16

\* The quotient in 16 bits, without the lowest.
EvenDivider(hz) == LET d == (CORE_CLK_HZ \div hz) % 2^16 IN d - (d % 2)

spi_set_speed_hz(hz) == Divider(SpiClk, "spi0", EvenDivider(hz), hz)

spi_setDataMode(mode) ==
    <<peri_set_bits(SpiCs, Bits(mode, 2), SPI0_CS.CPOL \union SPI0_CS.CPHA, One(<<"spi_mode">>, mode))>>
spi_chipSelect(cs) == <<peri_set_bits(SpiCs, Bits(cs, 0), SPI0_CS.CS, One(<<"spi_cs">>, cs))>>
spi_setChipSelectPolarity(cs, active) ==
    <<peri_set_bits(SpiCs, Bits(active, 21 + cs), {21 + cs}, One(<<"cspol", cs>>, active))>>

aux_spi_CalcClockDivider(hz) ==
    LET speed == Max({AUX_SPI_CLOCK.MIN, Min({hz, AUX_SPI_CLOCK.MAX})})
        div   == (CORE_CLK_HZ + 2 * speed - 1) \div (2 * speed) - 1
    IN  Min({div, AUX_SPI_CLOCK.SPEED_MAX})

Spi1Speed == <<"lib", "spi1_speed">>

aux_spi_setClockDivider(d) == Divider(Spi1Speed, "spi1", d, 0)

\* A caller sets a speed with aux_spi_setClockDivider(aux_spi_CalcClockDivider(hz)).
aux_spi_speed(hz) == Divider(Spi1Speed, "spi1", aux_spi_CalcClockDivider(hz), hz)

aux_spi_reset(spi1) == <<peri_write(<<spi1, AUX_SPI.CNTL1 \div 4>>, {}, nothing),
                         peri_write(<<spi1, AUX_SPI.CNTL0 \div 4>>, CLEARFIFO, nothing)>>

aux_spi_begin ==
    IF ~mapped THEN <<>> ELSE FselAll(AuxPins, FSEL.ALT4)
        \o aux_spi_speed(1000000)
        \o <<peri_write(<<"aux", AUX_ENABLE \div 4>>, {1}, One(<<"aux_enable">>, 2))>>
        \o aux_spi_reset("spi1")
aux_spi_end(c) == Call(c, "aux_spi_end", FselAll(AuxPins, FSEL.INPT))

\* The time per byte that i2c_begin derives from the divider is always 0.
i2c_begin == IF ~mapped THEN <<>> ELSE FselAll(I2cPins, FSEL.ALT0)
i2c_end(c) == Call(c, "i2c_end", FselAll(I2cPins, FSEL.INPT))
i2c_setSlaveAddress(addr) ==
    <<peri_write(<<"bsc1", BSC.A \div 4>>, Bits(addr, 0), One(<<"i2c_addr">>, addr))>>

BscDiv == <<"bsc1", BSC.DIV \div 4>>

i2c_setClockDivider(d) == Divider(BscDiv, "bsc1", d, 0)
i2c_set_baudrate(hz)   == Divider(BscDiv, "bsc1", EvenDivider(hz), hz)

-----------------------------------------------------------------------------
(* SMI and PWM. *)

SmiParts(channel, read, setup, strobe, hold, pace) ==
    [f \in {<<"smi", channel, read, part>> : part \in {"setup", "strobe", "hold", "pace"}} |->
        CASE f[4] = "setup" -> setup [] f[4] = "strobe" -> strobe
          [] f[4] = "hold" -> hold [] f[4] = "pace" -> pace]

SmiTiming(setup, strobe, hold, pace) ==
    UNION {Bits(setup, SMI_RW.SETUP_LS), Bits(strobe, SMI_RW.STROBE_LS),
           Bits(hold, SMI_RW.HOLD_LS), Bits(pace, SMI_RW.PACE_LS)}

SmiSlot(channel, read) == <<"smi", IF read THEN SMI.READ[channel + 1] ELSE SMI.WRITE[channel + 1]>>

\* The four slots for reading and for writing: READ0, WRITE0, READ1, ... WRITE3, one after the other.
smi_begin ==
    IF ~mapped THEN <<>> ELSE FselAll(SmiPins, FSEL.ALT1)
        \o <<peri_write(<<"clk", SMICLK.CNTL>>, Passwrd({}), nothing),
             peri_write(<<"clk", SMICLK.DIV>>, Passwrd({14}), One(<<"smi_clk_div">>, 4)),
             peri_write(<<"clk", SMICLK.CNTL>>, Passwrd({1, 2, 4}), nothing)>>
        \o [i \in 1..8 |-> peri_write(SmiSlot((i - 1) \div 2, i % 2 = 1),
                               SmiTiming(10, 20, 20, 1) \union SMI_RW.PACEALL,
                               SmiParts((i - 1) \div 2, i % 2 = 1, 10, 20, 20, 1))]
smi_end(c) == Call(c, "smi_end", FselAll(SmiPins, FSEL.INPT))

\* The fields are cleared and filled; a value too large for its field runs over into the next.
smi_set_timing(channel, read, setup, strobe, hold, pace) ==
    IF channel > 3 THEN <<>>
    ELSE <<Modify(SmiSlot(channel, read), SmiTiming(setup, strobe, hold, pace),
                  UNION {SMI_RW.SETUP_MSK, SMI_RW.HOLD_MSK, SMI_RW.PACE_MSK, SMI_RW.STROBE_MSK},
                  SmiParts(channel, read, setup, strobe, hold, pace))>>

DirCs == <<"smi", SMI.DIRCS>>

\* Mutant: a done bit left by an earlier transfer stays.
ClearStaleDoneNot(cs) == <<>>

\* "clear done bit if set"
ClearStaleDone(cs) == <<Test(cs, DIRCS.DONE), peri_write(cs, DIRCS.DONE, nothing)>>

DirAddr(channel, address) ==
    peri_write(<<"smi", SMI.DIRADDR>>, Bits(channel, 8) \union Bits(address % 64, 0), nothing)

smi_write(channel, data, address) ==
    IF channel > 3 THEN <<>>
    ELSE ClearStaleDone(DirCs)
         \o <<DirAddr(channel, address),
              peri_write(<<"smi", SMI.DIRDATA>>, Bits(data, 0), nothing),
              peri_write(DirCs, DIRCS.WRITE \union DIRCS.START \union DIRCS.ENABLE, nothing),
              Await(DirCs, DIRCS.DONE, TRUE),
              peri_write(DirCs, DIRCS.DONE, nothing)>>

smi_read(channel, address) ==
    IF channel > 3 THEN <<>>
    ELSE ClearStaleDone(DirCs)
         \o <<DirAddr(channel, address),
              peri_write(DirCs, DIRCS.START \union DIRCS.ENABLE, nothing),
              Await(DirCs, DIRCS.DONE, TRUE),
              Fetch(<<"smi", SMI.DIRDATA>>, <<"smi_read", channel, address>>),
              peri_write(DirCs, DIRCS.DONE, nothing)>>

\* Stops the clock, waits until it is not busy, sets 12 bits of divider and starts it.
pwm_set_clock(divisor) ==
    IF ~mapped THEN <<>> ELSE
    <<peri_write(<<"clk", PWMCLK.CNTL>>, Passwrd({0}), nothing),
      Await(<<"clk", PWMCLK.CNTL>>, {7}, FALSE),
      peri_write(<<"clk", PWMCLK.DIV>>, Passwrd(Bits(divisor % 2^12, 12)),
                 One(<<"pwm_clk_div">>, divisor % 2^12)),
      peri_write(<<"clk", PWMCLK.CNTL>>, Passwrd({0, 4}), nothing)>>

pwm_set_mode(channel, markspace, enabled) ==
    IF ~mapped THEN <<>>
    ELSE IF channel \notin {0, 1} THEN <<Modify(<<"pwm", PWM.CONTROL>>, {}, {}, nothing)>>
    ELSE LET ms == PWM.MS_MODE[channel + 1]
             en == PWM.ENABLE[channel + 1]
         IN  <<Modify(<<"pwm", PWM.CONTROL>>,
                      (IF markspace = 1 THEN ms ELSE {}) \union (IF enabled = 1 THEN en ELSE {}),
                      ms \union en,
                      Over(One(<<"pwm_ms", channel>>, markspace), One(<<"pwm_en", channel>>, enabled)))>>
pwm_set_range(channel, range) ==
    IF ~mapped \/ channel \notin {0, 1} THEN <<>>
    ELSE <<peri_write(<<"pwm", PWM.RANGE[channel + 1]>>, Bits(range, 0), One(<<"pwm_range", channel>>, range))>>
pwm_set_data(channel, data) ==
    IF ~mapped \/ channel \notin {0, 1} THEN <<>>
    ELSE <<peri_write(<<"pwm", PWM.DATA[channel + 1]>>, Bits(data, 0), One(<<"pwm_data", channel>>, data))>>

-----------------------------------------------------------------------------
(* The fields of the registers, at the addresses of the header.            *)

Singles == {<<"spi_cs">>, <<"spi_mode">>, <<"aux_enable">>, <<"i2c_addr">>, <<"smi_clk_div">>,
            <<"pwm_clk_div">>}
Fields ==
    Singles \union {<<r, p>> : r \in {"fsel", "out", "pull"}, p \in Pins}
            \union {<<r, p>> : r \in DOMAIN GPIO \ {"GPSET", "GPCLR", "GPLEV"}, p \in Pins}
            \union {<<"pad", g>> : g \in 0..2} \union {<<"cspol", c>> : c \in 0..2}
            \union {<<b, "div">> : b \in {"spi0", "spi1", "bsc1"}}
            \union {<<"smi", c, r, part>> : c \in 0..3, r \in BOOLEAN,
                                            part \in {"setup", "strobe", "hold", "pace"}}
            \union {<<r, c>> : r \in {"pwm_ms", "pwm_en", "pwm_range", "pwm_data"}, c \in 0..1}
Speeds == {<<b, "hz">> : b \in {"spi0", "spi1", "bsc1"}}

At(block, word, lo, n) == [a |-> <<block, word>>, lo |-> lo, n |-> n]

Field(f) ==
    CASE f[1] = "out"      -> At("latch", f[2] \div 32, f[2] % 32, 1)
      [] f[1] = "fsel"     -> At("gpio", GPFSEL[f[2] \div 10 + 1] \div 4, (f[2] % 10) * 3, 3)
      [] f[1] \in DOMAIN GPIO -> At("gpio", GPIO[f[1]][f[2] \div 32 + 1] \div 4, f[2] % 32, 1)
      [] f[1] = "pull"     -> At("gpio", GPPUPPDN[f[2] \div 16 + 1] \div 4, (f[2] % 16) * 2, 2)
      [] f[1] = "pad"      -> At("pads", PADS_GPIO[f[2] + 1] \div 4, 0, 5)
      [] f[1] = "spi_cs"   -> At("spi0", 0, 0, 2)
      [] f[1] = "spi_mode" -> At("spi0", 0, 2, 2)
      [] f[1] = "cspol"    -> At("spi0", 0, 21 + f[2], 1)
      [] f[1] = "spi0"     -> At("spi0", 2, 0, 16)
      [] f[1] = "spi1"     -> At("lib", "spi1_speed", 0, 16)
      [] f[1] = "bsc1"     -> At("bsc1", 5, 0, 16)
      [] f[1] = "aux_enable" -> At("aux", 1, 0, 3)
      [] f[1] = "i2c_addr" -> At("bsc1", 3, 0, 7)
      [] f[1] = "smi_clk_div" -> At("clk", 45, 12, 12)
      [] f[1] = "pwm_clk_div" -> At("clk", 41, 12, 12)
      [] f[1] = "smi"      -> At("smi", 4 + 2 * f[2] + (IF f[3] THEN 0 ELSE 1),
                                 CASE f[4] = "setup" -> 24 [] f[4] = "hold" -> 16
                                   [] f[4] = "pace" -> 8 [] f[4] = "strobe" -> 0,
                                 IF f[4] \in {"setup", "hold"} THEN 6 ELSE 7)
      [] f[1] = "pwm_ms"   -> At("pwm", 0, 7 + 8 * f[2], 1)
      [] f[1] = "pwm_en"   -> At("pwm", 0, 8 * f[2], 1)
      [] f[1] = "pwm_range" -> At("pwm", 4 + 4 * f[2], 0, 16)
      [] f[1] = "pwm_data" -> At("pwm", 5 + 4 * f[2], 0, 16)

\* Pull-up is 1 and pull-down 2 in the chip's register.
PullCode(bits) == CASE bits = {} -> PUD.OFF [] bits = {0} -> PUD.UP [] bits = {1} -> PUD.DOWN
                    [] bits = {0, 1} -> PUD.ERROR

FieldOf == [f \in Fields |-> Field(f)]

\* The bits of a field in the bits v of its register, moved down to 0; pulls by their code.
Decode(f, v) ==
    LET lo   == FieldOf[f].lo
        bits == {i - lo : i \in v \intersect (lo..(lo + FieldOf[f].n - 1))}
    IN  IF f[1] = "pull" THEN Bits(PullCode(bits), 0) ELSE bits

Value(f) == Decode(f, IF f[1] = "out" THEN latch[f[2] \div 32] ELSE Get(FieldOf[f].a))

\* The value a field was last set to, or had at boot.
Want(f) == IF f \in DOMAIN want THEN want[f] ELSE Decode(f, fill)

-----------------------------------------------------------------------------
(* The chip, as the library uses it.  External. *)

Banks(r) == {<<"gpio", GPIO[r][i] \div 4>> : i \in 1..2}
BankOf(r, a) == a[2] - GPIO[r][1] \div 4

\* The device on the SMI bus answers a read of an address with its complement.
Answer(address) == (0..7) \ address

\* What the register a that holds old holds after v is written.
Stored(a, v, old) ==
    CASE a[1] = "pads" -> v \intersect (0..4)
      [] a = <<"clk", PWMCLK.CNTL>> ->
           (v \intersect (0..6)) \union (IF 4 \in v THEN {7} ELSE old \intersect {7})
      [] a[1] = "clk" /\ a # <<"clk", PWMCLK.CNTL>> -> v \ (24..31)
      [] a \in Banks("GPEDS") -> old \ v
      [] a = SpiCs -> v \ SPI0_CS.CLEAR
      [] a = DirCs -> (v \ (DIRCS.START \union DIRCS.DONE)) \union (DIRCS.DONE \intersect (old \ v))
      [] OTHER -> v

\* Pads and clocks ignore a write without the password.
Refused(a, v) == a[1] \in {"pads", "clk"} /\ v \intersect (24..31) # Passwrd({})

HwWrite(a, v) ==
    /\ latch' = IF a \in Banks("GPSET") THEN [latch EXCEPT ![BankOf("GPSET", a)] = @ \union v]
                ELSE IF a \in Banks("GPCLR") THEN [latch EXCEPT ![BankOf("GPCLR", a)] = @ \ v]
                ELSE latch
    /\ reg' = IF a \in Banks("GPSET") \union Banks("GPCLR") \/ Refused(a, v) THEN reg
              ELSE Put(a, Stored(a, v, Get(a)))
    /\ smi' = IF a = DirCs /\ DIRCS.START \subseteq v
              THEN <<[write |-> DIRCS.WRITE \subseteq v, a |-> Get(<<"smi", SMI.DIRADDR>>),
                      d |-> Get(<<"smi", SMI.DIRDATA>>)]>>
              ELSE smi

HwRead(a) == IF a \in Banks("GPLEV") THEN latch[BankOf("GPLEV", a)]
             ELSE IF a[1] = "pads" THEN Get(a) \intersect (0..4) ELSE Get(a)

SmiFinish ==
    /\ smi # <<>> /\ smi' = <<>>
    /\ LET done == One(DirCs, Get(DirCs) \union DIRCS.DONE)
       IN  IF smi[1].write
           THEN served' = <<smi[1].a, smi[1].d>> /\ reg' = Over(done, reg)
           ELSE served' = served /\ reg' = Over(done, Put(<<"smi", SMI.DIRDATA>>, Answer(smi[1].a)))
    /\ UNCHANGED <<mapped, fill, latch, call, calls, want, lost>>

\* The PWM clock stops some time after it is told to.
ClockStops ==
    LET a == <<"clk", PWMCLK.CNTL>>
    IN  /\ 4 \notin Get(a) /\ 7 \in Get(a)
        /\ reg' = Put(a, Get(a) \ {7})
        /\ UNCHANGED <<mapped, fill, latch, smi, served, call, calls, want, lost>>

\* An event on a pin sets its bit in GPEDS.  Bound: one event, while a call looks at the events.
Event(pin) ==
    /\ \A p \in Pins : Want(<<"GPEDS", p>>) = {}
    /\ \E c \in Callers : Running(c) /\ Head(call[c].prog).a \in Banks("GPEDS")
    /\ reg' = Put(Bank("GPEDS", pin), Get(Bank("GPEDS", pin)) \union Shift(pin))
    /\ want' = Over(One(<<"GPEDS", pin>>, {0}), want)
    /\ UNCHANGED <<mapped, fill, latch, smi, served, call, calls, lost>>

-----------------------------------------------------------------------------
(* The callers. *)

\* What a reading call should return: what its field was last set to, the device's answer.
Truth(r) ==
    CASE r[1] = "gpio_get_pud" -> Num(Want(<<"pull", r[2]>>), 0, 4)
      [] r[1] = "gpio_pad" -> Want(<<"pad", r[2]>>)
      [] r[1] = "gpio_lev" -> Want(<<"out", r[2]>>) = {0}
      [] r[1] = "gpio_eds" -> Want(<<"GPEDS", r[2]>>) = {0}
      [] r[1] = "gpio_eds_multi" -> {p \in r[2] : Want(<<"GPEDS", p>>) = {0}}
      [] r[1] = "smi_read" -> Answer(Bits(256 * r[2] + r[3], 0))

\* Where one bit is chosen, it is the one that the register did not hold at boot.
Flip == fill = {}

gpio_calls(c) ==
    \E pin \in Pins :
        \/ Call(c, "gpio_fsel", gpio_fsel(pin, IF Flip THEN FSEL.ALT5 ELSE FSEL.INPT))
        \/ \E on \in BOOLEAN : Call(c, "gpio_write", gpio_write(pin, on))
        \/ \E on \in BOOLEAN : Call(c, "gpio_pudclk", gpio_pudclk(pin, on))
        \/ \E r \in Detects : Call(c, "gpio_detect", gpio_detect(r, pin, Flip))
        \/ Call(c, "gpio_set_eds", gpio_set_eds(pin))
        \/ \E pud \in {PUD.DOWN, PUD.ERROR} : Call(c, "gpio_set_pud", gpio_set_pud(pin, pud))
        \/ Call(c, "gpio_get_pud", gpio_get_pud(pin))
        \/ Call(c, "gpio_lev", gpio_lev(pin))
        \/ Call(c, "gpio_eds", gpio_eds(pin))

Low == {p \in Pins : p < 32}

gpio_multi_calls(c) ==
    \/ \E on \in BOOLEAN : Call(c, "gpio_write_multi", gpio_write_multi(Low, on))
    \/ \E pin \in Low : Call(c, "gpio_write_mask", gpio_write_mask({pin}, Low))
    \/ Call(c, "gpio_set_eds_multi", gpio_set_eds_multi(Low))
    \/ Call(c, "gpio_eds_multi", gpio_eds_multi(Low))
    \/ Call(c, "gpio_pud", gpio_pud(PUD.UP))

bus_calls(c) ==
    \/ spi_end(c) \/ aux_spi_end(c) \/ i2c_end(c) \/ smi_end(c)
    \/ Call(c, "spi_setClockDivider", spi_setClockDivider(32768))
    \/ Call(c, "spi_setDataMode", spi_setDataMode(2)) \/ Call(c, "spi_chipSelect", spi_chipSelect(1))
    \/ \E cs \in 0..2 : Call(c, "spi_setChipSelectPolarity",
                            spi_setChipSelectPolarity(cs, IF Flip THEN 1 ELSE 0))
    \/ Call(c, "aux_spi_setClockDivider", aux_spi_setClockDivider(4000))
    \/ Call(c, "i2c_setSlaveAddress", i2c_setSlaveAddress(\h5A))
    \/ Call(c, "i2c_setClockDivider", i2c_setClockDivider(626))
    \/ \E hz \in Hz : \/ Call(c, "spi_set_speed_hz", spi_set_speed_hz(hz))
                      \/ Call(c, "aux_spi_speed", aux_spi_speed(hz))
                      \/ Call(c, "i2c_set_baudrate", i2c_set_baudrate(hz))

smi_calls(c) ==
    \/ \E channel \in {0, 3, 4} : \E read \in (IF channel = 3 THEN BOOLEAN ELSE {FALSE}) :
          Call(c, "smi_set_timing", smi_set_timing(channel, read, 63, 127, 1, 64))
    \/ \E channel \in {0, 3} : \/ Call(c, "smi_write", smi_write(channel, \hA5, 5))
                               \/ Call(c, "smi_read", smi_read(channel, \h2A))
    \/ Call(c, "smi_refused", smi_write(4, \hA5, 5)) \/ Call(c, "smi_refused", smi_read(4, 5))

\* The calls that look first whether their block is mapped.
guarded_calls(c) ==
    \/ \E group \in 0..2 : \/ Call(c, "gpio_set_pad", gpio_set_pad(group, 24 + group))
                           \/ Call(c, "gpio_pad", gpio_pad(group))
    \/ Call(c, "spi_begin", spi_begin) \/ Call(c, "aux_spi_begin", aux_spi_begin)
    \/ Call(c, "i2c_begin", i2c_begin) \/ Call(c, "smi_begin", smi_begin)
    \/ Call(c, "pwm_set_clock", pwm_set_clock(\h1010))
    \/ \E channel \in 0..2 :
          \/ \E bit \in 0..1 : Call(c, "pwm_set_mode", pwm_set_mode(channel, bit, 1 - bit))
          \/ Call(c, "pwm_set_range", pwm_set_range(channel, 1024))
          \/ Call(c, "pwm_set_data", pwm_set_data(channel, 5))

\* The next access of a program.
Step(c) ==
    LET p == call[c].prog
        o == Head(p)
        Continue(rest) == call' = [call EXCEPT ![c].prog = rest]
        Written == /\ want' = Over([f \in DOMAIN o.set \intersect (Fields \union Speeds) |->
                                     IF f \in Speeds THEN o.set[f] ELSE Bits(o.set[f], 0)], want)
                   /\ HwWrite(o.a, o.v)
    IN  /\ p # <<>>
        /\ \/ /\ o.op = "write" /\ Written /\ Continue(Tail(p))
              /\ lost' = lost \ DOMAIN o.set
           \/ /\ o.op = "read"
              /\ Continue(<<[o EXCEPT !.op = "back", !.v = (Get(o.a) \ o.clear) \union o.v,
                                      !.clear = Get(o.a)]>> \o Tail(p))
              /\ UNCHANGED <<reg, latch, smi, want, lost>>
           \/ /\ o.op = "back" /\ Written /\ Continue(Tail(p))
              /\ lost' = (lost \ DOMAIN o.set) \union
                   {f \in Fields \ DOMAIN o.set :
                       FieldOf[f].a = o.a /\ Decode(f, o.clear) # Value(f)}
           \/ /\ o.op = "await" /\ (o.v \subseteq Get(o.a)) = o.clear /\ Continue(Tail(p))
              /\ UNCHANGED <<reg, latch, smi, want, lost>>
           \/ /\ o.op = "test"
              /\ Continue(IF o.v \subseteq Get(o.a) THEN Tail(p) ELSE Tail(Tail(p)))
              /\ UNCHANGED <<reg, latch, smi, want, lost>>
           \/ /\ o.op = "fetch"
              /\ call' = [call EXCEPT ![c].prog = Tail(p), ![c].ret = Result(o.v, HwRead(o.a)),
                                      ![c].truth = Truth(o.v), ![c].alone = @ /\ lost = {}]
              /\ UNCHANGED <<reg, latch, smi, want, lost>>
        /\ UNCHANGED <<mapped, fill, served, calls>>

Init ==
    /\ fill \in {{}, Word32} /\ reg = One(<<"lib", "pud_compat_setting">>, Bits(PUD.OFF, 0))
    /\ latch = [b \in 0..1 |-> fill] /\ smi = <<>> /\ served = <<{}, {}>>
    /\ call = [c \in Callers |-> Idle] /\ calls = 0 /\ lost = {}
    /\ want = [f \in Speeds |-> 0] /\ mapped \in BOOLEAN

Next ==
    \/ \E c \in Callers :
          \/ Ready(c) /\ guarded_calls(c)
          \/ Ready(c) /\ mapped /\ (gpio_calls(c) \/ gpio_multi_calls(c) \/ bus_calls(c) \/ smi_calls(c))
          \/ Step(c)
    \/ SmiFinish \/ ClockStops \/ \E pin \in Pins : Event(pin)

Symmetry == Permutations(Callers)

Spec == Init /\ [][Next]_vars

-----------------------------------------------------------------------------
(* Properties. *)

TypeOK ==
    /\ mapped \in BOOLEAN /\ fill \in {{}, Word32} /\ calls \in 0..MaxCalls /\ lost \subseteq Fields
    /\ \A a \in DOMAIN reg : reg[a] \subseteq Word32
    /\ latch \in [0..1 -> SUBSET Word32] /\ Len(smi) <= 1
    /\ \A c \in Callers : \A i \in DOMAIN call[c].prog :
          call[c].prog[i].op \in {"write", "await", "test", "fetch"} \union
                                 (IF i = 1 THEN {"read", "back"} ELSE {"read"})

(* Every field of every register holds what it was last set to: no call    *)
(* reaches into the fields of its neighbours, acknowledging one pin's      *)
(* event keeps the others', and no update is lost unless a set_bits of     *)
(* another field read the register before the update and wrote it back     *)
(* after.  No register is touched while the blocks are not mapped.         *)
ConfigExact ==
    /\ ~mapped => \A c \in Callers : ~Running(c)
    /\ \A f \in Fields : \/ f \in lost \/ Value(f) = Want(f)
                         \/ f \notin DOMAIN want /\ FieldOf[f].a \notin DOMAIN reg /\ f[1] # "out"

(* An update is only ever lost in a register that set_bits shares between  *)
(* fields; outputs, acknowledged events, pads and clock dividers, which    *)
(* are set by single writes, are safe from every interleaving.             *)
SingleWritesSafe ==
    \A f \in lost : f[1] \in {"fsel", "pull", "spi_cs", "spi_mode", "cspol", "smi", "pwm_ms", "pwm_en"}
                             \union Detects

(* A call that reads returns what the field was last set to, if no update *)
(* was lost before it read; smi_read returns what the device answered to   *)
(* its own address, and smi_write returns when the device has its data, if *)
(* the bus was free and no other transfer was begun meanwhile: a done bit  *)
(* that an earlier transfer left must not end the wait.                    *)
ResultsExact ==
    \A c \in Callers : mapped /\ call[c].prog = <<>> /\ call[c].alone =>
        /\ call[c].name \in Reads => call[c].ret = call[c].truth
        /\ call[c].name = "smi_write" =>
              served[2] = Bits(\hA5, 0) /\ served[1] \ {8, 9} = Bits(5, 0)

\* The registers and the library hold the divider d for a bus.
Divides(bus, d) == Value(<<bus, "div">>) = Bits(d, 0)

\* Dividers have 16 bits; the slowest speeds that the even ones and those of the auxiliary SPI reach.
MaxDivider  == 65535
SlowestEven == 3815
SlowestAux  == 30518

(* A speed asked for in Hz, from the slowest the divider has room for to   *)
(* half the core clock, becomes the even divider next to it (SPI0, I2C:    *)
(* not slower than asked, and the next even divider would be), or the      *)
(* fastest clock that is not faster than asked (auxiliary SPI).            *)
SpeedKept ==
    /\ \A bus \in {"spi0", "bsc1"} :
          LET hz == want[<<bus, "hz">>] IN hz \in SlowestEven..(CORE_CLK_HZ \div 2) =>
              \E d \in {(CORE_CLK_HZ \div hz) - 1, CORE_CLK_HZ \div hz} :
                  /\ Divides(bus, d) /\ d \in 1..MaxDivider /\ d % 2 = 0
                  /\ d * hz <= CORE_CLK_HZ /\ (d + 2) * hz > CORE_CLK_HZ
    /\ LET hz == want[<<"spi1", "hz">>] IN hz \in SlowestAux..(CORE_CLK_HZ \div 2) =>
          \E d \in {CORE_CLK_HZ \div (2 * hz) - 1, CORE_CLK_HZ \div (2 * hz)} :
              /\ Divides("spi1", d) /\ d \in 0..MaxDivider
              /\ 2 * hz * (d + 1) >= CORE_CLK_HZ /\ 2 * hz * d < CORE_CLK_HZ

=============================================================================
