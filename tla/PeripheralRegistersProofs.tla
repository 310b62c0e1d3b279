---------------------- MODULE PeripheralRegistersProofs ----------------------
(***************************************************************************)
(* Proofs about PeripheralRegisters, for any callers, pins, speeds and     *)
(* number of calls.                                                        *)
(*                                                                         *)
(* An access is in order ("Access") when what it writes gives each field   *)
(* that it sets its value: a plain write sets all the fields of its word,  *)
(* a set_bits keeps clear of the other fields and writes them back as it   *)
(* read them, in a register that set_bits may share.  A program is "Fresh" *)
(* when all its accesses are in order and none is a write-back yet: every  *)
(* call of the library begins such a program.  A step then keeps Inv:      *)
(* fields hold what they were set to unless they are in lost, and dividers *)
(* belong to speeds.                                                       *)
(*                                                                         *)
(* For the results, ResultsHold follows each SMI transfer through its      *)
(* seven accesses; all other programs keep off the registers it uses.      *)
(***************************************************************************)
EXTENDS PeripheralRegisters, TLAPS

(* Where the fields are. *)

\* The registers that have one bit per pin.
LEMMA GpioNames == DOMAIN GPIO = {"GPSET", "GPCLR", "GPLEV", "GPEDS", "GPREN", "GPFEN", "GPHEN",
                                  "GPLEN", "GPAREN", "GPAFEN"}
  BY DEF GPIO

\* The parts of a place.
LEMMA AtParts == ASSUME NEW b, NEW w, NEW lo, NEW n
                 PROVE  At(b, w, lo, n).a = <<b, w>> /\ At(b, w, lo, n).lo = lo /\ At(b, w, lo, n).n = n
  BY DEF At

\* The arms of Field.
LEMMA FieldArms ==
    ASSUME NEW f
    PROVE  /\ f[1] = "out" => Field(f) = At("latch", f[2] \div 32, f[2] % 32, 1)
           /\ f[1] = "fsel" => Field(f) = At("gpio", GPFSEL[f[2] \div 10 + 1] \div 4, (f[2] % 10) * 3, 3)
           /\ f[1] \in DOMAIN GPIO => Field(f) = At("gpio", GPIO[f[1]][f[2] \div 32 + 1] \div 4, f[2] % 32, 1)
           /\ f[1] = "pull" => Field(f) = At("gpio", GPPUPPDN[f[2] \div 16 + 1] \div 4, (f[2] % 16) * 2, 2)
           /\ f[1] = "pad" => Field(f) = At("pads", PADS_GPIO[f[2] + 1] \div 4, 0, 5)
           /\ f[1] = "spi_cs" => Field(f) = At("spi0", 0, 0, 2)
           /\ f[1] = "spi_mode" => Field(f) = At("spi0", 0, 2, 2)
           /\ f[1] = "cspol" => Field(f) = At("spi0", 0, 21 + f[2], 1)
           /\ f[1] = "spi0" => Field(f) = At("spi0", 2, 0, 16)
           /\ f[1] = "spi1" => Field(f) = At("lib", "spi1_speed", 0, 16)
           /\ f[1] = "bsc1" => Field(f) = At("bsc1", 5, 0, 16)
           /\ f[1] = "aux_enable" => Field(f) = At("aux", 1, 0, 3)
           /\ f[1] = "i2c_addr" => Field(f) = At("bsc1", 3, 0, 7)
           /\ f[1] = "smi_clk_div" => Field(f) = At("clk", 45, 12, 12)
           /\ f[1] = "pwm_clk_div" => Field(f) = At("clk", 41, 12, 12)
           /\ f[1] = "pwm_ms" => Field(f) = At("pwm", 0, 7 + 8 * f[2], 1)
           /\ f[1] = "pwm_en" => Field(f) = At("pwm", 0, 8 * f[2], 1)
           /\ f[1] = "pwm_range" => Field(f) = At("pwm", 4 + 4 * f[2], 0, 16)
           /\ f[1] = "pwm_data" => Field(f) = At("pwm", 5 + 4 * f[2], 0, 16)
  BY GpioNames DEF Field

\* The last arm: the slots of the SMI bus.
LEMMA SmiArm ==
    ASSUME NEW f, f[1] = "smi"
    PROVE  /\ Field(f).a = <<"smi", 4 + 2 * f[2] + (IF f[3] THEN 0 ELSE 1)>>
           /\ f[4] = "setup" => Field(f).lo = 24 /\ Field(f).n = 6
           /\ f[4] = "hold" => Field(f).lo = 16 /\ Field(f).n = 6
           /\ f[4] = "pace" => Field(f).lo = 8 /\ Field(f).n = 7
           /\ f[4] = "strobe" => Field(f).lo = 0 /\ Field(f).n = 7
<1>1. "smi" \notin DOMAIN GPIO
  BY GpioNames
<1>2. Field(f) = At("smi", 4 + 2 * f[2] + (IF f[3] THEN 0 ELSE 1),
                    CASE f[4] = "setup" -> 24 [] f[4] = "hold" -> 16
                      [] f[4] = "pace" -> 8 [] f[4] = "strobe" -> 0,
                    IF f[4] \in {"setup", "hold"} THEN 6 ELSE 7)
  BY <1>1 DEF Field
<1> QED
  BY <1>2 DEF At

Events == Detects \cup {"GPEDS"}
Parts == {"setup", "strobe", "hold", "pace"}

\* What a field is named.
LEMMA Shapes ==
    ASSUME NEW f \in Fields
    PROVE  \/ f \in Singles
           \/ f = <<f[1], f[2]>> /\ f[1] \in {"out", "fsel", "pull"} \cup Events /\ f[2] \in Pins
           \/ f = <<f[1], f[2]>> /\ f[1] \in {"pad", "cspol"} /\ f[2] \in 0..2
           \/ f = <<f[1], f[2]>> /\ f[1] \in {"spi0", "spi1", "bsc1"} /\ f[2] = "div"
           \/ f = <<f[1], f[2]>> /\ f[1] \in {"pwm_ms", "pwm_en", "pwm_range", "pwm_data"} /\ f[2] \in 0..1
           \/ f = <<"smi", f[2], f[3], f[4]>> /\ f[2] \in 0..3 /\ f[3] \in BOOLEAN /\ f[4] \in Parts
<1>1. Events = DOMAIN GPIO \ {"GPSET", "GPCLR", "GPLEV"}
  BY GpioNames DEF Events, Detects
<1> HIDE DEF Events
<1> QED
  BY <1>1 DEF Fields, Parts

\* The word of the first bank of a kind of register; the second follows it.
LEMMA BankWords ==
    /\ GPIO["GPSET"][1] \div 4 = 7 /\ GPIO["GPCLR"][1] \div 4 = 10 /\ GPIO["GPLEV"][1] \div 4 = 13
    /\ GPIO["GPEDS"][1] \div 4 = 16 /\ GPIO["GPREN"][1] \div 4 = 19 /\ GPIO["GPFEN"][1] \div 4 = 22
    /\ GPIO["GPHEN"][1] \div 4 = 25 /\ GPIO["GPLEN"][1] \div 4 = 28 /\ GPIO["GPAREN"][1] \div 4 = 31
    /\ GPIO["GPAFEN"][1] \div 4 = 34
    /\ \A r \in DOMAIN GPIO : GPIO[r][2] \div 4 = GPIO[r][1] \div 4 + 1
<1>1. \A r \in DOMAIN GPIO : GPIO[r][2] \div 4 = GPIO[r][1] \div 4 + 1
  BY GpioNames DEF GPIO
<1> QED
  BY <1>1 DEF GPIO

\* A pin is in one of two banks of 32.
LEMMA PinBank == ASSUME NEW p \in Pins
                 PROVE  /\ p \in Int /\ 0 <= p /\ p <= 53
                        /\ (p \div 32 = 0 /\ p % 32 = p) \/ (p \div 32 = 1 /\ p % 32 = p - 32)
<1>1. p \in Int /\ 0 <= p /\ p <= 53
  BY RegistersAssumption
<1> QED
  BY <1>1

\* The fields of the GPIO registers.
LEMMA GpioBlock ==
    ASSUME NEW f \in Fields, NEW w, FieldOf[f].a = <<"gpio", w>>
    PROVE  /\ f = <<f[1], f[2]>> /\ f[2] \in Pins
           /\ \/ f[1] = "fsel" /\ FieldOf[f] = At("gpio", f[2] \div 10, (f[2] % 10) * 3, 3)
              \/ f[1] \in Events /\ FieldOf[f] = At("gpio", GPIO[f[1]][1] \div 4 + f[2] \div 32, f[2] % 32, 1)
              \/ f[1] = "pull" /\ FieldOf[f] = At("gpio", 57 + f[2] \div 16, (f[2] % 16) * 2, 2)
<1>1. FieldOf[f] = Field(f)
  BY DEF FieldOf
<1>2. f[1] \in {"fsel", "pull"} \cup Events /\ f = <<f[1], f[2]>> /\ f[2] \in Pins
  BY <1>1, FieldArms, SmiArm, Shapes DEF At, Singles
<1>3. CASE f[1] = "fsel"
  <2>1. f[2] \div 10 \in 0..5
    BY <1>2, PinBank
  <2>2. GPFSEL[f[2] \div 10 + 1] \div 4 = f[2] \div 10
    BY <2>1 DEF GPFSEL
  <2> QED
    BY <1>1, <1>2, <1>3, <2>2, FieldArms
<1>4. CASE f[1] \in Events
  <2>1. f[1] \in DOMAIN GPIO
    BY <1>4, GpioNames DEF Events, Detects
  <2>2. f[2] \div 32 = 0 \/ f[2] \div 32 = 1
    BY <1>2, PinBank
  <2>3. GPIO[f[1]][f[2] \div 32 + 1] \div 4 = GPIO[f[1]][1] \div 4 + f[2] \div 32
    <3>1. CASE f[2] \div 32 = 0
      BY <2>1, <3>1, BankWords, GpioNames
    <3>2. CASE f[2] \div 32 = 1
      BY <2>1, <3>2, BankWords
    <3> QED
      BY <2>2, <3>1, <3>2
  <2> QED
    BY <1>1, <1>2, <1>4, <2>1, <2>3, FieldArms
<1>5. CASE f[1] = "pull"
  <2>1. f[2] \div 16 \in 0..3
    BY <1>2, PinBank
  <2>2. GPPUPPDN[f[2] \div 16 + 1] \div 4 = 57 + f[2] \div 16
    BY <2>1 DEF GPPUPPDN
  <2> QED
    BY <1>1, <1>2, <1>5, <2>2, FieldArms
<1> QED
  BY <1>2, <1>3, <1>4, <1>5

\* The other blocks that have fields.
LEMMA OtherBlocks ==
    ASSUME NEW f \in Fields
    PROVE  LET F == FieldOf[f] IN
           /\ F.a[1] = "latch" => f = <<"out", f[2]>> /\ f[2] \in Pins /\ F = At("latch", f[2] \div 32, f[2] % 32, 1)
           /\ F.a[1] = "pads" => f = <<"pad", f[2]>> /\ f[2] \in 0..2 /\ F = At("pads", 11 + f[2], 0, 5)
           /\ F.a[1] = "spi0" => \/ f = <<"spi_cs">> /\ F = At("spi0", 0, 0, 2)
                                 \/ f = <<"spi_mode">> /\ F = At("spi0", 0, 2, 2)
                                 \/ f = <<"cspol", f[2]>> /\ f[2] \in 0..2 /\ F = At("spi0", 0, 21 + f[2], 1)
                                 \/ f = <<"spi0", "div">> /\ F = At("spi0", 2, 0, 16)
           /\ F.a[1] = "lib" => f = <<"spi1", "div">> /\ F = At("lib", "spi1_speed", 0, 16)
           /\ F.a[1] = "bsc1" => \/ f = <<"bsc1", "div">> /\ F = At("bsc1", 5, 0, 16)
                                 \/ f = <<"i2c_addr">> /\ F = At("bsc1", 3, 0, 7)
           /\ F.a[1] = "aux" => f = <<"aux_enable">> /\ F = At("aux", 1, 0, 3)
           /\ F.a[1] = "clk" => \/ f = <<"smi_clk_div">> /\ F = At("clk", 45, 12, 12)
                                \/ f = <<"pwm_clk_div">> /\ F = At("clk", 41, 12, 12)
<1>1. FieldOf[f] = Field(f)
  BY DEF FieldOf
<1>2. \A g \in 0..2 : PADS_GPIO[g + 1] \div 4 = 11 + g
  BY DEF PADS_GPIO
<1>3. Events \subseteq DOMAIN GPIO
  BY GpioNames DEF Events, Detects
<1> QED
  BY <1>1, <1>2, <1>3, FieldArms, SmiArm, Shapes DEF At, Singles

\* The fields of the PWM block and where they are.
LEMMA PwmBlock ==
    ASSUME NEW f \in Fields, FieldOf[f].a[1] = "pwm"
    PROVE  /\ f = <<f[1], f[2]>> /\ (f[2] = 0 \/ f[2] = 1)
           /\ \/ f[1] = "pwm_ms" /\ FieldOf[f] = At("pwm", 0, 7 + 8 * f[2], 1)
              \/ f[1] = "pwm_en" /\ FieldOf[f] = At("pwm", 0, 8 * f[2], 1)
              \/ f[1] = "pwm_range" /\ FieldOf[f] = At("pwm", 4 + 4 * f[2], 0, 16)
              \/ f[1] = "pwm_data" /\ FieldOf[f] = At("pwm", 5 + 4 * f[2], 0, 16)
<1>1. FieldOf[f] = Field(f)
  BY DEF FieldOf
<1>2. Events \subseteq DOMAIN GPIO
  BY GpioNames DEF Events, Detects
<1> QED
  BY <1>1, <1>2, FieldArms, SmiArm, Shapes DEF At, Singles

\* The fields of the SMI block and where they are: one slot per channel and direction.
LEMMA SmiBlock ==
    ASSUME NEW f \in Fields, FieldOf[f].a[1] = "smi"
    PROVE  /\ f = <<"smi", f[2], f[3], f[4]>> /\ f[2] \in 0..3 /\ f[3] \in BOOLEAN /\ f[4] \in Parts
           /\ FieldOf[f].a = <<"smi", 4 + 2 * f[2] + (IF f[3] THEN 0 ELSE 1)>>
           /\ f[4] = "setup" => FieldOf[f].lo = 24 /\ FieldOf[f].n = 6
           /\ f[4] = "hold" => FieldOf[f].lo = 16 /\ FieldOf[f].n = 6
           /\ f[4] = "pace" => FieldOf[f].lo = 8 /\ FieldOf[f].n = 7
           /\ f[4] = "strobe" => FieldOf[f].lo = 0 /\ FieldOf[f].n = 7
<1>1. FieldOf[f] = Field(f)
  BY DEF FieldOf
<1>2. Events \subseteq DOMAIN GPIO
  BY GpioNames DEF Events, Detects
<1>3. f = <<"smi", f[2], f[3], f[4]>> /\ f[2] \in 0..3 /\ f[3] \in BOOLEAN /\ f[4] \in Parts
  BY <1>1, <1>2, FieldArms, Shapes DEF At, Singles
<1>4. f[1] = "smi"
  BY <1>3
<1> QED
  BY <1>1, <1>3, <1>4, SmiArm

\* The blocks of all fields.
LEMMA Blocks ==
    ASSUME NEW f \in Fields
    PROVE  /\ FieldOf[f].a = <<FieldOf[f].a[1], FieldOf[f].a[2]>>
           /\ FieldOf[f].a[1] \in {"latch", "gpio", "pads", "spi0", "lib", "bsc1", "aux", "clk", "smi", "pwm"}
           /\ FieldOf[f].a[1] = "latch" <=> f[1] = "out"
           /\ FieldOf[f].lo \in Int /\ FieldOf[f].n \in Int
<1>1. FieldOf[f] = Field(f)
  BY DEF FieldOf
<1>2. Events \subseteq DOMAIN GPIO
  BY GpioNames DEF Events, Detects
<1>3. \A p \in Pins : p % 32 \in Int /\ (p % 10) * 3 \in Int /\ (p % 16) * 2 \in Int
  BY RegistersAssumption
<1> QED
  BY <1>1, <1>2, <1>3, FieldArms, SmiArm, Shapes, GpioNames DEF At, Singles, Parts

-----------------------------------------------------------------------------
(* Bits, and what a field makes of them. *)

\* Powers of two, as far as Bits looks.
Pow(j) == 2^j

\* The powers of two that a divider of 18 bits needs.
LEMMA Powers ==
    /\ Pow(0) = 1 /\ Pow(1) = 2 /\ Pow(2) = 4 /\ Pow(3) = 8 /\ Pow(4) = 16 /\ Pow(5) = 32 /\ Pow(6) = 64 /\ Pow(7) = 128
    /\ Pow(8) = 256 /\ Pow(9) = 512 /\ Pow(10) = 1024 /\ Pow(11) = 2048 /\ Pow(12) = 4096 /\ Pow(13) = 8192
    /\ Pow(14) = 16384 /\ Pow(15) = 32768 /\ Pow(16) = 65536 /\ Pow(17) = 131072
  BY DEF Pow

Odd(n, j) == (n \div Pow(j)) % 2 = 1

\* The bits of a number, by the bits that are odd.
LEMMA BitsAre == ASSUME NEW n, NEW s PROVE Bits(n, s) = {s + i : i \in {j \in 0..17 : Odd(n, j)}}
  BY DEF Bits, Odd, Pow

\* A number below a power of two has no bits from there on.
LEMMA OddBelow ==
    ASSUME NEW n \in Nat, NEW k \in 0..17, NEW j \in 0..17, n < Pow(k), k <= j
    PROVE  ~Odd(n, j)
<1>1. \A x \in 0..17 : Pow(x) \in Nat /\ Pow(x) > 0
  BY Powers
<1>2. \A x \in 0..17 : \A y \in 0..17 : x <= y => Pow(x) <= Pow(y)
  BY Powers
<1> DEFINE d == Pow(j)
<1>3. d \in Nat /\ n < d
  BY <1>1, <1>2
<1> HIDE DEF d
<1>4. n \div d = 0
  BY <1>3
<1> QED
  BY <1>4 DEF Odd, d

\* The bits of small numbers.
LEMMA OddSmall ==
    ASSUME NEW j \in 0..17
    PROVE  /\ ~Odd(0, j) /\ (Odd(1, j) <=> j = 0) /\ (Odd(2, j) <=> j = 1) /\ (Odd(4, j) <=> j = 2)
           /\ Odd(3, j) <=> j \in {0, 1}
           /\ Odd(5, j) <=> j \in {0, 2}
           /\ Odd(7, j) <=> j \in {0, 1, 2}
<1>1. \A n \in {0, 1, 2, 3, 4, 5, 7} : 3 <= j => ~Odd(n, j)
  BY OddBelow, Powers
<1>2. /\ ~Odd(0, 0) /\ Odd(1, 0) /\ ~Odd(2, 0) /\ Odd(3, 0) /\ ~Odd(4, 0) /\ Odd(5, 0) /\ Odd(7, 0)
      /\ ~Odd(0, 1) /\ ~Odd(1, 1) /\ Odd(2, 1) /\ Odd(3, 1) /\ ~Odd(4, 1) /\ ~Odd(5, 1) /\ Odd(7, 1)
      /\ ~Odd(0, 2) /\ ~Odd(1, 2) /\ ~Odd(2, 2) /\ ~Odd(3, 2) /\ Odd(4, 2) /\ Odd(5, 2) /\ Odd(7, 2)
  BY Powers DEF Odd
<1>3. j = 0 \/ j = 1 \/ j = 2 \/ 3 <= j
  OBVIOUS
<1> QED
  BY <1>1, <1>2, <1>3

\* Moving the bits of a number moves every one of them.
LEMMA BitsMoved == ASSUME NEW n, NEW s \in Int PROVE Bits(n, s) = {s + i : i \in Bits(n, 0)}
<1>1. Bits(n, 0) = {j \in 0..17 : Odd(n, j)}
  BY BitsAre
<1> QED
  BY <1>1, BitsAre

\* The bits of the small codes.
LEMMA BitsSmall ==
    ASSUME NEW s \in Int
    PROVE  /\ Bits(0, s) = {} /\ Bits(1, s) = {s} /\ Bits(2, s) = {s + 1} /\ Bits(4, s) = {s + 2}
           /\ Bits(3, s) = {s, s + 1} /\ Bits(5, s) = {s, s + 2} /\ Bits(7, s) = {s, s + 1, s + 2}
<1> HIDE DEF Odd
<1>1. Bits(0, s) = {}
  BY BitsAre, OddSmall
<1>2. Bits(1, s) = {s}
  BY BitsAre, OddSmall
<1>3. Bits(2, s) = {s + 1}
  BY BitsAre, OddSmall
<1>4. Bits(4, s) = {s + 2}
  BY BitsAre, OddSmall
<1>5. Bits(3, s) = {s, s + 1}
  BY BitsAre, OddSmall
<1>6. Bits(5, s) = {s, s + 2}
  BY BitsAre, OddSmall
<1>7. Bits(7, s) = {s, s + 1, s + 2}
  BY BitsAre, OddSmall
<1> QED
  BY <1>1, <1>2, <1>3, <1>4, <1>5, <1>6, <1>7

Span(f) == FieldOf[f].lo..(FieldOf[f].lo + FieldOf[f].n - 1)

\* What a register holds in the span of f when f is set to val.
Code(f, val) == Bits(IF f[1] = "pull" THEN Pull(val) ELSE val, FieldOf[f].lo)

\* A field depends on the bits of its span only.
LEMMA DecodeLocal ==
    ASSUME NEW f, NEW v, NEW w, v \cap Span(f) = w \cap Span(f)
    PROVE  Decode(f, v) = Decode(f, w)
  BY DEF Decode, Span

\* A field that holds the code of a value is read as that value.
LEMMA DecodeCode ==
    ASSUME NEW f \in Fields, NEW v, NEW val, v \cap Span(f) = Code(f, val), f[1] = "pull" => val \in {0, 1, 2}
    PROVE  Decode(f, v) = Bits(val, 0)
<1> DEFINE lo == FieldOf[f].lo
           bits == {i - lo : i \in v \cap Span(f)}
           n == IF f[1] = "pull" THEN Pull(val) ELSE val
<1>1. lo \in Int
  BY Blocks
<1>2. Decode(f, v) = IF f[1] = "pull" THEN Bits(PullCode(bits), 0) ELSE bits
  BY DEF Decode, Span
<1>3. bits = {i - lo : i \in Bits(n, lo)}
  BY DEF Code
<1>4. Bits(n, lo) = {lo + i : i \in Bits(n, 0)} /\ \A i \in Bits(n, 0) : i \in Int
  BY <1>1, BitsMoved, BitsAre
<1> HIDE DEF lo, bits, n
<1>5. bits = Bits(n, 0)
  <2>1. \A i \in Bits(n, 0) : (lo + i) - lo = i
    BY <1>1, <1>4
  <2> QED
    BY <1>3, <1>4, <2>1
<1>6. CASE f[1] # "pull"
  BY <1>2, <1>5, <1>6 DEF n
<1>7. CASE f[1] = "pull"
  <2>1. val \in {0, 1, 2} /\ n = Pull(val)
    BY <1>7 DEF n
  <2>2. /\ val = 0 => bits = {}
        /\ val = 1 => bits = {1}
        /\ val = 2 => bits = {0}
    BY <2>1, <1>5, BitsSmall DEF Pull, PUD
  <2>3. PullCode({}) = 0 /\ PullCode({0}) = 2 /\ PullCode({1}) = 1
    BY DEF PullCode, PUD
  <2> QED
    BY <1>2, <1>7, <2>1, <2>2, <2>3
<1> QED
  BY <1>6, <1>7

-----------------------------------------------------------------------------
(* What the accesses of the calls' programs have in common. *)

Latches == Banks("GPSET") \cup Banks("GPCLR")
Acks == Banks("GPEDS")

\* Kinds of fields that share their register with others and are set by set_bits.
SharedKinds == {"fsel", "pull", "spi_cs", "spi_mode", "cspol", "smi", "pwm_ms", "pwm_en"} \union Detects

\* A register that may be read, changed and written back.
Sharable(a) ==
    /\ a \notin Latches \cup Acks /\ a[1] \notin {"pads", "clk"} /\ a # DirCs
    /\ \A f \in Fields : FieldOf[f].a = a => f[1] \in SharedKinds

\* Every field of the register is cleared and gets its code, or is kept clear of.
Exact(o) ==
    \A f \in Fields : FieldOf[f].a = o.a =>
        IF f \in DOMAIN o.set
        THEN /\ Span(f) \subseteq o.clear /\ o.v \cap Span(f) = Code(f, o.set[f])
             /\ f[1] = "pull" => o.set[f] \in {0, 1, 2}
        ELSE Span(f) \cap (o.clear \cup o.v) = {}

\* Every field of the register gets its code, or what it had when it was read.
Kept(o) ==
    \A f \in Fields : FieldOf[f].a = o.a =>
        IF f \in DOMAIN o.set
        THEN o.v \cap Span(f) = Code(f, o.set[f]) /\ (f[1] = "pull" => o.set[f] \in {0, 1, 2})
        ELSE o.v \cap Span(f) = o.clear \cap Span(f)

\* The outputs that are set are those whose bits are written.
Drives(o) ==
    \A p \in Pins :
        /\ <<"out", p>> \in DOMAIN o.set <=> p % 32 \in o.v /\ o.a \in {Bank("GPSET", p), Bank("GPCLR", p)}
        /\ <<"out", p>> \in DOMAIN o.set => o.set[<<"out", p>>] = IF o.a \in Banks("GPSET") THEN 1 ELSE 0

\* The events that are acknowledged are those whose bits are written.
Acknowledges(o) ==
    \A f \in Fields : FieldOf[f].a = o.a =>
        /\ f \in DOMAIN o.set <=> FieldOf[f].lo \in o.v
        /\ f \in DOMAIN o.set => o.set[f] = 0

\* An access sets fields of its own register, or outputs through the set and clear registers.
Own(o) == \A f \in Fields \cap DOMAIN o.set : IF f[1] = "out" THEN o.a \in Latches ELSE FieldOf[f].a = o.a

\* No set_bits shares the output latches.
LEMMA NotShared == "out" \notin SharedKinds
  BY GpioNames DEF SharedKinds, Detects

Buses == {"spi0", "spi1", "bsc1"}
Divisor(bus, hz) == IF bus = "spi1" THEN aux_spi_CalcClockDivider(hz) ELSE EvenDivider(hz)

\* A divider is set together with the speed that it stands for.
Timed(o) ==
    \A bus \in Buses :
        /\ <<bus, "hz">> \in DOMAIN o.set <=> <<bus, "div">> \in DOMAIN o.set
        /\ <<bus, "hz">> \in DOMAIN o.set =>
              \/ o.set[<<bus, "hz">>] = 0
              \/ o.set[<<bus, "hz">>] \in Nat \ {0} /\ o.set[<<bus, "div">>] = Divisor(bus, o.set[<<bus, "hz">>])

Sets(o) == o.v \subseteq Word32 /\ Own(o) /\ Timed(o)

Writes(o) ==
    /\ Sets(o) /\ ~Refused(o.a, o.v)
    /\ o.a \in Latches => Drives(o)
    /\ o.a \in Acks => Acknowledges(o)
    /\ o.a \notin Latches \cup Acks => Exact(o) /\ \A f \in Fields : FieldOf[f].a = o.a => f \in DOMAIN o.set

Access(o) ==
    /\ o = [op |-> o.op, a |-> o.a, v |-> o.v, clear |-> o.clear, set |-> o.set]
    /\ \/ o.op = "write" /\ Writes(o)
       \/ o.op = "read" /\ Sets(o) /\ Sharable(o.a) /\ Exact(o)
       \/ o.op = "back" /\ Sets(o) /\ Sharable(o.a) /\ Kept(o) /\ o.clear \subseteq Word32
       \/ o.op \in {"await", "test", "fetch"}

\* A program that has not begun.
Fresh(p) ==
    /\ p \in Seq({p[i] : i \in DOMAIN p})
    /\ \A i \in DOMAIN p : Access(p[i]) /\ p[i].op # "back" /\ (p[i].op = "test" => i < Len(p))

\* The rest of a program.
IsProg(p) ==
    /\ p \in Seq({p[i] : i \in DOMAIN p})
    /\ p # <<>> => Access(Head(p)) /\ Fresh(Tail(p)) /\ (Head(p).op = "test" => Tail(p) # <<>>)

\* A function on 1..n is a sequence.
LEMMA FunctionIsSeq == ASSUME NEW n \in Nat, NEW S, NEW p \in [1..n -> S] PROVE p \in Seq(S)
  OBVIOUS

\* The empty program: a call that refuses its arguments.
LEMMA FreshNone == Fresh(<<>>)
  BY DEF Fresh

\* A program of one access.
LEMMA FreshOne == ASSUME NEW x, Access(x), x.op \notin {"back", "test"} PROVE Fresh(<<x>>)
<1>1. DOMAIN <<x>> = 1..1 /\ <<x>>[1] = x /\ Len(<<x>>) = 1
  OBVIOUS
<1>2. <<x>> \in Seq({<<x>>[i] : i \in DOMAIN <<x>>})
  OBVIOUS
<1> QED
  BY <1>1, <1>2 DEF Fresh

\* A program given access by access.
LEMMA FreshList ==
    ASSUME NEW n \in Nat, NEW S, NEW p \in [1..n -> S],
           \A i \in 1..n : Access(p[i]) /\ p[i].op # "back" /\ (p[i].op = "test" => i < n)
    PROVE  Fresh(p)
<1>1. DOMAIN p = 1..n
  OBVIOUS
<1>2. p \in [1..n -> {p[i] : i \in DOMAIN p}]
  BY <1>1
<1>3. p \in Seq({p[i] : i \in DOMAIN p})
  BY <1>2, FunctionIsSeq
<1>4. Len(p) = n
  BY <1>1, <1>3
<1> QED
  BY <1>1, <1>3, <1>4 DEF Fresh

\* Short programs.
LEMMA FreshTwo ==
    ASSUME NEW x, Access(x), x.op # "back", NEW y, Access(y), y.op \notin {"back", "test"}
    PROVE  Fresh(<<x, y>>)
<1> DEFINE p == <<x, y>>
<1>1. p \in [1..2 -> {x, y}] /\ p[1] = x /\ p[2] = y
  OBVIOUS
<1> HIDE DEF p
<1>2. \A i \in 1..2 : Access(p[i]) /\ p[i].op # "back" /\ (p[i].op = "test" => i < 2)
  BY <1>1
<1>3. Fresh(p)
  BY <1>1, <1>2, FreshList
<1> QED
  BY <1>3 DEF p

\* A program of three accesses.
LEMMA FreshThree ==
    ASSUME NEW x, Access(x), x.op # "back", NEW y, Access(y), y.op # "back",
           NEW z, Access(z), z.op \notin {"back", "test"}
    PROVE  Fresh(<<x, y, z>>)
<1> DEFINE p == <<x, y, z>>
<1>1. p \in [1..3 -> {x, y, z}] /\ p[1] = x /\ p[2] = y /\ p[3] = z
  OBVIOUS
<1> HIDE DEF p
<1>2. \A i \in 1..3 : Access(p[i]) /\ p[i].op # "back" /\ (p[i].op = "test" => i < 3)
  BY <1>1
<1>3. Fresh(p)
  BY <1>1, <1>2, FreshList
<1> QED
  BY <1>3 DEF p

\* One program after another.
LEMMA FreshBoth == ASSUME NEW p, NEW q, Fresh(p), Fresh(q) PROVE Fresh(p \o q)
<1> DEFINE S == {p[i] : i \in DOMAIN p} \cup {q[i] : i \in DOMAIN q}
           r == p \o q
<1>1. p \in Seq(S) /\ q \in Seq(S)
  BY DEF Fresh
<1>2. r \in Seq(S) /\ Len(r) = Len(p) + Len(q) /\ DOMAIN r = 1..Len(r)
  BY <1>1
<1>3. \A i \in DOMAIN r : \/ i \in DOMAIN p /\ r[i] = p[i] /\ i <= Len(p)
                          \/ i - Len(p) \in DOMAIN q /\ r[i] = q[i - Len(p)] /\ i > Len(p)
  BY <1>1
<1>4. Len(p) \in Nat /\ Len(q) \in Nat /\ DOMAIN p = 1..Len(p) /\ DOMAIN q = 1..Len(q)
  BY <1>1
<1> HIDE DEF r, S
<1>5. r \in Seq({r[i] : i \in DOMAIN r})
  BY <1>2
<1>6. \A i \in DOMAIN r : Access(r[i]) /\ r[i].op # "back" /\ (r[i].op = "test" => i < Len(r))
  <2> TAKE i \in DOMAIN r
  <2>1. CASE i \in DOMAIN p /\ r[i] = p[i] /\ i <= Len(p)
    <3>1. Access(p[i]) /\ p[i].op # "back" /\ (p[i].op = "test" => i < Len(p))
      BY <2>1 DEF Fresh
    <3> QED
      BY <1>2, <1>4, <2>1, <3>1
  <2>2. CASE i - Len(p) \in DOMAIN q /\ r[i] = q[i - Len(p)] /\ i > Len(p)
    <3> DEFINE k == i - Len(p)
    <3>1. Access(q[k]) /\ q[k].op # "back" /\ (q[k].op = "test" => k < Len(q))
      BY <2>2 DEF Fresh
    <3> QED
      BY <1>2, <1>4, <2>2, <3>1
  <2> QED
    BY <1>3, <2>1, <2>2
<1> QED
  BY <1>5, <1>6 DEF Fresh, r

\* A program as a call begins it is a program as a caller may be left with.
LEMMA FreshIsProg == ASSUME NEW p, Fresh(p) PROVE IsProg(p)
<1> SUFFICES ASSUME p # <<>> PROVE IsProg(p)
  BY DEF IsProg, Fresh
<1> DEFINE S == {p[i] : i \in DOMAIN p}
           q == Tail(p)
<1>1. p \in Seq(S) /\ p # <<>>
  BY DEF Fresh
<1>2. Len(p) \in Nat /\ Len(p) > 0 /\ Head(p) = p[1] /\ 1 \in DOMAIN p /\ DOMAIN p = 1..Len(p)
  BY <1>1
<1>3. q \in Seq(S) /\ Len(q) = Len(p) - 1 /\ DOMAIN q = 1..Len(q)
  BY <1>1
<1>4. \A i \in DOMAIN q : i + 1 \in DOMAIN p /\ q[i] = p[i + 1]
  BY <1>1
<1> HIDE DEF q, S
<1>5. q \in Seq({q[i] : i \in DOMAIN q})
  BY <1>3
<1>6. Fresh(q)
  <2> SUFFICES ASSUME NEW i \in DOMAIN q
               PROVE  Access(q[i]) /\ q[i].op # "back" /\ (q[i].op = "test" => i < Len(q))
    BY <1>5 DEF Fresh
  <2> DEFINE k == i + 1
  <2>1. k \in DOMAIN p /\ q[i] = p[k]
    BY <1>4
  <2>2. Access(p[k]) /\ p[k].op # "back" /\ (p[k].op = "test" => k < Len(p))
    BY <2>1 DEF Fresh
  <2> QED
    BY <1>2, <1>3, <2>1, <2>2
<1>7. Access(Head(p)) /\ (Head(p).op = "test" => 1 < Len(p))
  BY <1>2 DEF Fresh
<1>8. 1 < Len(p) => q # <<>>
  BY <1>2, <1>3
<1> QED
  BY <1>1, <1>2, <1>6, <1>7, <1>8 DEF IsProg, S, q

-----------------------------------------------------------------------------
(* The accesses of the calls. *)

\* The registers that only single writes reach.
LEMMA Special ==
    /\ Latches = {<<"gpio", 7>>, <<"gpio", 8>>, <<"gpio", 10>>, <<"gpio", 11>>}
    /\ Banks("GPSET") = {<<"gpio", 7>>, <<"gpio", 8>>} /\ Banks("GPCLR") = {<<"gpio", 10>>, <<"gpio", 11>>}
    /\ Acks = {<<"gpio", 16>>, <<"gpio", 17>>} /\ DirCs = <<"smi", 13>>
    /\ SpiCs = <<"spi0", 0>>
<1>1. \A r \in DOMAIN GPIO : Banks(r) = {<<"gpio", GPIO[r][1] \div 4>>, <<"gpio", GPIO[r][1] \div 4 + 1>>}
  <2> TAKE r \in DOMAIN GPIO
  <2>1. Banks(r) = {<<"gpio", GPIO[r][1] \div 4>>, <<"gpio", GPIO[r][2] \div 4>>}
    BY DEF Banks
  <2> QED
    BY <2>1, BankWords
<1>2. Banks("GPSET") = {<<"gpio", 7>>, <<"gpio", 8>>} /\ Banks("GPCLR") = {<<"gpio", 10>>, <<"gpio", 11>>}
      /\ Banks("GPEDS") = {<<"gpio", 16>>, <<"gpio", 17>>}
  BY <1>1, BankWords, GpioNames
<1> QED
  BY <1>2 DEF Latches, Acks, DirCs, SMI, SpiCs, SPI0

\* An access that sets one field, which is no divider.
LEMMA OneField ==
    ASSUME NEW o, NEW f, NEW val, o.set = One(f, val), \A bus \in Buses : f # <<bus, "hz">> /\ f # <<bus, "div">>
    PROVE  DOMAIN o.set = {f} /\ o.set[f] = val /\ Timed(o)
  BY DEF One, Timed

Pin(p) == p \in Int /\ 0 <= p /\ p <= 53

\* The pins of the model are pins of the chip.
LEMMA PinsPin == ASSUME NEW p \in Pins PROVE Pin(p)
  BY RegistersAssumption DEF Pin

\* Where a pin is in the words of 10, 16 and 32 pins.
LEMMA PinPlace ==
    ASSUME NEW p, Pin(p)
    PROVE  /\ p \div 10 \in Int /\ p % 10 \in Int /\ p = 10 * (p \div 10) + (p % 10) /\ 0 <= p \div 10 /\ p \div 10 <= 5
           /\ 0 <= p % 10 /\ p % 10 <= 9
           /\ p \div 16 \in Int /\ p % 16 \in Int /\ p = 16 * (p \div 16) + (p % 16) /\ 0 <= p \div 16 /\ p \div 16 <= 3
           /\ 0 <= p % 16 /\ p % 16 <= 15
           /\ p \div 32 \in Int /\ p % 32 \in Int /\ p = 32 * (p \div 32) + (p % 32) /\ 0 <= p \div 32 /\ p \div 32 <= 1
           /\ 0 <= p % 32 /\ p % 32 <= 31
<1>1. p \in Int /\ 0 <= p /\ p <= 53
  BY DEF Pin
<1>2. /\ p \div 10 \in Int /\ p % 10 \in Int /\ p = 10 * (p \div 10) + (p % 10) /\ 0 <= p \div 10 /\ p \div 10 <= 5
      /\ 0 <= p % 10 /\ p % 10 <= 9
  BY <1>1
<1>3. /\ p \div 16 \in Int /\ p % 16 \in Int /\ p = 16 * (p \div 16) + (p % 16) /\ 0 <= p \div 16 /\ p \div 16 <= 3
      /\ 0 <= p % 16 /\ p % 16 <= 15
  BY <1>1
<1>4. /\ p \div 32 \in Int /\ p % 32 \in Int /\ p = 32 * (p \div 32) + (p % 32) /\ 0 <= p \div 32 /\ p \div 32 <= 1
      /\ 0 <= p % 32 /\ p % 32 <= 31
  BY <1>1
<1> QED
  BY <1>2, <1>3, <1>4

\* The words of the registers of one bit per pin.
LEMMA EventWords ==
    ASSUME NEW r \in Events
    PROVE  /\ GPIO[r][1] \div 4 \in Int
           /\ GPIO[r][1] \div 4 \in {16, 19, 22, 25, 28, 31, 34}
           /\ GPIO[r][1] \div 4 = 16 <=> r = "GPEDS"
           /\ \A q \in Events : q # r => \/ GPIO[q][1] \div 4 >= GPIO[r][1] \div 4 + 3
                                         \/ GPIO[r][1] \div 4 >= GPIO[q][1] \div 4 + 3
  BY BankWords, GpioNames DEF Events, Detects

\* A set_bits that sets one field.
LEMMA ModifyOne ==
    ASSUME NEW a, NEW v, NEW clear, NEW g, NEW val, Sharable(a), v \subseteq Word32,
           \A bus \in Buses : g # <<bus, "hz">> /\ g # <<bus, "div">>,
           g \in Fields => FieldOf[g].a = a,
           \A f \in Fields : FieldOf[f].a = a =>
               IF f = g THEN /\ Span(f) \subseteq clear /\ v \cap Span(f) = Code(f, val)
                             /\ f[1] = "pull" => val \in {0, 1, 2}
                        ELSE Span(f) \cap (clear \cup v) = {}
    PROVE  Access(Modify(a, v, clear, One(g, val))) /\ Modify(a, v, clear, One(g, val)).op = "read"
<1> DEFINE o == Modify(a, v, clear, One(g, val))
<1>1. /\ o.op = "read" /\ o.a = a /\ o.v = v /\ o.clear = clear /\ o.set = One(g, val)
      /\ o = [op |-> o.op, a |-> o.a, v |-> o.v, clear |-> o.clear, set |-> o.set]
  BY DEF Modify
<1> HIDE DEF o
<1>2. DOMAIN o.set = {g} /\ o.set[g] = val /\ Timed(o)
  BY <1>1, OneField
<1>3. Exact(o)
  BY <1>1, <1>2 DEF Exact
<1>4. \A f \in Fields : f = g => FieldOf[f].a = a /\ f[1] # "out"
  BY NotShared DEF Sharable
<1>5. Sets(o)
  BY <1>1, <1>2, <1>4 DEF Sets, Own
<1> QED
  BY <1>1, <1>3, <1>5 DEF Access, o

\* A field of a GPIO register, and the word it is in.
LEMMA GpioWord ==
    ASSUME NEW f \in Fields, NEW w, FieldOf[f].a = <<"gpio", w>>
    PROVE  /\ f = <<f[1], f[2]>> /\ f[2] \in Pins /\ Pin(f[2])
           /\ \/ f[1] = "fsel" /\ w = f[2] \div 10 /\ FieldOf[f].lo = (f[2] % 10) * 3 /\ FieldOf[f].n = 3
              \/ f[1] \in Events /\ w = GPIO[f[1]][1] \div 4 + f[2] \div 32 /\ FieldOf[f].lo = f[2] % 32 /\ FieldOf[f].n = 1
              \/ f[1] = "pull" /\ w = 57 + f[2] \div 16 /\ FieldOf[f].lo = (f[2] % 16) * 2 /\ FieldOf[f].n = 2
<1>1. f = <<f[1], f[2]>> /\ f[2] \in Pins /\ Pin(f[2])
  BY GpioBlock, PinsPin
<1>2. CASE FieldOf[f] = At("gpio", f[2] \div 10, (f[2] % 10) * 3, 3) /\ f[1] = "fsel"
  BY <1>1, <1>2 DEF At
<1>3. CASE FieldOf[f] = At("gpio", GPIO[f[1]][1] \div 4 + f[2] \div 32, f[2] % 32, 1) /\ f[1] \in Events
  BY <1>1, <1>3 DEF At
<1>4. CASE FieldOf[f] = At("gpio", 57 + f[2] \div 16, (f[2] % 16) * 2, 2) /\ f[1] = "pull"
  BY <1>1, <1>4 DEF At
<1> QED
  BY <1>2, <1>3, <1>4, GpioBlock

\* The fields of the function registers.
LEMMA FselFields ==
    ASSUME NEW f \in Fields, NEW w \in Int, FieldOf[f].a = <<"gpio", w>>, w <= 5
    PROVE  /\ f = <<"fsel", f[2]>> /\ f[2] \in Pins /\ Pin(f[2]) /\ w = f[2] \div 10
           /\ FieldOf[f].lo = (f[2] % 10) * 3 /\ FieldOf[f].n = 3
<1>1. f = <<f[1], f[2]>> /\ f[2] \in Pins /\ Pin(f[2])
  BY GpioWord
<1>2. f[2] \div 16 \in Int /\ 0 <= f[2] \div 16 /\ f[2] \div 32 \in Int /\ 0 <= f[2] \div 32
  BY <1>1, PinPlace
<1>3. f[1] \in Events => GPIO[f[1]][1] \div 4 \in Int /\ GPIO[f[1]][1] \div 4 >= 16
  BY EventWords
<1>4. w # 57 + f[2] \div 16
  BY <1>2
<1>5. f[1] \in Events => w # GPIO[f[1]][1] \div 4 + f[2] \div 32
  BY <1>2, <1>3
<1> QED
  BY <1>1, <1>4, <1>5, GpioWord

\* The fields of the registers of event detection.
LEMMA EventFields ==
    ASSUME NEW f \in Fields, NEW r \in Events, NEW b, b = 0 \/ b = 1, FieldOf[f].a = <<"gpio", GPIO[r][1] \div 4 + b>>
    PROVE  /\ f = <<r, f[2]>> /\ f[2] \in Pins /\ Pin(f[2]) /\ f[2] \div 32 = b
           /\ FieldOf[f].lo = f[2] % 32 /\ FieldOf[f].n = 1
<1> DEFINE w == GPIO[r][1] \div 4 + b
           R(q) == GPIO[q][1] \div 4
<1>1. /\ f = <<f[1], f[2]>> /\ f[2] \in Pins /\ Pin(f[2])
      /\ \/ f[1] = "fsel" /\ w = f[2] \div 10 /\ FieldOf[f].lo = (f[2] % 10) * 3 /\ FieldOf[f].n = 3
         \/ f[1] \in Events /\ w = R(f[1]) + f[2] \div 32 /\ FieldOf[f].lo = f[2] % 32 /\ FieldOf[f].n = 1
         \/ f[1] = "pull" /\ w = 57 + f[2] \div 16 /\ FieldOf[f].lo = (f[2] % 16) * 2 /\ FieldOf[f].n = 2
  BY GpioWord
<1>2. R(r) \in Int /\ R(r) >= 16 /\ R(r) <= 34 /\ w = R(r) + b
  BY EventWords
<1>3. /\ f[2] \div 10 \in Int /\ f[2] \div 10 <= 5 /\ f[2] \div 16 \in Int /\ 0 <= f[2] \div 16
      /\ f[2] \div 32 \in Int /\ 0 <= f[2] \div 32 /\ f[2] \div 32 <= 1
  BY <1>1, PinPlace
<1>4. \A q \in Events : R(q) \in Int /\ (q # r => R(q) >= R(r) + 3 \/ R(r) >= R(q) + 3)
  BY EventWords
<1> HIDE DEF w, R
<1>5. f[1] \in Events /\ w = R(f[1]) + f[2] \div 32 /\ FieldOf[f].lo = f[2] % 32 /\ FieldOf[f].n = 1
  BY <1>1, <1>2, <1>3
<1>6. f[1] = r
  BY <1>2, <1>3, <1>4, <1>5
<1>7. f[2] \div 32 = b
  BY <1>2, <1>3, <1>5, <1>6
<1> QED
  BY <1>1, <1>5, <1>6, <1>7

\* The fields of the pull registers.
LEMMA PullFields ==
    ASSUME NEW f \in Fields, NEW w \in Int, FieldOf[f].a = <<"gpio", w>>, w >= 57
    PROVE  /\ f = <<"pull", f[2]>> /\ f[2] \in Pins /\ Pin(f[2]) /\ w = 57 + f[2] \div 16
           /\ FieldOf[f].lo = (f[2] % 16) * 2 /\ FieldOf[f].n = 2
<1>1. f = <<f[1], f[2]>> /\ f[2] \in Pins /\ Pin(f[2])
  BY GpioWord
<1>2. f[2] \div 10 \in Int /\ f[2] \div 10 <= 5 /\ f[2] \div 32 \in Int /\ f[2] \div 32 <= 1
  BY <1>1, PinPlace
<1>3. f[1] \in Events => GPIO[f[1]][1] \div 4 \in Int /\ GPIO[f[1]][1] \div 4 <= 34
  BY EventWords
<1>4. w # f[2] \div 10
  BY <1>2
<1>5. f[1] \in Events => w # GPIO[f[1]][1] \div 4 + f[2] \div 32
  BY <1>2, <1>3
<1> QED
  BY <1>1, <1>4, <1>5, GpioWord

\* bcm2835_gpio_fsel.
LEMMA FselAccess ==
    ASSUME NEW pin, Pin(pin), NEW mode \in {0, 2, 3, 4, 5}
    PROVE  Access(gpio_fsel(pin, mode)[1]) /\ gpio_fsel(pin, mode)[1].op = "read"
<1> DEFINE s == (pin % 10) * 3
           w == pin \div 10
           f0 == <<"fsel", pin>>
<1>1. s \in Int /\ 0 <= s /\ s <= 27 /\ w \in Int /\ 0 <= w /\ w <= 5
  <2>1. /\ pin % 10 \in Int /\ 0 <= pin % 10 /\ pin % 10 <= 9
        /\ pin \div 10 \in Int /\ 0 <= pin \div 10 /\ pin \div 10 <= 5
    BY PinPlace
  <2> QED
    BY <2>1
<1>2. gpio_fsel(pin, mode)[1] = Modify(<<"gpio", w>>, Bits(mode, s) \cap Bits(7, s), Bits(7, s), One(f0, mode))
  <2>1. GPFSEL[1] \div 4 + w = w /\ FSEL.MASK = 7
    BY <1>1 DEF GPFSEL, FSEL
  <2> QED
    BY <2>1 DEF gpio_fsel, peri_set_bits
<1>3. Bits(7, s) = {s, s + 1, s + 2} /\ Bits(mode, s) \subseteq Bits(7, s)
  BY <1>1, BitsSmall
<1> HIDE DEF s, w
<1>4. Bits(mode, s) \cap Bits(7, s) = Bits(mode, s) /\ Bits(7, s) \subseteq Word32
  BY <1>1, <1>3 DEF Word32
<1>5. Sharable(<<"gpio", w>>)
  BY <1>1, FselFields, Special DEF Sharable, SharedKinds
<1>6. ASSUME NEW f \in Fields, FieldOf[f].a = <<"gpio", w>>, f = f0
      PROVE  Span(f) = Bits(7, s) /\ Code(f, mode) = Bits(mode, s) /\ f[1] # "pull"
  <2>1. f[1] = "fsel" /\ f[2] = pin /\ FieldOf[f].lo = s /\ FieldOf[f].n = 3
    BY <1>1, <1>6, FselFields DEF s
  <2>2. Span(f) = s..(s + 2)
    BY <1>1, <2>1 DEF Span
  <2>3. s..(s + 2) = {s, s + 1, s + 2}
    BY <1>1
  <2>4. Code(f, mode) = Bits(mode, s)
    BY <2>1 DEF Code
  <2> QED
    BY <1>3, <2>1, <2>2, <2>3, <2>4
<1>7. ASSUME NEW f \in Fields, FieldOf[f].a = <<"gpio", w>>, f # f0
      PROVE  Span(f) \cap Bits(7, s) = {}
  <2> DEFINE p == f[2]
  <2>1. f = <<"fsel", p>> /\ Pin(p) /\ p \div 10 = w /\ FieldOf[f].lo = (p % 10) * 3 /\ FieldOf[f].n = 3
    BY <1>1, <1>7, FselFields
  <2>2. p % 10 # pin % 10 /\ p % 10 \in Int /\ pin % 10 \in Int
    <3>1. p # pin
      BY <1>7, <2>1
    <3>2. p = 10 * w + (p % 10) /\ pin = 10 * w + (pin % 10) /\ p % 10 \in Int /\ pin % 10 \in Int
      BY <2>1, PinPlace DEF w
    <3> QED
      BY <3>1, <3>2
  <2>3. \A i \in Span(f) : (p % 10) * 3 <= i /\ i <= (p % 10) * 3 + 2 /\ i \in Int
    BY <2>1, <2>2 DEF Span
  <2> HIDE DEF p
  <2> QED
    BY <1>3, <2>2, <2>3 DEF s
<1>8. f0 \in Fields => FieldOf[f0].a = <<"gpio", w>>
  <2>1. f0[1] = "fsel" /\ f0[2] = pin /\ GPFSEL[w + 1] \div 4 = w
    BY <1>1 DEF GPFSEL
  <2> QED
    BY <2>1, FieldArms DEF FieldOf, At, w
<1>9. \A bus \in Buses : f0 # <<bus, "hz">> /\ f0 # <<bus, "div">>
  BY DEF Buses
<1> QED
  BY <1>2, <1>4, <1>5, <1>6, <1>7, <1>8, <1>9, ModifyOne

\* The register of a kind that has a pin's bit.
LEMMA BankPlace ==
    ASSUME NEW r \in Events, NEW pin, Pin(pin)
    PROVE  /\ Bank(r, pin) = <<"gpio", GPIO[r][1] \div 4 + pin \div 32>>
           /\ pin \div 32 = 0 \/ pin \div 32 = 1
           /\ Shift(pin) = {pin % 32} /\ Shift(pin) \subseteq Word32 /\ pin % 32 \in Int
           /\ <<r, pin>> \in Fields => FieldOf[<<r, pin>>].a = Bank(r, pin)
<1>1. Bank(r, pin) = <<"gpio", GPIO[r][1] \div 4 + pin \div 32>> /\ Shift(pin) = {pin % 32}
  BY DEF Bank, Shift
<1>2. pin \div 32 \in Int /\ 0 <= pin \div 32 /\ pin \div 32 <= 1 /\ pin % 32 \in Int /\ 0 <= pin % 32 /\ pin % 32 <= 31
  BY PinPlace
<1>3. pin \div 32 = 0 \/ pin \div 32 = 1
  BY <1>2
<1>4. r \in DOMAIN GPIO
  BY GpioNames DEF Events, Detects
<1>5. GPIO[r][pin \div 32 + 1] \div 4 = GPIO[r][1] \div 4 + pin \div 32
  <2>1. CASE pin \div 32 = 0
    BY <1>4, <2>1, BankWords, GpioNames
  <2>2. CASE pin \div 32 = 1
    BY <1>4, <2>2, BankWords
  <2> QED
    BY <1>3, <2>1, <2>2
<1>6. <<r, pin>> \in Fields => FieldOf[<<r, pin>>].a = Bank(r, pin)
  <2> DEFINE f == <<r, pin>>
  <2>1. f[1] = r /\ f[2] = pin
    OBVIOUS
  <2> HIDE DEF f
  <2>2. Field(f).a = Bank(r, pin)
    BY <1>1, <1>4, <1>5, <2>1, FieldArms DEF At
  <2> QED
    BY <2>2 DEF FieldOf, f
<1>7. Shift(pin) \subseteq Word32
  BY <1>1, <1>2 DEF Word32
<1> QED
  BY <1>1, <1>2, <1>3, <1>6, <1>7

\* A bit of a register with one bit per pin is the pin's field, or clear of it.
LEMMA EventSpan ==
    ASSUME NEW r \in Events, NEW pin, Pin(pin), NEW f \in Fields, FieldOf[f].a = Bank(r, pin)
    PROVE  /\ f = <<r, f[2]>> /\ f[2] \in Pins /\ Span(f) = {FieldOf[f].lo} /\ FieldOf[f].lo = f[2] % 32
           /\ f = <<r, pin>> => Span(f) = Shift(pin)
           /\ f # <<r, pin>> => Span(f) \cap Shift(pin) = {}
<1>1. Bank(r, pin) = <<"gpio", GPIO[r][1] \div 4 + pin \div 32>> /\ Shift(pin) = {pin % 32}
      /\ (pin \div 32 = 0 \/ pin \div 32 = 1) /\ pin % 32 \in Int
  BY BankPlace
<1>2. /\ f = <<r, f[2]>> /\ f[2] \in Pins /\ Pin(f[2]) /\ f[2] \div 32 = pin \div 32
      /\ FieldOf[f].lo = f[2] % 32 /\ FieldOf[f].n = 1
  BY <1>1, EventFields
<1>3. f[2] % 32 \in Int
  BY <1>2, PinPlace
<1>4. Span(f) = {f[2] % 32}
  BY <1>2, <1>3 DEF Span
<1>5. f # <<r, pin>> => f[2] % 32 # pin % 32
  <2>1. f # <<r, pin>> => f[2] # pin
    BY <1>2
  <2>2. /\ f[2] = 32 * (f[2] \div 32) + (f[2] % 32) /\ pin = 32 * (pin \div 32) + (pin % 32)
        /\ f[2] \div 32 = pin \div 32
    BY <1>2, PinPlace
  <2> QED
    BY <2>1, <2>2
<1>6. f = <<r, pin>> => f[2] = pin
  OBVIOUS
<1> QED
  BY <1>1, <1>2, <1>4, <1>5, <1>6

\* The gpio block's registers that are changed by set_bits.
LEMMA GpioSharable ==
    ASSUME NEW w \in Int, w <= 5 \/ w >= 18,
           \A f \in Fields : FieldOf[f].a = <<"gpio", w>> => f[1] \in SharedKinds
    PROVE  Sharable(<<"gpio", w>>)
  BY Special DEF Sharable

\* bcm2835_gpio_ren and the other calls that enable and disable event detection.
LEMMA DetectAccess ==
    ASSUME NEW r \in Detects, NEW pin, Pin(pin), NEW on \in BOOLEAN
    PROVE  Access(gpio_detect(r, pin, on)[1]) /\ gpio_detect(r, pin, on)[1].op = "read"
<1> DEFINE g == <<r, pin>>
           v == IF on THEN Shift(pin) ELSE {}
           val == IF on THEN 1 ELSE 0
           w == GPIO[r][1] \div 4 + pin \div 32
<1>1. r \in Events /\ r # "GPEDS" /\ r \notin Buses
  BY GpioNames DEF Events, Detects, Buses
<1>2. gpio_detect(r, pin, on)[1] = Modify(Bank(r, pin), v, Shift(pin), One(g, val))
  <2>1. SetAll(r, {pin}, val) = One(g, val)
    BY DEF SetAll, One
  <2>2. v \cap Shift(pin) = v
    OBVIOUS
  <2> QED
    BY <2>1, <2>2 DEF gpio_detect, peri_set_bits
<1>3. /\ Bank(r, pin) = <<"gpio", w>> /\ Shift(pin) \subseteq Word32 /\ Shift(pin) = {pin % 32} /\ pin % 32 \in Int
      /\ pin \div 32 = 0 \/ pin \div 32 = 1
      /\ g \in Fields => FieldOf[g].a = Bank(r, pin)
  BY <1>1, BankPlace
<1>4. w \in Int /\ w >= 18
  <2>1. GPIO[r][1] \div 4 \in Int /\ GPIO[r][1] \div 4 >= 19
    BY <1>1, EventWords
  <2> QED
    BY <1>3, <2>1
<1>5. \A bus \in Buses : g # <<bus, "hz">> /\ g # <<bus, "div">>
  BY <1>1
<1> HIDE DEF w, v
<1>6. Sharable(Bank(r, pin))
  <2>1. \A f \in Fields : FieldOf[f].a = <<"gpio", w>> => f[1] = r
    BY <1>1, <1>3, EventSpan
  <2>2. r \in SharedKinds
    BY DEF SharedKinds
  <2> QED
    BY <1>3, <1>4, <2>1, <2>2, GpioSharable
<1>7. ASSUME NEW f \in Fields, FieldOf[f].a = Bank(r, pin)
      PROVE  IF f = g THEN /\ Span(f) \subseteq Shift(pin) /\ v \cap Span(f) = Code(f, val)
                           /\ f[1] = "pull" => val \in {0, 1, 2}
                      ELSE Span(f) \cap (Shift(pin) \cup v) = {}
  <2>1. v \subseteq Shift(pin)
    BY DEF v
  <2>2. CASE f # g
    BY <1>1, <1>7, <2>1, <2>2, EventSpan
  <2>3. CASE f = g
    <3>1. Span(f) = Shift(pin) /\ FieldOf[f].lo = pin % 32 /\ f[1] # "pull"
      BY <1>1, <1>7, <2>3, EventSpan, GpioNames DEF Detects
    <3>2. Code(f, val) = v
      BY <1>3, <3>1, BitsSmall DEF Code, v
    <3> QED
      BY <2>1, <2>3, <3>1, <3>2
  <2> QED
    BY <2>2, <2>3
<1>8. v \subseteq Word32
  BY <1>3 DEF v
<1> HIDE DEF g, val
<1> QED
  BY <1>2, <1>3, <1>5, <1>6, <1>7, <1>8, ModifyOne

\* bcm2835_gpio_set_pud.
LEMMA PullAccess ==
    ASSUME NEW pin, Pin(pin), NEW pud \in {0, 1, 2}
    PROVE  Access(gpio_set_pud(pin, pud)[1]) /\ gpio_set_pud(pin, pud)[1].op = "read"
           /\ Len(gpio_set_pud(pin, pud)) = 1 /\ gpio_set_pud(pin, pud) = <<gpio_set_pud(pin, pud)[1]>>
<1> DEFINE s == (pin % 16) * 2
           w == 57 + pin \div 16
           g == <<"pull", pin>>
           code == Pull(pud)
           o == Modify(<<"gpio", w>>, Bits(code, s), Bits(3, s), One(g, pud))
<1>1. s \in Int /\ 0 <= s /\ s <= 30 /\ w \in Int /\ 57 <= w
  <2>1. /\ pin % 16 \in Int /\ 0 <= pin % 16 /\ pin % 16 <= 15 /\ pin \div 16 \in Int /\ 0 <= pin \div 16
    BY PinPlace
  <2> QED
    BY <2>1
<1>2. gpio_set_pud(pin, pud) = <<o>>
  <2>1. PullReg(pin) = <<"gpio", w>> /\ ~(pud \notin {PUD.OFF, PUD.UP, PUD.DOWN})
    BY DEF PullReg, GPPUPPDN, PUD
  <2> QED
    BY <2>1 DEF gpio_set_pud
<1>3. code \in {0, 1, 2}
  BY DEF Pull, PUD
<1>4. Bits(3, s) = {s, s + 1} /\ Bits(code, s) \subseteq Bits(3, s)
  BY <1>1, <1>3, BitsSmall
<1>5. g \in Fields => FieldOf[g].a = <<"gpio", w>>
  <2>1. g[1] = "pull" /\ g[2] = pin
    OBVIOUS
  <2>2. pin \div 16 = 0 \/ pin \div 16 = 1 \/ pin \div 16 = 2 \/ pin \div 16 = 3
    <3>1. pin \div 16 \in Int /\ 0 <= pin \div 16 /\ pin \div 16 <= 3
      BY PinPlace
    <3> QED
      BY <3>1
  <2>3. GPPUPPDN[pin \div 16 + 1] \div 4 = 57 + pin \div 16
    BY <2>2 DEF GPPUPPDN
  <2> HIDE DEF g
  <2>4. Field(g).a = <<"gpio", w>>
    BY <2>1, <2>3, FieldArms DEF At
  <2> QED
    BY <2>4 DEF FieldOf
<1>6. \A bus \in Buses : g # <<bus, "hz">> /\ g # <<bus, "div">>
  BY DEF Buses
<1>7. w - 57 = pin \div 16 /\ pin % 16 \in Int
  BY PinPlace
<1> HIDE DEF s, w, code
<1>8. Bits(3, s) \subseteq Word32
  BY <1>1, <1>4 DEF Word32
<1>9. Sharable(<<"gpio", w>>)
  BY <1>1, PullFields, GpioSharable DEF SharedKinds
<1>10. ASSUME NEW f \in Fields, FieldOf[f].a = <<"gpio", w>>
      PROVE  IF f = g THEN /\ Span(f) \subseteq Bits(3, s) /\ Bits(code, s) \cap Span(f) = Code(f, pud)
                           /\ f[1] = "pull" => pud \in {0, 1, 2}
                      ELSE Span(f) \cap (Bits(3, s) \cup Bits(code, s)) = {}
  <2> DEFINE p == f[2]
  <2>1. f = <<"pull", p>> /\ Pin(p) /\ w = 57 + p \div 16 /\ FieldOf[f].lo = (p % 16) * 2 /\ FieldOf[f].n = 2
    BY <1>1, <1>10, PullFields
  <2>2. p % 16 \in Int /\ p \div 16 \in Int
    BY <2>1, PinPlace
  <2>3. Span(f) = {(p % 16) * 2, (p % 16) * 2 + 1}
    BY <2>1, <2>2 DEF Span
  <2>4. CASE f # g
    <3>1. p # pin
      BY <2>1, <2>4
    <3>2. p = 16 * (p \div 16) + (p % 16) /\ pin = 16 * (pin \div 16) + (pin % 16) /\ p \div 16 = pin \div 16
      BY <1>7, <2>1, <2>2, PinPlace
    <3>3. p % 16 # pin % 16
      BY <3>1, <3>2
    <3> HIDE DEF p
    <3>4. Span(f) \cap Bits(3, s) = {}
      BY <1>4, <1>7, <2>2, <2>3, <3>3 DEF s
    <3> QED
      BY <1>4, <2>4, <3>4
  <2>5. CASE f = g
    <3>1. p = pin /\ f[1] = "pull"
      BY <2>5
    <3>2. FieldOf[f].lo = s /\ Span(f) = Bits(3, s)
      BY <1>4, <2>1, <2>3, <3>1 DEF s
    <3>3. Code(f, pud) = Bits(code, s)
      BY <3>1, <3>2 DEF Code, code
    <3> QED
      BY <1>4, <2>5, <3>2, <3>3
  <2> QED
    BY <2>4, <2>5
<1>11. Access(o) /\ o.op = "read"
  BY <1>4, <1>5, <1>6, <1>8, <1>9, <1>10, ModifyOne
<1> HIDE DEF o
<1> QED
  BY <1>2, <1>11

\* A number below a power of two has its bits below that power.
LEMMA BitsBelow ==
    ASSUME NEW n \in Nat, NEW k \in 0..17, n < Pow(k), NEW s \in Int
    PROVE  Bits(n, s) \subseteq s..(s + k - 1)
<1> SUFFICES ASSUME NEW i \in 0..17, Odd(n, i) PROVE s + i \in s..(s + k - 1)
  BY BitsAre
<1>1. ~(k <= i)
  BY OddBelow
<1> HIDE DEF Odd
<1> QED
  BY <1>1

\* Every field is within its register.
LEMMA SpanWord == ASSUME NEW f \in Fields PROVE Span(f) \subseteq Word32
<1>1. FieldOf[f].lo \in Int /\ FieldOf[f].n \in Int /\ 0 <= FieldOf[f].lo /\ FieldOf[f].lo + FieldOf[f].n <= 32
  <2> DEFINE F == FieldOf[f]
             b == F.a[1]
  <2>1. F.lo \in Int /\ F.n \in Int /\ F.a = <<b, F.a[2]>>
        /\ b \in {"latch", "gpio", "pads", "spi0", "lib", "bsc1", "aux", "clk", "smi", "pwm"}
    BY Blocks
  <2>2. CASE b = "gpio"
    <3> DEFINE x == f[2] % 10
               y == f[2] % 16
               z == f[2] % 32
    <3>1. Pin(f[2]) /\ \/ F.lo = x * 3 /\ F.n = 3
                       \/ F.lo = z /\ F.n = 1
                       \/ F.lo = y * 2 /\ F.n = 2
      BY <2>1, <2>2, GpioWord
    <3>2. x \in Int /\ 0 <= x /\ x <= 9 /\ y \in Int /\ 0 <= y /\ y <= 15 /\ z \in Int /\ 0 <= z /\ z <= 31
      BY <3>1, PinPlace
    <3> HIDE DEF x, y, z
    <3> QED
      BY <3>1, <3>2
  <2>3. CASE b = "latch"
    <3>1. f[2] \in Pins /\ F = At("latch", f[2] \div 32, f[2] % 32, 1)
      BY <2>3, OtherBlocks
    <3>2. F.lo = f[2] % 32 /\ F.n = 1
      BY <3>1, AtParts
    <3>3. f[2] % 32 \in Int /\ 0 <= f[2] % 32 /\ f[2] % 32 <= 31
      BY <3>1, PinPlace, PinsPin
    <3> QED
      BY <3>2, <3>3
  <2>4. CASE b = "pwm"
    <3>1. (f[2] = 0 \/ f[2] = 1) /\ \/ F.lo = 7 + 8 * f[2] /\ F.n = 1
                                    \/ F.lo = 8 * f[2] /\ F.n = 1
                                    \/ F.lo = 0 /\ F.n = 16
      BY <2>4, PwmBlock, AtParts
    <3> QED
      BY <3>1
  <2>5. CASE b = "smi"
    BY <2>5, SmiBlock DEF Parts
  <2>6. CASE b \in {"pads", "lib", "bsc1", "aux", "clk"}
    <3>1. \/ F.lo = 0 /\ F.n = 5
          \/ F.lo = 0 /\ F.n = 16
          \/ F.lo = 0 /\ F.n = 7
          \/ F.lo = 0 /\ F.n = 3
          \/ F.lo = 12 /\ F.n = 12
      BY <2>6, OtherBlocks, AtParts
    <3> QED
      BY <3>1
  <2>7. CASE b = "spi0"
    <3>1. \/ F.lo = 0 /\ F.n = 2
          \/ F.lo = 2 /\ F.n = 2
          \/ F.lo = 21 + f[2] /\ F.n = 1 /\ f[2] \in 0..2
          \/ F.lo = 0 /\ F.n = 16
      BY <2>7, OtherBlocks, AtParts
    <3> QED
      BY <3>1
  <2> QED
    BY <2>1, <2>2, <2>3, <2>4, <2>5, <2>6, <2>7
<1> QED
  BY <1>1 DEF Span, Word32

\* A write that sets all the fields of its register.
LEMMA WriteAccess ==
    ASSUME NEW a, NEW v, NEW set, v \subseteq Word32, ~Refused(a, v), a \notin Latches \cup Acks,
           Timed(peri_write(a, v, set)), a[1] # "latch",
           \A f \in Fields : f \in DOMAIN set <=> FieldOf[f].a = a,
           \A f \in Fields : FieldOf[f].a = a => f[1] # "pull" /\ v \cap Span(f) = Code(f, set[f])
    PROVE  Access(peri_write(a, v, set)) /\ peri_write(a, v, set).op = "write"
<1> DEFINE o == peri_write(a, v, set)
<1>1. /\ o.op = "write" /\ o.a = a /\ o.v = v /\ o.clear = Word32 /\ o.set = set
      /\ o = [op |-> o.op, a |-> o.a, v |-> o.v, clear |-> o.clear, set |-> o.set]
  BY DEF peri_write
<1>2. Timed(o)
  OBVIOUS
<1> HIDE DEF o
<1>3. Exact(o)
  BY <1>1, SpanWord DEF Exact
<1>4. \A f \in Fields : f \in DOMAIN set => FieldOf[f].a = a /\ f[1] # "out"
  BY Blocks
<1>5. Sets(o)
  BY <1>1, <1>2, <1>4 DEF Sets, Own
<1> QED
  BY <1>1, <1>3, <1>5 DEF Access, Writes, o

\* A write of a register with one field, which is no divider.
LEMMA WriteOne ==
    ASSUME NEW a, NEW v, NEW g, NEW val, v \subseteq Word32, ~Refused(a, v), a \notin Latches \cup Acks, a[1] # "latch",
           \A bus \in Buses : g # <<bus, "hz">> /\ g # <<bus, "div">>,
           g \in Fields, FieldOf[g].a = a, g[1] # "pull", v \cap Span(g) = Code(g, val),
           \A f \in Fields : FieldOf[f].a = a => f = g
    PROVE  Access(peri_write(a, v, One(g, val))) /\ peri_write(a, v, One(g, val)).op = "write"
<1> DEFINE o == peri_write(a, v, One(g, val))
<1>1. o.set = One(g, val)
  BY DEF peri_write
<1> HIDE DEF o
<1>2. DOMAIN o.set = {g} /\ o.set[g] = val /\ Timed(o)
  BY <1>1, OneField
<1>3. Timed(peri_write(a, v, One(g, val)))
  BY <1>2 DEF o
<1>4. DOMAIN One(g, val) = {g} /\ One(g, val)[g] = val
  BY <1>1, <1>2
<1> QED
  BY <1>3, <1>4, WriteAccess

\* A write of a register without fields.
LEMMA WriteNone ==
    ASSUME NEW a, NEW v, v \subseteq Word32, ~Refused(a, v), a \notin Latches \cup Acks, a[1] # "latch",
           \A f \in Fields : FieldOf[f].a # a
    PROVE  Access(peri_write(a, v, nothing)) /\ peri_write(a, v, nothing).op = "write"
<1>1. DOMAIN nothing = {} /\ Timed(peri_write(a, v, nothing))
  BY DEF nothing, peri_write, Timed
<1> QED
  BY <1>1, WriteAccess

\* What SetAll sets.
LEMMA SetAllIs ==
    ASSUME NEW name, NEW P, NEW val
    PROVE  /\ \A f : f \in DOMAIN SetAll(name, P, val) <=> f = <<name, f[2]>> /\ f[2] \in P
           /\ \A f \in DOMAIN SetAll(name, P, val) : SetAll(name, P, val)[f] = val
           /\ \A p : <<name, p>> \in DOMAIN SetAll(name, P, val) <=> p \in P
<1>1. DOMAIN SetAll(name, P, val) = {<<name, p>> : p \in P}
  BY DEF SetAll
<1>2. \A f \in DOMAIN SetAll(name, P, val) : SetAll(name, P, val)[f] = val
  BY DEF SetAll
<1> QED
  BY <1>1, <1>2

\* Writes of GPSET and GPCLR: the bits m of a bank, for the pins P.
LEMMA DriveAccess ==
    ASSUME NEW r \in {"GPSET", "GPCLR"}, NEW b, b = 0 \/ b = 1, NEW m, m \subseteq Word32, NEW P,
           \A p \in Pins : p \in P <=> p % 32 \in m /\ p \div 32 = b,
           NEW a, a = <<"gpio", GPIO[r][1] \div 4 + b>>,
           NEW val, val = IF r = "GPSET" THEN 1 ELSE 0
    PROVE  /\ Access(peri_write(a, m, SetAll("out", P, val)))
           /\ peri_write(a, m, SetAll("out", P, val)).op = "write"
<1> DEFINE o == peri_write(a, m, SetAll("out", P, val))
           W == IF r = "GPSET" THEN 7 ELSE 10
<1>1. /\ o.op = "write" /\ o.a = a /\ o.v = m /\ o.set = SetAll("out", P, val)
      /\ o = [op |-> o.op, a |-> o.a, v |-> o.v, clear |-> o.clear, set |-> o.set]
  BY DEF peri_write
<1>2. a = <<"gpio", W + b>> /\ W \in Int /\ W + b \in Int
  BY BankWords
<1>3. a \in Latches /\ a \notin Acks /\ (a \in Banks("GPSET") <=> r = "GPSET")
  BY <1>2, Special
<1>4. \A p \in Pins : /\ Bank("GPSET", p) = <<"gpio", 7 + p \div 32>>
                      /\ Bank("GPCLR", p) = <<"gpio", 10 + p \div 32>>
                      /\ p \div 32 = 0 \/ p \div 32 = 1
  BY BankWords, PinBank DEF Bank
<1>5. \A p \in Pins : a \in {Bank("GPSET", p), Bank("GPCLR", p)} <=> p \div 32 = b
  BY <1>2, <1>4
<1> HIDE DEF o, W
<1>6. /\ \A f \in DOMAIN o.set : f = <<"out", f[2]>> /\ f[2] \in P /\ o.set[f] = val
      /\ \A p : <<"out", p>> \in DOMAIN o.set <=> p \in P
  BY <1>1, SetAllIs
<1>7. Drives(o)
  <2> SUFFICES ASSUME NEW p \in Pins
               PROVE  /\ <<"out", p>> \in DOMAIN o.set <=> p % 32 \in o.v /\ o.a \in {Bank("GPSET", p), Bank("GPCLR", p)}
                      /\ <<"out", p>> \in DOMAIN o.set => o.set[<<"out", p>>] = IF o.a \in Banks("GPSET") THEN 1 ELSE 0
    BY DEF Drives
  <2>1. <<"out", p>> \in DOMAIN o.set <=> p \in P
    BY <1>6
  <2>2. <<"out", p>> \in DOMAIN o.set => o.set[<<"out", p>>] = val
    BY <1>6
  <2> QED
    BY <1>1, <1>3, <1>5, <2>1, <2>2
<1>8. Timed(o)
  <2>1. \A bus \in Buses : bus # "out"
    BY DEF Buses
  <2>2. \A bus \in Buses : <<bus, "hz">> \notin DOMAIN o.set /\ <<bus, "div">> \notin DOMAIN o.set
    BY <1>6, <2>1
  <2> QED
    BY <2>2 DEF Timed
<1>9. Own(o)
  <2>1. \A f \in DOMAIN o.set : f[1] = "out"
    BY <1>6
  <2> QED
    BY <1>1, <1>3, <2>1 DEF Own
<1>10. ~Refused(o.a, o.v)
  BY <1>1, <1>2 DEF Refused
<1>11. Sets(o)
  BY <1>1, <1>8, <1>9 DEF Sets
<1> QED
  BY <1>1, <1>3, <1>7, <1>10, <1>11 DEF Access, Writes, o

\* Writes of GPEDS: the bits m of a bank, for the pins P.
LEMMA AckAccess ==
    ASSUME NEW b, b = 0 \/ b = 1, NEW m, m \subseteq Word32, NEW P,
           P \subseteq Pins, \A p \in Pins : p \in P <=> p % 32 \in m /\ p \div 32 = b,
           NEW a, a = <<"gpio", 16 + b>>
    PROVE  /\ Access(peri_write(a, m, SetAll("GPEDS", P, 0)))
           /\ peri_write(a, m, SetAll("GPEDS", P, 0)).op = "write"
<1> DEFINE o == peri_write(a, m, SetAll("GPEDS", P, 0))
<1>1. /\ o.op = "write" /\ o.a = a /\ o.v = m /\ o.set = SetAll("GPEDS", P, 0)
      /\ o = [op |-> o.op, a |-> o.a, v |-> o.v, clear |-> o.clear, set |-> o.set]
  BY DEF peri_write
<1>2. GPIO["GPEDS"][1] \div 4 = 16 /\ "GPEDS" \in Events
  BY BankWords DEF Events
<1>3. a \in Acks /\ a \notin Latches
  BY Special
<1> HIDE DEF o
<1>4. /\ \A f \in DOMAIN o.set : f = <<"GPEDS", f[2]>> /\ f[2] \in P /\ o.set[f] = 0
      /\ \A f : f = <<"GPEDS", f[2]>> /\ f[2] \in P => f \in DOMAIN o.set
  BY <1>1, SetAllIs
<1>5. Acknowledges(o)
  <2> SUFFICES ASSUME NEW f \in Fields, FieldOf[f].a = a
               PROVE  /\ f \in DOMAIN o.set <=> FieldOf[f].lo \in o.v
                      /\ f \in DOMAIN o.set => o.set[f] = 0
    BY <1>1 DEF Acknowledges
  <2>1. f = <<"GPEDS", f[2]>> /\ f[2] \in Pins /\ f[2] \div 32 = b /\ FieldOf[f].lo = f[2] % 32
    <3>1. FieldOf[f].a = <<"gpio", GPIO["GPEDS"][1] \div 4 + b>>
      BY <1>2
    <3> QED
      BY <1>2, <3>1, EventFields
  <2>2. f \in DOMAIN o.set <=> f[2] \in P
    BY <1>4, <2>1
  <2>3. f[2] \in P <=> f[2] % 32 \in m
    BY <2>1
  <2> QED
    BY <1>1, <1>4, <2>1, <2>2, <2>3
<1>6. Timed(o)
  <2>1. \A bus \in Buses : bus # "GPEDS"
    BY DEF Buses
  <2>2. \A bus \in Buses : <<bus, "hz">> \notin DOMAIN o.set /\ <<bus, "div">> \notin DOMAIN o.set
    BY <1>4, <2>1
  <2> QED
    BY <2>2 DEF Timed
<1>7. Own(o)
  <2> SUFFICES ASSUME NEW f \in Fields \cap DOMAIN o.set PROVE FieldOf[f].a = o.a /\ f[1] # "out"
    BY DEF Own
  <2>1. f = <<"GPEDS", f[2]>> /\ f[2] \in Pins /\ f[2] \div 32 = b
    BY <1>4
  <2>2. FieldOf[f].a = Bank("GPEDS", f[2])
    BY <1>2, <2>1, BankPlace, PinsPin
  <2>3. Bank("GPEDS", f[2]) = <<"gpio", 16 + f[2] \div 32>>
    BY <1>2 DEF Bank
  <2> QED
    BY <1>1, <2>1, <2>2, <2>3
<1>8. ~Refused(o.a, o.v)
  BY <1>1 DEF Refused
<1>9. Sets(o)
  BY <1>1, <1>6, <1>7 DEF Sets
<1> QED
  BY <1>1, <1>3, <1>5, <1>8, <1>9 DEF Access, Writes, o

\* The one pin of a bank with a bit.
LEMMA OnePin ==
    ASSUME NEW pin \in Pins
    PROVE  /\ \A p \in Pins : p \in {pin} <=> p % 32 \in Shift(pin) /\ p \div 32 = pin \div 32
           /\ Shift(pin) \subseteq Word32 /\ (pin \div 32 = 0 \/ pin \div 32 = 1)
<1>1. Shift(pin) = {pin % 32}
  BY DEF Shift
<1>2. Shift(pin) \subseteq Word32 /\ (pin \div 32 = 0 \/ pin \div 32 = 1)
  BY <1>1, PinBank DEF Word32
<1>3. ASSUME NEW p \in Pins, p % 32 = pin % 32, p \div 32 = pin \div 32 PROVE p = pin
  BY <1>3, PinBank
<1> QED
  BY <1>1, <1>2, <1>3

\* The pins of the first bank are its bits.
LEMMA LowPins ==
    ASSUME NEW mask \in SUBSET Low
    PROVE  /\ mask \subseteq Word32 /\ mask \subseteq Pins
           /\ \A p \in Pins : p \in mask <=> p % 32 \in mask /\ p \div 32 = 0
<1>1. \A p \in Pins : /\ p \in Int /\ 0 <= p /\ p <= 53
                      /\ (p \div 32 = 0 /\ p % 32 = p) \/ (p \div 32 = 1 /\ p % 32 = p - 32)
  BY PinBank
<1>2. \A p \in mask : p \in Pins /\ p < 32
  BY DEF Low
<1>3. mask \subseteq Word32
  BY <1>1, <1>2 DEF Word32
<1>4. ASSUME NEW p \in Pins PROVE p \in mask <=> p % 32 \in mask /\ p \div 32 = 0
  BY <1>1, <1>2
<1> QED
  BY <1>2, <1>3, <1>4

-----------------------------------------------------------------------------
(* The programs of the calls. *)

\* The calls for pins.
LEMMA GpioPrograms ==
    ASSUME NEW pin \in Pins
    PROVE  /\ \A mode \in {0, 2, 3, 4, 5} : Fresh(gpio_fsel(pin, mode))
           /\ \A on \in BOOLEAN : Fresh(gpio_write(pin, on))
           /\ \A r \in Detects : \A on \in BOOLEAN : Fresh(gpio_detect(r, pin, on))
           /\ Fresh(gpio_set_eds(pin))
           /\ Fresh(gpio_set_pud(pin, 0)) /\ Fresh(gpio_set_pud(pin, 1)) /\ Fresh(gpio_set_pud(pin, 2))
           /\ \A pud : pud \notin {0, 1, 2} => gpio_set_pud(pin, pud) = <<>>
<1>1. Pin(pin)
  BY PinsPin
<1>2. \A mode \in {0, 2, 3, 4, 5} : Fresh(gpio_fsel(pin, mode))
  <2> TAKE mode \in {0, 2, 3, 4, 5}
  <2> DEFINE o == gpio_fsel(pin, mode)[1]
  <2>1. gpio_fsel(pin, mode) = <<o>>
    BY DEF gpio_fsel
  <2>2. Access(o) /\ o.op = "read"
    BY <1>1, FselAccess
  <2> HIDE DEF o
  <2> QED
    BY <2>1, <2>2, FreshOne
<1>3. \A r \in Detects : \A on \in BOOLEAN : Fresh(gpio_detect(r, pin, on))
  <2> TAKE r \in Detects
  <2> TAKE on \in BOOLEAN
  <2> DEFINE o == gpio_detect(r, pin, on)[1]
  <2>1. gpio_detect(r, pin, on) = <<o>>
    BY DEF gpio_detect
  <2>2. Access(o) /\ o.op = "read"
    BY <1>1, DetectAccess
  <2> HIDE DEF o
  <2> QED
    BY <2>1, <2>2, FreshOne
<1>4. \A on \in BOOLEAN : Fresh(gpio_write(pin, on))
  <2>1. Fresh(gpio_set(pin))
    <3> DEFINE o == peri_write(Bank("GPSET", pin), Shift(pin), SetAll("out", {pin}, 1))
    <3>1. Bank("GPSET", pin) = <<"gpio", GPIO["GPSET"][1] \div 4 + pin \div 32>>
      BY DEF Bank
    <3>2. Access(o) /\ o.op = "write"
      BY <3>1, OnePin, DriveAccess
    <3> HIDE DEF o
    <3>3. Fresh(<<o>>)
      BY <3>2, FreshOne
    <3> QED
      BY <3>3 DEF gpio_set, o
  <2>2. Fresh(gpio_clr(pin))
    <3> DEFINE o == peri_write(Bank("GPCLR", pin), Shift(pin), SetAll("out", {pin}, 0))
    <3>1. Bank("GPCLR", pin) = <<"gpio", GPIO["GPCLR"][1] \div 4 + pin \div 32>>
      BY DEF Bank
    <3>2. Access(o) /\ o.op = "write"
      BY <3>1, OnePin, DriveAccess
    <3> HIDE DEF o
    <3>3. Fresh(<<o>>)
      BY <3>2, FreshOne
    <3> QED
      BY <3>3 DEF gpio_clr, o
  <2> QED
    BY <2>1, <2>2 DEF gpio_write
<1>5. Fresh(gpio_set_eds(pin))
  <2> DEFINE o == peri_write(Bank("GPEDS", pin), Shift(pin), SetAll("GPEDS", {pin}, 0))
  <2>1. Bank("GPEDS", pin) = <<"gpio", 16 + pin \div 32>>
    BY BankWords DEF Bank
  <2>2. Access(o) /\ o.op = "write"
    BY <2>1, OnePin, AckAccess
  <2> HIDE DEF o
  <2>3. Fresh(<<o>>)
    BY <2>2, FreshOne
  <2> QED
    BY <2>3 DEF gpio_set_eds, o
<1>6. \A pud \in {0, 1, 2} : Fresh(gpio_set_pud(pin, pud))
  <2> TAKE pud \in {0, 1, 2}
  <2> DEFINE o == gpio_set_pud(pin, pud)[1]
  <2>1. gpio_set_pud(pin, pud) = <<o>> /\ Access(o) /\ o.op = "read"
    BY <1>1, PullAccess
  <2> HIDE DEF o
  <2> QED
    BY <2>1, FreshOne
<1>7. \A pud : pud \notin {0, 1, 2} => gpio_set_pud(pin, pud) = <<>>
  BY DEF gpio_set_pud, PUD
<1> QED
  BY <1>2, <1>3, <1>4, <1>5, <1>6, <1>7

\* The calls for several pins of the first bank.
LEMMA MultiPrograms ==
    /\ \A mask \in SUBSET Low : /\ Fresh(gpio_set_multi(mask)) /\ Fresh(gpio_clr_multi(mask))
                                /\ Fresh(gpio_set_eds_multi(mask))
    /\ \A on \in BOOLEAN : Fresh(gpio_write_multi(Low, on))
    /\ \A pin \in Low : Fresh(gpio_write_mask({pin}, Low))
    /\ Fresh(gpio_pud(2))
<1>1. Bank("GPSET", 0) = <<"gpio", GPIO["GPSET"][1] \div 4 + 0>> /\ Bank("GPCLR", 0) = <<"gpio", GPIO["GPCLR"][1] \div 4 + 0>>
      /\ Bank("GPEDS", 0) = <<"gpio", 16 + 0>>
  <2>1. 0 \div 32 = 0
    OBVIOUS
  <2> QED
    BY <2>1, BankWords DEF Bank
<1>2. ASSUME NEW mask \in SUBSET Low
      PROVE  Fresh(gpio_set_multi(mask)) /\ Fresh(gpio_clr_multi(mask)) /\ Fresh(gpio_set_eds_multi(mask))
  <2> DEFINE s == peri_write(Bank("GPSET", 0), mask, SetAll("out", mask, 1))
             c == peri_write(Bank("GPCLR", 0), mask, SetAll("out", mask, 0))
             e == peri_write(Bank("GPEDS", 0), mask, SetAll("GPEDS", mask, 0))
  <2>1. mask \subseteq Word32 /\ mask \subseteq Pins /\ \A p \in Pins : p \in mask <=> p % 32 \in mask /\ p \div 32 = 0
    BY LowPins
  <2>2. Access(s) /\ s.op = "write"
    BY <1>1, <2>1, DriveAccess
  <2>3. Access(c) /\ c.op = "write"
    BY <1>1, <2>1, DriveAccess
  <2>4. Access(e) /\ e.op = "write"
    BY <1>1, <2>1, AckAccess
  <2> HIDE DEF s, c, e
  <2>5. Fresh(<<s>>) /\ Fresh(<<c>>) /\ Fresh(<<e>>)
    BY <2>2, <2>3, <2>4, FreshOne
  <2> QED
    BY <2>5 DEF gpio_set_multi, gpio_clr_multi, gpio_set_eds_multi, s, c, e
<1>3. \A on \in BOOLEAN : Fresh(gpio_write_multi(Low, on))
  BY <1>2 DEF gpio_write_multi
<1>4. ASSUME NEW pin \in Low PROVE Fresh(gpio_write_mask({pin}, Low))
  <2>1. {pin} \cap Low \in SUBSET Low /\ (Word32 \ {pin}) \cap Low \in SUBSET Low
    OBVIOUS
  <2>2. Fresh(gpio_set_multi({pin} \cap Low)) /\ Fresh(gpio_clr_multi((Word32 \ {pin}) \cap Low))
    BY <1>2, <2>1
  <2> QED
    BY <2>2, FreshBoth DEF gpio_write_mask
<1>5. Fresh(gpio_pud(2))
  <2> DEFINE a == <<"lib", "pud_compat_setting">>
             o == peri_write(a, Bits(2, 0), nothing)
  <2>1. Bits(2, 0) = {1}
    BY BitsSmall
  <2>2. Bits(2, 0) \subseteq Word32
    BY <2>1 DEF Word32
  <2>3. ~Refused(a, Bits(2, 0)) /\ a \notin Latches \cup Acks
    BY Special DEF Refused
  <2>4. \A f \in Fields : FieldOf[f].a # a
    BY OtherBlocks, AtParts
  <2>5. Access(o) /\ o.op = "write"
    BY <2>2, <2>3, <2>4, WriteNone
  <2> HIDE DEF o
  <2>6. Fresh(<<o>>)
    BY <2>5, FreshOne
  <2> QED
    BY <2>6 DEF gpio_pud, o
<1> QED
  BY <1>2, <1>3, <1>4, <1>5

\* The calls that read, and loops that wait.
LEMMA ReadPrograms ==
    ASSUME NEW a, NEW r, NEW mask, NEW on
    PROVE  /\ Access(Fetch(a, r)) /\ Fetch(a, r).op = "fetch" /\ Fresh(<<Fetch(a, r)>>)
           /\ Access(Await(a, mask, on)) /\ Await(a, mask, on).op = "await"
           /\ Access(Test(a, mask)) /\ Test(a, mask).op = "test"
<1> DEFINE o == Fetch(a, r)
<1>1. Access(o) /\ o.op = "fetch"
  BY DEF Access, Fetch
<1>2. Access(Await(a, mask, on)) /\ Await(a, mask, on).op = "await"
  BY DEF Access, Await
<1>3. Access(Test(a, mask)) /\ Test(a, mask).op = "test"
  BY DEF Access, Test
<1> HIDE DEF o
<1>4. Fresh(<<o>>)
  BY <1>1, FreshOne
<1> QED
  BY <1>1, <1>2, <1>3, <1>4 DEF o

\* The functions of several pins.
LEMMA FselAllFresh ==
    ASSUME NEW n \in Nat, NEW pins \in [1..n -> Int], \A i \in 1..n : Pin(pins[i]), NEW mode \in {0, 2, 3, 4, 5}
    PROVE  Fresh(FselAll(pins, mode))
<1> DEFINE p == FselAll(pins, mode)
<1>1. p = [i \in 1..n |-> gpio_fsel(pins[i], mode)[1]]
  BY DEF FselAll
<1>2. DOMAIN p = 1..n /\ \A i \in 1..n : p[i] = gpio_fsel(pins[i], mode)[1]
  BY <1>1
<1>3. \A i \in 1..n : Access(p[i]) /\ p[i].op = "read"
  BY <1>2, FselAccess
<1>4. p \in [1..n -> {p[i] : i \in DOMAIN p}]
  BY <1>1, <1>2
<1> HIDE DEF p
<1>5. p \in Seq({p[i] : i \in DOMAIN p})
  BY <1>4, FunctionIsSeq
<1>6. \A i \in DOMAIN p : Access(p[i]) /\ p[i].op # "back" /\ (p[i].op = "test" => i < Len(p))
  BY <1>2, <1>3
<1> QED
  BY <1>5, <1>6 DEF Fresh, p

\* The pins of the buses are pins.
LEMMA BusPins ==
    ASSUME NEW mode \in {0, 2, 3, 4, 5}
    PROVE  Fresh(FselAll(SpiPins, mode)) /\ Fresh(FselAll(AuxPins, mode)) /\ Fresh(FselAll(I2cPins, mode))
           /\ Fresh(FselAll(SmiPins, mode))
<1>1. Fresh(FselAll(SpiPins, mode))
  <2>1. SpiPins \in [1..5 -> Int] /\ \A i \in 1..5 : Pin(SpiPins[i])
    BY DEF SpiPins, Pin
  <2> QED
    BY <2>1, FselAllFresh
<1>2. Fresh(FselAll(AuxPins, mode))
  <2>1. AuxPins \in [1..4 -> Int] /\ \A i \in 1..4 : Pin(AuxPins[i])
    BY DEF AuxPins, Pin
  <2> QED
    BY <2>1, FselAllFresh
<1>3. Fresh(FselAll(I2cPins, mode))
  <2>1. I2cPins \in [1..2 -> Int] /\ \A i \in 1..2 : Pin(I2cPins[i])
    BY DEF I2cPins, Pin
  <2> QED
    BY <2>1, FselAllFresh
<1>4. Fresh(FselAll(SmiPins, mode))
  <2>1. SmiPins \in [1..14 -> Int] /\ \A i \in 1..14 : Pin(SmiPins[i])
    BY DEF SmiPins, Pin
  <2> QED
    BY <2>1, FselAllFresh
<1> QED
  BY <1>1, <1>2, <1>3, <1>4

\* The password, in the upper 8 bits.
LEMMA Password ==
    ASSUME NEW a, NEW v, v \subseteq Word32, v \cap (24..31) = {}
    PROVE  /\ Passwrd(v) \subseteq Word32 /\ ~Refused(a, Passwrd(v))
           /\ \A S : S \cap (24..31) = {} => Passwrd(v) \cap S = v \cap S
<1>1. Bits(\h5A, 24) \subseteq 24..31
  <2>1. 90 \in Nat /\ 90 < Pow(7) /\ 7 \in 0..17 /\ 24 \in Int
    BY Powers
  <2>2. Bits(90, 24) \subseteq 24..(24 + 7 - 1)
    BY <2>1, BitsBelow
  <2> QED
    BY <2>2
<1> DEFINE B == Bits(\h5A, 24)
<1>2. Passwrd(v) = B \cup v /\ Passwrd({}) = B
  BY DEF Passwrd
<1> HIDE DEF B
<1>3. B \subseteq 24..31 /\ 24..31 \subseteq Word32
  BY <1>1 DEF B, Word32
<1>4. Passwrd(v) \cap (24..31) = Passwrd({})
  BY <1>2, <1>3
<1>5. ~Refused(a, Passwrd(v))
  BY <1>4 DEF Refused
<1>6. \A S : S \cap (24..31) = {} => Passwrd(v) \cap S = v \cap S
  BY <1>2, <1>3
<1> QED
  BY <1>2, <1>3, <1>5, <1>6

\* bcm2835_gpio_set_pad: the strengths are in the lower 5 bits.
LEMMA PadProgram ==
    ASSUME NEW group \in 0..2
    PROVE  Fresh(gpio_set_pad(group, 24 + group)) /\ Fresh(gpio_pad(group))
<1> DEFINE a == <<"pads", 11 + group>>
           g == <<"pad", group>>
           v == Bits(24 + group, 0)
           o == peri_write(a, Passwrd(v), One(g, 24 + group))
<1>1. g \in Fields
  BY DEF Fields
<1>2. FieldOf[g] = At("pads", 11 + group, 0, 5)
  <2>1. g[1] = "pad" /\ g[2] = group /\ PADS_GPIO[group + 1] \div 4 = 11 + group
    BY DEF PADS_GPIO
  <2> QED
    BY <1>1, <2>1, FieldArms DEF FieldOf
<1>3. FieldOf[g].a = a /\ FieldOf[g].lo = 0 /\ FieldOf[g].n = 5
  BY <1>2, AtParts
<1>4. Span(g) = 0..4 /\ Code(g, 24 + group) = v
  BY <1>3 DEF Span, Code
<1>5. v \subseteq 0..4
  <2>1. 24 + group \in Nat /\ 24 + group < Pow(5) /\ 5 \in 0..17 /\ 0 \in Int
    BY Powers
  <2>2. v \subseteq 0..(0 + 5 - 1)
    BY <2>1, BitsBelow
  <2> QED
    BY <2>2
<1> HIDE DEF v
<1>6. v \subseteq Word32 /\ v \cap (24..31) = {} /\ (0..4) \cap (24..31) = {}
  BY <1>5 DEF Word32
<1>7. Passwrd(v) \subseteq Word32 /\ ~Refused(a, Passwrd(v)) /\ Passwrd(v) \cap (0..4) = v \cap (0..4)
  BY <1>6, Password
<1>8. \A f \in Fields : FieldOf[f].a = a => f = g
  BY OtherBlocks, AtParts
<1>9. a \notin Latches \cup Acks /\ g[1] # "pull" /\ \A bus \in Buses : g # <<bus, "hz">> /\ g # <<bus, "div">>
  BY Special DEF Buses
<1>10. Passwrd(v) \cap Span(g) = Code(g, 24 + group)
  BY <1>4, <1>5, <1>7
<1>11. Access(o) /\ o.op = "write"
  BY <1>1, <1>3, <1>7, <1>8, <1>9, <1>10, WriteOne
<1> HIDE DEF o
<1>12. Fresh(<<o>>)
  BY <1>11, FreshOne
<1>13. PADS_GPIO[1] \div 4 + group = 11 + group
  BY DEF PADS_GPIO
<1>14. Fresh(gpio_set_pad(group, 24 + group))
  BY <1>12, <1>13, FreshNone DEF gpio_set_pad, o, v
<1>15. Fresh(gpio_pad(group))
  BY FreshNone, ReadPrograms DEF gpio_pad
<1> QED
  BY <1>14, <1>15

\* The fields of the control register of SPI0.
LEMMA SpiFields ==
    ASSUME NEW f \in Fields, FieldOf[f].a = <<"spi0", 0>>
    PROVE  \/ f = <<"spi_cs">> /\ FieldOf[f].lo = 0 /\ Span(f) = {0, 1}
           \/ f = <<"spi_mode">> /\ FieldOf[f].lo = 2 /\ Span(f) = {2, 3}
           \/ f = <<"cspol", f[2]>> /\ f[2] \in 0..2 /\ FieldOf[f].lo = 21 + f[2] /\ Span(f) = {21 + f[2]}
<1>1. \/ f = <<"spi_cs">> /\ FieldOf[f].lo = 0 /\ FieldOf[f].n = 2
      \/ f = <<"spi_mode">> /\ FieldOf[f].lo = 2 /\ FieldOf[f].n = 2
      \/ f = <<"cspol", f[2]>> /\ f[2] \in 0..2 /\ FieldOf[f].lo = 21 + f[2] /\ FieldOf[f].n = 1
  BY OtherBlocks, AtParts
<1>2. FieldOf[f].lo = 0 /\ FieldOf[f].n = 2 => Span(f) = {0, 1}
  BY DEF Span
<1>3. FieldOf[f].lo = 2 /\ FieldOf[f].n = 2 => Span(f) = {2, 3}
  BY DEF Span
<1>4. f[2] \in 0..2 /\ FieldOf[f].lo = 21 + f[2] /\ FieldOf[f].n = 1 => Span(f) = {21 + f[2]}
  BY DEF Span
<1> QED
  BY <1>1, <1>2, <1>3, <1>4

\* Where the fields are that have a name of their own.
LEMMA SingleFields ==
    /\ <<"spi_cs">> \in Fields /\ FieldOf[<<"spi_cs">>].a = <<"spi0", 0>>
    /\ <<"spi_mode">> \in Fields /\ FieldOf[<<"spi_mode">>].a = <<"spi0", 0>>
    /\ \A c \in 0..2 : <<"cspol", c>> \in Fields /\ FieldOf[<<"cspol", c>>].a = <<"spi0", 0>>
    /\ <<"aux_enable">> \in Fields /\ FieldOf[<<"aux_enable">>] = At("aux", 1, 0, 3)
    /\ <<"i2c_addr">> \in Fields /\ FieldOf[<<"i2c_addr">>] = At("bsc1", 3, 0, 7)
    /\ <<"smi_clk_div">> \in Fields /\ FieldOf[<<"smi_clk_div">>] = At("clk", 45, 12, 12)
    /\ <<"pwm_clk_div">> \in Fields /\ FieldOf[<<"pwm_clk_div">>] = At("clk", 41, 12, 12)
<1>1. \A f \in Singles : f \in Fields /\ FieldOf[f] = Field(f)
  BY DEF Fields, FieldOf
<1>2. <<"spi_cs">> \in Fields /\ FieldOf[<<"spi_cs">>].a = <<"spi0", 0>>
  BY <1>1, FieldArms, AtParts DEF Singles
<1>3. <<"spi_mode">> \in Fields /\ FieldOf[<<"spi_mode">>].a = <<"spi0", 0>>
  BY <1>1, FieldArms, AtParts DEF Singles
<1>4. ASSUME NEW c \in 0..2 PROVE <<"cspol", c>> \in Fields /\ FieldOf[<<"cspol", c>>].a = <<"spi0", 0>>
  <2> DEFINE f == <<"cspol", c>>
  <2>1. f \in Fields /\ f[1] = "cspol"
    BY DEF Fields
  <2> HIDE DEF f
  <2>2. FieldOf[f].a = <<"spi0", 0>>
    BY <2>1, FieldArms, AtParts DEF FieldOf
  <2> QED
    BY <2>1, <2>2 DEF f
<1>5. <<"aux_enable">> \in Fields /\ FieldOf[<<"aux_enable">>] = At("aux", 1, 0, 3)
  BY <1>1, FieldArms DEF Singles
<1>6. <<"i2c_addr">> \in Fields /\ FieldOf[<<"i2c_addr">>] = At("bsc1", 3, 0, 7)
  BY <1>1, FieldArms DEF Singles
<1>7. <<"smi_clk_div">> \in Fields /\ FieldOf[<<"smi_clk_div">>] = At("clk", 45, 12, 12)
  BY <1>1, FieldArms DEF Singles
<1>8. <<"pwm_clk_div">> \in Fields /\ FieldOf[<<"pwm_clk_div">>] = At("clk", 41, 12, 12)
  BY <1>1, FieldArms DEF Singles
<1> QED
  BY <1>2, <1>3, <1>4, <1>5, <1>6, <1>7, <1>8

\* The control register of SPI0 may be read and written back.
LEMMA SpiSharable == Sharable(<<"spi0", 0>>)
  BY Special, SpiFields DEF Sharable, SharedKinds

\* bcm2835_spi_setDataMode, _chipSelect and _setChipSelectPolarity.
LEMMA SpiModify ==
    ASSUME NEW g, NEW val, NEW v, NEW clear, v \subseteq Word32, v \subseteq clear,
           \/ g = <<"spi_cs">> /\ clear = {0, 1} /\ v = Bits(val, 0)
           \/ g = <<"spi_mode">> /\ clear = {2, 3} /\ v = Bits(val, 2)
           \/ \E c \in 0..2 : g = <<"cspol", c>> /\ clear = {21 + c} /\ v = Bits(val, 21 + c)
    PROVE  Fresh(<<Modify(<<"spi0", 0>>, v, clear, One(g, val))>>)
<1> DEFINE o == Modify(<<"spi0", 0>>, v, clear, One(g, val))
<1>1. g \in Fields /\ FieldOf[g].a = <<"spi0", 0>>
  BY SingleFields
<1>2. \A bus \in Buses : g # <<bus, "hz">> /\ g # <<bus, "div">>
  BY DEF Buses
<1>3. ASSUME NEW f \in Fields, FieldOf[f].a = <<"spi0", 0>>
      PROVE  IF f = g THEN /\ Span(f) \subseteq clear /\ v \cap Span(f) = Code(f, val)
                           /\ f[1] = "pull" => val \in {0, 1, 2}
                      ELSE Span(f) \cap (clear \cup v) = {}
  <2>1. \/ f = <<"spi_cs">> /\ FieldOf[f].lo = 0 /\ Span(f) = {0, 1}
        \/ f = <<"spi_mode">> /\ FieldOf[f].lo = 2 /\ Span(f) = {2, 3}
        \/ f = <<"cspol", f[2]>> /\ f[2] \in 0..2 /\ FieldOf[f].lo = 21 + f[2] /\ Span(f) = {21 + f[2]}
    BY <1>3, SpiFields
  <2>2. f[1] # "pull"
    BY <2>1
  <2>3. CASE f = g
    <3>1. Span(f) = clear
      BY <2>1, <2>3
    <3>2. v = Bits(val, FieldOf[f].lo)
      BY <2>1, <2>3
    <3> QED
      BY <2>2, <2>3, <3>1, <3>2 DEF Code
  <2>4. CASE f # g
    BY <2>1, <2>4
  <2> QED
    BY <2>3, <2>4
<1>4. Access(o) /\ o.op = "read"
  BY <1>1, <1>2, <1>3, SpiSharable, ModifyOne
<1> HIDE DEF o
<1> QED
  BY <1>4, FreshOne DEF o

\* The programs of SPI0.
LEMMA SpiPrograms ==
    /\ Fresh(spi_begin) /\ Fresh(spi_setDataMode(2)) /\ Fresh(spi_chipSelect(1))
    /\ \A cs \in 0..2 : Fresh(spi_setChipSelectPolarity(cs, 0)) /\ Fresh(spi_setChipSelectPolarity(cs, 1))
<1>1. SpiCs = <<"spi0", 0>> /\ SPI0_CS.CPOL \cup SPI0_CS.CPHA = {2, 3} /\ SPI0_CS.CS = {0, 1} /\ SPI0_CS.CLEAR = {4, 5}
  <2>1. Bits(3, 4) = {4, 5}
    BY BitsSmall
  <2> QED
    BY <2>1, Special DEF SPI0_CS
<1>2. Fresh(spi_setDataMode(2))
  <2>1. Bits(2, 2) = {3}
    BY BitsSmall
  <2>2. Bits(2, 2) \cap {2, 3} = Bits(2, 2) /\ Bits(2, 2) \subseteq {2, 3} /\ Bits(2, 2) \subseteq Word32
    BY <2>1 DEF Word32
  <2>3. Fresh(<<Modify(<<"spi0", 0>>, Bits(2, 2), {2, 3}, One(<<"spi_mode">>, 2))>>)
    BY <2>2, SpiModify
  <2> QED
    BY <1>1, <2>2, <2>3 DEF spi_setDataMode, peri_set_bits
<1>3. Fresh(spi_chipSelect(1))
  <2>1. Bits(1, 0) = {0}
    BY BitsSmall
  <2>2. Bits(1, 0) \cap {0, 1} = Bits(1, 0) /\ Bits(1, 0) \subseteq {0, 1} /\ Bits(1, 0) \subseteq Word32
    BY <2>1 DEF Word32
  <2>3. Fresh(<<Modify(<<"spi0", 0>>, Bits(1, 0), {0, 1}, One(<<"spi_cs">>, 1))>>)
    BY <2>2, SpiModify
  <2> QED
    BY <1>1, <2>2, <2>3 DEF spi_chipSelect, peri_set_bits
<1>4. ASSUME NEW cs \in 0..2, NEW active \in {0, 1} PROVE Fresh(spi_setChipSelectPolarity(cs, active))
  <2> DEFINE v == Bits(active, 21 + cs)
  <2>1. v \subseteq {21 + cs}
    BY BitsSmall
  <2>2. {21 + cs} \subseteq Word32
    BY DEF Word32
  <2>3. v \cap {21 + cs} = v /\ v \subseteq Word32
    BY <2>1, <2>2
  <2>4. Fresh(<<Modify(<<"spi0", 0>>, v, {21 + cs}, One(<<"cspol", cs>>, active))>>)
    BY <2>1, <2>3, SpiModify
  <2> QED
    BY <1>1, <2>3, <2>4 DEF spi_setChipSelectPolarity, peri_set_bits
<1>5. ASSUME NEW v, v = {} \/ v = {4, 5}
      PROVE  Access(peri_write(SpiCs, v, SpiDefaults)) /\ peri_write(SpiCs, v, SpiDefaults).op = "write"
  <2> DEFINE a == <<"spi0", 0>>
             o == peri_write(a, v, SpiDefaults)
             D == {<<"spi_cs">>, <<"spi_mode">>, <<"cspol", 0>>, <<"cspol", 1>>, <<"cspol", 2>>}
  <2>1. DOMAIN SpiDefaults = D /\ \A f \in D : SpiDefaults[f] = 0
    BY DEF SpiDefaults
  <2>2. \A f \in Fields : f \in D <=> FieldOf[f].a = a
    BY SpiFields, SingleFields
  <2>3. \A bus \in Buses : <<bus, "hz">> \notin D /\ <<bus, "div">> \notin D
    BY DEF Buses
  <2>4. Timed(o)
    BY <2>1, <2>3 DEF Timed, peri_write
  <2>5. v \subseteq Word32 /\ ~Refused(a, v) /\ a \notin Latches \cup Acks
    BY <1>5, Special DEF Word32, Refused
  <2>6. ASSUME NEW f \in Fields, FieldOf[f].a = a PROVE f[1] # "pull" /\ v \cap Span(f) = Code(f, SpiDefaults[f])
    <3>1. f[1] # "pull" /\ v \cap Span(f) = {} /\ FieldOf[f].lo \in Int
      BY <1>5, <2>6, SpiFields
    <3>2. SpiDefaults[f] = 0
      BY <2>1, <2>2, <2>6
    <3> QED
      BY <3>1, <3>2, BitsSmall DEF Code
  <2> HIDE DEF D
  <2>7. Access(o) /\ o.op = "write"
    BY <2>1, <2>2, <2>4, <2>5, <2>6, WriteAccess
  <2> QED
    BY <1>1, <2>7
<1>6. Fresh(spi_begin)
  <2> DEFINE x == peri_write(SpiCs, {}, SpiDefaults)
             y == peri_write(SpiCs, SPI0_CS.CLEAR, SpiDefaults)
             p == FselAll(SpiPins, FSEL.ALT0)
  <2>1. Access(x) /\ x.op = "write" /\ Access(y) /\ y.op = "write"
    BY <1>1, <1>5
  <2>2. Fresh(p)
    BY BusPins DEF FSEL
  <2>3. spi_begin = IF ~mapped THEN <<>> ELSE p \o <<x, y>>
    BY DEF spi_begin
  <2> HIDE DEF x, y, p
  <2>4. Fresh(<<x, y>>)
    BY <2>1, FreshTwo
  <2>5. Fresh(p \o <<x, y>>)
    BY <2>2, <2>4, FreshBoth
  <2> QED
    BY <2>3, <2>5, FreshNone
<1> QED
  BY <1>2, <1>3, <1>4, <1>6

\* Division, by what it leaves.
LEMMA Quotient ==
    ASSUME NEW n \in Nat, NEW k \in Nat \ {0}
    PROVE  n \div k \in Nat /\ k * (n \div k) <= n /\ n < k * (n \div k) + k
<1> DEFINE q == n \div k
<1>1. q \in Int /\ n % k \in Int /\ 0 <= n % k /\ n % k < k /\ n = k * q + (n % k)
  OBVIOUS
<1>2. q >= 0
  OBVIOUS
<1> HIDE DEF q
<1>3. k * q \in Int
  BY <1>1
<1> QED
  BY <1>1, <1>2, <1>3 DEF q

\* The larger of two numbers.
LEMMA LargerOf == ASSUME NEW x \in Int, NEW y \in Int PROVE Max({x, y}) = IF x >= y THEN x ELSE y
<1> DEFINE m == IF x >= y THEN x ELSE y
<1>1. m \in {x, y} /\ \A z \in {x, y} : m >= z
  OBVIOUS
<1>2. \A u \in {x, y} : (\A z \in {x, y} : u >= z) => u = m
  OBVIOUS
<1> QED
  BY <1>1, <1>2 DEF Max

\* The smaller of two numbers.
LEMMA SmallerOf == ASSUME NEW x \in Int, NEW y \in Int PROVE Min({x, y}) = IF x <= y THEN x ELSE y
<1> DEFINE m == IF x <= y THEN x ELSE y
<1>1. m \in {x, y} /\ \A z \in {x, y} : m <= z
  OBVIOUS
<1>2. \A u \in {x, y} : (\A z \in {x, y} : u <= z) => u = m
  OBVIOUS
<1> QED
  BY <1>1, <1>2 DEF Min

\* The even divider is the quotient in 16 bits, without the lowest bit.
LEMMA EvenDividerIs ==
    ASSUME NEW hz \in Nat \ {0}
    PROVE  LET d == (CORE_CLK_HZ \div hz) % 65536
           IN  /\ EvenDivider(hz) = d - (d % 2) /\ d \in Nat /\ d < 65536
               /\ EvenDivider(hz) \in Nat /\ EvenDivider(hz) < 65536
<1> DEFINE q == CORE_CLK_HZ \div hz
           d == q % 65536
<1>1. CORE_CLK_HZ \in Nat
  BY SMT DEF CORE_CLK_HZ
<1>2. q \in Nat
  BY <1>1, Quotient, SMT
<1>3. EvenDivider(hz) = d - (d % 2)
  <2>1. 2^16 = 65536
    BY Powers, SMT DEF Pow
  <2> QED
    BY <2>1, SMT DEF EvenDivider
<1> HIDE DEF q
<1>4. d \in Nat /\ d < 65536
  BY <1>2, SMT
<1> HIDE DEF d
<1>5. d - (d % 2) \in Nat /\ d - (d % 2) < 65536
  BY <1>4, SMT
<1> QED
  BY <1>3, <1>4, <1>5, SMT DEF d, q

\* The auxiliary divider is within 12 bits.
LEMMA AuxDividerIs ==
    ASSUME NEW hz \in Nat \ {0}
    PROVE  /\ aux_spi_CalcClockDivider(hz) \in Nat /\ aux_spi_CalcClockDivider(hz) < 65536
           /\ 30500 <= hz /\ hz <= 125000000 =>
                 LET div == (CORE_CLK_HZ + 2 * hz - 1) \div (2 * hz) - 1
                 IN  aux_spi_CalcClockDivider(hz) = IF div <= 4095 THEN div ELSE 4095
<1> DEFINE low == IF hz <= 125000000 THEN hz ELSE 125000000
           speed == IF 30500 >= low THEN 30500 ELSE low
           k == 2 * speed
           n == CORE_CLK_HZ + k - 1
           q == n \div k
           div == q - 1
<1>1. AUX_SPI_CLOCK.MIN = 30500 /\ AUX_SPI_CLOCK.MAX = 125000000 /\ AUX_SPI_CLOCK.SPEED_MAX = 4095
  BY SMT DEF AUX_SPI_CLOCK
<1>2. Min({hz, AUX_SPI_CLOCK.MAX}) = low
  BY <1>1, SmallerOf, SMT
<1>3. Max({AUX_SPI_CLOCK.MIN, low}) = speed
  BY <1>1, LargerOf, SMT
<1>4. low \in Int /\ speed \in Int /\ 30500 <= speed /\ speed <= 125000000
  BY SMT
<1>5. 30500 <= hz /\ hz <= 125000000 => speed = hz
  BY SMT
<1> HIDE DEF low, speed
<1>6. aux_spi_CalcClockDivider(hz) = Min({div, 4095})
  <2>1. aux_spi_CalcClockDivider(hz) = Min({div, AUX_SPI_CLOCK.SPEED_MAX})
    BY <1>2, <1>3, Zenon DEF aux_spi_CalcClockDivider
  <2> QED
    BY <1>1, <2>1, SMT
<1>7. k \in Nat /\ k > 0 /\ k <= 250000000 /\ n \in Nat /\ n = 250000000 + k - 1
  BY <1>4, SMT DEF CORE_CLK_HZ
<1> HIDE DEF n, k
<1>8. q \in Nat /\ n < k * q + k
  BY <1>7, Quotient, SMT
<1> HIDE DEF q
<1>9. q >= 1
  <2> SUFFICES ASSUME q = 0 PROVE FALSE
    BY <1>8, SMT
  <2>1. k * q = 0
    BY <1>7, SMT
  <2> QED
    BY <1>7, <1>8, <2>1, SMT
<1>10. Min({div, 4095}) = (IF div <= 4095 THEN div ELSE 4095) /\ div \in Nat
  BY <1>8, <1>9, SmallerOf, SMT
<1>11. Min({div, 4095}) \in Nat /\ Min({div, 4095}) < 65536
  BY <1>10, SMT
<1> QED
  BY <1>5, <1>6, <1>10, <1>11, SMT DEF q, n, k

\* Two values, the first over the second.
LEMMA OverOneDomain ==
    ASSUME NEW x, NEW u, NEW y, NEW v, NEW h, h = Over(One(x, u), One(y, v))
    PROVE  \A z : z \in DOMAIN h <=> z = x \/ z = y
  BY DEF One, Over

\* The values of a function of two places.
LEMMA OverOneValues ==
    ASSUME NEW x, NEW u, NEW y, NEW v, x # y, NEW h, h = Over(One(x, u), One(y, v))
    PROVE  h[x] = u /\ h[y] = v
  BY DEF One, Over

\* The register of a divider has no other field.
LEMMA DividerFields ==
    /\ SpiClk = <<"spi0", 2>> /\ Spi1Speed = <<"lib", "spi1_speed">> /\ BscDiv = <<"bsc1", 5>>
    /\ \A bus \in Buses : LET g == <<bus, "div">> IN
          /\ g \in Fields /\ FieldOf[g].lo = 0 /\ FieldOf[g].n = 16 /\ Span(g) = 0..15
          /\ FieldOf[g].a = CASE bus = "spi0" -> SpiClk [] bus = "spi1" -> Spi1Speed [] bus = "bsc1" -> BscDiv
          /\ \A f \in Fields : FieldOf[f].a = FieldOf[g].a => f = g
<1>1. SpiClk = <<"spi0", 2>> /\ Spi1Speed = <<"lib", "spi1_speed">> /\ BscDiv = <<"bsc1", 5>>
  BY DEF SpiClk, SPI0, Spi1Speed, BscDiv, BSC
<1>2. ASSUME NEW bus \in Buses
      PROVE  LET g == <<bus, "div">> IN
             /\ g \in Fields /\ FieldOf[g].lo = 0 /\ FieldOf[g].n = 16 /\ Span(g) = 0..15
             /\ FieldOf[g].a = CASE bus = "spi0" -> SpiClk [] bus = "spi1" -> Spi1Speed [] bus = "bsc1" -> BscDiv
             /\ \A f \in Fields : FieldOf[f].a = FieldOf[g].a => f = g
  <2> DEFINE g == <<bus, "div">>
  <2>1. g[1] = bus /\ g[2] = "div" /\ bus \in {"spi0", "spi1", "bsc1"}
    BY DEF Buses
  <2>2. g \in Fields
    BY DEF Fields, Buses
  <2>3. FieldOf[g] = Field(g)
    BY <2>2 DEF FieldOf
  <2> HIDE DEF g
  <2>4. /\ bus = "spi0" => FieldOf[g] = At("spi0", 2, 0, 16)
        /\ bus = "spi1" => FieldOf[g] = At("lib", "spi1_speed", 0, 16)
        /\ bus = "bsc1" => FieldOf[g] = At("bsc1", 5, 0, 16)
    BY <2>1, <2>3, FieldArms
  <2>5. FieldOf[g].lo = 0 /\ FieldOf[g].n = 16
    BY <2>1, <2>4, AtParts
  <2>6. /\ bus = "spi0" => FieldOf[g].a = <<"spi0", 2>>
        /\ bus = "spi1" => FieldOf[g].a = <<"lib", "spi1_speed">>
        /\ bus = "bsc1" => FieldOf[g].a = <<"bsc1", 5>>
    BY <2>4, AtParts
  <2>7. Span(g) = 0..15
    BY <2>5 DEF Span
  <2>8. ASSUME NEW f \in Fields, FieldOf[f].a = FieldOf[g].a PROVE f = g
    <3>1. \/ bus = "spi0" /\ FieldOf[f].a = <<"spi0", 2>>
          \/ bus = "spi1" /\ FieldOf[f].a = <<"lib", "spi1_speed">>
          \/ bus = "bsc1" /\ FieldOf[f].a = <<"bsc1", 5>>
      BY <2>1, <2>6, <2>8
    <3>2. f = <<bus, "div">>
      BY <3>1, OtherBlocks, AtParts
    <3> QED
      BY <3>2 DEF g
  <2> QED
    BY <1>1, <2>1, <2>2, <2>5, <2>6, <2>7, <2>8 DEF g
<1> QED
  BY <1>1, <1>2

\* A divider and its speed.
LEMMA DividerDomain ==
    ASSUME NEW bus, NEW d, NEW hz, NEW set, set = Over(One(<<bus, "div">>, d), One(<<bus, "hz">>, hz))
    PROVE  \A z : z \in DOMAIN set <=> z = <<bus, "div">> \/ z = <<bus, "hz">>
  BY OverOneDomain

\* What the write of a divider sets.
LEMMA DividerValues ==
    ASSUME NEW bus, NEW d, NEW hz, NEW set, set = Over(One(<<bus, "div">>, d), One(<<bus, "hz">>, hz))
    PROVE  set[<<bus, "div">>] = d /\ set[<<bus, "hz">>] = hz
<1>1. <<bus, "div">> # <<bus, "hz">>
  OBVIOUS
<1> QED
  BY <1>1, OverOneValues

\* The write of a divider sets the divider of the speed it names.
LEMMA DividerTimed ==
    ASSUME NEW bus \in Buses, NEW d, NEW hz, hz = 0 \/ (hz \in Nat \ {0} /\ d = Divisor(bus, hz)),
           NEW o, o.set = Over(One(<<bus, "div">>, d), One(<<bus, "hz">>, hz))
    PROVE  Timed(o)
<1>1. /\ \A z : z \in DOMAIN o.set <=> z = <<bus, "div">> \/ z = <<bus, "hz">>
      /\ o.set[<<bus, "div">>] = d /\ o.set[<<bus, "hz">>] = hz
  BY DividerDomain, DividerValues
<1>2. ASSUME NEW b \in Buses
      PROVE  /\ <<b, "hz">> \in DOMAIN o.set <=> <<b, "div">> \in DOMAIN o.set
             /\ <<b, "hz">> \in DOMAIN o.set =>
                   \/ o.set[<<b, "hz">>] = 0
                   \/ o.set[<<b, "hz">>] \in Nat \ {0} /\ o.set[<<b, "div">>] = Divisor(b, o.set[<<b, "hz">>])
  <2>1. CASE b = bus
    BY <1>1, <2>1
  <2>2. CASE b # bus
    <3>1. <<b, "hz">> \notin DOMAIN o.set /\ <<b, "div">> \notin DOMAIN o.set
      BY <1>1, <2>2
    <3> QED
      BY <3>1
  <2> QED
    BY <2>1, <2>2
<1> QED
  BY <1>2 DEF Timed

\* A write of a divider.
LEMMA DividerProgram ==
    ASSUME NEW bus \in Buses, NEW a, a = FieldOf[<<bus, "div">>].a, NEW d \in Nat, d < Pow(16),
           NEW hz, hz = 0 \/ (hz \in Nat \ {0} /\ d = Divisor(bus, hz))
    PROVE  Fresh(Divider(a, bus, d, hz))
<1> DEFINE g == <<bus, "div">>
           h == <<bus, "hz">>
           set == Over(One(g, d), One(h, hz))
           v == Bits(d, 0)
           o == peri_write(a, v, set)
<1>1. o.set = set /\ (\A z : z \in DOMAIN set <=> z = g \/ z = h) /\ set[g] = d /\ set[h] = hz
  <2>1. o.set = set
    BY DEF peri_write
  <2>2. (\A z : z \in DOMAIN set <=> z = g \/ z = h) /\ set[g] = d /\ set[h] = hz
    BY DividerDomain, DividerValues
  <2> QED
    BY <2>1, <2>2
<1>2. v \subseteq 0..15
  <2>1. 16 \in 0..17 /\ 0 \in Int
    OBVIOUS
  <2>2. v \subseteq 0..(0 + 16 - 1)
    BY <2>1, BitsBelow
  <2> QED
    BY <2>2
<1>3. /\ g \in Fields /\ FieldOf[g].lo = 0 /\ Span(g) = 0..15 /\ FieldOf[g].a = a
      /\ \A f \in Fields : FieldOf[f].a = a => f = g
  BY DividerFields
<1>4. h \notin Fields
  <2> SUFFICES ASSUME h \in Fields PROVE FALSE
    OBVIOUS
  <2>1. h[1] = bus /\ h[2] = "hz" /\ bus \in {"spi0", "spi1", "bsc1"}
    BY DEF Buses
  <2> HIDE DEF h
  <2>2. Field(h).a = FieldOf[g].a
    <3>1. g[1] = bus /\ FieldOf[g] = Field(g)
      BY <1>3 DEF FieldOf
    <3> HIDE DEF g
    <3> QED
      BY <2>1, <3>1, FieldArms, AtParts
  <2>3. h = g
    BY <1>3, <2>2 DEF FieldOf
  <2> QED
    BY <2>1, <2>3
<1>5. a[1] \in {"spi0", "lib", "bsc1"}
  BY DividerFields DEF Buses
<1>6. ~Refused(a, v) /\ a \notin Latches \cup Acks /\ a[1] # "latch"
  BY <1>5, Special DEF Refused
<1>7. Timed(o)
  <2>1. o.set = Over(One(<<bus, "div">>, d), One(<<bus, "hz">>, hz))
    BY DEF peri_write
  <2> HIDE DEF o
  <2> QED
    BY <2>1, DividerTimed
<1>8. v \subseteq Word32
  BY <1>2 DEF Word32
<1>9. v \cap Span(g) = Code(g, d) /\ g[1] # "pull"
  <2>1. g[1] = bus /\ bus # "pull"
    BY DEF Buses
  <2> QED
    BY <1>2, <1>3, <2>1 DEF Code
<1> HIDE DEF g, h, set, v
<1>10. \A f \in Fields : f \in DOMAIN set <=> FieldOf[f].a = a
  BY <1>1, <1>3, <1>4
<1>11. \A f \in Fields : FieldOf[f].a = a => f[1] # "pull" /\ v \cap Span(f) = Code(f, set[f])
  BY <1>1, <1>3, <1>9
<1>12. Access(o) /\ o.op = "write"
  BY <1>6, <1>7, <1>8, <1>10, <1>11, WriteAccess
<1>13. Divider(a, bus, d, hz) = <<o>>
  BY DEF Divider, set, v, g, h
<1> HIDE DEF o
<1> QED
  BY <1>12, <1>13, FreshOne

\* The calls that set a speed.
LEMMA SpeedPrograms ==
    /\ Fresh(spi_setClockDivider(32768)) /\ Fresh(aux_spi_setClockDivider(4000)) /\ Fresh(i2c_setClockDivider(626))
    /\ \A hz \in Nat \ {0} : Fresh(spi_set_speed_hz(hz)) /\ Fresh(aux_spi_speed(hz)) /\ Fresh(i2c_set_baudrate(hz))
<1>1. /\ "spi0" \in Buses /\ FieldOf[<<"spi0", "div">>].a = SpiClk
      /\ "spi1" \in Buses /\ FieldOf[<<"spi1", "div">>].a = Spi1Speed
      /\ "bsc1" \in Buses /\ FieldOf[<<"bsc1", "div">>].a = BscDiv
  BY DividerFields DEF Buses
<1>2. Fresh(spi_setClockDivider(32768))
  BY <1>1, DividerProgram, Powers, SMT DEF spi_setClockDivider
<1>3. Fresh(aux_spi_setClockDivider(4000))
  BY <1>1, DividerProgram, Powers, SMT DEF aux_spi_setClockDivider
<1>4. Fresh(i2c_setClockDivider(626))
  BY <1>1, DividerProgram, Powers, SMT DEF i2c_setClockDivider
<1>5. ASSUME NEW hz \in Nat \ {0} PROVE Fresh(spi_set_speed_hz(hz))
  <2>1. EvenDivider(hz) \in Nat /\ EvenDivider(hz) < 65536 /\ EvenDivider(hz) = Divisor("spi0", hz)
    BY EvenDividerIs, SMT DEF Divisor
  <2> QED
    BY <1>1, <2>1, DividerProgram, Powers, SMT DEF spi_set_speed_hz
<1>6. ASSUME NEW hz \in Nat \ {0} PROVE Fresh(i2c_set_baudrate(hz))
  <2>1. EvenDivider(hz) \in Nat /\ EvenDivider(hz) < 65536 /\ EvenDivider(hz) = Divisor("bsc1", hz)
    BY EvenDividerIs, SMT DEF Divisor
  <2> QED
    BY <1>1, <2>1, DividerProgram, Powers, SMT DEF i2c_set_baudrate
<1>7. ASSUME NEW hz \in Nat \ {0} PROVE Fresh(aux_spi_speed(hz))
  <2> DEFINE d == aux_spi_CalcClockDivider(hz)
  <2>1. d \in Nat /\ d < 65536 /\ d = Divisor("spi1", hz)
    BY AuxDividerIs, SMT DEF Divisor
  <2> QED
    BY <1>1, <2>1, DividerProgram, Powers, SMT DEF aux_spi_speed
<1> QED
  BY <1>2, <1>3, <1>4, <1>5, <1>6, <1>7

\* The set-up of the auxiliary SPI and of I2C.
LEMMA AuxPrograms == Fresh(aux_spi_begin)
<1> DEFINE e == peri_write(<<"aux", 1>>, {1}, One(<<"aux_enable">>, 2))
           x == peri_write(<<"spi1", 1>>, {}, nothing)
           y == peri_write(<<"spi1", 0>>, {9}, nothing)
           p == FselAll(AuxPins, FSEL.ALT4)
           q == aux_spi_speed(1000000)
<1>1. Access(e) /\ e.op = "write"
  <2> DEFINE g == <<"aux_enable">>
  <2>1. g \in Fields /\ FieldOf[g].a = <<"aux", 1>> /\ FieldOf[g].lo = 0 /\ FieldOf[g].n = 3
    BY SingleFields, AtParts
  <2>2. {1} \cap Span(g) = Code(g, 2)
    <3>1. Span(g) = 0..2 /\ Code(g, 2) = Bits(2, 0)
      BY <2>1 DEF Span, Code
    <3> QED
      BY <3>1, BitsSmall
  <2>3. {1} \subseteq Word32 /\ ~Refused(<<"aux", 1>>, {1}) /\ <<"aux", 1>> \notin Latches \cup Acks
    BY Special DEF Word32, Refused
  <2>4. \A f \in Fields : FieldOf[f].a = <<"aux", 1>> => f = g
    BY OtherBlocks
  <2>5. g[1] # "pull" /\ \A bus \in Buses : g # <<bus, "hz">> /\ g # <<bus, "div">>
    OBVIOUS
  <2> HIDE DEF g
  <2>6. Access(peri_write(<<"aux", 1>>, {1}, One(g, 2))) /\ peri_write(<<"aux", 1>>, {1}, One(g, 2)).op = "write"
    BY <2>1, <2>2, <2>3, <2>4, <2>5, WriteOne
  <2> QED
    BY <2>6 DEF g
<1>2. Access(x) /\ x.op = "write" /\ Access(y) /\ y.op = "write"
  <2>1. \A f \in Fields : \A w : FieldOf[f].a # <<"spi1", w>>
    BY Blocks
  <2>2. {9} \subseteq Word32 /\ {} \subseteq Word32
    BY DEF Word32
  <2>3. \A w, v : ~Refused(<<"spi1", w>>, v) /\ <<"spi1", w>> \notin Latches \cup Acks
    BY Special DEF Refused
  <2> QED
    BY <2>1, <2>2, <2>3, WriteNone
<1>3. Fresh(p)
  BY BusPins DEF FSEL
<1>4. Fresh(q)
  <2>1. 1000000 \in Nat \ {0}
    BY SMT
  <2> QED
    BY <2>1, SpeedPrograms, SMT
<1>5. aux_spi_begin = IF ~mapped THEN <<>> ELSE ((p \o q) \o <<e>>) \o <<x, y>>
  <2>1. AUX_ENABLE \div 4 = 1 /\ AUX_SPI.CNTL1 \div 4 = 1 /\ AUX_SPI.CNTL0 \div 4 = 0 /\ CLEARFIFO = {9}
    BY DEF AUX_ENABLE, AUX_SPI, CLEARFIFO
  <2>2. aux_spi_reset("spi1") = <<x, y>>
    BY <2>1 DEF aux_spi_reset
  <2> QED
    BY <2>1, <2>2, SMT DEF aux_spi_begin
<1> HIDE DEF e, x, y, p, q
<1>6. Fresh(<<e>>) /\ Fresh(<<x, y>>)
  BY <1>1, <1>2, FreshOne, FreshTwo
<1>7. Fresh(p \o q)
  BY <1>3, <1>4, FreshBoth
<1>8. Fresh((p \o q) \o <<e>>)
  BY <1>6, <1>7, FreshBoth
<1>9. Fresh(((p \o q) \o <<e>>) \o <<x, y>>)
  BY <1>6, <1>8, FreshBoth
<1> QED
  BY <1>5, <1>9, FreshNone

\* The programs of I2C.
LEMMA I2cPrograms == Fresh(i2c_begin) /\ Fresh(i2c_setSlaveAddress(\h5A))
<1>1. Fresh(i2c_begin)
  BY BusPins, FreshNone DEF i2c_begin, FSEL
<1>2. Fresh(i2c_setSlaveAddress(\h5A))
  <2> DEFINE g == <<"i2c_addr">>
             a == <<"bsc1", 3>>
             v == Bits(\h5A, 0)
             o == peri_write(a, v, One(g, \h5A))
  <2>1. g \in Fields /\ FieldOf[g].a = a /\ FieldOf[g].lo = 0 /\ FieldOf[g].n = 7
    BY SingleFields, AtParts
  <2>2. v \subseteq 0..6
    <3>1. 90 \in Nat /\ 90 < Pow(7) /\ 7 \in 0..17 /\ 0 \in Int
      BY Powers
    <3>2. Bits(90, 0) \subseteq 0..(0 + 7 - 1)
      BY <3>1, BitsBelow
    <3> QED
      BY <3>2
  <2>3. Code(g, \h5A) = v /\ Span(g) = 0..6
    BY <2>1 DEF Span, Code
  <2>4. ~Refused(a, v) /\ a \notin Latches \cup Acks
    BY Special DEF Refused
  <2>5. \A f \in Fields : FieldOf[f].a = a => f = g
    BY OtherBlocks, AtParts
  <2>6. g[1] # "pull" /\ \A bus \in Buses : g # <<bus, "hz">> /\ g # <<bus, "div">>
    OBVIOUS
  <2>7. BSC.A \div 4 = 3
    BY DEF BSC
  <2> HIDE DEF g, v
  <2>8. v \subseteq Word32 /\ v \cap Span(g) = Code(g, \h5A)
    <3>1. v \subseteq Word32
      BY <2>2 DEF Word32
    <3>2. v \subseteq Span(g)
      BY <2>2, <2>3
    <3>3. v \cap Span(g) = v
      BY <3>2
    <3> QED
      BY <2>3, <3>1, <3>3
  <2>9. Access(o) /\ o.op = "write"
    BY <2>1, <2>4, <2>5, <2>6, <2>8, WriteOne
  <2> HIDE DEF o
  <2>10. Fresh(<<o>>)
    BY <2>9, FreshOne
  <2> QED
    BY <2>7, <2>10 DEF i2c_setSlaveAddress, o, v, g
<1> QED
  BY <1>1, <1>2

\* The slot of a channel for reading or writing has four fields.
LEMMA SmiFields ==
    ASSUME NEW c \in 0..3, NEW r \in BOOLEAN
    PROVE  /\ SmiSlot(c, r) = <<"smi", 4 + 2 * c + (IF r THEN 0 ELSE 1)>>
           /\ \A f \in Fields : FieldOf[f].a = SmiSlot(c, r) =>
                 /\ f = <<"smi", c, r, f[4]>>
                 /\ \/ f[4] = "setup" /\ FieldOf[f].lo = 24 /\ Span(f) = 24..29
                    \/ f[4] = "hold" /\ FieldOf[f].lo = 16 /\ Span(f) = 16..21
                    \/ f[4] = "pace" /\ FieldOf[f].lo = 8 /\ Span(f) = 8..14
                    \/ f[4] = "strobe" /\ FieldOf[f].lo = 0 /\ Span(f) = 0..6
           /\ \A part \in Parts : <<"smi", c, r, part>> \in Fields /\ FieldOf[<<"smi", c, r, part>>].a = SmiSlot(c, r)
<1> DEFINE w == 4 + 2 * c + (IF r THEN 0 ELSE 1)
<1>1. SmiSlot(c, r) = <<"smi", w>>
  <2>1. SMI.READ[c + 1] = 4 + 2 * c /\ SMI.WRITE[c + 1] = 4 + 2 * c + 1
    BY DEF SMI
  <2> QED
    BY <2>1 DEF SmiSlot
<1>2. ASSUME NEW f \in Fields, FieldOf[f].a = <<"smi", w>>
      PROVE  /\ f = <<"smi", c, r, f[4]>>
             /\ \/ f[4] = "setup" /\ FieldOf[f].lo = 24 /\ Span(f) = 24..29
                \/ f[4] = "hold" /\ FieldOf[f].lo = 16 /\ Span(f) = 16..21
                \/ f[4] = "pace" /\ FieldOf[f].lo = 8 /\ Span(f) = 8..14
                \/ f[4] = "strobe" /\ FieldOf[f].lo = 0 /\ Span(f) = 0..6
  <2>1. FieldOf[f].a[1] = "smi"
    BY <1>2
  <2>2. /\ f = <<"smi", f[2], f[3], f[4]>> /\ f[2] \in 0..3 /\ f[3] \in BOOLEAN /\ f[4] \in Parts
        /\ FieldOf[f].a = <<"smi", 4 + 2 * f[2] + (IF f[3] THEN 0 ELSE 1)>>
    BY <2>1, SmiBlock
  <2>3. 4 + 2 * f[2] + (IF f[3] THEN 0 ELSE 1) = w
    BY <1>2, <2>2
  <2>4. f[2] = c /\ f[3] = r
    BY <2>2, <2>3
  <2>5. \/ f[4] = "setup" /\ FieldOf[f].lo = 24 /\ FieldOf[f].n = 6
        \/ f[4] = "hold" /\ FieldOf[f].lo = 16 /\ FieldOf[f].n = 6
        \/ f[4] = "pace" /\ FieldOf[f].lo = 8 /\ FieldOf[f].n = 7
        \/ f[4] = "strobe" /\ FieldOf[f].lo = 0 /\ FieldOf[f].n = 7
    BY <2>1, <2>2, SmiBlock DEF Parts
  <2>6. f = <<"smi", c, r, f[4]>>
    BY <2>2, <2>4
  <2>7. /\ FieldOf[f].lo = 24 /\ FieldOf[f].n = 6 => Span(f) = 24..29
        /\ FieldOf[f].lo = 16 /\ FieldOf[f].n = 6 => Span(f) = 16..21
        /\ FieldOf[f].lo = 8 /\ FieldOf[f].n = 7 => Span(f) = 8..14
        /\ FieldOf[f].lo = 0 /\ FieldOf[f].n = 7 => Span(f) = 0..6
    BY DEF Span
  <2> QED
    BY <2>5, <2>6, <2>7
<1>3. ASSUME NEW part \in Parts PROVE <<"smi", c, r, part>> \in Fields /\ FieldOf[<<"smi", c, r, part>>].a = <<"smi", w>>
  <2> DEFINE f == <<"smi", c, r, part>>
  <2>1. f \in Fields
    BY DEF Fields, Parts
  <2>2. f[1] = "smi" /\ f[2] = c /\ f[3] = r
    OBVIOUS
  <2> HIDE DEF f
  <2>3. FieldOf[f].a = <<"smi", w>>
    BY <2>1, <2>2, SmiArm DEF FieldOf
  <2> QED
    BY <2>1, <2>3 DEF f
<1> QED
  BY <1>1, <1>2, <1>3

\* The fields of a slot that are set, and their values.
LEMMA SmiPartsDomain ==
    ASSUME NEW c, NEW r, NEW setup, NEW strobe, NEW hold, NEW pace,
           NEW set, set = SmiParts(c, r, setup, strobe, hold, pace)
    PROVE  \A z : z \in DOMAIN set <=> \E part \in Parts : z = <<"smi", c, r, part>>
<1>1. DOMAIN set = {<<"smi", c, r, part>> : part \in Parts}
  BY DEF SmiParts, Parts
<1> QED
  BY <1>1

\* What a write of a timing slot sets.
LEMMA SmiPartsValues ==
    ASSUME NEW c, NEW r, NEW setup, NEW strobe, NEW hold, NEW pace,
           NEW set, set = SmiParts(c, r, setup, strobe, hold, pace)
    PROVE  /\ set[<<"smi", c, r, "setup">>] = setup /\ set[<<"smi", c, r, "strobe">>] = strobe
           /\ set[<<"smi", c, r, "hold">>] = hold /\ set[<<"smi", c, r, "pace">>] = pace
<1> DEFINE S == {<<"smi", c, r, part>> : part \in Parts}
<1>1. set = [f \in S |-> CASE f[4] = "setup" -> setup [] f[4] = "strobe" -> strobe
                           [] f[4] = "hold" -> hold [] f[4] = "pace" -> pace]
  BY DEF SmiParts, Parts
<1>2. \A part \in Parts : <<"smi", c, r, part>> \in S
  OBVIOUS
<1> HIDE DEF S
<1>3. ASSUME NEW part \in Parts
      PROVE  set[<<"smi", c, r, part>>] = CASE part = "setup" -> setup [] part = "strobe" -> strobe
                                            [] part = "hold" -> hold [] part = "pace" -> pace
  <2> DEFINE f == <<"smi", c, r, part>>
  <2>1. f \in S /\ f[4] = part
    BY <1>2
  <2> HIDE DEF f
  <2>2. set[f] = CASE f[4] = "setup" -> setup [] f[4] = "strobe" -> strobe
                   [] f[4] = "hold" -> hold [] f[4] = "pace" -> pace
    BY <1>1, <2>1
  <2> QED
    BY <2>1, <2>2 DEF f
<1>4. set[<<"smi", c, r, "setup">>] = setup
  BY <1>3 DEF Parts
<1>5. set[<<"smi", c, r, "strobe">>] = strobe
  BY <1>3 DEF Parts
<1>6. set[<<"smi", c, r, "hold">>] = hold
  BY <1>3 DEF Parts
<1>7. set[<<"smi", c, r, "pace">>] = pace
  BY <1>3 DEF Parts
<1> QED
  BY <1>4, <1>5, <1>6, <1>7

\* The bits of a slot: the four values side by side, and others.
SmiWord(setup, strobe, hold, pace, x) == SmiTiming(setup, strobe, hold, pace) \cup x

\* The four values side by side: each field holds its own.
LEMMA SmiTimingFits ==
    ASSUME NEW setup \in Nat, setup < Pow(6), NEW strobe \in Nat, strobe < Pow(7),
           NEW hold \in Nat, hold < Pow(6), NEW pace \in Nat, pace < Pow(7),
           NEW x, x = {} \/ x = {15}, NEW v, v = SmiWord(setup, strobe, hold, pace, x)
    PROVE  /\ v \subseteq Word32
           /\ v \cap (24..29) = Bits(setup, 24) /\ v \cap (16..21) = Bits(hold, 16)
           /\ v \cap (8..14) = Bits(pace, 8) /\ v \cap (0..6) = Bits(strobe, 0)
<1> DEFINE s == Bits(setup, 24)
           t == Bits(strobe, 0)
           h == Bits(hold, 16)
           p == Bits(pace, 8)
<1>1. v = (s \cup t \cup h \cup p) \cup x
  BY DEF SmiWord, SmiTiming, SMI_RW
<1>2. s \subseteq 24..(24 + 6 - 1)
  BY BitsBelow
<1>3. t \subseteq 0..(0 + 7 - 1)
  BY BitsBelow
<1>4. h \subseteq 16..(16 + 6 - 1)
  BY BitsBelow
<1>5. p \subseteq 8..(8 + 7 - 1)
  BY BitsBelow
<1> HIDE DEF s, t, h, p
<1>6. /\ \A i \in s : i \in Int /\ 24 <= i /\ i <= 29
      /\ \A i \in t : i \in Int /\ 0 <= i /\ i <= 6
      /\ \A i \in h : i \in Int /\ 16 <= i /\ i <= 21
      /\ \A i \in p : i \in Int /\ 8 <= i /\ i <= 14
      /\ \A i \in x : i = 15
  BY <1>2, <1>3, <1>4, <1>5
<1>7. v \subseteq Word32
  BY <1>1, <1>6 DEF Word32
<1>8. v \cap (24..29) = s
  BY <1>1, <1>6
<1>9. v \cap (16..21) = h
  BY <1>1, <1>6
<1>10. v \cap (8..14) = p
  BY <1>1, <1>6
<1>11. v \cap (0..6) = t
  BY <1>1, <1>6
<1> QED
  BY <1>7, <1>8, <1>9, <1>10, <1>11 DEF s, t, h, p

\* A timing word whose numbers fit their fields gives every field its own number.
LEMMA SmiExact ==
    ASSUME NEW c \in 0..3, NEW r \in BOOLEAN,
           NEW setup \in Nat, setup < Pow(6), NEW strobe \in Nat, strobe < Pow(7),
           NEW hold \in Nat, hold < Pow(6), NEW pace \in Nat, pace < Pow(7), NEW x, x = {} \/ x = {15},
           NEW set, set = SmiParts(c, r, setup, strobe, hold, pace),
           NEW v, v = SmiWord(setup, strobe, hold, pace, x)
    PROVE  /\ \A f \in Fields : FieldOf[f].a = SmiSlot(c, r) =>
                 f \in DOMAIN set /\ f[1] # "pull" /\ v \cap Span(f) = Code(f, set[f])
           /\ \A f \in Fields : f \in DOMAIN set => FieldOf[f].a = SmiSlot(c, r)
           /\ \A bus \in Buses : <<bus, "hz">> \notin DOMAIN set /\ <<bus, "div">> \notin DOMAIN set
           /\ v \subseteq Word32
<1>1. \A z : z \in DOMAIN set <=> \E part \in Parts : z = <<"smi", c, r, part>>
  BY SmiPartsDomain
<1>2. /\ set[<<"smi", c, r, "setup">>] = setup /\ set[<<"smi", c, r, "strobe">>] = strobe
      /\ set[<<"smi", c, r, "hold">>] = hold /\ set[<<"smi", c, r, "pace">>] = pace
  BY SmiPartsValues
<1>3. /\ v \subseteq Word32
      /\ v \cap (24..29) = Bits(setup, 24) /\ v \cap (16..21) = Bits(hold, 16)
      /\ v \cap (8..14) = Bits(pace, 8) /\ v \cap (0..6) = Bits(strobe, 0)
  BY SmiTimingFits
<1>4. ASSUME NEW f \in Fields, FieldOf[f].a = SmiSlot(c, r)
      PROVE  f \in DOMAIN set /\ f[1] # "pull" /\ v \cap Span(f) = Code(f, set[f])
  <2>1. f = <<"smi", c, r, f[4]>>
    BY <1>4, SmiFields
  <2>2. \/ f[4] = "setup" /\ FieldOf[f].lo = 24 /\ Span(f) = 24..29
        \/ f[4] = "hold" /\ FieldOf[f].lo = 16 /\ Span(f) = 16..21
        \/ f[4] = "pace" /\ FieldOf[f].lo = 8 /\ Span(f) = 8..14
        \/ f[4] = "strobe" /\ FieldOf[f].lo = 0 /\ Span(f) = 0..6
    BY <1>4, SmiFields
  <2>3. f \in DOMAIN set /\ f[1] = "smi"
    BY <1>1, <2>1, <2>2 DEF Parts
  <2>4. Code(f, set[f]) = Bits(set[f], FieldOf[f].lo)
    BY <2>3 DEF Code
  <2>5. CASE f[4] = "setup" /\ FieldOf[f].lo = 24 /\ Span(f) = 24..29
    <3>1. set[f] = setup
      BY <1>2, <2>1, <2>5
    <3> QED
      BY <1>3, <2>3, <2>4, <2>5, <3>1
  <2>6. CASE f[4] = "hold" /\ FieldOf[f].lo = 16 /\ Span(f) = 16..21
    <3>1. set[f] = hold
      BY <1>2, <2>1, <2>6
    <3> QED
      BY <1>3, <2>3, <2>4, <2>6, <3>1
  <2>7. CASE f[4] = "pace" /\ FieldOf[f].lo = 8 /\ Span(f) = 8..14
    <3>1. set[f] = pace
      BY <1>2, <2>1, <2>7
    <3> QED
      BY <1>3, <2>3, <2>4, <2>7, <3>1
  <2>8. CASE f[4] = "strobe" /\ FieldOf[f].lo = 0 /\ Span(f) = 0..6
    <3>1. set[f] = strobe
      BY <1>2, <2>1, <2>8
    <3> QED
      BY <1>3, <2>3, <2>4, <2>8, <3>1
  <2> QED
    BY <2>2, <2>5, <2>6, <2>7, <2>8
<1>5. \A f \in Fields : f \in DOMAIN set => FieldOf[f].a = SmiSlot(c, r)
  BY <1>1, SmiFields
<1>6. \A bus \in Buses : <<bus, "hz">> \notin DOMAIN set /\ <<bus, "div">> \notin DOMAIN set
  BY <1>1 DEF Buses
<1> QED
  BY <1>3, <1>4, <1>5, <1>6

\* A set_bits that sets several fields, no divider among them.
LEMMA ModifySet ==
    ASSUME NEW a, NEW v, NEW clear, NEW set, Sharable(a), v \subseteq Word32,
           \A bus \in Buses : <<bus, "hz">> \notin DOMAIN set /\ <<bus, "div">> \notin DOMAIN set,
           \A f \in Fields : f \in DOMAIN set => FieldOf[f].a = a,
           \A f \in Fields : FieldOf[f].a = a =>
               IF f \in DOMAIN set THEN Span(f) \subseteq clear /\ v \cap Span(f) = Code(f, set[f]) /\ f[1] # "pull"
                                   ELSE Span(f) \cap (clear \cup v) = {}
    PROVE  Fresh(<<Modify(a, v, clear, set)>>)
<1> DEFINE o == Modify(a, v, clear, set)
<1>1. /\ o.op = "read" /\ o.a = a /\ o.v = v /\ o.clear = clear /\ o.set = set
      /\ o = [op |-> o.op, a |-> o.a, v |-> o.v, clear |-> o.clear, set |-> o.set]
  BY DEF Modify
<1> HIDE DEF o
<1>2. Timed(o)
  BY <1>1 DEF Timed
<1>3. Exact(o)
  BY <1>1 DEF Exact
<1>4. \A f \in Fields : f \in DOMAIN set => FieldOf[f].a = a /\ f[1] # "out"
  BY NotShared DEF Sharable
<1>5. Sets(o)
  BY <1>1, <1>2, <1>4 DEF Sets, Own
<1>6. Access(o)
  BY <1>1, <1>3, <1>5 DEF Access
<1> QED
  BY <1>1, <1>6, FreshOne DEF o

\* The masks of the timing fields cover them.
LEMMA Masks ==
    /\ 24..29 \subseteq Bits(\h3F, 24) /\ 16..21 \subseteq Bits(\h3F, 16)
    /\ 8..14 \subseteq Bits(\h7F, 8) /\ 0..6 \subseteq Bits(\h7F, 0)
<1>1. Odd(63, 0) /\ Odd(63, 1) /\ Odd(63, 2) /\ Odd(63, 3) /\ Odd(63, 4) /\ Odd(63, 5)
  BY Powers DEF Odd
<1>2. Odd(127, 0) /\ Odd(127, 1) /\ Odd(127, 2) /\ Odd(127, 3) /\ Odd(127, 4) /\ Odd(127, 5) /\ Odd(127, 6)
  BY Powers DEF Odd
<1> HIDE DEF Odd
<1>3. \A i \in 0..5 : Odd(63, i)
  BY <1>1
<1>4. \A i \in 0..6 : Odd(127, i)
  BY <1>2
<1>5. \A s \in Int : s..(s + 5) \subseteq Bits(63, s)
  <2> TAKE s \in Int
  <2> SUFFICES ASSUME NEW k \in s..(s + 5) PROVE k \in Bits(63, s)
    OBVIOUS
  <2>1. k - s \in 0..5 /\ k - s \in 0..17 /\ k = s + (k - s)
    OBVIOUS
  <2> QED
    BY <1>3, <2>1, BitsAre
<1>6. \A s \in Int : s..(s + 6) \subseteq Bits(127, s)
  <2> TAKE s \in Int
  <2> SUFFICES ASSUME NEW k \in s..(s + 6) PROVE k \in Bits(127, s)
    OBVIOUS
  <2>1. k - s \in 0..6 /\ k - s \in 0..17 /\ k = s + (k - s)
    OBVIOUS
  <2> QED
    BY <1>4, <2>1, BitsAre
<1>7. 24..(24 + 5) \subseteq Bits(63, 24) /\ 16..(16 + 5) \subseteq Bits(63, 16)
  BY <1>5
<1>8. 8..(8 + 6) \subseteq Bits(127, 8) /\ 0..(0 + 6) \subseteq Bits(127, 0)
  BY <1>6
<1> QED
  BY <1>7, <1>8

\* bcm2835_smi_set_timing, for values that fit their fields.
LEMMA SmiTimingProgram ==
    ASSUME NEW c \in 0..4, NEW r \in BOOLEAN
    PROVE  Fresh(smi_set_timing(c, r, 63, 127, 1, 64))
<1>1. CASE c = 4
  BY <1>1, FreshNone DEF smi_set_timing
<1>2. CASE c # 4
  <2> DEFINE v == SmiTiming(63, 127, 1, 64)
             set == SmiParts(c, r, 63, 127, 1, 64)
             clear == UNION {SMI_RW.SETUP_MSK, SMI_RW.HOLD_MSK, SMI_RW.PACE_MSK, SMI_RW.STROBE_MSK}
             a == SmiSlot(c, r)
  <2>1. c \in 0..3 /\ ~(c > 3)
    BY <1>2
  <2>2. /\ 63 \in Nat /\ 63 < Pow(6) /\ 127 \in Nat /\ 127 < Pow(7) /\ 1 \in Nat /\ 1 < Pow(6) /\ 64 \in Nat /\ 64 < Pow(7)
    BY Powers
  <2>4. /\ \A f \in Fields : FieldOf[f].a = a => f \in DOMAIN set /\ f[1] # "pull" /\ v \cap Span(f) = Code(f, set[f])
        /\ \A f \in Fields : f \in DOMAIN set => FieldOf[f].a = a
        /\ \A bus \in Buses : <<bus, "hz">> \notin DOMAIN set /\ <<bus, "div">> \notin DOMAIN set
        /\ v \subseteq Word32
    <3> DEFINE x == {}
    <3>1. v = SmiWord(63, 127, 1, 64, x) /\ (x = {} \/ x = {15})
      BY DEF SmiWord
    <3> HIDE DEF x, v, set
    <3>2. set = SmiParts(c, r, 63, 127, 1, 64)
      BY DEF set
    <3> QED
      BY <2>1, <2>2, <3>1, <3>2, SmiExact
  <2>5. clear = Bits(\h3F, 24) \cup Bits(\h3F, 16) \cup Bits(\h7F, 8) \cup Bits(\h7F, 0)
    BY DEF SMI_RW
  <2> HIDE DEF v, set, clear
  <2>6. \A f \in Fields : FieldOf[f].a = a => Span(f) \subseteq clear /\ f[1] \in SharedKinds
    <3> TAKE f \in Fields
    <3> HAVE FieldOf[f].a = a
    <3>1. f[1] = "smi" /\ (Span(f) = 24..29 \/ Span(f) = 16..21 \/ Span(f) = 8..14 \/ Span(f) = 0..6)
      BY <2>1, SmiFields
    <3> DEFINE A == Bits(\h3F, 24)
               B == Bits(\h3F, 16)
               C == Bits(\h7F, 8)
               D == Bits(\h7F, 0)
    <3>2. Span(f) \subseteq A \/ Span(f) \subseteq B \/ Span(f) \subseteq C \/ Span(f) \subseteq D
      BY <3>1, Masks
    <3>3. f[1] \in SharedKinds
      BY <3>1 DEF SharedKinds
    <3> HIDE DEF A, B, C, D
    <3>4. clear = A \cup B \cup C \cup D
      BY <2>5 DEF A, B, C, D
    <3> QED
      BY <3>2, <3>3, <3>4
  <2>7. Sharable(a)
    <3>1. a = <<"smi", 4 + 2 * c + (IF r THEN 0 ELSE 1)>>
      BY <2>1, SmiFields
    <3>2. a # <<"smi", 13>>
      BY <2>1, <3>1
    <3>3. a \notin Latches \cup Acks /\ a[1] \notin {"pads", "clk"}
      BY <3>1, Special
    <3> QED
      BY <2>6, <3>2, <3>3, Special DEF Sharable
  <2>8. Fresh(<<Modify(a, v, clear, set)>>)
    BY <2>4, <2>6, <2>7, ModifySet
  <2> QED
    BY <2>1, <2>8 DEF smi_set_timing, v, clear, set
<1> QED
  BY <1>1, <1>2

\* The clock registers: the controls have no fields, the dividers one.
LEMMA ClockNone ==
    ASSUME NEW w \in {40, 44}, NEW v, v \subseteq 0..23
    PROVE  Access(peri_write(<<"clk", w>>, Passwrd(v), nothing)) /\ peri_write(<<"clk", w>>, Passwrd(v), nothing).op = "write"
<1> DEFINE a == <<"clk", w>>
<1>1. v \subseteq Word32 /\ v \cap (24..31) = {}
  BY DEF Word32
<1>2. Passwrd(v) \subseteq Word32 /\ ~Refused(a, Passwrd(v))
  BY <1>1, Password
<1>3. \A f \in Fields : FieldOf[f].a # a
  BY OtherBlocks, AtParts
<1>4. a \notin Latches \cup Acks /\ a[1] # "latch"
  BY Special
<1> HIDE DEF a
<1>5. Access(peri_write(a, Passwrd(v), nothing)) /\ peri_write(a, Passwrd(v), nothing).op = "write"
  BY <1>2, <1>3, <1>4, WriteNone
<1> QED
  BY <1>5 DEF a

\* The write of a clock divider, under the password.
LEMMA ClockDivider ==
    ASSUME NEW w, NEW g, (w = 45 /\ g = <<"smi_clk_div">>) \/ (w = 41 /\ g = <<"pwm_clk_div">>),
           NEW val, NEW v, v = Bits(val, 12), v \subseteq 12..23
    PROVE  /\ Access(peri_write(<<"clk", w>>, Passwrd(v), One(g, val)))
           /\ peri_write(<<"clk", w>>, Passwrd(v), One(g, val)).op = "write"
<1> DEFINE a == <<"clk", w>>
<1>1. v \subseteq Word32 /\ v \cap (24..31) = {} /\ (12..23) \cap (24..31) = {}
  BY DEF Word32
<1>2. Passwrd(v) \subseteq Word32 /\ ~Refused(a, Passwrd(v)) /\ Passwrd(v) \cap (12..23) = v \cap (12..23)
  <2>1. PICK mid, top : mid = 12..23 /\ top = 24..31
    OBVIOUS
  <2>2. v \subseteq Word32 /\ v \cap top = {} /\ mid \cap top = {}
    BY <1>1, <2>1, Zenon
  <2>3. Passwrd(v) \cap mid = v \cap mid
    BY <2>1, <2>2, Password
  <2>4. Passwrd(v) \subseteq Word32 /\ ~Refused(a, Passwrd(v))
    BY <1>1, Password, Zenon
  <2> QED
    BY <2>1, <2>3, <2>4, Zenon
<1>3. g \in Fields /\ FieldOf[g].a = a /\ FieldOf[g].lo = 12 /\ FieldOf[g].n = 12
  BY SingleFields, AtParts
<1>4. \A f \in Fields : FieldOf[f].a = a => f = g
  BY OtherBlocks, AtParts
<1>5. a \notin Latches \cup Acks /\ a[1] # "latch" /\ g[1] # "pull" /\ \A bus \in Buses : g # <<bus, "hz">> /\ g # <<bus, "div">>
  BY Special DEF Buses
<1>6. Span(g) = 12..23 /\ Code(g, val) = v
  BY <1>3, <1>5 DEF Span, Code
<1> HIDE DEF a
<1>7. Passwrd(v) \cap Span(g) = Code(g, val)
  BY <1>2, <1>6
<1>8. Access(peri_write(a, Passwrd(v), One(g, val))) /\ peri_write(a, Passwrd(v), One(g, val)).op = "write"
  BY <1>2, <1>3, <1>4, <1>5, <1>7, WriteOne
<1> QED
  BY <1>8 DEF a

\* Writes of a slot.
LEMMA SlotAccess ==
    ASSUME NEW c \in 0..3, NEW r \in BOOLEAN
    PROVE  LET o == peri_write(SmiSlot(c, r), SmiTiming(10, 20, 20, 1) \cup SMI_RW.PACEALL, SmiParts(c, r, 10, 20, 20, 1))
           IN  Access(o) /\ o.op = "write"
<1> DEFINE a == SmiSlot(c, r)
           x == {15}
           v == SmiWord(10, 20, 20, 1, x)
           set == SmiParts(c, r, 10, 20, 20, 1)
           o == peri_write(a, v, set)
<1>1. v = SmiTiming(10, 20, 20, 1) \cup SMI_RW.PACEALL
  BY DEF SmiWord, SMI_RW
<1>2. 10 \in Nat /\ 10 < Pow(6) /\ 20 \in Nat /\ 20 < Pow(7) /\ 20 < Pow(6) /\ 1 \in Nat /\ 1 < Pow(7)
  BY Powers
<1>3. x = {15}
  OBVIOUS
<1>4. a = <<"smi", 4 + 2 * c + (IF r THEN 0 ELSE 1)>>
  BY SmiFields
<1>5. ~Refused(a, v) /\ a \notin Latches \cup Acks /\ a[1] # "latch"
  BY <1>4, Special DEF Refused
<1> HIDE DEF x
<1>6. /\ \A f \in Fields : FieldOf[f].a = a => f \in DOMAIN set /\ f[1] # "pull" /\ v \cap Span(f) = Code(f, set[f])
      /\ \A f \in Fields : f \in DOMAIN set => FieldOf[f].a = a
      /\ \A bus \in Buses : <<bus, "hz">> \notin DOMAIN set /\ <<bus, "div">> \notin DOMAIN set
      /\ v \subseteq Word32
  <2> HIDE DEF v, set
  <2>1. v = SmiWord(10, 20, 20, 1, x) /\ set = SmiParts(c, r, 10, 20, 20, 1)
    BY DEF v, set
  <2> QED
    BY <1>2, <1>3, <2>1, SmiExact
<1> HIDE DEF v, set, a
<1>7. Timed(o)
  BY <1>6 DEF Timed, peri_write
<1>8. Access(o) /\ o.op = "write"
  BY <1>5, <1>6, <1>7, WriteAccess
<1> QED
  BY <1>1, <1>8 DEF set, a

\* The program of bcm2835_smi_begin.
LEMMA SmiBegin == Fresh(smi_begin)
<1> DEFINE p == FselAll(SmiPins, FSEL.ALT1)
           x == peri_write(<<"clk", SMICLK.CNTL>>, Passwrd({}), nothing)
           y == peri_write(<<"clk", SMICLK.DIV>>, Passwrd({14}), One(<<"smi_clk_div">>, 4))
           z == peri_write(<<"clk", SMICLK.CNTL>>, Passwrd({1, 2, 4}), nothing)
           S(i) == peri_write(SmiSlot((i - 1) \div 2, i % 2 = 1), SmiTiming(10, 20, 20, 1) \cup SMI_RW.PACEALL,
                              SmiParts((i - 1) \div 2, i % 2 = 1, 10, 20, 20, 1))
           q == [i \in 1..8 |-> S(i)]
<1>1. SMICLK.CNTL = 44 /\ SMICLK.DIV = 45
  BY DEF SMICLK
<1>2. Access(x) /\ x.op = "write"
  <2>1. {} \subseteq 0..23 /\ 44 \in {40, 44}
    OBVIOUS
  <2> QED
    BY <1>1, <2>1, ClockNone
<1>3. Access(z) /\ z.op = "write"
  <2>1. {1, 2, 4} \subseteq 0..23 /\ 44 \in {40, 44}
    OBVIOUS
  <2> QED
    BY <1>1, <2>1, ClockNone
<1>4. Access(y) /\ y.op = "write"
  <2>1. {14} = Bits(4, 12)
    BY BitsSmall
  <2>2. {14} \subseteq 12..23
    OBVIOUS
  <2> QED
    BY <1>1, <2>1, <2>2, ClockDivider
<1>5. \A i \in 1..8 : Access(S(i)) /\ S(i).op = "write"
  <2> TAKE i \in 1..8
  <2> DEFINE c == (i - 1) \div 2
             r == (i % 2 = 1)
  <2>1. c \in 0..3 /\ r \in BOOLEAN
    OBVIOUS
  <2> HIDE DEF c, r
  <2>2. LET o == peri_write(SmiSlot(c, r), SmiTiming(10, 20, 20, 1) \cup SMI_RW.PACEALL, SmiParts(c, r, 10, 20, 20, 1))
        IN  Access(o) /\ o.op = "write"
    BY <2>1, SlotAccess
  <2> QED
    BY <2>2 DEF c, r
<1>6. Fresh(p)
  BY BusPins DEF FSEL
<1>7. smi_begin = IF ~mapped THEN <<>> ELSE (p \o <<x, y, z>>) \o q
  BY DEF smi_begin
<1> HIDE DEF S
<1>8. q \in [1..8 -> {S(i) : i \in 1..8}] /\ \A i \in 1..8 : q[i] = S(i)
  OBVIOUS
<1> HIDE DEF p, x, y, z, q
<1>9. \A i \in 1..8 : Access(q[i]) /\ q[i].op # "back" /\ (q[i].op = "test" => i < 8)
  BY <1>5, <1>8
<1>10. Fresh(q)
  BY <1>8, <1>9, FreshList
<1>11. Fresh(<<x, y, z>>)
  BY <1>2, <1>3, <1>4, FreshThree
<1>12. Fresh(p \o <<x, y, z>>)
  BY <1>6, <1>11, FreshBoth
<1>13. Fresh((p \o <<x, y, z>>) \o q)
  BY <1>10, <1>12, FreshBoth
<1> QED
  BY <1>7, <1>13, FreshNone

\* The registers of the direct transfers have no fields.
LEMMA DirectNone == ASSUME NEW w \in {13, 14, 15} PROVE \A f \in Fields : FieldOf[f].a # <<"smi", w>>
<1> SUFFICES ASSUME NEW f \in Fields, FieldOf[f].a = <<"smi", w>> PROVE FALSE
  OBVIOUS
<1>1. FieldOf[f].a = <<"smi", 4 + 2 * f[2] + (IF f[3] THEN 0 ELSE 1)>> /\ f[2] \in 0..3
  BY SmiBlock
<1>2. w = 4 + 2 * f[2] + (IF f[3] THEN 0 ELSE 1)
  BY <1>1
<1> QED
  BY <1>1, <1>2

\* The writes of a direct transfer set no field.
LEMMA DirectAccess ==
    ASSUME NEW w \in {13, 14, 15}, NEW v, v \subseteq Word32
    PROVE  Access(peri_write(<<"smi", w>>, v, nothing)) /\ peri_write(<<"smi", w>>, v, nothing).op = "write"
<1> DEFINE a == <<"smi", w>>
<1>1. \A f \in Fields : FieldOf[f].a # a
  BY DirectNone
<1>2. ~Refused(a, v) /\ a \notin Latches \cup Acks /\ a[1] # "latch"
  BY Special DEF Refused
<1> HIDE DEF a
<1>3. Access(peri_write(a, v, nothing)) /\ peri_write(a, v, nothing).op = "write"
  BY <1>1, <1>2, WriteNone
<1> QED
  BY <1>3 DEF a

\* The bits of any number, moved by at most 14, fit a register.
LEMMA BitsAny == ASSUME NEW n, NEW s \in 0..14 PROVE Bits(n, s) \subseteq Word32
<1> SUFFICES ASSUME NEW i \in 0..17, Odd(n, i) PROVE s + i \in Word32
  BY BitsAre
<1> QED
  BY DEF Word32

\* bcm2835_smi_write and bcm2835_smi_read.
LEMMA SmiTransfers ==
    ASSUME NEW c, NEW data, NEW address
    PROVE  Fresh(smi_write(c, data, address)) /\ Fresh(smi_read(c, address))
<1> DEFINE t == Test(DirCs, DIRCS.DONE)
           d == peri_write(DirCs, DIRCS.DONE, nothing)
           a == DirAddr(c, address)
           x == peri_write(<<"smi", SMI.DIRDATA>>, Bits(data, 0), nothing)
           w == peri_write(DirCs, DIRCS.WRITE \cup DIRCS.START \cup DIRCS.ENABLE, nothing)
           s == peri_write(DirCs, DIRCS.START \cup DIRCS.ENABLE, nothing)
           u == Await(DirCs, DIRCS.DONE, TRUE)
           g == Fetch(<<"smi", SMI.DIRDATA>>, <<"smi_read", c, address>>)
<1>1. DirCs = <<"smi", 13>> /\ SMI.DIRDATA = 15 /\ SMI.DIRADDR = 14
  BY Special DEF SMI
<1>2. /\ DIRCS.DONE = {2} /\ DIRCS.WRITE \cup DIRCS.START \cup DIRCS.ENABLE = {0, 1, 3}
      /\ DIRCS.START \cup DIRCS.ENABLE = {0, 1}
  BY DEF DIRCS
<1>3. {2} \subseteq Word32 /\ {0, 1, 3} \subseteq Word32 /\ {0, 1} \subseteq Word32
  BY DEF Word32
<1>4. Access(d) /\ d.op = "write" /\ Access(w) /\ w.op = "write" /\ Access(s) /\ s.op = "write"
  BY <1>1, <1>2, <1>3, DirectAccess
<1>5. Access(x) /\ x.op = "write"
  <2>1. Bits(data, 0) \subseteq Word32
    BY BitsAny
  <2> QED
    BY <1>1, <2>1, DirectAccess
<1>6. Access(a) /\ a.op = "write"
  <2> DEFINE v == Bits(c, 8) \cup Bits(address % 64, 0)
  <2>1. Bits(c, 8) \subseteq Word32 /\ Bits(address % 64, 0) \subseteq Word32
    BY BitsAny
  <2>2. v \subseteq Word32
    BY <2>1
  <2>3. a = peri_write(<<"smi", 14>>, v, nothing)
    BY <1>1 DEF DirAddr
  <2> HIDE DEF v, a
  <2> QED
    BY <2>2, <2>3, DirectAccess
<1>7. Access(t) /\ t.op = "test" /\ Access(u) /\ u.op = "await" /\ Access(g) /\ g.op = "fetch"
  BY ReadPrograms
<1>8. /\ smi_write(c, data, address) = IF c > 3 THEN <<>> ELSE <<t, d>> \o <<a, x, w, u, d>>
      /\ smi_read(c, address) = IF c > 3 THEN <<>> ELSE <<t, d>> \o <<a, s, u, g, d>>
  BY DEF smi_write, smi_read, ClearStaleDone
<1> HIDE DEF t, d, a, x, w, s, u, g
<1>9. Fresh(<<t, d>>)
  BY <1>4, <1>7, FreshTwo
<1>10. Fresh(<<a, x, w, u, d>>)
  <2> DEFINE p == <<a, x, w, u, d>>
  <2>1. p \in [1..5 -> {a, x, w, u, d}] /\ p[1] = a /\ p[2] = x /\ p[3] = w /\ p[4] = u /\ p[5] = d
    OBVIOUS
  <2> HIDE DEF p
  <2>2. \A i \in 1..5 : Access(p[i]) /\ p[i].op # "back" /\ (p[i].op = "test" => i < 5)
    BY <1>4, <1>5, <1>6, <1>7, <2>1
  <2>3. Fresh(p)
    BY <2>1, <2>2, FreshList
  <2> QED
    BY <2>3 DEF p
<1>11. Fresh(<<a, s, u, g, d>>)
  <2> DEFINE p == <<a, s, u, g, d>>
  <2>1. p \in [1..5 -> {a, s, u, g, d}] /\ p[1] = a /\ p[2] = s /\ p[3] = u /\ p[4] = g /\ p[5] = d
    OBVIOUS
  <2> HIDE DEF p
  <2>2. \A i \in 1..5 : Access(p[i]) /\ p[i].op # "back" /\ (p[i].op = "test" => i < 5)
    BY <1>4, <1>6, <1>7, <2>1
  <2>3. Fresh(p)
    BY <2>1, <2>2, FreshList
  <2> QED
    BY <2>3 DEF p
<1>12. Fresh(<<t, d>> \o <<a, x, w, u, d>>) /\ Fresh(<<t, d>> \o <<a, s, u, g, d>>)
  BY <1>9, <1>10, <1>11, FreshBoth
<1> QED
  BY <1>8, <1>12, FreshNone

\* bcm2835_pwm_set_clock.
LEMMA PwmClock == Fresh(pwm_set_clock(\h1010))
<1> DEFINE x == peri_write(<<"clk", PWMCLK.CNTL>>, Passwrd({0}), nothing)
           u == Await(<<"clk", PWMCLK.CNTL>>, {7}, FALSE)
           y == peri_write(<<"clk", PWMCLK.DIV>>, Passwrd(Bits(16, 12)), One(<<"pwm_clk_div">>, 16))
           z == peri_write(<<"clk", PWMCLK.CNTL>>, Passwrd({0, 4}), nothing)
           p == <<x, u, y, z>>
<1>1. PWMCLK.CNTL = 40 /\ PWMCLK.DIV = 41
  BY DEF PWMCLK
<1>2. {0} \subseteq 0..23 /\ {0, 4} \subseteq 0..23 /\ 40 \in {40, 44}
  OBVIOUS
<1>3. Access(x) /\ x.op = "write" /\ Access(z) /\ z.op = "write"
  BY <1>1, <1>2, ClockNone
<1>4. Access(y) /\ y.op = "write"
  <2>1. 16 \in Nat /\ 16 < Pow(5) /\ 5 \in 0..17 /\ 12 \in Int
    BY Powers
  <2>2. Bits(16, 12) \subseteq 12..(12 + 5 - 1)
    BY <2>1, BitsBelow
  <2>3. Bits(16, 12) \subseteq 12..23
    BY <2>2
  <2> QED
    BY <1>1, <2>3, ClockDivider
<1>5. Access(u) /\ u.op = "await"
  BY ReadPrograms
<1>6. pwm_set_clock(\h1010) = IF ~mapped THEN <<>> ELSE p
  <2>1. 4112 % 2^12 = 16
    BY Powers DEF Pow
  <2> QED
    BY <2>1, SMT DEF pwm_set_clock
<1> HIDE DEF x, u, y, z
<1>7. p \in [1..4 -> {x, u, y, z}] /\ p[1] = x /\ p[2] = u /\ p[3] = y /\ p[4] = z
  OBVIOUS
<1> HIDE DEF p
<1>8. \A i \in 1..4 : Access(p[i]) /\ p[i].op # "back" /\ (p[i].op = "test" => i < 4)
  BY <1>3, <1>4, <1>5, <1>7
<1>9. Fresh(p)
  BY <1>7, <1>8, FreshList
<1> QED
  BY <1>6, <1>9, FreshNone

\* The fields of the PWM registers.
LEMMA PwmFields ==
    ASSUME NEW c \in {0, 1}
    PROVE  /\ <<"pwm_range", c>> \in Fields /\ FieldOf[<<"pwm_range", c>>] = At("pwm", 4 + 4 * c, 0, 16)
           /\ <<"pwm_data", c>> \in Fields /\ FieldOf[<<"pwm_data", c>>] = At("pwm", 5 + 4 * c, 0, 16)
           /\ <<"pwm_ms", c>> \in Fields /\ FieldOf[<<"pwm_ms", c>>] = At("pwm", 0, 7 + 8 * c, 1)
           /\ <<"pwm_en", c>> \in Fields /\ FieldOf[<<"pwm_en", c>>] = At("pwm", 0, 8 * c, 1)
<1>1. \A n \in {"pwm_range", "pwm_data", "pwm_ms", "pwm_en"} : <<n, c>> \in Fields /\ FieldOf[<<n, c>>] = Field(<<n, c>>)
  <2> TAKE n \in {"pwm_range", "pwm_data", "pwm_ms", "pwm_en"}
  <2>1. <<n, c>> \in Fields
    BY DEF Fields
  <2> QED
    BY <2>1 DEF FieldOf
<1>2. <<"pwm_range", c>> \in Fields /\ FieldOf[<<"pwm_range", c>>] = At("pwm", 4 + 4 * c, 0, 16)
  BY <1>1, FieldArms
<1>3. <<"pwm_data", c>> \in Fields /\ FieldOf[<<"pwm_data", c>>] = At("pwm", 5 + 4 * c, 0, 16)
  BY <1>1, FieldArms
<1>4. <<"pwm_ms", c>> \in Fields /\ FieldOf[<<"pwm_ms", c>>] = At("pwm", 0, 7 + 8 * c, 1)
  BY <1>1, FieldArms
<1>5. <<"pwm_en", c>> \in Fields /\ FieldOf[<<"pwm_en", c>>] = At("pwm", 0, 8 * c, 1)
  BY <1>1, FieldArms
<1> QED
  BY <1>2, <1>3, <1>4, <1>5

\* A write of a channel's range or data.
LEMMA PwmWrite ==
    ASSUME NEW c \in {0, 1}, NEW name, NEW w, NEW val \in Nat, val < Pow(16),
           (name = "pwm_range" /\ w = 4 + 4 * c) \/ (name = "pwm_data" /\ w = 5 + 4 * c)
    PROVE  Fresh(<<peri_write(<<"pwm", w>>, Bits(val, 0), One(<<name, c>>, val))>>)
<1> DEFINE g == <<name, c>>
           a == <<"pwm", w>>
           v == Bits(val, 0)
           o == peri_write(a, v, One(g, val))
<1>1. g \in Fields /\ FieldOf[g].a = a /\ FieldOf[g].lo = 0 /\ FieldOf[g].n = 16
  BY PwmFields, AtParts
<1>2. v \subseteq 0..15
  <2>1. 16 \in 0..17 /\ 0 \in Int
    OBVIOUS
  <2>2. v \subseteq 0..(0 + 16 - 1)
    BY <2>1, BitsBelow
  <2> QED
    BY <2>2
<1>3. g[1] # "pull" /\ \A bus \in Buses : g # <<bus, "hz">> /\ g # <<bus, "div">>
  BY DEF Buses
<1>4. Span(g) = 0..15 /\ Code(g, val) = v
  BY <1>1, <1>3 DEF Span, Code
<1>5. ~Refused(a, v) /\ a \notin Latches \cup Acks /\ a[1] # "latch"
  BY Special DEF Refused
<1>6. \A f \in Fields : FieldOf[f].a = a => f = g
  <2> SUFFICES ASSUME NEW f \in Fields, FieldOf[f].a = a PROVE f = g
    OBVIOUS
  <2>1. /\ f = <<f[1], f[2]>> /\ (f[2] = 0 \/ f[2] = 1)
        /\ \/ f[1] = "pwm_ms" /\ w = 0
           \/ f[1] = "pwm_en" /\ w = 0
           \/ f[1] = "pwm_range" /\ w = 4 + 4 * f[2]
           \/ f[1] = "pwm_data" /\ w = 5 + 4 * f[2]
    BY PwmBlock, AtParts
  <2>2. f[1] = name /\ f[2] = c
    BY <2>1
  <2> QED
    BY <2>1, <2>2
<1> HIDE DEF g, a, v
<1>7. v \subseteq Word32
  BY <1>2 DEF Word32
<1>8. v \cap Span(g) = Code(g, val)
  <2>1. v \subseteq Span(g)
    BY <1>2, <1>4
  <2>2. v \cap Span(g) = v
    BY <2>1
  <2> QED
    BY <1>4, <2>2
<1> HIDE DEF o
<1>9. /\ g \in Fields /\ FieldOf[g].a = a /\ g[1] # "pull"
      /\ \A bus \in Buses : g # <<bus, "hz">> /\ g # <<bus, "div">>
  BY <1>1, <1>3
<1>10. Access(peri_write(a, v, One(g, val))) /\ peri_write(a, v, One(g, val)).op = "write"
  BY ONLY <1>5, <1>6, <1>7, <1>8, <1>9, WriteOne
<1>11. Access(o) /\ o.op = "write"
  BY <1>10 DEF o
<1> QED
  BY <1>11, FreshOne DEF o, g, a, v

\* The control register: two bits for each channel.
LEMMA PwmControl ==
    ASSUME NEW f \in Fields, FieldOf[f].a = <<"pwm", 0>>
    PROVE  /\ f = <<f[1], f[2]>> /\ (f[2] = 0 \/ f[2] = 1)
           /\ \/ f[1] = "pwm_ms" /\ FieldOf[f].lo = 7 + 8 * f[2] /\ Span(f) = {7 + 8 * f[2]}
              \/ f[1] = "pwm_en" /\ FieldOf[f].lo = 8 * f[2] /\ Span(f) = {8 * f[2]}
<1>1. /\ f = <<f[1], f[2]>> /\ (f[2] = 0 \/ f[2] = 1)
      /\ \/ f[1] = "pwm_ms" /\ FieldOf[f].lo = 7 + 8 * f[2] /\ FieldOf[f].n = 1
         \/ f[1] = "pwm_en" /\ FieldOf[f].lo = 8 * f[2] /\ FieldOf[f].n = 1
  BY PwmBlock, AtParts
<1> QED
  BY <1>1 DEF Span

\* The control register of the PWM may be read and written back.
LEMMA PwmSharable == Sharable(<<"pwm", 0>>)
  BY Special, PwmControl DEF Sharable, SharedKinds

\* The program of bcm2835_pwm_set_mode.
LEMMA PwmMode ==
    ASSUME NEW c \in 0..2, NEW markspace \in {0, 1}, NEW enabled \in {0, 1}
    PROVE  Fresh(pwm_set_mode(c, markspace, enabled))
<1>1. PWM.CONTROL = 0
  BY DEF PWM
<1>2. CASE c = 2
  <2>1. DOMAIN nothing = {} /\ {} \subseteq Word32
    BY DEF nothing
  <2>2. Fresh(<<Modify(<<"pwm", 0>>, {}, {}, nothing)>>)
    BY <2>1, PwmSharable, ModifySet
  <2> QED
    BY <1>1, <1>2, <2>2, FreshNone DEF pwm_set_mode
<1>3. CASE c # 2
  <2> DEFINE ms == {7 + 8 * c}
             en == {8 * c}
             v == (IF markspace = 1 THEN ms ELSE {}) \cup (IF enabled = 1 THEN en ELSE {})
             g == <<"pwm_ms", c>>
             h == <<"pwm_en", c>>
             set == Over(One(g, markspace), One(h, enabled))
  <2>1. c \in {0, 1}
    BY <1>3
  <2>2. PWM.MS_MODE[c + 1] = ms /\ PWM.ENABLE[c + 1] = en
    BY <2>1 DEF PWM
  <2>3. g # h
    OBVIOUS
  <2>4. \A z : z \in DOMAIN set <=> z = g \/ z = h
    BY OverOneDomain
  <2>5. set[g] = markspace /\ set[h] = enabled
    BY <2>3, OverOneValues
  <2>6. v \subseteq Word32
    BY <2>1 DEF Word32
  <2>7. FieldOf[g].a = <<"pwm", 0>> /\ FieldOf[h].a = <<"pwm", 0>>
    BY <2>1, PwmFields, AtParts
  <2> HIDE DEF set
  <2>8. \A f \in Fields : f \in DOMAIN set => FieldOf[f].a = <<"pwm", 0>>
    BY <2>4, <2>7
  <2>9. \A bus \in Buses : <<bus, "hz">> \notin DOMAIN set /\ <<bus, "div">> \notin DOMAIN set
    BY <2>4 DEF Buses
  <2>10. ASSUME NEW f \in Fields, FieldOf[f].a = <<"pwm", 0>>
         PROVE  IF f \in DOMAIN set THEN Span(f) \subseteq ms \cup en /\ v \cap Span(f) = Code(f, set[f]) /\ f[1] # "pull"
                                    ELSE Span(f) \cap ((ms \cup en) \cup v) = {}
    <3>1. /\ f = <<f[1], f[2]>> /\ (f[2] = 0 \/ f[2] = 1)
          /\ \/ f[1] = "pwm_ms" /\ FieldOf[f].lo = 7 + 8 * f[2] /\ Span(f) = {7 + 8 * f[2]}
             \/ f[1] = "pwm_en" /\ FieldOf[f].lo = 8 * f[2] /\ Span(f) = {8 * f[2]}
      BY <2>10, PwmControl
    <3>2. CASE f = g
      <4>1. f \in DOMAIN set /\ Span(f) = ms /\ FieldOf[f].lo = 7 + 8 * c /\ set[f] = markspace /\ f[1] = "pwm_ms"
        BY <2>4, <2>5, <3>1, <3>2
      <4>2. Code(f, set[f]) = Bits(markspace, 7 + 8 * c)
        BY <4>1 DEF Code
      <4>3. Bits(markspace, 7 + 8 * c) = IF markspace = 1 THEN ms ELSE {}
        <5> DEFINE s == 7 + 8 * c
        <5>1. s \in Int /\ ms = {s} /\ (markspace = 0 \/ markspace = 1)
          BY <2>1
        <5> HIDE DEF s
        <5>2. Bits(0, s) = {} /\ Bits(1, s) = {s}
          BY <5>1, BitsSmall
        <5>3. Bits(markspace, s) = IF markspace = 1 THEN {s} ELSE {}
          BY <5>1, <5>2
        <5> QED
          BY <5>1, <5>3 DEF s
      <4>4. v \cap ms = IF markspace = 1 THEN ms ELSE {}
        BY <2>1
      <4> QED
        BY <4>1, <4>2, <4>3, <4>4
    <3>3. CASE f = h
      <4>1. f \in DOMAIN set /\ Span(f) = en /\ FieldOf[f].lo = 8 * c /\ set[f] = enabled /\ f[1] = "pwm_en"
        BY <2>4, <2>5, <3>1, <3>3
      <4>2. Code(f, set[f]) = Bits(enabled, 8 * c)
        BY <4>1 DEF Code
      <4>3. Bits(enabled, 8 * c) = IF enabled = 1 THEN en ELSE {}
        <5> DEFINE s == 8 * c
        <5>1. s \in Int /\ en = {s} /\ (enabled = 0 \/ enabled = 1)
          BY <2>1
        <5> HIDE DEF s
        <5>2. Bits(0, s) = {} /\ Bits(1, s) = {s}
          BY <5>1, BitsSmall
        <5>3. Bits(enabled, s) = IF enabled = 1 THEN {s} ELSE {}
          BY <5>1, <5>2
        <5> QED
          BY <5>1, <5>3 DEF s
      <4>4. v \cap en = IF enabled = 1 THEN en ELSE {}
        BY <2>1
      <4> QED
        BY <4>1, <4>2, <4>3, <4>4
    <3>4. CASE f # g /\ f # h
      <4>1. f \notin DOMAIN set /\ f[2] # c
        BY <2>4, <3>1, <3>4
      <4>2. Span(f) \cap (ms \cup en) = {}
        BY <2>1, <3>1, <4>1
      <4> QED
        BY <4>1, <4>2
    <3> QED
      BY <3>2, <3>3, <3>4
  <2>11. Fresh(<<Modify(<<"pwm", 0>>, v, ms \cup en, set)>>)
    BY <2>6, <2>8, <2>9, <2>10, PwmSharable, ModifySet
  <2> QED
    BY <1>1, <2>1, <2>2, <2>11, FreshNone DEF pwm_set_mode, set
<1> QED
  BY <1>2, <1>3

\* The programs of the PWM.
LEMMA PwmPrograms ==
    ASSUME NEW c \in 0..2
    PROVE  /\ \A bit \in 0..1 : Fresh(pwm_set_mode(c, bit, 1 - bit))
           /\ Fresh(pwm_set_range(c, 1024)) /\ Fresh(pwm_set_data(c, 5))
<1>1. \A bit \in 0..1 : Fresh(pwm_set_mode(c, bit, 1 - bit))
  <2> TAKE bit \in 0..1
  <2>1. bit \in {0, 1} /\ 1 - bit \in {0, 1}
    OBVIOUS
  <2> QED
    BY <2>1, PwmMode
<1>2. CASE c \notin {0, 1}
  BY <1>1, <1>2, FreshNone DEF pwm_set_range, pwm_set_data
<1>3. CASE c \in {0, 1}
  <2>1. PWM.RANGE[c + 1] = 4 + 4 * c /\ PWM.DATA[c + 1] = 5 + 4 * c
    BY <1>3 DEF PWM
  <2>2. 1024 \in Nat /\ 1024 < Pow(16) /\ 5 \in Nat /\ 5 < Pow(16)
    BY Powers
  <2>3. Fresh(<<peri_write(<<"pwm", 4 + 4 * c>>, Bits(1024, 0), One(<<"pwm_range", c>>, 1024))>>)
    BY <1>3, <2>2, PwmWrite
  <2>4. Fresh(<<peri_write(<<"pwm", 5 + 4 * c>>, Bits(5, 0), One(<<"pwm_data", c>>, 5))>>)
    BY <1>3, <2>2, PwmWrite
  <2>5. Fresh(pwm_set_range(c, 1024))
    BY <1>3, <2>1, <2>3, FreshNone DEF pwm_set_range
  <2>6. Fresh(pwm_set_data(c, 5))
    BY <1>3, <2>1, <2>4, FreshNone DEF pwm_set_data
  <2> QED
    BY <1>1, <2>5, <2>6
<1> QED
  BY <1>2, <1>3

-----------------------------------------------------------------------------
(* What a write does to the fields. *)

\* The arms of Stored.
LEMMA StoredIs ==
    ASSUME NEW a, NEW v, NEW old
    PROVE  /\ a[1] = "pads" => Stored(a, v, old) = v \cap (0..4)
           /\ a = <<"clk", 40>> => Stored(a, v, old) = (v \cap (0..6)) \cup (IF 4 \in v THEN {7} ELSE old \cap {7})
           /\ a[1] = "clk" /\ a # <<"clk", 40>> => Stored(a, v, old) = v \ (24..31)
           /\ a \in Acks => Stored(a, v, old) = old \ v
           /\ a = <<"spi0", 0>> => Stored(a, v, old) = v \ {4, 5}
           /\ a = <<"smi", 13>> => Stored(a, v, old) = (v \ {1, 2}) \cup ({2} \cap (old \ v))
           /\ a[1] \notin {"pads", "clk"} /\ a \notin Acks /\ a # <<"spi0", 0>> /\ a # <<"smi", 13>> =>
                 Stored(a, v, old) = v
<1> DEFINE R == Stored(a, v, old)
<1>1. SPI0_CS.CLEAR = {4, 5}
  BY BitsSmall DEF SPI0_CS
<1>2. R = CASE a[1] = "pads" -> v \cap (0..4)
            [] a = <<"clk", 40>> -> (v \cap (0..6)) \cup (IF 4 \in v THEN {7} ELSE old \cap {7})
            [] a[1] = "clk" /\ a # <<"clk", 40>> -> v \ (24..31)
            [] a \in Acks -> old \ v
            [] a = <<"spi0", 0>> -> v \ {4, 5}
            [] a = <<"smi", 13>> -> (v \ {1, 2}) \cup ({2} \cap (old \ v))
            [] OTHER -> v
  <2>1. SpiCs = <<"spi0", 0>> /\ DirCs = <<"smi", 13>>
    BY Special
  <2>2. DIRCS.START \cup DIRCS.DONE = {1, 2} /\ DIRCS.DONE = {2} /\ PWMCLK.CNTL = 40
    BY DEF DIRCS, PWMCLK
  <2> QED
    BY <1>1, <2>1, <2>2 DEF Stored, Acks
<1> HIDE DEF R
<1>3. a \in Acks => a[1] = "gpio"
  BY Special
<1>4. /\ a = <<"clk", 40>> => a[1] = "clk"
      /\ a = <<"spi0", 0>> => a[1] = "spi0"
      /\ a = <<"smi", 13>> => a[1] = "smi"
  OBVIOUS
<1> QED
  BY <1>2, <1>3, <1>4 DEF R

\* Registers stay within 32 bits.
LEMMA StoredWord ==
    ASSUME NEW a, NEW v, NEW old, v \subseteq Word32, old \subseteq Word32
    PROVE  Stored(a, v, old) \subseteq Word32
<1>1. 2 \in Word32 /\ 7 \in Word32
  BY DEF Word32
<1> QED
  BY <1>1, StoredIs

\* Where fields are set, registers hold what is written.
LEMMA StoredSpan ==
    ASSUME NEW f \in Fields, NEW a, a = FieldOf[f].a, a \notin Acks, NEW v, NEW old
    PROVE  Stored(a, v, old) \cap Span(f) = v \cap Span(f)
<1>1. CASE a[1] = "pads"
  <2>1. Span(f) \subseteq 0..4
    BY <1>1, OtherBlocks, AtParts DEF Span
  <2> QED
    BY <1>1, <2>1, StoredIs
<1>2. CASE a[1] = "clk"
  <2>1. FieldOf[f].lo = 12 /\ FieldOf[f].n = 12 /\ a # <<"clk", 40>>
    BY <1>2, OtherBlocks, AtParts
  <2>2. Span(f) = 12..23
    BY <2>1 DEF Span
  <2>3. Span(f) \cap (24..31) = {}
    BY <2>2
  <2> QED
    BY <1>2, <2>1, <2>3, StoredIs
<1>3. CASE a = <<"spi0", 0>>
  <2>1. 4 \notin Span(f) /\ 5 \notin Span(f)
    <3>1. FieldOf[f].a = <<"spi0", 0>>
      BY <1>3
    <3>2. Span(f) = {0, 1} \/ Span(f) = {2, 3} \/ (f[2] \in 0..2 /\ Span(f) = {21 + f[2]})
      BY <3>1, SpiFields
    <3> QED
      BY <3>2
  <2> QED
    BY <1>3, <2>1, StoredIs
<1>4. a # <<"smi", 13>>
  BY DirectNone
<1>5. CASE a[1] \notin {"pads", "clk"} /\ a # <<"spi0", 0>>
  BY <1>4, <1>5, StoredIs
<1> QED
  BY <1>1, <1>2, <1>3, <1>5

\* No field is a speed.
LEMMA NotSpeed == ASSUME NEW f \in Fields PROVE f \notin Speeds
<1> SUFFICES ASSUME NEW b \in {"spi0", "spi1", "bsc1"}, f = <<b, "hz">> PROVE FALSE
  BY DEF Speeds
<1>1. f[1] = b /\ f[2] = "hz"
  OBVIOUS
<1>2. {"out", "fsel", "pull"} \cup Events \subseteq {"out", "fsel", "pull"} \cup DOMAIN GPIO
  BY GpioNames DEF Events, Detects
<1>3. f \notin Singles
  BY DEF Singles
<1>4. f[1] \notin {"out", "fsel", "pull"} \cup Events
  BY <1>1, <1>2, GpioNames
<1> QED
  BY <1>1, <1>3, <1>4, Shapes

\* The write of an access, as Step has it.
Recorded(o) == [f \in DOMAIN o.set \intersect (Fields \union Speeds) |->
                   IF f \in Speeds THEN o.set[f] ELSE Bits(o.set[f], 0)]
Written(o) == want' = Over(Recorded(o), want) /\ HwWrite(o.a, o.v)

\* The registers after one of them is written.
LEMMA GetPut ==
    ASSUME NEW a, NEW x, reg' = Put(a, x), fill' = fill, NEW b
    PROVE  Get(b)' = IF b = a THEN x ELSE Get(b)
<1>1. DOMAIN One(a, x) = {a} /\ One(a, x)[a] = x
  BY DEF One
<1>2. reg' = Over(One(a, x), reg)
  BY DEF Put
<1>3. DOMAIN reg' = {a} \cup DOMAIN reg /\ \A y \in DOMAIN reg' : reg'[y] = IF y = a THEN x ELSE reg[y]
  BY <1>1, <1>2 DEF Over
<1> QED
  BY <1>3 DEF Get

\* What the fields were last set to, after a write.
LEMMA WantWritten ==
    ASSUME NEW o, Written(o), fill' = fill, NEW f \in Fields
    PROVE  Want(f)' = IF f \in DOMAIN o.set THEN Bits(o.set[f], 0) ELSE Want(f)
<1> DEFINE h == Recorded(o)
<1>1. h = [x \in DOMAIN o.set \cap (Fields \cup Speeds) |-> IF x \in Speeds THEN o.set[x] ELSE Bits(o.set[x], 0)]
  BY DEF Recorded
<1>2. /\ f \in DOMAIN h <=> f \in DOMAIN o.set
      /\ f \in DOMAIN h => h[f] = Bits(o.set[f], 0)
  BY <1>1, NotSpeed
<1> HIDE DEF h
<1>3. want' = Over(h, want)
  BY DEF Written, h
<1>4. /\ f \in DOMAIN want' <=> f \in DOMAIN h \/ f \in DOMAIN want
      /\ f \in DOMAIN want' => want'[f] = IF f \in DOMAIN h THEN h[f] ELSE want[f]
  BY <1>3 DEF Over
<1>5. Want(f)' = IF f \in DOMAIN want' THEN want'[f] ELSE Decode(f, fill)
  BY DEF Want
<1> QED
  BY <1>2, <1>4, <1>5 DEF Want

\* A field outside the outputs, after a write.
LEMMA ValueWritten ==
    ASSUME NEW a, NEW v, HwWrite(a, v), ~Refused(a, v), a \notin Latches, fill' = fill, NEW f \in Fields, f[1] # "out"
    PROVE  Value(f)' = IF FieldOf[f].a = a THEN Decode(f, Stored(a, v, Get(a))) ELSE Value(f)
<1> DEFINE b == FieldOf[f].a
           x == Stored(a, v, Get(a))
<1>1. reg' = Put(a, x)
  BY DEF HwWrite, Latches
<1> HIDE DEF x, b
<1>2. Get(b)' = IF b = a THEN x ELSE Get(b)
  <2>1. ASSUME NEW y, y = x PROVE Get(b)' = IF b = a THEN y ELSE Get(b)
    BY <1>1, <2>1, GetPut
  <2> QED
    BY <2>1
<1>3. Value(f) = Decode(f, Get(b)) /\ Value(f)' = Decode(f, Get(b)')
  BY DEF Value, b
<1> QED
  BY <1>2, <1>3 DEF x, b

\* An output: one bit of the latch of its bank.
LEMMA OutField ==
    ASSUME NEW f \in Fields, f[1] = "out"
    PROVE  /\ f = <<"out", f[2]>> /\ f[2] \in Pins /\ FieldOf[f].lo = f[2] % 32 /\ Span(f) = {f[2] % 32}
           /\ Value(f) = Decode(f, latch[f[2] \div 32]) /\ Value(f)' = Decode(f, latch'[f[2] \div 32])
           /\ f[2] \div 32 \in {0, 1} /\ f[2] % 32 \in Int
<1>1. f = <<"out", f[2]>> /\ f[2] \in Pins /\ FieldOf[f] = At("latch", f[2] \div 32, f[2] % 32, 1)
  BY Blocks, OtherBlocks
<1>2. FieldOf[f].lo = f[2] % 32 /\ FieldOf[f].n = 1
  BY <1>1, AtParts
<1>3. f[2] \div 32 \in {0, 1} /\ f[2] % 32 \in Int
  BY <1>1, PinBank
<1>4. Span(f) = {f[2] % 32}
  BY <1>2, <1>3 DEF Span
<1> QED
  BY <1>1, <1>2, <1>3, <1>4 DEF Value

\* One bit that is set, and one that is not.
LEMMA OneBit ==
    ASSUME NEW f \in Fields, f[1] # "pull", NEW s, Span(f) = {s}, FieldOf[f].lo = s, NEW v
    PROVE  Decode(f, v) = IF s \in v THEN Bits(1, 0) ELSE Bits(0, 0)
<1>1. s \in Int
  BY Blocks
<1>2. Code(f, 1) = {s} /\ Code(f, 0) = {}
  BY <1>1, BitsSmall DEF Code
<1>3. CASE s \in v
  <2>1. v \cap Span(f) = Code(f, 1)
    BY <1>2, <1>3
  <2> QED
    BY <1>3, <2>1, DecodeCode
<1>4. CASE s \notin v
  <2>1. v \cap Span(f) = Code(f, 0)
    BY <1>2, <1>4
  <2> QED
    BY <1>4, <2>1, DecodeCode
<1> QED
  BY <1>3, <1>4

\* The latches after a write.
LEMMA LatchWritten ==
    ASSUME NEW a, NEW v, HwWrite(a, v), latch \in [0..1 -> SUBSET Word32], NEW b \in {0, 1}
    PROVE  /\ a = <<"gpio", 7 + b>> => latch'[b] = latch[b] \cup v
           /\ a = <<"gpio", 10 + b>> => latch'[b] = latch[b] \ v
           /\ a # <<"gpio", 7 + b>> /\ a # <<"gpio", 10 + b>> => latch'[b] = latch[b]
<1>1. /\ Banks("GPSET") = {<<"gpio", 7>>, <<"gpio", 8>>} /\ Banks("GPCLR") = {<<"gpio", 10>>, <<"gpio", 11>>}
      /\ BankOf("GPSET", a) = a[2] - 7 /\ BankOf("GPCLR", a) = a[2] - 10
  BY Special, BankWords DEF BankOf
<1>2. latch' = IF a \in Banks("GPSET") THEN [latch EXCEPT ![BankOf("GPSET", a)] = @ \cup v]
               ELSE IF a \in Banks("GPCLR") THEN [latch EXCEPT ![BankOf("GPCLR", a)] = @ \ v]
               ELSE latch
  BY DEF HwWrite
<1>3. CASE a = <<"gpio", 7>>
  BY <1>1, <1>2, <1>3
<1>4. CASE a = <<"gpio", 8>>
  BY <1>1, <1>2, <1>4
<1>5. CASE a = <<"gpio", 10>>
  BY <1>1, <1>2, <1>5
<1>6. CASE a = <<"gpio", 11>>
  BY <1>1, <1>2, <1>6
<1>7. CASE a \notin Banks("GPSET") \cup Banks("GPCLR")
  BY <1>1, <1>2, <1>7
<1> QED
  BY <1>1, <1>3, <1>4, <1>5, <1>6, <1>7

\* The outputs after a write.
LEMMA OutWritten ==
    ASSUME NEW o, HwWrite(o.a, o.v), latch \in [0..1 -> SUBSET Word32], Own(o), o.a \in Latches => Drives(o),
           NEW f \in Fields, f[1] = "out"
    PROVE  /\ f \in DOMAIN o.set => Value(f)' = Bits(o.set[f], 0)
           /\ f \notin DOMAIN o.set => Value(f)' = Value(f)
<1> DEFINE p == f[2]
           b == p \div 32
           s == p % 32
<1>1. /\ f = <<"out", p>> /\ p \in Pins /\ FieldOf[f].lo = s /\ Span(f) = {s}
      /\ Value(f) = Decode(f, latch[b]) /\ Value(f)' = Decode(f, latch'[b]) /\ b \in {0, 1}
  BY OutField
<1>2. Bank("GPSET", p) = <<"gpio", 7 + b>> /\ Bank("GPCLR", p) = <<"gpio", 10 + b>>
  BY BankWords DEF Bank
<1> HIDE DEF b, s
<1>3. /\ o.a = <<"gpio", 7 + b>> => latch'[b] = latch[b] \cup o.v
      /\ o.a = <<"gpio", 10 + b>> => latch'[b] = latch[b] \ o.v
      /\ o.a # <<"gpio", 7 + b>> /\ o.a # <<"gpio", 10 + b>> => latch'[b] = latch[b]
  BY <1>1, LatchWritten
<1>4. \A v : Decode(f, v) = IF s \in v THEN Bits(1, 0) ELSE Bits(0, 0)
  <2>1. f[1] # "pull"
    OBVIOUS
  <2> QED
    BY <1>1, <2>1, OneBit
<1>5. CASE o.a \notin Latches
  <2>1. f \notin DOMAIN o.set
    BY <1>5 DEF Own
  <2>2. o.a # <<"gpio", 7 + b>> /\ o.a # <<"gpio", 10 + b>>
    BY <1>1, <1>5, Special
  <2> QED
    BY <1>1, <1>3, <2>1, <2>2
<1>6. CASE o.a \in Latches
  <2>1. /\ <<"out", p>> \in DOMAIN o.set <=> s \in o.v /\ o.a \in {Bank("GPSET", p), Bank("GPCLR", p)}
        /\ <<"out", p>> \in DOMAIN o.set => o.set[<<"out", p>>] = IF o.a \in Banks("GPSET") THEN 1 ELSE 0
    BY <1>1, <1>6 DEF Drives, s
  <2> HIDE DEF p
  <2>2. /\ f \in DOMAIN o.set <=> s \in o.v /\ (o.a = <<"gpio", 7 + b>> \/ o.a = <<"gpio", 10 + b>>)
        /\ f \in DOMAIN o.set => o.set[f] = IF o.a \in Banks("GPSET") THEN 1 ELSE 0
    BY <1>1, <1>2, <2>1
  <2>3. CASE o.a = <<"gpio", 7 + b>>
    <3>1. o.a \in Banks("GPSET")
      BY <1>1, <2>3, Special
    <3>2. f \in DOMAIN o.set <=> s \in o.v
      BY <2>2, <2>3
    <3>3. s \in latch'[b] <=> s \in latch[b] \/ s \in o.v
      BY <1>3, <2>3
    <3> QED
      BY <1>1, <1>4, <2>2, <3>1, <3>2, <3>3
  <2>4. CASE o.a = <<"gpio", 10 + b>>
    <3>1. o.a \notin Banks("GPSET")
      BY <1>1, <2>4, Special
    <3>2. f \in DOMAIN o.set <=> s \in o.v
      BY <2>2, <2>4
    <3>3. s \in latch'[b] <=> s \in latch[b] /\ s \notin o.v
      BY <1>3, <2>4
    <3> QED
      BY <1>1, <1>4, <2>2, <3>1, <3>2, <3>3
  <2>5. CASE o.a # <<"gpio", 7 + b>> /\ o.a # <<"gpio", 10 + b>>
    BY <1>1, <1>3, <2>2, <2>5
  <2> QED
    BY <2>3, <2>4, <2>5
<1> QED
  BY <1>5, <1>6

\* The set and clear registers hold no field.
LEMMA LatchesNone == ASSUME NEW f \in Fields PROVE FieldOf[f].a \notin Latches
<1> SUFFICES ASSUME NEW w \in Int, w >= 7, w <= 11, FieldOf[f].a = <<"gpio", w>> PROVE FALSE
  BY Special
<1>1. f[2] \in Pins /\ Pin(f[2])
      /\ \/ f[1] = "fsel" /\ w = f[2] \div 10
         \/ f[1] \in Events /\ w = GPIO[f[1]][1] \div 4 + f[2] \div 32
         \/ f[1] = "pull" /\ w = 57 + f[2] \div 16
  BY GpioWord
<1>2. /\ f[2] \div 10 \in Int /\ f[2] \div 10 <= 5 /\ f[2] \div 16 \in Int /\ 0 <= f[2] \div 16
      /\ f[2] \div 32 \in Int /\ 0 <= f[2] \div 32
  BY <1>1, PinPlace
<1>3. f[1] \in Events => GPIO[f[1]][1] \div 4 \in Int /\ GPIO[f[1]][1] \div 4 >= 16
  BY EventWords
<1> QED
  BY <1>1, <1>2, <1>3

\* A field that is an event's flag.
LEMMA AckField ==
    ASSUME NEW f \in Fields, FieldOf[f].a \in Acks
    PROVE  f[1] = "GPEDS" /\ Span(f) = {FieldOf[f].lo}
<1>1. PICK b \in {0, 1} : FieldOf[f].a = <<"gpio", 16 + b>>
  BY Special
<1>2. "GPEDS" \in Events /\ GPIO["GPEDS"][1] \div 4 = 16
  BY BankWords DEF Events
<1>3. f = <<"GPEDS", f[2]>> /\ Pin(f[2]) /\ FieldOf[f].lo = f[2] % 32 /\ FieldOf[f].n = 1
  BY <1>1, <1>2, EventFields
<1>4. f[1] = "GPEDS" /\ f[2] % 32 \in Int
  BY <1>3, PinPlace
<1> QED
  BY <1>3, <1>4 DEF Span

\* A write sets the fields that it is meant to set, and no other.
LEMMA WriteField ==
    ASSUME NEW o, Writes(o), Written(o), fill' = fill, latch \in [0..1 -> SUBSET Word32], NEW f \in Fields
    PROVE  /\ f \in DOMAIN o.set => Value(f)' = Want(f)'
           /\ f \notin DOMAIN o.set => Value(f)' = Value(f) /\ Want(f)' = Want(f)
<1> DEFINE a == o.a
           v == o.v
<1>1. Want(f)' = IF f \in DOMAIN o.set THEN Bits(o.set[f], 0) ELSE Want(f)
  BY WantWritten
<1>2. HwWrite(a, v) /\ Own(o) /\ ~Refused(a, v) /\ v \subseteq Word32
  BY DEF Written, Writes, Sets
<1>3. CASE f[1] = "out"
  <2>1. a \in Latches => Drives(o)
    BY DEF Writes
  <2> QED
    BY <1>1, <1>2, <1>3, <2>1, OutWritten
<1>4. CASE f[1] # "out" /\ a \in Latches
  <2>1. f \notin DOMAIN o.set
    BY <1>2, <1>4, LatchesNone DEF Own
  <2>2. reg' = reg
    BY <1>2, <1>4 DEF HwWrite, Latches
  <2>3. Value(f)' = Value(f)
    BY <1>4, <2>2 DEF Value, Get
  <2> QED
    BY <1>1, <2>1, <2>3
<1>5. CASE f[1] # "out" /\ a \notin Latches
  <2>1. Value(f)' = IF FieldOf[f].a = a THEN Decode(f, Stored(a, v, Get(a))) ELSE Value(f)
    BY <1>2, <1>5, ValueWritten
  <2>2. CASE FieldOf[f].a # a
    <3>1. f \notin DOMAIN o.set
      BY <1>2, <1>5, <2>2 DEF Own
    <3> QED
      BY <1>1, <2>1, <2>2, <3>1
  <2>3. CASE FieldOf[f].a = a /\ a \in Acks
    <3>1. /\ f \in DOMAIN o.set <=> FieldOf[f].lo \in v
          /\ f \in DOMAIN o.set => o.set[f] = 0
      BY <2>3 DEF Writes, Acknowledges
    <3>2. f[1] # "pull" /\ Span(f) = {FieldOf[f].lo}
      BY <2>3, AckField
    <3>3. Stored(a, v, Get(a)) = Get(a) \ v
      BY <2>3, StoredIs
    <3>4. Value(f) = Decode(f, Get(a))
      BY <1>5, <2>3 DEF Value
    <3>5. \A w : Decode(f, w) = IF FieldOf[f].lo \in w THEN Bits(1, 0) ELSE Bits(0, 0)
      BY <3>2, OneBit
    <3> HIDE DEF a, v
    <3>6. FieldOf[f].lo \in Get(a) \ v <=> FieldOf[f].lo \in Get(a) /\ f \notin DOMAIN o.set
      BY <3>1
    <3> QED
      BY <1>1, <2>1, <2>3, <3>1, <3>3, <3>4, <3>5, <3>6
  <2>4. CASE FieldOf[f].a = a /\ a \notin Acks
    <3>1. f \in DOMAIN o.set /\ v \cap Span(f) = Code(f, o.set[f]) /\ (f[1] = "pull" => o.set[f] \in {0, 1, 2})
      BY <1>5, <2>4 DEF Writes, Exact
    <3>2. Stored(a, v, Get(a)) \cap Span(f) = v \cap Span(f)
      BY <2>4, StoredSpan
    <3> HIDE DEF a, v
    <3>3. Decode(f, Stored(a, v, Get(a))) = Bits(o.set[f], 0)
      BY <3>1, <3>2, DecodeCode
    <3> QED
      BY <1>1, <2>1, <2>4, <3>1, <3>3
  <2> QED
    BY <2>2, <2>3, <2>4
<1> QED
  BY <1>3, <1>4, <1>5

\* A write-back sets the fields that it is meant to set, and puts the others of the register back to
\* what was read.
LEMMA BackField ==
    ASSUME NEW o, Sets(o), Sharable(o.a), Kept(o), Written(o), fill' = fill, latch \in [0..1 -> SUBSET Word32],
           NEW f \in Fields
    PROVE  /\ f \in DOMAIN o.set => Value(f)' = Want(f)' /\ FieldOf[f].a = o.a
           /\ f \notin DOMAIN o.set => Want(f)' = Want(f)
           /\ f \notin DOMAIN o.set /\ FieldOf[f].a # o.a => Value(f)' = Value(f)
           /\ f \notin DOMAIN o.set /\ FieldOf[f].a = o.a => Value(f)' = Decode(f, o.clear)
           /\ FieldOf[f].a = o.a => f[1] \in SharedKinds
<1> DEFINE a == o.a
           v == o.v
<1>1. Want(f)' = IF f \in DOMAIN o.set THEN Bits(o.set[f], 0) ELSE Want(f)
  BY WantWritten
<1>2. HwWrite(a, v) /\ Own(o) /\ ~Refused(a, v) /\ a \notin Latches /\ a \notin Acks
  BY DEF Written, Sets, Sharable, Refused
<1>3. FieldOf[f].a = a => f[1] \in SharedKinds
  BY DEF Sharable
<1>4. CASE f[1] = "out"
  <2>1. f \notin DOMAIN o.set /\ FieldOf[f].a # a
    BY <1>2, <1>3, <1>4, NotShared DEF Own
  <2>2. a \in Latches => Drives(o)
    BY <1>2
  <2>3. Value(f)' = Value(f)
    BY <1>2, <1>4, <2>1, <2>2, OutWritten
  <2> QED
    BY <1>1, <2>1, <2>3
<1>5. CASE f[1] # "out"
  <2>1. Value(f)' = IF FieldOf[f].a = a THEN Decode(f, Stored(a, v, Get(a))) ELSE Value(f)
    BY <1>2, <1>5, ValueWritten
  <2>2. f \in DOMAIN o.set => FieldOf[f].a = a
    BY <1>2, <1>5 DEF Own
  <2>3. CASE FieldOf[f].a # a
    BY <1>1, <2>1, <2>2, <2>3
  <2>4. CASE FieldOf[f].a = a
    <3>1. Stored(a, v, Get(a)) \cap Span(f) = v \cap Span(f)
      BY <1>2, <2>4, StoredSpan
    <3>2. CASE f \in DOMAIN o.set
      <4>1. v \cap Span(f) = Code(f, o.set[f]) /\ (f[1] = "pull" => o.set[f] \in {0, 1, 2})
        BY <2>4, <3>2 DEF Kept
      <4> HIDE DEF a, v
      <4>2. Decode(f, Stored(a, v, Get(a))) = Bits(o.set[f], 0)
        BY <3>1, <4>1, DecodeCode
      <4> QED
        BY <1>1, <1>3, <2>1, <2>4, <3>2, <4>2 DEF a
    <3>3. CASE f \notin DOMAIN o.set
      <4>1. v \cap Span(f) = o.clear \cap Span(f)
        BY <2>4, <3>3 DEF Kept
      <4> HIDE DEF a, v
      <4>2. Decode(f, Stored(a, v, Get(a))) = Decode(f, o.clear)
        BY <3>1, <4>1, DecodeLocal
      <4> QED
        BY <1>1, <1>3, <2>1, <2>4, <3>3, <4>2 DEF a
    <3> QED
      BY <3>2, <3>3
  <2> QED
    BY <2>3, <2>4
<1> QED
  BY <1>4, <1>5

-----------------------------------------------------------------------------
(* The inductive invariant. *)

\* Registers and latches are words, at most one transfer is on the SMI bus.
WordsOK ==
    /\ fill \in {{}, Word32} /\ \A a \in DOMAIN reg : reg[a] \subseteq Word32
    /\ latch \in [0..1 -> SUBSET Word32] /\ (smi = <<>> \/ \E t : smi = <<t>>)

IsCall(r) ==
    /\ r = [name |-> r.name, prog |-> r.prog, ret |-> r.ret, truth |-> r.truth, alone |-> r.alone]
    /\ IsProg(r.prog)

\* Every caller runs the rest of a program, and none before the blocks are mapped.
CallersOK ==
    /\ mapped \in BOOLEAN /\ calls \in 0..MaxCalls
    /\ call = [c \in Callers |-> call[c]] /\ \A c \in Callers : IsCall(call[c])
    /\ ~mapped => \A c \in Callers : call[c].prog = <<>>

\* Fields hold what they were set to, but for those that a write-back may have lost.
FieldsHold ==
    /\ lost \subseteq Fields /\ \A f \in lost : f[1] \in SharedKinds
    /\ \A f \in Fields : f \in lost \/ Value(f) = Want(f)

\* The divider of a bus is the one for the speed last asked for.
DividerFor(bus, hz) ==
    \/ hz = 0
    \/ hz \in Nat \ {0} /\ <<bus, "div">> \in DOMAIN want /\ want[<<bus, "div">>] = Bits(Divisor(bus, hz), 0)

SpeedsHold == \A bus \in Buses : <<bus, "hz">> \in DOMAIN want /\ DividerFor(bus, want[<<bus, "hz">>])

Inv == WordsOK /\ CallersOK /\ FieldsHold /\ SpeedsHold

\* A register holds bits of a word.
LEMMA GetWord == ASSUME WordsOK, NEW a PROVE Get(a) \subseteq Word32
  BY DEF WordsOK, Get

\* Writing bits of a word to a register keeps the registers words.
LEMMA PutWord == ASSUME WordsOK, NEW a, NEW x, x \subseteq Word32, reg' = Put(a, x)
                 PROVE  \A b \in DOMAIN reg' : reg'[b] \subseteq Word32
  BY DEF WordsOK, Put, Over, One

\* A write keeps registers and latches words.
LEMMA WriteWords ==
    ASSUME WordsOK, NEW a, NEW v, v \subseteq Word32, HwWrite(a, v), fill' = fill
    PROVE  WordsOK'
<1>1. \A b \in DOMAIN reg' : reg'[b] \subseteq Word32
  <2> DEFINE x == Stored(a, v, Get(a))
  <2>1. x \subseteq Word32
    BY GetWord, StoredWord
  <2>2. reg' = reg \/ reg' = Put(a, x)
    BY DEF HwWrite
  <2> HIDE DEF x
  <2> QED
    BY <2>1, <2>2, PutWord DEF WordsOK
<1>2. latch' \in [0..1 -> SUBSET Word32]
  <2>1. latch \in [0..1 -> SUBSET Word32]
    BY DEF WordsOK
  <2>2. \A b : [latch EXCEPT ![b] = @ \cup v] \in [0..1 -> SUBSET Word32]
    BY <2>1
  <2>3. \A b : [latch EXCEPT ![b] = @ \ v] \in [0..1 -> SUBSET Word32]
    BY <2>1
  <2> QED
    BY <2>1, <2>2, <2>3 DEF HwWrite
<1>3. smi' = <<>> \/ \E t : smi' = <<t>>
  BY DEF HwWrite, WordsOK
<1> QED
  BY <1>1, <1>2, <1>3 DEF WordsOK

\* A write keeps dividers and speeds together.
LEMMA WriteSpeeds ==
    ASSUME SpeedsHold, NEW o, Timed(o), Written(o)
    PROVE  SpeedsHold'
<1> SUFFICES ASSUME NEW bus \in Buses
             PROVE  <<bus, "hz">> \in DOMAIN want' /\ DividerFor(bus, want[<<bus, "hz">>])'
  BY DEF SpeedsHold
<1> DEFINE h == <<bus, "hz">>
           d == <<bus, "div">>
           r == Recorded(o)
<1>1. h \in Speeds /\ d \in Fields /\ d \notin Speeds
  BY DividerFields, NotSpeed DEF Speeds, Buses
<1>2. r = [x \in DOMAIN o.set \cap (Fields \cup Speeds) |-> IF x \in Speeds THEN o.set[x] ELSE Bits(o.set[x], 0)]
  BY DEF Recorded
<1>3. /\ h \in DOMAIN o.set <=> d \in DOMAIN o.set
      /\ h \in DOMAIN o.set => o.set[h] = 0 \/ (o.set[h] \in Nat \ {0} /\ o.set[d] = Divisor(bus, o.set[h]))
  BY DEF Timed
<1>4. /\ h \in DOMAIN want
      /\ want[h] = 0 \/ (want[h] \in Nat \ {0} /\ d \in DOMAIN want /\ want[d] = Bits(Divisor(bus, want[h]), 0))
  BY DEF SpeedsHold, DividerFor
<1> HIDE DEF h, d
<1>5. /\ h \in DOMAIN r <=> h \in DOMAIN o.set
      /\ d \in DOMAIN r <=> d \in DOMAIN o.set
      /\ h \in DOMAIN r => r[h] = o.set[h] /\ r[d] = Bits(o.set[d], 0)
  BY <1>1, <1>2, <1>3
<1> HIDE DEF r
<1>6. want' = Over(r, want)
  BY DEF Written, r
<1>7. \A x : /\ x \in DOMAIN want' <=> x \in DOMAIN r \/ x \in DOMAIN want
             /\ x \in DOMAIN want' => want'[x] = IF x \in DOMAIN r THEN r[x] ELSE want[x]
  BY <1>6 DEF Over
<1>8. /\ h \in DOMAIN want'
      /\ want'[h] = 0 \/ (want'[h] \in Nat \ {0} /\ d \in DOMAIN want' /\ want'[d] = Bits(Divisor(bus, want'[h]), 0))
  <2>1. CASE h \in DOMAIN o.set
    <3>1. h \in DOMAIN want' /\ d \in DOMAIN want' /\ want'[h] = o.set[h] /\ want'[d] = Bits(o.set[d], 0)
      BY <1>3, <1>5, <1>7, <2>1
    <3> QED
      BY <1>3, <2>1, <3>1
  <2>2. CASE h \notin DOMAIN o.set
    <3>1. h \in DOMAIN want' /\ want'[h] = want[h] /\ (d \in DOMAIN want => d \in DOMAIN want' /\ want'[d] = want[d])
      BY <1>3, <1>4, <1>5, <1>7, <2>2
    <3> QED
      BY <1>4, <3>1
  <2> QED
    BY <2>1, <2>2
<1> QED
  BY <1>8 DEF DividerFor, h, d

-----------------------------------------------------------------------------
(* The steps of a program. *)

\* What is left of a program after its first access, and after two.
LEMMA TailProg ==
    ASSUME NEW p, IsProg(p), p # <<>>
    PROVE  /\ Access(Head(p)) /\ IsProg(Tail(p))
           /\ Head(p).op = "test" => IsProg(Tail(Tail(p)))
<1>1. Access(Head(p)) /\ Fresh(Tail(p)) /\ (Head(p).op = "test" => Tail(p) # <<>>)
  BY DEF IsProg
<1>2. IsProg(Tail(p))
  BY <1>1, FreshIsProg
<1>3. Tail(p) # <<>> => IsProg(Tail(Tail(p)))
  <2> DEFINE q == Tail(p)
  <2>1. q # <<>> => Fresh(Tail(q))
    BY <1>2 DEF IsProg
  <2> HIDE DEF q
  <2>2. q # <<>> => IsProg(Tail(q))
    BY <2>1, FreshIsProg
  <2> QED
    BY <2>2 DEF q
<1> QED
  BY <1>1, <1>2, <1>3

\* A program with another first access.
LEMMA ConsProg ==
    ASSUME NEW x, Access(x), x.op # "test", NEW q, Fresh(q)
    PROVE  IsProg(<<x>> \o q)
<1> DEFINE S == {x} \cup {q[i] : i \in DOMAIN q}
           r == <<x>> \o q
<1>1. q \in Seq(S)
  BY DEF Fresh
<1>2. <<x>> \in Seq(S)
  OBVIOUS
<1>3. r \in Seq(S) /\ r # <<>> /\ Head(r) = x /\ Tail(r) = q
  BY <1>1, <1>2
<1> HIDE DEF r, S
<1>4. r \in Seq({r[i] : i \in DOMAIN r})
  BY <1>3
<1>5. IsProg(r)
  BY <1>3, <1>4 DEF IsProg
<1> QED
  BY <1>5 DEF r

\* What set_bits writes back: the fields it sets get their codes, the others what was read.
LEMMA ReadBack ==
    ASSUME NEW o, Access(o), o.op = "read", NEW old, old \subseteq Word32,
           NEW x, x = [o EXCEPT !.op = "back", !.v = (old \ o.clear) \cup o.v, !.clear = old]
    PROVE  Access(x) /\ x.op # "test"
<1>1. o = [op |-> o.op, a |-> o.a, v |-> o.v, clear |-> o.clear, set |-> o.set]
  BY DEF Access
<1>2. Sets(o) /\ Sharable(o.a) /\ Exact(o)
  BY DEF Access
<1>3. /\ x.op = "back" /\ x.a = o.a /\ x.v = (old \ o.clear) \cup o.v /\ x.clear = old /\ x.set = o.set
      /\ x = [op |-> x.op, a |-> x.a, v |-> x.v, clear |-> x.clear, set |-> x.set]
  BY <1>1
<1>4. Sets(x)
  <2>1. x.v \subseteq Word32
    BY <1>2, <1>3 DEF Sets
  <2>2. Own(x)
    BY <1>2, <1>3 DEF Sets, Own
  <2>3. Timed(x)
    BY <1>2, <1>3 DEF Sets, Timed
  <2> QED
    BY <2>1, <2>2, <2>3 DEF Sets
<1>5. Kept(x)
  <2> SUFFICES ASSUME NEW f \in Fields, FieldOf[f].a = x.a
               PROVE  IF f \in DOMAIN x.set
                      THEN x.v \cap Span(f) = Code(f, x.set[f]) /\ (f[1] = "pull" => x.set[f] \in {0, 1, 2})
                      ELSE x.v \cap Span(f) = x.clear \cap Span(f)
    BY DEF Kept
  <2>1. IF f \in DOMAIN o.set
        THEN /\ Span(f) \subseteq o.clear /\ o.v \cap Span(f) = Code(f, o.set[f])
             /\ f[1] = "pull" => o.set[f] \in {0, 1, 2}
        ELSE Span(f) \cap (o.clear \cup o.v) = {}
    BY <1>2, <1>3 DEF Exact
  <2>2. CASE f \in DOMAIN o.set
    <3>1. x.v \cap Span(f) = o.v \cap Span(f)
      BY <1>3, <2>1, <2>2
    <3> QED
      BY <1>3, <2>1, <2>2, <3>1
  <2>3. CASE f \notin DOMAIN o.set
    <3>1. x.v \cap Span(f) = old \cap Span(f)
      BY <1>3, <2>1, <2>3
    <3> QED
      BY <1>3, <2>3, <3>1
  <2> QED
    BY <2>2, <2>3
<1> QED
  BY <1>2, <1>3, <1>4, <1>5 DEF Access

\* A caller goes on with the rest of its program.
LEMMA CallersStep ==
    ASSUME CallersOK, NEW c \in Callers, call[c].prog # <<>>, NEW rest, IsProg(rest), NEW ret, NEW truth, NEW alone,
           \/ call' = [call EXCEPT ![c].prog = rest]
           \/ call' = [call EXCEPT ![c].prog = rest, ![c].ret = ret, ![c].truth = truth, ![c].alone = alone],
           mapped' = mapped, calls' = calls
    PROVE  CallersOK'
<1>1. /\ mapped \in BOOLEAN /\ calls \in 0..MaxCalls /\ mapped = TRUE
      /\ call = [d \in Callers |-> call[d]] /\ \A d \in Callers : IsCall(call[d])
  BY DEF CallersOK
<1>2. DOMAIN call = Callers /\ DOMAIN call' = Callers /\ call' = [d \in Callers |-> call'[d]]
  BY <1>1
<1> DEFINE r == call[c]
           s == call'[c]
<1>3. r = [name |-> r.name, prog |-> r.prog, ret |-> r.ret, truth |-> r.truth, alone |-> r.alone]
  BY <1>1 DEF IsCall
<1>4. \A d \in Callers : d # c => call'[d] = call[d]
  BY <1>2
<1>5. s = [r EXCEPT !.prog = rest] \/ s = [r EXCEPT !.prog = rest, !.ret = ret, !.truth = truth, !.alone = alone]
  BY <1>2
<1> HIDE DEF r, s
<1>6. s = [name |-> s.name, prog |-> s.prog, ret |-> s.ret, truth |-> s.truth, alone |-> s.alone] /\ s.prog = rest
  BY <1>3, <1>5
<1>7. IsCall(s)
  BY <1>6 DEF IsCall
<1>8. \A d \in Callers : IsCall(call'[d])
  BY <1>1, <1>4, <1>7 DEF s
<1> QED
  BY <1>1, <1>2, <1>8 DEF CallersOK

\* Steps that leave the registers alone.
LEMMA QuietStep ==
    ASSUME WordsOK, FieldsHold, SpeedsHold, UNCHANGED <<fill, reg, latch, smi, want, lost>>
    PROVE  WordsOK' /\ FieldsHold' /\ SpeedsHold'
<1>1. \A f \in Fields : Value(f)' = Value(f) /\ Want(f)' = Want(f)
  BY DEF Value, Want, Get
<1>2. FieldsHold'
  BY <1>1 DEF FieldsHold
<1>3. WordsOK'
  BY DEF WordsOK
<1>4. SpeedsHold'
  BY DEF SpeedsHold, DividerFor
<1> QED
  BY <1>2, <1>3, <1>4

\* A single write.
LEMMA WriteStep ==
    ASSUME Inv, NEW o, Writes(o), Written(o), fill' = fill, lost' = lost \ DOMAIN o.set
    PROVE  WordsOK' /\ FieldsHold' /\ SpeedsHold'
<1>1. WordsOK'
  BY WriteWords DEF Inv, Writes, Sets, Written
<1>2. SpeedsHold'
  BY WriteSpeeds DEF Inv, Writes, Sets
<1>3. latch \in [0..1 -> SUBSET Word32]
  BY DEF Inv, WordsOK
<1>4. ASSUME NEW f \in Fields PROVE f \in lost' \/ Value(f)' = Want(f)'
  <2>1. /\ f \in DOMAIN o.set => Value(f)' = Want(f)'
        /\ f \notin DOMAIN o.set => Value(f)' = Value(f) /\ Want(f)' = Want(f)
    BY <1>3, WriteField
  <2>2. f \in lost \/ Value(f) = Want(f)
    BY DEF Inv, FieldsHold
  <2> QED
    BY <2>1, <2>2
<1>5. FieldsHold'
  BY <1>4 DEF Inv, FieldsHold
<1> QED
  BY <1>1, <1>2, <1>5

\* The write of a set_bits: it loses fields of its register that changed since it read it.
LEMMA BackStep ==
    ASSUME Inv, NEW o, Sets(o), Sharable(o.a), Kept(o), Written(o), fill' = fill,
           lost' = (lost \ DOMAIN o.set) \cup
                      {f \in Fields \ DOMAIN o.set : FieldOf[f].a = o.a /\ Decode(f, o.clear) # Value(f)}
    PROVE  WordsOK' /\ FieldsHold' /\ SpeedsHold'
<1>1. WordsOK'
  BY WriteWords DEF Inv, Sets, Written
<1>2. SpeedsHold'
  BY WriteSpeeds DEF Inv, Sets
<1>3. latch \in [0..1 -> SUBSET Word32]
  BY DEF Inv, WordsOK
<1>4. ASSUME NEW f \in Fields PROVE f \in lost' \/ Value(f)' = Want(f)'
  <2>1. /\ f \in DOMAIN o.set => Value(f)' = Want(f)'
        /\ f \notin DOMAIN o.set => Want(f)' = Want(f)
        /\ f \notin DOMAIN o.set /\ FieldOf[f].a # o.a => Value(f)' = Value(f)
        /\ f \notin DOMAIN o.set /\ FieldOf[f].a = o.a => Value(f)' = Decode(f, o.clear)
    BY <1>3, BackField
  <2>2. f \in lost \/ Value(f) = Want(f)
    BY DEF Inv, FieldsHold
  <2> QED
    BY <2>1, <2>2
<1>5. ASSUME NEW f \in lost' PROVE f \in Fields /\ f[1] \in SharedKinds
  <2>1. f \in lost \/ (f \in Fields /\ FieldOf[f].a = o.a)
    BY <1>5
  <2>2. f \in Fields /\ FieldOf[f].a = o.a => f[1] \in SharedKinds
    BY DEF Sharable
  <2> QED
    BY <2>1, <2>2 DEF Inv, FieldsHold
<1>6. FieldsHold'
  BY <1>4, <1>5 DEF FieldsHold
<1> QED
  BY <1>1, <1>2, <1>6

\* A step of a caller, access by access.
LEMMA StepInv == ASSUME Inv, NEW c \in Callers, Step(c) PROVE Inv'
<1>1. PICK q : q = call[c].prog
  OBVIOUS
<1>2. PICK x : x = Head(q)
  OBVIOUS
<1>3. /\ q # <<>> /\ UNCHANGED <<mapped, fill, served, calls>>
      /\ \/ /\ x.op = "write" /\ Written(x) /\ call' = [call EXCEPT ![c].prog = Tail(q)]
            /\ lost' = lost \ DOMAIN x.set
         \/ /\ x.op = "read"
            /\ call' = [call EXCEPT ![c].prog = <<[x EXCEPT !.op = "back", !.v = (Get(x.a) \ x.clear) \cup x.v,
                                                            !.clear = Get(x.a)]>> \o Tail(q)]
            /\ UNCHANGED <<reg, latch, smi, want, lost>>
         \/ /\ x.op = "back" /\ Written(x) /\ call' = [call EXCEPT ![c].prog = Tail(q)]
            /\ lost' = (lost \ DOMAIN x.set) \cup
                 {f \in Fields \ DOMAIN x.set : FieldOf[f].a = x.a /\ Decode(f, x.clear) # Value(f)}
         \/ /\ x.op = "await" /\ call' = [call EXCEPT ![c].prog = Tail(q)]
            /\ UNCHANGED <<reg, latch, smi, want, lost>>
         \/ /\ x.op = "test"
            /\ call' = [call EXCEPT ![c].prog = IF x.v \subseteq Get(x.a) THEN Tail(q) ELSE Tail(Tail(q))]
            /\ UNCHANGED <<reg, latch, smi, want, lost>>
         \/ /\ x.op = "fetch"
            /\ call' = [call EXCEPT ![c].prog = Tail(q), ![c].ret = Result(x.v, HwRead(x.a)),
                                    ![c].truth = Truth(x.v), ![c].alone = @ /\ lost = {}]
            /\ UNCHANGED <<reg, latch, smi, want, lost>>
  BY <1>1, <1>2 DEF Step, Written, Recorded
<1>4. WordsOK /\ CallersOK /\ FieldsHold /\ SpeedsHold
  BY DEF Inv
<1>5. IsProg(q) /\ call[c].prog # <<>>
  BY <1>1, <1>3, <1>4 DEF CallersOK, IsCall
<1>6. /\ Access(x) /\ IsProg(Tail(q)) /\ Fresh(Tail(q))
      /\ x.op = "test" => IsProg(Tail(Tail(q)))
  BY <1>2, <1>3, <1>5, TailProg DEF IsProg
<1>7. CASE x.op = "write"
  <2>1. Writes(x) /\ Written(x) /\ call' = [call EXCEPT ![c].prog = Tail(q)] /\ lost' = lost \ DOMAIN x.set
    BY <1>3, <1>6, <1>7 DEF Access
  <2>2. WordsOK' /\ FieldsHold' /\ SpeedsHold'
    BY <1>3, <2>1, WriteStep
  <2>3. CallersOK'
    BY <1>3, <1>4, <1>5, <1>6, <2>1, CallersStep
  <2> QED
    BY <2>2, <2>3 DEF Inv
<1>8. CASE x.op = "read"
  <2> DEFINE y == [x EXCEPT !.op = "back", !.v = (Get(x.a) \ x.clear) \cup x.v, !.clear = Get(x.a)]
  <2>1. call' = [call EXCEPT ![c].prog = <<y>> \o Tail(q)] /\ UNCHANGED <<fill, reg, latch, smi, want, lost>>
    BY <1>3, <1>8
  <2>2. Get(x.a) \subseteq Word32
    BY <1>4, GetWord
  <2>3. Access(y) /\ y.op # "test"
    BY <1>6, <1>8, <2>2, ReadBack
  <2> HIDE DEF y
  <2>4. IsProg(<<y>> \o Tail(q))
    BY <1>6, <2>3, ConsProg
  <2>5. CallersOK'
    BY <1>3, <1>4, <1>5, <2>1, <2>4, CallersStep
  <2> QED
    BY <1>4, <2>1, <2>5, QuietStep DEF Inv
<1>9. CASE x.op = "back"
  <2>1. /\ Sets(x) /\ Sharable(x.a) /\ Kept(x)
        /\ Written(x) /\ call' = [call EXCEPT ![c].prog = Tail(q)]
        /\ lost' = (lost \ DOMAIN x.set) \cup
                 {f \in Fields \ DOMAIN x.set : FieldOf[f].a = x.a /\ Decode(f, x.clear) # Value(f)}
    BY <1>3, <1>6, <1>9 DEF Access
  <2>2. WordsOK' /\ FieldsHold' /\ SpeedsHold'
    BY <1>3, <2>1, BackStep
  <2>3. CallersOK'
    BY <1>3, <1>4, <1>5, <1>6, <2>1, CallersStep
  <2> QED
    BY <2>2, <2>3 DEF Inv
<1>10. CASE x.op = "await"
  <2>1. call' = [call EXCEPT ![c].prog = Tail(q)] /\ UNCHANGED <<fill, reg, latch, smi, want, lost>>
    BY <1>3, <1>10
  <2>2. CallersOK'
    BY <1>3, <1>4, <1>5, <1>6, <2>1, CallersStep
  <2> QED
    BY <1>4, <2>1, <2>2, QuietStep DEF Inv
<1>11. CASE x.op = "test"
  <2> DEFINE rest == IF x.v \subseteq Get(x.a) THEN Tail(q) ELSE Tail(Tail(q))
  <2>1. call' = [call EXCEPT ![c].prog = rest] /\ UNCHANGED <<fill, reg, latch, smi, want, lost>>
    BY <1>3, <1>11
  <2>2. IsProg(rest)
    BY <1>6, <1>11
  <2> HIDE DEF rest
  <2>3. CallersOK'
    BY <1>3, <1>4, <1>5, <2>1, <2>2, CallersStep
  <2> QED
    BY <1>4, <2>1, <2>3, QuietStep DEF Inv
<1>12. CASE x.op = "fetch"
  <2> DEFINE ret == Result(x.v, HwRead(x.a))
             truth == Truth(x.v)
             alone == call[c].alone /\ lost = {}
  <2>1. call' = [call EXCEPT ![c].prog = Tail(q), ![c].ret = ret, ![c].truth = truth, ![c].alone = @ /\ lost = {}]
        /\ UNCHANGED <<fill, reg, latch, smi, want, lost>>
    BY <1>3, <1>12
  <2> HIDE DEF ret, truth
  <2>2. call' = [call EXCEPT ![c].prog = Tail(q), ![c].ret = ret, ![c].truth = truth, ![c].alone = alone]
    <3>1. c \in DOMAIN call
      BY <1>4 DEF CallersOK
    <3> QED
      BY <2>1, <3>1
  <2> HIDE DEF alone
  <2>3. CallersOK'
    BY <1>3, <1>4, <1>5, <1>6, <2>2, CallersStep
  <2> QED
    BY <1>4, <2>1, <2>3, QuietStep DEF Inv
<1> QED
  BY <1>3, <1>7, <1>8, <1>9, <1>10, <1>11, <1>12

-----------------------------------------------------------------------------
(* The chip's own steps. *)

\* A change of a register without fields.
LEMMA FieldsElsewhere ==
    ASSUME FieldsHold, SpeedsHold, UNCHANGED <<fill, latch, want, lost>>,
           \A f \in Fields : Get(FieldOf[f].a)' = Get(FieldOf[f].a)
    PROVE  FieldsHold' /\ SpeedsHold'
<1>1. \A f \in Fields : Want(f)' = Want(f)
  BY DEF Want
<1>2. \A f \in Fields : Value(f)' = Value(f)
  BY DEF Value
<1>3. FieldsHold'
  BY <1>1, <1>2 DEF FieldsHold
<1>4. SpeedsHold'
  BY DEF SpeedsHold, DividerFor
<1> QED
  BY <1>3, <1>4

\* A step that leaves the callers alone keeps them in order.
LEMMA CallersQuiet == ASSUME CallersOK, UNCHANGED <<mapped, call, calls>> PROVE CallersOK'
  BY DEF CallersOK

\* The PWM clock stops.
LEMMA ClockStopsInv == ASSUME Inv, ClockStops PROVE Inv'
<1> DEFINE a == <<"clk", PWMCLK.CNTL>>
           x == Get(a) \ {7}
<1>1. WordsOK /\ CallersOK /\ FieldsHold /\ SpeedsHold
  BY DEF Inv
<1>2. reg' = Put(a, x) /\ UNCHANGED <<mapped, fill, latch, smi, served, call, calls, want, lost>>
  BY DEF ClockStops
<1>3. a = <<"clk", 40>>
  BY DEF PWMCLK
<1>4. x \subseteq Word32
  BY <1>1, GetWord
<1> HIDE DEF a, x
<1>5. WordsOK'
  BY <1>1, <1>2, <1>4, PutWord DEF WordsOK
<1>6. \A f \in Fields : FieldOf[f].a # a
  BY <1>3, OtherBlocks, AtParts
<1>7. \A b : b # a => Get(b)' = Get(b)
  BY <1>2, GetPut
<1>8. FieldsHold' /\ SpeedsHold'
  BY <1>1, <1>2, <1>6, <1>7, FieldsElsewhere
<1> QED
  BY <1>1, <1>2, <1>5, <1>8, CallersQuiet DEF Inv

\* One register laid over the others, once or twice.
LEMMA OverReg ==
    ASSUME NEW a, NEW x, NEW r, NEW s, s = Over(One(a, x), r)
    PROVE  \A b : /\ b \in DOMAIN s <=> b = a \/ b \in DOMAIN r
                  /\ b \in DOMAIN s => s[b] = IF b = a THEN x ELSE r[b]
  BY DEF Over, One

\* A transfer on the SMI bus ends.
LEMMA SmiFinishInv == ASSUME Inv, SmiFinish PROVE Inv'
<1> DEFINE a == DirCs
           x == Get(a) \cup DIRCS.DONE
           b == <<"smi", SMI.DIRDATA>>
           y == Answer(smi[1].a)
<1>1. WordsOK /\ CallersOK /\ FieldsHold /\ SpeedsHold
  BY DEF Inv
<1>2. /\ reg' = Over(One(a, x), reg) \/ reg' = Over(One(a, x), Over(One(b, y), reg))
      /\ smi' = <<>> /\ UNCHANGED <<mapped, fill, latch, call, calls, want, lost>>
  BY DEF SmiFinish, Put
<1>3. a = <<"smi", 13>> /\ b = <<"smi", 15>>
  BY Special DEF SMI
<1>4. x \subseteq Word32
  <2>1. DIRCS.DONE \subseteq Word32
    BY DEF DIRCS, Word32
  <2> QED
    BY <1>1, <2>1, GetWord
<1>5. y \subseteq Word32
  BY DEF Answer, Word32
<1> HIDE DEF a, b, x, y
<1>6. \A z : /\ z \notin {a, b} => (z \in DOMAIN reg' <=> z \in DOMAIN reg) /\ (z \in DOMAIN reg => reg'[z] = reg[z])
             /\ z \in {a, b} /\ z \in DOMAIN reg' => reg'[z] = x \/ reg'[z] = y \/ (z \in DOMAIN reg /\ reg'[z] = reg[z])
  <2>1. CASE reg' = Over(One(a, x), reg)
    <3>1. \A z : /\ z \in DOMAIN reg' <=> z = a \/ z \in DOMAIN reg
                 /\ z \in DOMAIN reg' => reg'[z] = IF z = a THEN x ELSE reg[z]
      BY <2>1, OverReg
    <3> QED
      BY <3>1
  <2>2. CASE reg' = Over(One(a, x), Over(One(b, y), reg))
    <3> DEFINE s == Over(One(b, y), reg)
    <3>1. \A z : /\ z \in DOMAIN s <=> z = b \/ z \in DOMAIN reg
                 /\ z \in DOMAIN s => s[z] = IF z = b THEN y ELSE reg[z]
      BY OverReg
    <3> HIDE DEF s
    <3>2. reg' = Over(One(a, x), s)
      BY <2>2 DEF s
    <3>3. \A z : /\ z \in DOMAIN reg' <=> z = a \/ z \in DOMAIN s
                 /\ z \in DOMAIN reg' => reg'[z] = IF z = a THEN x ELSE s[z]
      BY <3>2, OverReg
    <3> QED
      BY <3>1, <3>3
  <2> QED
    BY <1>2, <2>1, <2>2
<1>7. WordsOK'
  <2>1. \A z \in DOMAIN reg' : reg'[z] \subseteq Word32
    BY <1>1, <1>4, <1>5, <1>6 DEF WordsOK
  <2> QED
    BY <1>1, <1>2, <2>1 DEF WordsOK
<1>8. \A f \in Fields : FieldOf[f].a \notin {a, b}
  BY <1>3, DirectNone
<1>9. \A z : z \notin {a, b} => Get(z)' = Get(z)
  BY <1>2, <1>6 DEF Get
<1>10. FieldsHold' /\ SpeedsHold'
  BY <1>1, <1>2, <1>8, <1>9, FieldsElsewhere
<1> QED
  BY <1>1, <1>2, <1>7, <1>10, CallersQuiet DEF Inv

\* An event sets the flag of its pin and no other.
LEMMA EventInv == ASSUME Inv, NEW pin \in Pins, Event(pin) PROVE Inv'
<1> DEFINE a == Bank("GPEDS", pin)
           x == Get(a) \cup Shift(pin)
           g == <<"GPEDS", pin>>
<1>1. WordsOK /\ CallersOK /\ FieldsHold /\ SpeedsHold
  BY DEF Inv
<1>2. /\ reg' = Put(a, x) /\ want' = Over(One(g, {0}), want)
      /\ UNCHANGED <<mapped, fill, latch, smi, served, call, calls, lost>>
  BY DEF Event
<1>3. "GPEDS" \in Events /\ Pin(pin)
  BY PinsPin DEF Events
<1>4. Shift(pin) \subseteq Word32
  BY <1>3, BankPlace
<1>5. x \subseteq Word32
  BY <1>1, <1>4, GetWord
<1> HIDE DEF x
<1>6. WordsOK'
  BY <1>1, <1>2, <1>5, PutWord DEF WordsOK
<1> HIDE DEF a
<1>7. \A b : Get(b)' = IF b = a THEN x ELSE Get(b)
  BY <1>2, GetPut
<1>8. \A f : /\ f \in DOMAIN want' <=> f = g \/ f \in DOMAIN want
             /\ f \in DOMAIN want' => want'[f] = IF f = g THEN {0} ELSE want[f]
  BY <1>2, OverReg
<1>9. SpeedsHold'
  <2>1. \A bus \in Buses : <<bus, "hz">> # g /\ <<bus, "div">> # g
    BY DEF Buses
  <2> HIDE DEF g
  <2> QED
    BY <1>1, <1>8, <2>1 DEF SpeedsHold, DividerFor
<1>10. ASSUME NEW f \in Fields PROVE f \in lost' \/ Value(f)' = Want(f)'
  <2>1. f \in lost \/ Value(f) = Want(f)
    BY <1>1 DEF FieldsHold
  <2>2. Want(f)' = IF f = g THEN {0} ELSE Want(f)
    <3> HIDE DEF g
    <3> QED
      BY <1>2, <1>8 DEF Want
  <2>3. CASE f[1] = "out"
    <3>1. f # g /\ Value(f)' = Value(f)
      BY <1>2, <2>3 DEF Value
    <3> QED
      BY <1>2, <2>1, <2>2, <3>1
  <2>4. CASE f[1] # "out"
    <3> DEFINE b == FieldOf[f].a
    <3>1. Value(f) = Decode(f, Get(b)) /\ Value(f)' = Decode(f, Get(b)')
      BY <2>4 DEF Value
    <3> HIDE DEF b
    <3>2. Value(f)' = IF b = a THEN Decode(f, x) ELSE Value(f)
      BY <1>7, <3>1
    <3>3. CASE f = g
      <4>1. b = a
        BY <1>3, <3>3, BankPlace DEF a, b
      <4>2. FieldOf[f].a = Bank("GPEDS", pin)
        BY <4>1 DEF a, b
      <4>3. Span(f) = {FieldOf[f].lo} /\ Span(f) = Shift(pin) /\ f[1] # "pull"
        BY <1>3, <3>3, <4>2, EventSpan
      <4>4. FieldOf[f].lo \in x
        BY <4>3 DEF x
      <4>5. Decode(f, x) = Bits(1, 0)
        BY <4>3, <4>4, OneBit
      <4>6. Bits(1, 0) = {0}
        BY BitsSmall
      <4> QED
        BY <2>2, <3>2, <3>3, <4>1, <4>5, <4>6
    <3>4. CASE f # g /\ b = a
      <4>1. FieldOf[f].a = Bank("GPEDS", pin)
        BY <3>4 DEF a, b
      <4>2. Span(f) \cap Shift(pin) = {}
        BY <1>3, <3>4, <4>1, EventSpan
      <4>3. x \cap Span(f) = Get(a) \cap Span(f)
        BY <4>2 DEF x
      <4>4. Decode(f, x) = Decode(f, Get(a))
        BY <4>3, DecodeLocal
      <4> QED
        BY <1>2, <2>1, <2>2, <3>1, <3>2, <3>4, <4>4
    <3>5. CASE f # g /\ b # a
      BY <1>2, <2>1, <2>2, <3>2, <3>5
    <3> QED
      BY <3>3, <3>4, <3>5
  <2> QED
    BY <2>3, <2>4
<1>11. FieldsHold'
  BY <1>1, <1>2, <1>10 DEF FieldsHold
<1> QED
  BY <1>1, <1>2, <1>6, <1>9, <1>11, CallersQuiet DEF Inv

-----------------------------------------------------------------------------
(* The calls. *)

\* A call that begins with a fresh program.
LEMMA CallInv ==
    ASSUME Inv, NEW c \in Callers, Ready(c), NEW name, NEW prog, Fresh(prog), mapped \/ prog = <<>>, Call(c, name, prog)
    PROVE  Inv'
<1>1. WordsOK /\ CallersOK /\ FieldsHold /\ SpeedsHold
  BY DEF Inv
<1>2. calls' = calls + 1 /\ UNCHANGED <<mapped, fill, reg, latch, smi, served, want, lost>>
  BY DEF Call
<1>3. calls < MaxCalls /\ calls \in 0..MaxCalls /\ MaxCalls \in Nat
  BY <1>1, RegistersAssumption DEF Ready, CallersOK
<1>4. calls' \in 0..MaxCalls
  BY <1>2, <1>3
<1>5. PICK t : call' = [d \in Callers |->
                  IF d = c THEN [Idle EXCEPT !.name = name, !.prog = prog, !.alone = t]
                  ELSE [call[d] EXCEPT !.alone = @ /\ ~({name, call[d].name} \subseteq Transfers)]]
  BY DEF Call
<1>6. call' = [d \in Callers |-> call'[d]]
  BY <1>5
<1>7. IsCall(call'[c]) /\ call'[c].prog = prog
  <2>1. call'[c] = [Idle EXCEPT !.name = name, !.prog = prog, !.alone = t]
    BY <1>5
  <2>2. call'[c] = [name |-> name, prog |-> prog, ret |-> 0, truth |-> 0, alone |-> t]
    BY <2>1 DEF Idle
  <2>3. IsProg(prog)
    BY FreshIsProg
  <2> QED
    BY <2>2, <2>3 DEF IsCall
<1>8. ASSUME NEW d \in Callers, d # c PROVE IsCall(call'[d]) /\ call'[d].prog = call[d].prog
  <2> DEFINE r == call[d]
             u == r.alone /\ ~({name, r.name} \subseteq Transfers)
  <2>1. IsCall(r)
    BY <1>1 DEF CallersOK
  <2>2. call'[d] = [r EXCEPT !.alone = @ /\ ~({name, r.name} \subseteq Transfers)]
    BY <1>5, <1>8
  <2>3. r = [name |-> r.name, prog |-> r.prog, ret |-> r.ret, truth |-> r.truth, alone |-> r.alone]
    BY <2>1 DEF IsCall
  <2> HIDE DEF r
  <2>4. call'[d] = [r EXCEPT !.alone = u]
    BY <2>2, <2>3
  <2> HIDE DEF u
  <2>5. call'[d] = [name |-> r.name, prog |-> r.prog, ret |-> r.ret, truth |-> r.truth, alone |-> u]
    BY <2>3, <2>4
  <2> QED
    BY <2>1, <2>5 DEF IsCall, r
<1>9. \A d \in Callers : IsCall(call'[d])
  BY <1>7, <1>8
<1>10. ~mapped' => \A d \in Callers : call'[d].prog = <<>>
  BY <1>1, <1>2, <1>7, <1>8 DEF CallersOK
<1>11. CallersOK'
  BY <1>1, <1>2, <1>4, <1>6, <1>9, <1>10 DEF CallersOK
<1> QED
  BY <1>1, <1>2, <1>11, QuietStep DEF Inv

\* The calls of the GPIO begin.
LEMMA GpioCalls == ASSUME Inv, NEW c \in Callers, Ready(c), mapped, gpio_calls(c) PROVE Inv'
<1>1. PICK pin \in Pins :
        \/ Call(c, "gpio_fsel", gpio_fsel(pin, IF Flip THEN FSEL.ALT5 ELSE FSEL.INPT))
        \/ \E on \in BOOLEAN : Call(c, "gpio_write", gpio_write(pin, on))
        \/ \E on \in BOOLEAN : Call(c, "gpio_pudclk", gpio_pudclk(pin, on))
        \/ \E r \in Detects : Call(c, "gpio_detect", gpio_detect(r, pin, Flip))
        \/ Call(c, "gpio_set_eds", gpio_set_eds(pin))
        \/ \E pud \in {PUD.DOWN, PUD.ERROR} : Call(c, "gpio_set_pud", gpio_set_pud(pin, pud))
        \/ Call(c, "gpio_get_pud", gpio_get_pud(pin))
        \/ Call(c, "gpio_lev", gpio_lev(pin))
        \/ Call(c, "gpio_eds", gpio_eds(pin))
  BY DEF gpio_calls
<1>2. \A name, prog : Call(c, name, prog) /\ Fresh(prog) => Inv'
  BY CallInv
<1>3. /\ \A mode \in {0, 2, 3, 4, 5} : Fresh(gpio_fsel(pin, mode))
      /\ \A on \in BOOLEAN : Fresh(gpio_write(pin, on))
      /\ \A r \in Detects : \A on \in BOOLEAN : Fresh(gpio_detect(r, pin, on))
      /\ Fresh(gpio_set_eds(pin))
  BY GpioPrograms
<1>4. \A pud : Fresh(gpio_set_pud(pin, pud))
  BY GpioPrograms, FreshNone
<1>5. (IF Flip THEN FSEL.ALT5 ELSE FSEL.INPT) \in {0, 2, 3, 4, 5} /\ Flip \in BOOLEAN
  BY DEF FSEL, Flip
<1>6. \A on \in BOOLEAN : Fresh(gpio_pudclk(pin, on))
  BY <1>4, FreshNone DEF gpio_pudclk
<1>7. Fresh(gpio_get_pud(pin)) /\ Fresh(gpio_lev(pin)) /\ Fresh(gpio_eds(pin))
  BY ReadPrograms DEF gpio_get_pud, gpio_lev, gpio_eds
<1> QED
  BY <1>1, <1>2, <1>3, <1>4, <1>5, <1>6, <1>7

\* The calls for many pins begin.
LEMMA MultiCalls == ASSUME Inv, NEW c \in Callers, Ready(c), mapped, gpio_multi_calls(c) PROVE Inv'
<1>1. \A name, prog : Call(c, name, prog) /\ Fresh(prog) => Inv'
  BY CallInv
<1>2. Fresh(gpio_eds_multi(Low))
  BY ReadPrograms DEF gpio_eds_multi
<1>3. Fresh(gpio_pud(PUD.UP)) /\ Fresh(gpio_set_eds_multi(Low))
  BY MultiPrograms DEF PUD
<1> QED
  BY <1>1, <1>2, <1>3, MultiPrograms DEF gpio_multi_calls

\* The calls of SPI0, the auxiliary SPI and I2C begin.
LEMMA BusCalls == ASSUME Inv, NEW c \in Callers, Ready(c), mapped, bus_calls(c) PROVE Inv'
<1>1. \A name, prog : Call(c, name, prog) /\ Fresh(prog) => Inv'
  BY CallInv
<1>2. /\ Fresh(FselAll(SpiPins, FSEL.INPT)) /\ Fresh(FselAll(AuxPins, FSEL.INPT))
      /\ Fresh(FselAll(I2cPins, FSEL.INPT)) /\ Fresh(FselAll(SmiPins, FSEL.INPT))
  BY BusPins DEF FSEL
<1>3. CASE spi_end(c) \/ aux_spi_end(c) \/ i2c_end(c) \/ smi_end(c)
  BY <1>1, <1>2, <1>3 DEF spi_end, aux_spi_end, i2c_end, smi_end
<1>4. CASE \/ Call(c, "spi_setClockDivider", spi_setClockDivider(32768))
           \/ Call(c, "aux_spi_setClockDivider", aux_spi_setClockDivider(4000))
           \/ Call(c, "i2c_setClockDivider", i2c_setClockDivider(626))
  BY <1>1, <1>4, SpeedPrograms, SMT
<1>5. CASE \/ Call(c, "spi_setDataMode", spi_setDataMode(2)) \/ Call(c, "spi_chipSelect", spi_chipSelect(1))
           \/ \E cs \in 0..2 : Call(c, "spi_setChipSelectPolarity",
                                   spi_setChipSelectPolarity(cs, IF Flip THEN 1 ELSE 0))
  BY <1>1, <1>5, SpiPrograms
<1>6. CASE Call(c, "i2c_setSlaveAddress", i2c_setSlaveAddress(\h5A))
  BY <1>1, <1>6, I2cPrograms
<1>7. CASE \E hz \in Hz : \/ Call(c, "spi_set_speed_hz", spi_set_speed_hz(hz))
                          \/ Call(c, "aux_spi_speed", aux_spi_speed(hz))
                          \/ Call(c, "i2c_set_baudrate", i2c_set_baudrate(hz))
  <2>1. Hz \subseteq Nat \ {0}
    BY RegistersAssumption
  <2>2. \A hz \in Hz : Fresh(spi_set_speed_hz(hz)) /\ Fresh(aux_spi_speed(hz)) /\ Fresh(i2c_set_baudrate(hz))
    BY <2>1, SpeedPrograms, SMT
  <2> QED
    BY <1>1, <1>7, <2>2
<1> QED
  BY <1>3, <1>4, <1>5, <1>6, <1>7, SMT DEF bus_calls

\* The calls of the SMI bus begin.
LEMMA SmiCalls == ASSUME Inv, NEW c \in Callers, Ready(c), mapped, smi_calls(c) PROVE Inv'
<1>1. \A name, prog : Call(c, name, prog) /\ Fresh(prog) => Inv'
  BY CallInv
<1>2. \A channel \in {0, 3, 4} : \A read \in BOOLEAN : Fresh(smi_set_timing(channel, read, 63, 127, 1, 64))
  BY SmiTimingProgram
<1>3. \A channel, data, address : Fresh(smi_write(channel, data, address)) /\ Fresh(smi_read(channel, address))
  BY SmiTransfers
<1>4. \A channel : \A read \in (IF channel = 3 THEN BOOLEAN ELSE {FALSE}) : read \in BOOLEAN
  OBVIOUS
<1>5. ASSUME NEW ch \in {0, 3, 4}, NEW read \in BOOLEAN, Call(c, "smi_set_timing", smi_set_timing(ch, read, 63, 127, 1, 64))
      PROVE  Inv'
  BY <1>1, <1>2, <1>5
<1>6. ASSUME NEW ch, Call(c, "smi_write", smi_write(ch, \hA5, 5)) \/ Call(c, "smi_read", smi_read(ch, \h2A)) PROVE Inv'
  BY <1>1, <1>3, <1>6, Zenon
<1>7. CASE Call(c, "smi_refused", smi_write(4, \hA5, 5)) \/ Call(c, "smi_refused", smi_read(4, 5))
  BY <1>1, <1>3, <1>7, Zenon
<1> QED
  BY <1>4, <1>5, <1>6, <1>7, Zenon DEF smi_calls

\* The calls that look first whether their block is mapped begin.
LEMMA GuardedCalls == ASSUME Inv, NEW c \in Callers, Ready(c), guarded_calls(c) PROVE Inv'
<1>1. \A name, prog : Call(c, name, prog) /\ Fresh(prog) /\ (mapped \/ prog = <<>>) => Inv'
  BY CallInv
<1>2. \A group \in 0..2 : Fresh(gpio_set_pad(group, 24 + group)) /\ Fresh(gpio_pad(group))
  BY PadProgram
<1>3. ~mapped => \A group : gpio_set_pad(group, 24 + group) = <<>> /\ gpio_pad(group) = <<>>
  BY DEF gpio_set_pad, gpio_pad
<1>4. CASE \E group \in 0..2 : \/ Call(c, "gpio_set_pad", gpio_set_pad(group, 24 + group))
                               \/ Call(c, "gpio_pad", gpio_pad(group))
  BY <1>1, <1>2, <1>3, <1>4
<1>5. Fresh(spi_begin) /\ Fresh(aux_spi_begin) /\ Fresh(i2c_begin) /\ Fresh(smi_begin) /\ Fresh(pwm_set_clock(\h1010))
  BY SpiPrograms, AuxPrograms, I2cPrograms, SmiBegin, PwmClock
<1>6. ~mapped => /\ spi_begin = <<>> /\ aux_spi_begin = <<>> /\ i2c_begin = <<>> /\ smi_begin = <<>>
                 /\ pwm_set_clock(\h1010) = <<>>
  BY DEF spi_begin, aux_spi_begin, i2c_begin, smi_begin, pwm_set_clock
<1>7. CASE \/ Call(c, "spi_begin", spi_begin) \/ Call(c, "aux_spi_begin", aux_spi_begin)
           \/ Call(c, "i2c_begin", i2c_begin) \/ Call(c, "smi_begin", smi_begin)
           \/ Call(c, "pwm_set_clock", pwm_set_clock(\h1010))
  BY <1>1, <1>5, <1>6, <1>7
<1>8. CASE \E channel \in 0..2 :
              \/ \E bit \in 0..1 : Call(c, "pwm_set_mode", pwm_set_mode(channel, bit, 1 - bit))
              \/ Call(c, "pwm_set_range", pwm_set_range(channel, 1024))
              \/ Call(c, "pwm_set_data", pwm_set_data(channel, 5))
  <2>1. \A channel \in 0..2 : /\ \A bit \in 0..1 : Fresh(pwm_set_mode(channel, bit, 1 - bit))
                              /\ Fresh(pwm_set_range(channel, 1024)) /\ Fresh(pwm_set_data(channel, 5))
    BY PwmPrograms
  <2>2. PICK channel \in 0..2 :
              \/ \E bit \in 0..1 : Call(c, "pwm_set_mode", pwm_set_mode(channel, bit, 1 - bit))
              \/ Call(c, "pwm_set_range", pwm_set_range(channel, 1024))
              \/ Call(c, "pwm_set_data", pwm_set_data(channel, 5))
    BY <1>8
  <2>3. CASE Call(c, "pwm_set_range", pwm_set_range(channel, 1024))
    <3>1. ~mapped => pwm_set_range(channel, 1024) = <<>>
      BY DEF pwm_set_range
    <3> QED
      BY <1>1, <2>1, <2>3, <3>1
  <2>4. CASE Call(c, "pwm_set_data", pwm_set_data(channel, 5))
    <3>1. ~mapped => pwm_set_data(channel, 5) = <<>>
      BY DEF pwm_set_data
    <3> QED
      BY <1>1, <2>1, <2>4, <3>1
  <2>5. ASSUME NEW bit \in 0..1, Call(c, "pwm_set_mode", pwm_set_mode(channel, bit, 1 - bit)) PROVE Inv'
    <3> DEFINE prog == pwm_set_mode(channel, bit, 1 - bit)
    <3>1. ~mapped => prog = <<>>
      BY DEF pwm_set_mode
    <3>2. Fresh(prog) /\ Call(c, "pwm_set_mode", prog)
      BY <2>1, <2>5
    <3> HIDE DEF prog
    <3> QED
      BY <1>1, <3>1, <3>2
  <2> QED
    BY <2>2, <2>3, <2>4, <2>5
<1> QED
  BY <1>4, <1>7, <1>8 DEF guarded_calls

-----------------------------------------------------------------------------
(* The theorems. *)

\* The registers at boot.
LEMMA InvInit == Init => Inv
<1> SUFFICES ASSUME Init PROVE Inv
  OBVIOUS
<1> DEFINE a == <<"lib", "pud_compat_setting">>
<1>1. /\ fill \in {{}, Word32} /\ reg = One(a, Bits(PUD.OFF, 0)) /\ latch = [b \in 0..1 |-> fill] /\ smi = <<>>
      /\ call = [c \in Callers |-> Idle] /\ calls = 0 /\ lost = {} /\ want = [f \in Speeds |-> 0] /\ mapped \in BOOLEAN
  BY DEF Init
<1>2. Bits(PUD.OFF, 0) = {}
  BY BitsSmall DEF PUD
<1>3. DOMAIN reg = {a} /\ reg[a] = {}
  BY <1>1, <1>2 DEF One
<1>4. WordsOK
  BY <1>1, <1>3 DEF WordsOK
<1>5. IsCall(Idle) /\ Idle.prog = <<>>
  BY FreshNone, FreshIsProg DEF IsCall, Idle
<1>6. CallersOK
  BY <1>1, <1>5, RegistersAssumption DEF CallersOK
<1>7. ASSUME NEW f \in Fields PROVE Value(f) = Want(f)
  <2>1. Want(f) = Decode(f, fill)
    BY <1>1, NotSpeed DEF Want
  <2>2. FieldOf[f].a # a
    BY OtherBlocks, AtParts
  <2>3. Get(FieldOf[f].a) = fill
    BY <1>3, <2>2 DEF Get
  <2>4. f[1] = "out" => latch[f[2] \div 32] = fill
    BY <1>1, OutField
  <2> QED
    BY <2>1, <2>3, <2>4 DEF Value
<1>8. FieldsHold
  BY <1>1, <1>7 DEF FieldsHold
<1>9. SpeedsHold
  BY <1>1 DEF SpeedsHold, DividerFor, Speeds, Buses
<1> QED
  BY <1>4, <1>6, <1>8, <1>9 DEF Inv

\* Every step keeps the invariant.
LEMMA InvNext == Inv /\ [Next]_vars => Inv'
<1> SUFFICES ASSUME Inv, [Next]_vars PROVE Inv'
  OBVIOUS
<1>1. CASE Next
  <2>1. ASSUME NEW c \in Callers, Ready(c), guarded_calls(c) PROVE Inv'
    BY <2>1, GuardedCalls
  <2>2. ASSUME NEW c \in Callers, Ready(c), mapped, gpio_calls(c) \/ gpio_multi_calls(c) \/ bus_calls(c) \/ smi_calls(c)
        PROVE  Inv'
    BY <2>2, GpioCalls, MultiCalls, BusCalls, SmiCalls
  <2>3. ASSUME NEW c \in Callers, Step(c) PROVE Inv'
    BY <2>3, StepInv
  <2>4. CASE SmiFinish
    BY <2>4, SmiFinishInv
  <2>5. CASE ClockStops
    BY <2>5, ClockStopsInv
  <2>6. ASSUME NEW pin \in Pins, Event(pin) PROVE Inv'
    BY <2>6, EventInv
  <2> QED
    BY <1>1, <2>1, <2>2, <2>3, <2>4, <2>5, <2>6 DEF Next
<1>2. CASE UNCHANGED vars
  <2>1. UNCHANGED <<mapped, fill, reg, latch, smi, served, call, calls, want, lost>>
    BY <1>2 DEF vars
  <2> QED
    BY <2>1, QuietStep, CallersQuiet DEF Inv
<1> QED
  BY <1>1, <1>2

(* For any callers, pins, speeds and number of calls: registers are words, *)
(* callers run the rest of a program, every field that no write-back lost  *)
(* holds what it was last set to, and every bus has the divider of the     *)
(* speed last asked for.                                                   *)
THEOREM InvAlways == Spec => []Inv
  BY InvInit, InvNext, PTL DEF Spec

\* The accesses of a program, in the types that TypeOK gives them.
LEMMA ProgOps ==
    ASSUME NEW p, IsProg(p), NEW i \in DOMAIN p
    PROVE  p[i].op \in {"write", "await", "test", "fetch"} \cup (IF i = 1 THEN {"read", "back"} ELSE {"read"})
<1>1. p \in Seq({p[k] : k \in DOMAIN p})
  BY DEF IsProg
<1>2. DOMAIN p = 1..Len(p) /\ Len(p) \in Nat /\ p # <<>>
  BY <1>1
<1>3. Access(Head(p)) /\ Fresh(Tail(p)) /\ Head(p) = p[1]
  BY <1>1, <1>2 DEF IsProg
<1>4. CASE i = 1
  BY <1>3, <1>4 DEF Access
<1>5. CASE i # 1
  <2> DEFINE k == i - 1
             q == Tail(p)
  <2>1. k \in DOMAIN q /\ q[k] = p[i]
    BY <1>1, <1>2, <1>5
  <2>2. Access(q[k]) /\ q[k].op # "back"
    BY <1>3, <2>1 DEF Fresh
  <2>3. q[k].op \in {"write", "read", "await", "test", "fetch"}
    BY <2>2 DEF Access
  <2> QED
    BY <1>5, <2>1, <2>3
<1> QED
  BY <1>4, <1>5

(* Registers and latches stay within their 32 bits, at most one transfer   *)
(* is on the SMI bus, and only the first access of a program is ever a     *)
(* write-back.                                                             *)
THEOREM TypeCorrect == Spec => []TypeOK
<1>1. Inv => TypeOK
  <2> SUFFICES ASSUME Inv PROVE TypeOK
    OBVIOUS
  <2>1. WordsOK /\ CallersOK /\ lost \subseteq Fields
    BY DEF Inv, FieldsHold
  <2>2. Len(smi) <= 1
    BY <2>1 DEF WordsOK
  <2>3. \A c \in Callers : \A i \in DOMAIN call[c].prog :
          call[c].prog[i].op \in {"write", "await", "test", "fetch"} \cup
                                 (IF i = 1 THEN {"read", "back"} ELSE {"read"})
    <3> TAKE c \in Callers
    <3>1. IsProg(call[c].prog)
      BY <2>1 DEF CallersOK, IsCall
    <3> DEFINE p == call[c].prog
    <3> HIDE DEF p
    <3>2. \A i \in DOMAIN p : p[i].op \in {"write", "await", "test", "fetch"} \cup
                                          (IF i = 1 THEN {"read", "back"} ELSE {"read"})
      BY <3>1, ProgOps DEF p
    <3> QED
      BY <3>2 DEF p
  <2> QED
    BY <2>1, <2>2, <2>3 DEF TypeOK, WordsOK, CallersOK
<1> QED
  BY <1>1, InvAlways, PTL

(* For any callers, pins, speeds and number of calls: an update is only    *)
(* ever lost in a register that set_bits shares between fields.            *)
THEOREM SingleWritesAreSafe == Spec => []SingleWritesSafe
<1>1. Inv => SingleWritesSafe
  BY DEF Inv, FieldsHold, SingleWritesSafe, SharedKinds
<1> QED
  BY <1>1, InvAlways, PTL

(* For any callers, pins, speeds and number of calls: every field holds    *)
(* what it was last set to, unless an overlapping write-back lost it, and  *)
(* no register is touched while the blocks are not mapped.                 *)
THEOREM ConfigurationExact == Spec => []ConfigExact
<1>1. Inv => ConfigExact
  <2> SUFFICES ASSUME Inv PROVE ConfigExact
    OBVIOUS
  <2>1. ~mapped => \A c \in Callers : ~Running(c)
    BY DEF Inv, CallersOK, Running
  <2>2. \A f \in Fields : f \in lost \/ Value(f) = Want(f)
    BY DEF Inv, FieldsHold
  <2> QED
    BY <2>1, <2>2 DEF ConfigExact
<1> QED
  BY <1>1, InvAlways, PTL

\* A quotient is the number that it lies between.
LEMMA Product == ASSUME NEW x \in Nat, NEW y \in Nat, NEW k \in Nat, x <= y PROVE x * k <= y * k
  BY SMT

\* The even divider, for the speeds that it has room for.
LEMMA EvenBetween ==
    ASSUME NEW hz \in Nat, 3815 <= hz, hz <= 125000000
    PROVE  LET d == EvenDivider(hz)
               q == CORE_CLK_HZ \div hz
           IN  /\ q \in Nat /\ (d = q - 1 \/ d = q) /\ d \in Nat /\ 1 <= d /\ d <= 65535 /\ d % 2 = 0
               /\ d * hz <= CORE_CLK_HZ /\ (d + 2) * hz > CORE_CLK_HZ
<1> DEFINE d == EvenDivider(hz)
           q == CORE_CLK_HZ \div hz
<1>1. CORE_CLK_HZ = 250000000 /\ CORE_CLK_HZ \in Nat /\ hz \in Nat \ {0}
  BY SMT DEF CORE_CLK_HZ
<1>2. q \in Nat /\ hz * q <= CORE_CLK_HZ /\ CORE_CLK_HZ < hz * q + hz
  BY <1>1, Quotient, SMT
<1>3. d = (q % 65536) - ((q % 65536) % 2)
  BY <1>1, EvenDividerIs, SMT
<1> HIDE DEF d, q
<1>4. q * hz <= 250000000 /\ 250000000 < (q + 1) * hz
  BY <1>1, <1>2, SMT
<1>5. q <= 65535
  <2> SUFFICES ASSUME 65536 <= q PROVE FALSE
    BY <1>2, SMT
  <2>1. 65536 * hz <= q * hz
    BY <1>1, <1>2, Product, SMT
  <2>2. 65536 * hz <= 250000000
    BY <1>2, <1>4, <2>1, SMT
  <2> QED
    BY <2>2, SMT
<1>6. q >= 2
  <2> SUFFICES ASSUME q <= 1 PROVE FALSE
    BY <1>2, SMT
  <2>1. q = 0 \/ q = 1
    BY <1>2, SMT
  <2> QED
    BY <1>4, <2>1, SMT
<1>7. d = q - (q % 2) /\ (q % 2 = 0 \/ q % 2 = 1)
  BY <1>2, <1>3, <1>5, SMT
<1>8. d \in Nat /\ (d = q - 1 \/ d = q) /\ 1 <= d /\ d <= 65535 /\ d % 2 = 0
  BY <1>2, <1>5, <1>6, <1>7, SMT
<1>9. d * hz <= q * hz /\ (q + 1) * hz <= (d + 2) * hz
  <2>1. d <= q /\ q + 1 <= d + 2 /\ q + 1 \in Nat /\ d + 2 \in Nat
    BY <1>2, <1>8, SMT
  <2> QED
    BY <1>2, <1>8, <2>1, Product
<1>10. d * hz \in Nat /\ (d + 2) * hz \in Nat /\ q * hz \in Nat /\ (q + 1) * hz \in Nat
  BY <1>2, <1>8, SMT
<1>11. d * hz <= 250000000 /\ (d + 2) * hz > 250000000
  BY <1>4, <1>9, <1>10, SMT
<1> QED
  BY <1>1, <1>2, <1>8, <1>11, SMT DEF d, q

\* The divider of the auxiliary SPI, for the speeds that it has room for.
LEMMA AuxBetween ==
    ASSUME NEW hz \in Nat, 30518 <= hz, hz <= 125000000
    PROVE  LET d == aux_spi_CalcClockDivider(hz)
               q == CORE_CLK_HZ \div (2 * hz)
           IN  /\ q \in Nat /\ (d = q - 1 \/ d = q) /\ d \in Nat /\ d <= 65535
               /\ 2 * hz * (d + 1) >= CORE_CLK_HZ /\ 2 * hz * d < CORE_CLK_HZ
<1> DEFINE d == aux_spi_CalcClockDivider(hz)
           k == 2 * hz
           q == CORE_CLK_HZ \div k
           m == (CORE_CLK_HZ + k - 1) \div k
<1>1. CORE_CLK_HZ = 250000000 /\ k \in Nat \ {0} /\ 61036 <= k
  BY SMT DEF CORE_CLK_HZ
<1>2. d \in Nat /\ d < 65536 /\ d = IF m - 1 <= 4095 THEN m - 1 ELSE 4095
  BY AuxDividerIs, SMT
<1> HIDE DEF d, k
<1>3. q \in Nat /\ k * q <= 250000000 /\ 250000000 < k * q + k
  BY <1>1, Quotient, SMT
<1>4. m \in Nat /\ k * m <= 250000000 + k - 1 /\ 250000000 + k - 1 < k * m + k
  BY <1>1, Quotient, SMT
<1> HIDE DEF q, m
<1>5. m <= 4096
  <2> SUFFICES ASSUME 4097 <= m PROVE FALSE
    BY <1>4, SMT
  <2>1. 4097 * k <= m * k
    BY <1>1, <1>4, Product, SMT
  <2> QED
    BY <1>1, <1>4, <2>1, SMT
<1>6. d = m - 1 /\ m = d + 1
  BY <1>2, <1>4, <1>5, SMT
<1>7. k * (d + 1) >= 250000000 /\ k * d < 250000000
  <2>1. k * m >= 250000000
    BY <1>1, <1>4, SMT
  <2>2. k * m = k * d + k
    BY <1>1, <1>2, <1>6, SMT
  <2> QED
    BY <1>1, <1>2, <1>4, <1>6, <2>1, <2>2, SMT
<1>8. d = q - 1 \/ d = q
  <2>1. d <= q
    <3> SUFFICES ASSUME q + 1 <= d PROVE FALSE
      BY <1>2, <1>3, SMT
    <3>1. (q + 1) * k <= d * k
      BY <1>1, <1>2, <1>3, Product, SMT
    <3> QED
      BY <1>1, <1>2, <1>3, <1>7, <3>1, SMT
  <2>2. q <= d + 1
    <3> SUFFICES ASSUME d + 2 <= q PROVE FALSE
      BY <1>2, <1>3, SMT
    <3>1. (d + 2) * k <= q * k
      BY <1>1, <1>2, <1>3, Product, SMT
    <3>2. (d + 2) * k = k * (d + 1) + k
      BY <1>1, <1>2, SMT
    <3> QED
      BY <1>1, <1>2, <1>3, <1>7, <3>1, <3>2, SMT
  <2> QED
    BY <1>2, <1>3, <2>1, <2>2, SMT
<1> QED
  BY <1>1, <1>2, <1>3, <1>7, <1>8, SMT DEF d, k, q

\* The divider of a bus is never lost, so it is the one for the speed last asked for.
LEMMA DividerHeld ==
    ASSUME Inv, NEW bus \in Buses, NEW hz, hz = want[<<bus, "hz">>], hz # 0
    PROVE  hz \in Nat \ {0} /\ Divides(bus, Divisor(bus, hz))
<1> DEFINE g == <<bus, "div">>
<1>1. hz \in Nat \ {0} /\ g \in DOMAIN want /\ want[g] = Bits(Divisor(bus, hz), 0)
  BY DEF Inv, SpeedsHold, DividerFor
<1>2. g \in Fields
  BY DividerFields
<1>3. g[1] \notin SharedKinds
  BY GpioNames DEF SharedKinds, Detects, Buses
<1> HIDE DEF g
<1>4. Value(g) = Want(g)
  BY <1>2, <1>3 DEF Inv, FieldsHold
<1>5. Want(g) = want[g]
  BY <1>1 DEF Want
<1> QED
  BY <1>1, <1>4, <1>5 DEF Divides, g

\* The bounds of the speeds are numbers.
LEMMA SpeedTypes ==
    CORE_CLK_HZ \div 2 \in Nat /\ SlowestEven \in Nat /\ SlowestAux \in Nat /\ MaxDivider \in Nat
  BY SMT DEF CORE_CLK_HZ, SlowestEven, SlowestAux, MaxDivider

\* The even divider of a speed that the divider has room for.
LEMMA EvenReach ==
    ASSUME NEW hz \in Nat, SlowestEven <= hz, hz <= CORE_CLK_HZ \div 2
    PROVE  LET d == EvenDivider(hz)
               q == CORE_CLK_HZ \div hz
           IN  /\ q \in Nat /\ (d = q - 1 \/ d = q) /\ d \in Nat /\ 1 <= d /\ d <= MaxDivider /\ d % 2 = 0 /\ hz # 0
               /\ d * hz <= CORE_CLK_HZ /\ (d + 2) * hz > CORE_CLK_HZ
<1>1. 3815 <= hz /\ hz <= 125000000 /\ MaxDivider = 65535
  BY SMT DEF CORE_CLK_HZ, SlowestEven, MaxDivider
<1> QED
  BY <1>1, EvenBetween, SMT

\* The divider of the auxiliary SPI for a speed that it has room for.
LEMMA AuxReach ==
    ASSUME NEW hz \in Nat, SlowestAux <= hz, hz <= CORE_CLK_HZ \div 2
    PROVE  LET d == aux_spi_CalcClockDivider(hz)
               q == CORE_CLK_HZ \div (2 * hz)
           IN  /\ q \in Nat /\ (d = q - 1 \/ d = q) /\ d \in Nat /\ 0 <= d /\ d <= MaxDivider /\ hz # 0
               /\ 2 * hz * (d + 1) >= CORE_CLK_HZ /\ 2 * hz * d < CORE_CLK_HZ
<1>1. 30518 <= hz /\ hz <= 125000000 /\ MaxDivider = 65535
  BY SMT DEF CORE_CLK_HZ, SlowestAux, MaxDivider
<1> QED
  BY <1>1, AuxBetween, SMT

\* SPI0 and I2C.
LEMMA EvenKept ==
    ASSUME Inv, NEW bus \in {"spi0", "bsc1"}, NEW hz, hz = want[<<bus, "hz">>], hz \in SlowestEven..(CORE_CLK_HZ \div 2)
    PROVE  \E d \in {CORE_CLK_HZ \div hz - 1, CORE_CLK_HZ \div hz} :
              /\ Divides(bus, d) /\ d \in 1..MaxDivider /\ d % 2 = 0
              /\ d * hz <= CORE_CLK_HZ /\ (d + 2) * hz > CORE_CLK_HZ
<1> DEFINE d == EvenDivider(hz)
           q == CORE_CLK_HZ \div hz
           top == CORE_CLK_HZ \div 2
<1>1. SlowestEven \in Nat /\ top \in Nat /\ MaxDivider \in Nat
  BY SpeedTypes
<1> HIDE DEF top
<1>2. hz \in SlowestEven..top
  BY DEF top
<1>3. hz \in Nat /\ SlowestEven <= hz /\ hz <= top
  BY <1>1, <1>2
<1>4. /\ q \in Nat /\ (d = q - 1 \/ d = q) /\ d \in Nat /\ 1 <= d /\ d <= MaxDivider /\ d % 2 = 0 /\ hz # 0
      /\ d * hz <= CORE_CLK_HZ /\ (d + 2) * hz > CORE_CLK_HZ
  BY <1>3, EvenReach DEF top
<1>5. Divides(bus, d)
  <2>1. bus \in Buses /\ bus # "spi1"
    BY DEF Buses
  <2>2. Divides(bus, Divisor(bus, hz))
    BY <1>4, <2>1, DividerHeld
  <2> QED
    BY <2>1, <2>2 DEF Divisor
<1> HIDE DEF d, q
<1>6. d \in {q - 1, q} /\ d \in 1..MaxDivider
  BY <1>1, <1>4
<1>7. \E x \in {q - 1, q} : /\ Divides(bus, x) /\ x \in 1..MaxDivider /\ x % 2 = 0
                            /\ x * hz <= CORE_CLK_HZ /\ (x + 2) * hz > CORE_CLK_HZ
  BY <1>4, <1>5, <1>6
<1> QED
  BY <1>7 DEF q

\* The auxiliary SPI.
LEMMA AuxKept ==
    ASSUME Inv, NEW hz, hz = want[<<"spi1", "hz">>], hz \in SlowestAux..(CORE_CLK_HZ \div 2)
    PROVE  \E d \in {CORE_CLK_HZ \div (2 * hz) - 1, CORE_CLK_HZ \div (2 * hz)} :
              /\ Divides("spi1", d) /\ d \in 0..MaxDivider
              /\ 2 * hz * (d + 1) >= CORE_CLK_HZ /\ 2 * hz * d < CORE_CLK_HZ
<1> DEFINE d == aux_spi_CalcClockDivider(hz)
           q == CORE_CLK_HZ \div (2 * hz)
           top == CORE_CLK_HZ \div 2
<1>1. SlowestAux \in Nat /\ top \in Nat /\ MaxDivider \in Nat
  BY SpeedTypes
<1> HIDE DEF top
<1>2. hz \in SlowestAux..top
  BY DEF top
<1>3. hz \in Nat /\ SlowestAux <= hz /\ hz <= top
  BY <1>1, <1>2
<1>4. /\ q \in Nat /\ (d = q - 1 \/ d = q) /\ d \in Nat /\ 0 <= d /\ d <= MaxDivider /\ hz # 0
      /\ 2 * hz * (d + 1) >= CORE_CLK_HZ /\ 2 * hz * d < CORE_CLK_HZ
  BY <1>3, AuxReach DEF top
<1>5. Divides("spi1", d)
  <2>1. "spi1" \in Buses
    BY DEF Buses
  <2>2. Divides("spi1", Divisor("spi1", hz))
    BY <1>4, <2>1, DividerHeld
  <2> QED
    BY <2>1, <2>2 DEF Divisor
<1> HIDE DEF d, q
<1>6. d \in {q - 1, q} /\ d \in 0..MaxDivider
  BY <1>1, <1>4
<1>7. \E x \in {q - 1, q} : /\ Divides("spi1", x) /\ x \in 0..MaxDivider
                            /\ 2 * hz * (x + 1) >= CORE_CLK_HZ /\ 2 * hz * x < CORE_CLK_HZ
  BY <1>4, <1>5, <1>6
<1> QED
  BY <1>7 DEF q

(* For any callers, pins, speeds and number of calls: a speed asked for in *)
(* Hz stands in the bus's divider as the even divider next to it (SPI0,    *)
(* I2C), or as the fastest clock not faster than asked (auxiliary SPI).    *)
THEOREM SpeedsAreKept == Spec => []SpeedKept
<1>1. Inv => SpeedKept
  BY EvenKept, AuxKept DEF SpeedKept
<1> QED
  BY <1>1, InvAlways, PTL

-----------------------------------------------------------------------------
(* The results.  Every call but the two transfers keeps off the registers  *)
(* of the direct transfers ("Plain"); a transfer that has the bus to       *)
(* itself passes through seven phases ("Writing", "Reading").              *)

SmiAddr == <<"smi", 14>>
SmiData == <<"smi", 15>>

\* The registers of the direct transfers.
Direct == {DirCs, SmiAddr, SmiData}

\* The register that a reading call looks at.
LookAt(r, a) ==
    \/ r[1] = "gpio_get_pud" /\ r[2] \in Pins /\ a = PullReg(r[2])
    \/ r[1] = "gpio_pad" /\ r[2] \in 0..2 /\ a = <<"pads", 11 + r[2]>>
    \/ r[1] = "gpio_lev" /\ r[2] \in Pins /\ a = Bank("GPLEV", r[2])
    \/ r[1] = "gpio_eds" /\ r[2] \in Pins /\ a = Bank("GPEDS", r[2])
    \/ r[1] = "gpio_eds_multi" /\ r[2] = Low /\ a = Bank("GPEDS", 0)

\* An access that keeps away from the direct transfers and reads what its call asks for.
Plain(o) == o.a \notin Direct /\ (o.op = "fetch" => LookAt(o.v, o.a))
PlainProg(p) == p \in Seq({p[i] : i \in DOMAIN p}) /\ \A i \in DOMAIN p : Plain(p[i])

\* The empty program is plain.
LEMMA PlainNone == PlainProg(<<>>)
  BY DEF PlainProg

\* A program of one plain access.
LEMMA PlainOne == ASSUME NEW x, Plain(x) PROVE PlainProg(<<x>>)
<1>1. DOMAIN <<x>> = 1..1 /\ <<x>>[1] = x
  OBVIOUS
<1>2. <<x>> \in Seq({<<x>>[i] : i \in DOMAIN <<x>>})
  OBVIOUS
<1> QED
  BY <1>1, <1>2 DEF PlainProg

\* A list of plain accesses.
LEMMA PlainList ==
    ASSUME NEW n \in Nat, NEW S, NEW p \in [1..n -> S], \A i \in 1..n : Plain(p[i])
    PROVE  PlainProg(p)
<1>1. DOMAIN p = 1..n
  OBVIOUS
<1>2. p \in [1..n -> {p[i] : i \in DOMAIN p}]
  BY <1>1
<1>3. p \in Seq({p[i] : i \in DOMAIN p})
  BY <1>2, FunctionIsSeq
<1> QED
  BY <1>1, <1>3 DEF PlainProg

\* One plain program after another.
LEMMA PlainBoth == ASSUME NEW p, NEW q, PlainProg(p), PlainProg(q) PROVE PlainProg(p \o q)
<1> DEFINE S == {p[i] : i \in DOMAIN p} \cup {q[i] : i \in DOMAIN q}
           r == p \o q
<1>1. p \in Seq(S) /\ q \in Seq(S)
  BY DEF PlainProg
<1>2. r \in Seq(S)
  BY <1>1
<1>3. \A i \in DOMAIN r : \/ i \in DOMAIN p /\ r[i] = p[i]
                          \/ i - Len(p) \in DOMAIN q /\ r[i] = q[i - Len(p)]
  BY <1>1
<1> HIDE DEF r, S
<1>4. r \in Seq({r[i] : i \in DOMAIN r})
  BY <1>2
<1>5. \A i \in DOMAIN r : Plain(r[i])
  BY <1>3 DEF PlainProg
<1> QED
  BY <1>4, <1>5 DEF PlainProg, r

\* What is left of such a program after its first access, and with another first access.
LEMMA PlainTail ==
    ASSUME NEW p, PlainProg(p), p # <<>>
    PROVE  Plain(Head(p)) /\ PlainProg(Tail(p))
<1> DEFINE S == {p[i] : i \in DOMAIN p}
           q == Tail(p)
<1>1. p \in Seq(S) /\ p # <<>>
  BY DEF PlainProg
<1>2. Head(p) = p[1] /\ 1 \in DOMAIN p
  BY <1>1
<1>3. q \in Seq(S) /\ \A i \in DOMAIN q : i + 1 \in DOMAIN p /\ q[i] = p[i + 1]
  BY <1>1
<1> HIDE DEF q, S
<1>4. q \in Seq({q[i] : i \in DOMAIN q})
  BY <1>3
<1>5. \A i \in DOMAIN q : Plain(q[i])
  BY <1>3 DEF PlainProg
<1> QED
  BY <1>2, <1>4, <1>5 DEF PlainProg, q

\* Accesses outside the SMI block.
LEMMA PlainElsewhere ==
    ASSUME NEW b, b # "smi", NEW w, NEW v, NEW m, NEW set
    PROVE  Plain(peri_write(<<b, w>>, v, set)) /\ Plain(Modify(<<b, w>>, v, m, set)) /\ Plain(Await(<<b, w>>, v, m))
<1>1. <<b, w>> \notin Direct
  BY Special DEF Direct, SmiAddr, SmiData
<1> QED
  BY <1>1 DEF Plain, peri_write, Modify, Await

\* Accesses of the SMI timing slots.
LEMMA PlainSlot ==
    ASSUME NEW c \in 0..3, NEW r \in BOOLEAN, NEW v, NEW m, NEW set
    PROVE  Plain(peri_write(SmiSlot(c, r), v, set)) /\ Plain(Modify(SmiSlot(c, r), v, m, set))
<1>1. PICK w : SmiSlot(c, r) = <<"smi", w>> /\ w \in {4, 5, 6, 7, 8, 9, 10, 11}
  BY DEF SmiSlot, SMI
<1>2. SmiSlot(c, r) \notin Direct
  BY <1>1, Special DEF Direct, SmiAddr, SmiData
<1> QED
  BY <1>2 DEF Plain, peri_write, Modify

\* Every call but the transfers makes such accesses only.
LEMMA PlainGpio ==
    ASSUME NEW pin, NEW mode, NEW on, NEW r, NEW pud, NEW mask, NEW value
    PROVE  /\ PlainProg(gpio_fsel(pin, mode)) /\ PlainProg(gpio_write(pin, on)) /\ PlainProg(gpio_detect(r, pin, on))
           /\ PlainProg(gpio_set_eds(pin)) /\ PlainProg(gpio_set_pud(pin, pud)) /\ PlainProg(gpio_pudclk(pin, on))
           /\ PlainProg(gpio_write_multi(mask, on)) /\ PlainProg(gpio_write_mask(value, mask))
           /\ PlainProg(gpio_set_eds_multi(mask)) /\ PlainProg(gpio_pud(pud))
<1>1. \A b, w, v, m, set : b # "smi" =>
         PlainProg(<<peri_write(<<b, w>>, v, set)>>) /\ PlainProg(<<Modify(<<b, w>>, v, m, set)>>)
  <2> TAKE b, w, v, m, set
  <2> HAVE b # "smi"
  <2> DEFINE x == peri_write(<<b, w>>, v, set)
             y == Modify(<<b, w>>, v, m, set)
  <2>1. Plain(x) /\ Plain(y)
    BY PlainElsewhere
  <2> HIDE DEF x, y
  <2>2. PlainProg(<<x>>) /\ PlainProg(<<y>>)
    BY <2>1, PlainOne
  <2> QED
    BY <2>2 DEF x, y
<1>2. PlainProg(gpio_fsel(pin, mode)) /\ PlainProg(gpio_detect(r, pin, on)) /\ PlainProg(gpio_set_eds(pin))
  BY <1>1 DEF gpio_fsel, gpio_detect, gpio_set_eds, peri_set_bits, Bank
<1>3. PlainProg(gpio_set(pin)) /\ PlainProg(gpio_clr(pin))
  BY <1>1 DEF gpio_set, gpio_clr, Bank
<1>4. PlainProg(gpio_write(pin, on))
  BY <1>3 DEF gpio_write
<1>5. \A x : PlainProg(gpio_set_multi(x)) /\ PlainProg(gpio_clr_multi(x)) /\ PlainProg(gpio_set_eds_multi(x))
  BY <1>1 DEF gpio_set_multi, gpio_clr_multi, gpio_set_eds_multi, Bank
<1>6. PlainProg(gpio_write_multi(mask, on))
  BY <1>5 DEF gpio_write_multi
<1>7. PlainProg(gpio_write_mask(value, mask))
  BY <1>5, PlainBoth DEF gpio_write_mask
<1>8. \A x : PlainProg(gpio_set_pud(pin, x))
  BY <1>1, PlainNone DEF gpio_set_pud, PullReg
<1>9. PlainProg(gpio_pudclk(pin, on))
  BY <1>8, PlainNone DEF gpio_pudclk
<1>10. PlainProg(gpio_pud(pud))
  BY <1>1 DEF gpio_pud
<1> QED
  BY <1>2, <1>4, <1>5, <1>6, <1>7, <1>8, <1>9, <1>10

\* A program of one read.
LEMMA PlainRead ==
    ASSUME NEW a, NEW r, LookAt(r, a), a[1] # "smi"
    PROVE  PlainProg(<<Fetch(a, r)>>)
<1> DEFINE x == Fetch(a, r)
<1>1. a \notin Direct
  BY Special DEF Direct, SmiAddr, SmiData
<1>2. Plain(x)
  BY <1>1 DEF Plain, Fetch
<1> HIDE DEF x
<1>3. PlainProg(<<x>>)
  BY <1>2, PlainOne
<1> QED
  BY <1>3 DEF x

\* The calls that read a register of the GPIO or the pads.
LEMMA PlainReads ==
    /\ \A pin \in Pins : PlainProg(gpio_get_pud(pin)) /\ PlainProg(gpio_lev(pin)) /\ PlainProg(gpio_eds(pin))
    /\ PlainProg(gpio_eds_multi(Low)) /\ \A group \in 0..2 : PlainProg(gpio_pad(group))
<1>1. ASSUME NEW pin \in Pins PROVE PlainProg(gpio_get_pud(pin)) /\ PlainProg(gpio_lev(pin)) /\ PlainProg(gpio_eds(pin))
  <2>1. PullReg(pin)[1] = "gpio" /\ Bank("GPLEV", pin)[1] = "gpio" /\ Bank("GPEDS", pin)[1] = "gpio"
    BY DEF PullReg, Bank
  <2>2. /\ LookAt(<<"gpio_get_pud", pin>>, PullReg(pin)) /\ LookAt(<<"gpio_lev", pin>>, Bank("GPLEV", pin))
        /\ LookAt(<<"gpio_eds", pin>>, Bank("GPEDS", pin))
    BY DEF LookAt
  <2> QED
    BY <2>1, <2>2, PlainRead DEF gpio_get_pud, gpio_lev, gpio_eds
<1>2. PlainProg(gpio_eds_multi(Low))
  <2>1. Bank("GPEDS", 0)[1] = "gpio" /\ LookAt(<<"gpio_eds_multi", Low>>, Bank("GPEDS", 0))
    BY DEF LookAt, Bank
  <2> QED
    BY <2>1, PlainRead DEF gpio_eds_multi
<1>3. ASSUME NEW group \in 0..2 PROVE PlainProg(gpio_pad(group))
  <2> DEFINE a == <<"pads", 11 + group>>
  <2>1. PADS_GPIO[1] \div 4 = 11
    BY DEF PADS_GPIO
  <2>2. a[1] # "smi" /\ LookAt(<<"gpio_pad", group>>, a)
    BY DEF LookAt
  <2>3. PlainProg(<<Fetch(a, <<"gpio_pad", group>>)>>)
    BY <2>2, PlainRead
  <2> QED
    BY <2>1, <2>3, PlainNone DEF gpio_pad
<1> QED
  BY <1>1, <1>2, <1>3

\* The set-up of the pins of a bus.
LEMMA PlainPins == ASSUME NEW pins, NEW mode, NEW n \in Nat, DOMAIN pins = 1..n PROVE PlainProg(FselAll(pins, mode))
<1> DEFINE p == FselAll(pins, mode)
           x(i) == gpio_fsel(pins[i], mode)[1]
<1>1. \A i : Plain(x(i))
  BY PlainElsewhere DEF gpio_fsel, peri_set_bits
<1>2. p = [i \in 1..n |-> x(i)]
  BY DEF FselAll
<1> HIDE DEF x, p
<1>3. p \in [1..n -> {x(i) : i \in 1..n}] /\ \A i \in 1..n : Plain(p[i])
  BY <1>1, <1>2
<1>4. PlainProg(p)
  BY <1>3, PlainList
<1> QED
  BY <1>4 DEF p

\* The programs that set the functions of the pins of a bus.
LEMMA PlainBusPins ==
    ASSUME NEW mode
    PROVE  /\ PlainProg(FselAll(SpiPins, mode)) /\ PlainProg(FselAll(AuxPins, mode))
           /\ PlainProg(FselAll(I2cPins, mode)) /\ PlainProg(FselAll(SmiPins, mode))
<1>1. DOMAIN SpiPins = 1..5 /\ DOMAIN AuxPins = 1..4 /\ DOMAIN I2cPins = 1..2 /\ DOMAIN SmiPins = 1..14
  BY DEF SpiPins, AuxPins, I2cPins, SmiPins
<1>2. 5 \in Nat /\ 4 \in Nat /\ 2 \in Nat /\ 14 \in Nat
  OBVIOUS
<1> QED
  BY <1>1, <1>2, PlainPins

\* A program of one write to another block than SMI.
LEMMA PlainWrites ==
    ASSUME NEW b, b # "smi", NEW w, NEW v, NEW set
    PROVE  PlainProg(<<peri_write(<<b, w>>, v, set)>>)
<1> DEFINE x == peri_write(<<b, w>>, v, set)
<1>1. Plain(x)
  BY PlainElsewhere
<1> HIDE DEF x
<1>2. PlainProg(<<x>>)
  BY <1>1, PlainOne
<1> QED
  BY <1>2 DEF x

\* A program of two plain accesses.
LEMMA PlainTwo == ASSUME NEW x, NEW y, Plain(x), Plain(y) PROVE PlainProg(<<x, y>>)
<1> DEFINE p == <<x, y>>
<1>1. p \in [1..2 -> {x, y}] /\ p[1] = x /\ p[2] = y
  OBVIOUS
<1> HIDE DEF p
<1>2. \A i \in 1..2 : Plain(p[i])
  BY <1>1
<1>3. PlainProg(p)
  BY <1>1, <1>2, PlainList
<1> QED
  BY <1>3 DEF p

\* The writes of dividers.
LEMMA PlainDivider ==
    ASSUME NEW name, NEW d, NEW hz
    PROVE  PlainProg(Divider(SpiClk, name, d, hz)) /\ PlainProg(Divider(Spi1Speed, name, d, hz))
           /\ PlainProg(Divider(BscDiv, name, d, hz))
  BY PlainWrites DEF Divider, SpiClk, Spi1Speed, BscDiv

\* The calls of SPI0, the auxiliary SPI and I2C.
LEMMA PlainBus ==
    /\ PlainProg(spi_begin) /\ PlainProg(aux_spi_begin) /\ PlainProg(i2c_begin)
    /\ \A d : PlainProg(spi_setClockDivider(d)) /\ PlainProg(aux_spi_setClockDivider(d)) /\ PlainProg(i2c_setClockDivider(d))
    /\ \A hz : PlainProg(spi_set_speed_hz(hz)) /\ PlainProg(aux_spi_speed(hz)) /\ PlainProg(i2c_set_baudrate(hz))
    /\ \A x : PlainProg(spi_setDataMode(x)) /\ PlainProg(spi_chipSelect(x)) /\ PlainProg(i2c_setSlaveAddress(x))
    /\ \A x, y : PlainProg(spi_setChipSelectPolarity(x, y))
<1>1. \A d : PlainProg(spi_setClockDivider(d)) /\ PlainProg(aux_spi_setClockDivider(d)) /\ PlainProg(i2c_setClockDivider(d))
  BY PlainDivider DEF spi_setClockDivider, aux_spi_setClockDivider, i2c_setClockDivider
<1>2. \A hz : PlainProg(spi_set_speed_hz(hz)) /\ PlainProg(aux_spi_speed(hz)) /\ PlainProg(i2c_set_baudrate(hz))
  BY PlainDivider DEF spi_set_speed_hz, aux_spi_speed, i2c_set_baudrate
<1>3. ASSUME NEW v, NEW m, NEW set PROVE PlainProg(<<peri_set_bits(SpiCs, v, m, set)>>)
  <2> DEFINE x == peri_set_bits(SpiCs, v, m, set)
  <2>1. x = Modify(<<"spi0", 0>>, v \cap m, m, set)
    BY Special DEF peri_set_bits
  <2>2. Plain(x)
    BY <2>1, PlainElsewhere
  <2> HIDE DEF x
  <2>3. PlainProg(<<x>>)
    BY <2>2, PlainOne
  <2> QED
    BY <2>3 DEF x
<1>4. \A x : PlainProg(spi_setDataMode(x)) /\ PlainProg(spi_chipSelect(x))
  BY <1>3 DEF spi_setDataMode, spi_chipSelect
<1>5. \A x, y : PlainProg(spi_setChipSelectPolarity(x, y))
  BY <1>3 DEF spi_setChipSelectPolarity
<1>6. \A x : PlainProg(i2c_setSlaveAddress(x))
  BY PlainWrites DEF i2c_setSlaveAddress
<1>7. PlainProg(i2c_begin)
  BY PlainBusPins, PlainNone DEF i2c_begin
<1>8. PlainProg(spi_begin)
  <2> DEFINE x == peri_write(SpiCs, {}, SpiDefaults)
             y == peri_write(SpiCs, SPI0_CS.CLEAR, SpiDefaults)
             p == FselAll(SpiPins, FSEL.ALT0)
  <2>1. Plain(x) /\ Plain(y)
    BY Special, PlainElsewhere
  <2>2. spi_begin = IF ~mapped THEN <<>> ELSE p \o <<x, y>>
    BY DEF spi_begin
  <2>3. PlainProg(p)
    BY PlainBusPins
  <2> HIDE DEF x, y, p
  <2> QED
    BY <2>1, <2>2, <2>3, PlainTwo, PlainBoth, PlainNone
<1>9. PlainProg(aux_spi_begin)
  <2> DEFINE e == peri_write(<<"aux", AUX_ENABLE \div 4>>, {1}, One(<<"aux_enable">>, 2))
             x == peri_write(<<"spi1", AUX_SPI.CNTL1 \div 4>>, {}, nothing)
             y == peri_write(<<"spi1", AUX_SPI.CNTL0 \div 4>>, CLEARFIFO, nothing)
             p == FselAll(AuxPins, FSEL.ALT4)
             q == aux_spi_speed(1000000)
  <2>1. Plain(x) /\ Plain(y) /\ Plain(e)
    BY PlainElsewhere, SMT
  <2>2. aux_spi_begin = IF ~mapped THEN <<>> ELSE ((p \o q) \o <<e>>) \o <<x, y>>
    BY SMT DEF aux_spi_begin, aux_spi_reset
  <2>3. PlainProg(p) /\ PlainProg(q)
    BY <1>2, PlainBusPins, SMT
  <2> HIDE DEF e, x, y, p, q
  <2>4. PlainProg(<<e>>) /\ PlainProg(<<x, y>>)
    BY <2>1, PlainOne, PlainTwo
  <2>5. PlainProg(p \o q)
    BY <2>3, PlainBoth
  <2>6. PlainProg((p \o q) \o <<e>>)
    BY <2>4, <2>5, PlainBoth
  <2>7. PlainProg(((p \o q) \o <<e>>) \o <<x, y>>)
    BY <2>4, <2>6, PlainBoth
  <2> QED
    BY <2>2, <2>7, PlainNone
<1> QED
  BY <1>1, <1>2, <1>4, <1>5, <1>6, <1>7, <1>8, <1>9

\* The calls that set up the SMI bus.
LEMMA PlainSmi ==
    /\ PlainProg(smi_begin)
    /\ \A c \in 0..4 : \A r \in BOOLEAN : PlainProg(smi_set_timing(c, r, 63, 127, 1, 64))
<1>1. ASSUME NEW c \in 0..4, NEW r \in BOOLEAN PROVE PlainProg(smi_set_timing(c, r, 63, 127, 1, 64))
  <2>1. CASE c = 4
    BY <2>1, PlainNone DEF smi_set_timing
  <2>2. CASE c # 4
    <3>1. c \in 0..3
      BY <2>2
    <3> DEFINE x == Modify(SmiSlot(c, r), SmiTiming(63, 127, 1, 64),
                           UNION {SMI_RW.SETUP_MSK, SMI_RW.HOLD_MSK, SMI_RW.PACE_MSK, SMI_RW.STROBE_MSK},
                           SmiParts(c, r, 63, 127, 1, 64))
    <3>2. Plain(x)
      BY <3>1, PlainSlot
    <3>3. smi_set_timing(c, r, 63, 127, 1, 64) = <<x>>
      BY <3>1 DEF smi_set_timing
    <3> HIDE DEF x
    <3> QED
      BY <3>2, <3>3, PlainOne
  <2> QED
    BY <2>1, <2>2
<1>2. PlainProg(smi_begin)
  <2> DEFINE p == FselAll(SmiPins, FSEL.ALT1)
             x == peri_write(<<"clk", SMICLK.CNTL>>, Passwrd({}), nothing)
             y == peri_write(<<"clk", SMICLK.DIV>>, Passwrd({14}), One(<<"smi_clk_div">>, 4))
             z == peri_write(<<"clk", SMICLK.CNTL>>, Passwrd({1, 2, 4}), nothing)
             S(i) == peri_write(SmiSlot((i - 1) \div 2, i % 2 = 1), SmiTiming(10, 20, 20, 1) \cup SMI_RW.PACEALL,
                                SmiParts((i - 1) \div 2, i % 2 = 1, 10, 20, 20, 1))
             q == [i \in 1..8 |-> S(i)]
  <2>1. Plain(x) /\ Plain(y) /\ Plain(z)
    BY PlainElsewhere
  <2>2. \A i \in 1..8 : Plain(S(i))
    <3> TAKE i \in 1..8
    <3> DEFINE c == (i - 1) \div 2
               r == (i % 2 = 1)
    <3>1. c \in 0..3 /\ r \in BOOLEAN
      OBVIOUS
    <3> HIDE DEF c, r
    <3>2. Plain(peri_write(SmiSlot(c, r), SmiTiming(10, 20, 20, 1) \cup SMI_RW.PACEALL, SmiParts(c, r, 10, 20, 20, 1)))
      BY <3>1, PlainSlot
    <3> QED
      BY <3>2 DEF c, r
  <2>3. PlainProg(p)
    BY PlainBusPins
  <2>4. smi_begin = IF ~mapped THEN <<>> ELSE (p \o <<x, y, z>>) \o q
    BY DEF smi_begin
  <2> HIDE DEF S
  <2>5. q \in [1..8 -> {S(i) : i \in 1..8}] /\ \A i \in 1..8 : Plain(q[i])
    BY <2>2
  <2> HIDE DEF p, x, y, z, q
  <2>6. PlainProg(q)
    BY <2>5, PlainList
  <2>7. <<x, y, z>> = <<x, y>> \o <<z>>
    OBVIOUS
  <2>8. PlainProg(<<x, y, z>>)
    BY <2>1, <2>7, PlainOne, PlainTwo, PlainBoth
  <2>9. PlainProg(p \o <<x, y, z>>)
    BY <2>3, <2>8, PlainBoth
  <2>10. PlainProg((p \o <<x, y, z>>) \o q)
    BY <2>6, <2>9, PlainBoth
  <2> QED
    BY <2>4, <2>10, PlainNone
<1> QED
  BY <1>1, <1>2

\* The calls of the pads and the PWM.
LEMMA PlainGuarded ==
    /\ \A group, control : PlainProg(gpio_set_pad(group, control))
    /\ PlainProg(pwm_set_clock(\h1010))
    /\ \A c, x, y : PlainProg(pwm_set_mode(c, x, y)) /\ PlainProg(pwm_set_range(c, x)) /\ PlainProg(pwm_set_data(c, x))
<1>1. \A group, control : PlainProg(gpio_set_pad(group, control))
  BY PlainWrites, PlainNone DEF gpio_set_pad
<1>2. \A c, x : PlainProg(pwm_set_range(c, x)) /\ PlainProg(pwm_set_data(c, x))
  BY PlainWrites, PlainNone DEF pwm_set_range, pwm_set_data
<1>3. ASSUME NEW c, NEW x, NEW y PROVE PlainProg(pwm_set_mode(c, x, y))
  <2>1. PICK v, m, set : ~mapped \/ pwm_set_mode(c, x, y) = <<Modify(<<"pwm", PWM.CONTROL>>, v, m, set)>>
    BY DEF pwm_set_mode
  <2> DEFINE o == Modify(<<"pwm", PWM.CONTROL>>, v, m, set)
  <2>2. Plain(o)
    BY PlainElsewhere
  <2>3. ~mapped => pwm_set_mode(c, x, y) = <<>>
    BY DEF pwm_set_mode
  <2> HIDE DEF o
  <2>4. PlainProg(<<o>>)
    BY <2>2, PlainOne
  <2> QED
    BY <2>1, <2>3, <2>4, PlainNone DEF o
<1>4. PlainProg(pwm_set_clock(\h1010))
  <2> DEFINE a == <<"clk", PWMCLK.CNTL>>
             w == peri_write(a, Passwrd({0}), nothing)
             x == Await(a, {7}, FALSE)
             y == peri_write(<<"clk", PWMCLK.DIV>>, Passwrd(Bits(\h1010 % 2^12, 12)), One(<<"pwm_clk_div">>, \h1010 % 2^12))
             z == peri_write(a, Passwrd({0, 4}), nothing)
  <2>1. Plain(w) /\ Plain(x) /\ Plain(z)
    BY PlainElsewhere
  <2>2. Plain(y)
    BY PlainElsewhere
  <2>3. pwm_set_clock(\h1010) = IF ~mapped THEN <<>> ELSE <<w, x, y, z>>
    BY DEF pwm_set_clock
  <2> HIDE DEF w, x, y, z
  <2>4. <<w, x, y, z>> = <<w, x>> \o <<y, z>>
    OBVIOUS
  <2>5. PlainProg(<<w, x>>) /\ PlainProg(<<y, z>>)
    BY <2>1, <2>2, PlainTwo
  <2>6. PlainProg(<<w, x, y, z>>)
    BY <2>4, <2>5, PlainBoth
  <2> QED
    BY <2>3, <2>6, PlainNone
<1> QED
  BY <1>1, <1>2, <1>3, <1>4

\* Two bits of a word, and a number of four bits, as numbers.
LEMMA NumTwo ==
    ASSUME NEW v, NEW s \in Int, NEW k \in 0..3, v \cap (s..(s + 1)) = Bits(k, s)
    PROVE  Num(v, s, 2) = k
<1>1. 2^2 - 1 = 3 /\ s + 2 - 1 = s + 1
  OBVIOUS
<1>2. Bits(0, s) = {} /\ Bits(1, s) = {s} /\ Bits(2, s) = {s + 1} /\ Bits(3, s) = {s, s + 1}
  BY BitsSmall
<1>3. \A j \in 0..3 : Bits(j, s) = Bits(k, s) => j = k
  <2> TAKE j \in 0..3
  <2>1. j \in {0, 1, 2, 3} /\ k \in {0, 1, 2, 3} /\ s # s + 1
    OBVIOUS
  <2> QED
    BY <1>2, <2>1
<1>4. Num(v, s, 2) = CHOOSE j \in 0..3 : Bits(j, s) = v \cap (s..(s + 1))
  BY <1>1 DEF Num
<1> HIDE DEF Bits
<1> QED
  BY <1>3, <1>4

\* Four bits stand for one number.
LEMMA OddUnique ==
    ASSUME NEW j \in 0..15, NEW k \in 0..15, \A i \in 0..3 : Odd(j, i) <=> Odd(k, i)
    PROVE  j = k
<1>1. /\ (j \div 1) % 2 = 1 <=> (k \div 1) % 2 = 1
      /\ (j \div 2) % 2 = 1 <=> (k \div 2) % 2 = 1
      /\ (j \div 4) % 2 = 1 <=> (k \div 4) % 2 = 1
      /\ (j \div 8) % 2 = 1 <=> (k \div 8) % 2 = 1
  <2>1. (Odd(j, 0) <=> Odd(k, 0)) /\ (Odd(j, 1) <=> Odd(k, 1)) /\ (Odd(j, 2) <=> Odd(k, 2)) /\ (Odd(j, 3) <=> Odd(k, 3))
    OBVIOUS
  <2> QED
    BY <2>1, Powers DEF Odd
<1> QED
  BY <1>1

\* The bits of a number that is not moved.
LEMMA BitIn == ASSUME NEW n, NEW i \in 0..17 PROVE i \in Bits(n, 0) <=> Odd(n, i)
<1>1. Bits(n, 0) = {0 + j : j \in {m \in 0..17 : Odd(n, m)}}
  BY BitsAre
<1> QED
  BY <1>1

\* A number below 16 is what its four bits stand for.
LEMMA NumFour == ASSUME NEW k \in 0..15 PROVE Num(Bits(k, 0), 0, 4) = k
<1>1. 2^4 - 1 = 15 /\ 0 + 4 - 1 = 3
  OBVIOUS
<1>2. Bits(k, 0) \cap (0..3) = Bits(k, 0)
  <2>1. k \in Nat /\ 4 \in 0..17 /\ k < 16 /\ Pow(4) = 16 /\ 0 \in Int
    BY Powers
  <2>2. Bits(k, 0) \subseteq 0..(0 + 4 - 1)
    BY <2>1, BitsBelow
  <2> QED
    BY <1>1, <2>2
<1>3. \A j \in 0..15 : Bits(j, 0) = Bits(k, 0) => j = k
  <2> TAKE j \in 0..15
  <2> HAVE Bits(j, 0) = Bits(k, 0)
  <2>1. \A i \in 0..3 : Odd(j, i) <=> Odd(k, i)
    BY BitIn
  <2> QED
    BY <2>1, OddUnique
<1>4. Num(Bits(k, 0), 0, 4) = CHOOSE j \in 0..15 : Bits(j, 0) = Bits(k, 0)
  BY <1>1, <1>2 DEF Num
<1> QED
  BY <1>3, <1>4

\* The pull of a pin, read back in the library's codes.
LEMMA PullRead ==
    ASSUME NEW pin \in Pins, NEW v
    PROVE  LET f == <<"pull", pin>> IN
           /\ f \in Fields /\ FieldOf[f].a = PullReg(pin)
           /\ Result(<<"gpio_get_pud", pin>>, v) = Num(Decode(f, v), 0, 4)
<1> DEFINE f == <<"pull", pin>>
           lo == (pin % 16) * 2
           r == <<"gpio_get_pud", pin>>
           bits == {i - lo : i \in v \cap (lo..(lo + 1))}
           tab == <<PUD.OFF, PUD.UP, PUD.DOWN, PUD.ERROR>>
<1>1. f \in Fields
  BY DEF Fields
<1>2. Pin(pin)
  BY PinsPin
<1>3. FieldOf[f].a = PullReg(pin) /\ FieldOf[f].lo = lo /\ FieldOf[f].n = 2
  <2>1. FieldOf[f].a[1] = "gpio"
    BY <1>1, FieldArms, AtParts DEF FieldOf
  <2>2. FieldOf[f].a = <<"gpio", FieldOf[f].a[2]>>
    BY <1>1, <2>1, Blocks
  <2>3. FieldOf[f].a[2] = 57 + pin \div 16 /\ FieldOf[f].lo = lo /\ FieldOf[f].n = 2
    BY <1>1, <2>2, GpioWord, GpioNames DEF Events, Detects
  <2>4. PullReg(pin) = <<"gpio", 57 + pin \div 16>>
    BY DEF PullReg, GPPUPPDN
  <2> QED
    BY <2>2, <2>3, <2>4
<1>4. lo \in Int
  BY <1>2, PinPlace
<1>5. Decode(f, v) = Bits(PullCode(bits), 0)
  <2>1. lo + 2 - 1 = lo + 1
    BY <1>4
  <2>2. Decode(f, v) = Bits(PullCode({i - lo : i \in v \cap (lo..(lo + 2 - 1))}), 0)
    BY <1>3 DEF Decode
  <2> QED
    BY <2>1, <2>2
<1>6. Result(r, v) = tab[Num(v, lo, 2) + 1]
  BY DEF Result
<1> HIDE DEF lo
<1>7. Bits(0, lo) = {} /\ Bits(1, lo) = {lo} /\ Bits(2, lo) = {lo + 1} /\ Bits(3, lo) = {lo, lo + 1}
  BY <1>4, BitsSmall
<1>8. tab[1] = 0 /\ tab[2] = 2 /\ tab[3] = 1 /\ tab[4] = 8
  BY DEF PUD
<1>9. PullCode({}) = 0 /\ PullCode({0}) = 2 /\ PullCode({1}) = 1 /\ PullCode({0, 1}) = 8
  <2>1. {0} # {} /\ {1} # {} /\ {1} # {0} /\ {0, 1} # {} /\ {0, 1} # {0} /\ {0, 1} # {1}
    <3>1. 0 \in {0} /\ 1 \in {1} /\ 0 \notin {1} /\ 1 \notin {0} /\ 0 \in {0, 1} /\ 1 \in {0, 1} /\ 0 \notin {}
      OBVIOUS
    <3> QED
      BY <3>1, Zenon
  <2>2. PUD.OFF = 0 /\ PUD.UP = 2 /\ PUD.DOWN = 1 /\ PUD.ERROR = 8
    BY DEF PUD
  <2>3. PullCode({}) = PUD.OFF
    BY <2>1 DEF PullCode
  <2>4. PullCode({0}) = PUD.UP
    BY <2>1 DEF PullCode
  <2>5. PullCode({1}) = PUD.DOWN
    BY <2>1 DEF PullCode
  <2>6. PullCode({0, 1}) = PUD.ERROR
    BY <2>1 DEF PullCode
  <2> QED
    BY <2>2, <2>3, <2>4, <2>5, <2>6
<1> HIDE DEF tab
<1>10. PICK k \in 0..3 : v \cap (lo..(lo + 1)) = Bits(k, lo) /\ PullCode(bits) = tab[k + 1]
  <2>1. lo..(lo + 1) = {lo, lo + 1} /\ lo # lo + 1 /\ lo - lo = 0 /\ lo + 1 - lo = 1
    BY <1>4
  <2>2. CASE lo \notin v /\ lo + 1 \notin v
    <3>1. v \cap (lo..(lo + 1)) = {} /\ bits = {}
      BY <2>1, <2>2
    <3>2. 0 \in 0..3 /\ 0 + 1 = 1
      OBVIOUS
    <3> QED
      BY <1>7, <1>8, <1>9, <3>1, <3>2
  <2>3. CASE lo \in v /\ lo + 1 \notin v
    <3>1. v \cap (lo..(lo + 1)) = {lo}
      BY <2>1, <2>3
    <3>2. bits = {0}
      BY <2>1, <3>1
    <3>3. 1 \in 0..3 /\ 1 + 1 = 2
      OBVIOUS
    <3> QED
      BY <1>7, <1>8, <1>9, <3>1, <3>2, <3>3
  <2>4. CASE lo \notin v /\ lo + 1 \in v
    <3>1. v \cap (lo..(lo + 1)) = {lo + 1}
      BY <2>1, <2>4
    <3>2. bits = {1}
      BY <2>1, <3>1
    <3>3. 2 \in 0..3 /\ 2 + 1 = 3
      OBVIOUS
    <3> QED
      BY <1>7, <1>8, <1>9, <3>1, <3>2, <3>3
  <2>5. CASE lo \in v /\ lo + 1 \in v
    <3>1. v \cap (lo..(lo + 1)) = {lo, lo + 1}
      BY <2>1, <2>5
    <3>2. bits = {0, 1}
      BY <2>1, <3>1
    <3>3. 3 \in 0..3 /\ 3 + 1 = 4
      OBVIOUS
    <3> QED
      BY <1>7, <1>8, <1>9, <3>1, <3>2, <3>3
  <2> QED
    BY <2>2, <2>3, <2>4, <2>5
<1> HIDE DEF bits
<1>11. Num(v, lo, 2) = k
  BY <1>4, <1>10, NumTwo
<1>12. tab[k + 1] \in 0..15
  <2>1. k \in {0, 1, 2, 3} /\ 0 + 1 = 1 /\ 1 + 1 = 2 /\ 2 + 1 = 3 /\ 3 + 1 = 4
    OBVIOUS
  <2> QED
    BY <1>8, <2>1
<1>13. Num(Bits(tab[k + 1], 0), 0, 4) = tab[k + 1]
  BY <1>12, NumFour
<1> QED
  BY <1>1, <1>3, <1>5, <1>6, <1>10, <1>11, <1>13

\* A read of a register that is neither levels nor pads.
LEMMA HwReadIs ==
    ASSUME NEW a
    PROVE  /\ a # <<"gpio", 13>> /\ a # <<"gpio", 14>> /\ a[1] # "pads" => HwRead(a) = Get(a)
           /\ a[1] = "pads" => HwRead(a) = Get(a) \cap (0..4)
           /\ \A b \in {0, 1} : a = <<"gpio", 13 + b>> => HwRead(a) = latch[b]
<1>1. Banks("GPLEV") = {<<"gpio", 13>>, <<"gpio", 14>>}
  <2>1. Banks("GPLEV") = {<<"gpio", GPIO["GPLEV"][1] \div 4>>, <<"gpio", GPIO["GPLEV"][2] \div 4>>}
    BY DEF Banks
  <2> QED
    BY <2>1, BankWords, GpioNames
<1>2. \A b \in {0, 1} : a = <<"gpio", 13 + b>> => a \in Banks("GPLEV") /\ BankOf("GPLEV", a) = b
  BY <1>1, BankWords DEF BankOf
<1> QED
  BY <1>1, <1>2 DEF HwRead

\* The flag of a pin is what its bit says.
LEMMA FlagRead ==
    ASSUME NEW f \in Fields, f[1] # "pull", NEW s, Span(f) = {s}, FieldOf[f].lo = s, NEW v
    PROVE  (Decode(f, v) = {0}) <=> (s \in v)
<1>1. Decode(f, v) = IF s \in v THEN Bits(1, 0) ELSE Bits(0, 0)
  BY OneBit
<1>2. Bits(1, 0) = {0} /\ Bits(0, 0) = {}
  BY BitsSmall
<1>3. 0 \in {0} /\ 0 \notin {}
  OBVIOUS
<1> QED
  BY <1>1, <1>2, <1>3

\* The events of several pins are what their bits say.
LEMMA EdsRead ==
    ASSUME NEW pin \in Pins, NEW v
    PROVE  LET f == <<"GPEDS", pin>> IN
           /\ f \in Fields /\ FieldOf[f].a = Bank("GPEDS", pin) /\ Bank("GPEDS", pin) = <<"gpio", 16 + pin \div 32>>
           /\ pin \div 32 \in {0, 1} /\ Shift(pin) = {pin % 32}
           /\ (Decode(f, v) = {0}) <=> (pin % 32 \in v)
<1> DEFINE f == <<"GPEDS", pin>>
<1>1. "GPEDS" \in Events /\ Pin(pin)
  BY PinsPin DEF Events
<1>2. f \in Fields
  BY GpioNames DEF Fields
<1>3. /\ Bank("GPEDS", pin) = <<"gpio", 16 + pin \div 32>> /\ pin \div 32 \in {0, 1}
      /\ FieldOf[f].a = Bank("GPEDS", pin) /\ Shift(pin) = {pin % 32}
  BY <1>1, <1>2, BankPlace, BankWords
<1>4. Span(f) = {pin % 32} /\ FieldOf[f].lo = pin % 32
  BY <1>1, <1>2, <1>3, EventSpan
<1>5. (Decode(f, v) = {0}) <=> (pin % 32 \in v)
  BY <1>2, <1>4, FlagRead
<1> QED
  BY <1>2, <1>3, <1>5

(* A call that reads, while no update is lost, returns what the field was  *)
(* last set to.                                                            *)
LEMMA ReadExact ==
    ASSUME FieldsHold, lost = {}, NEW r, NEW a, LookAt(r, a)
    PROVE  Result(r, HwRead(a)) = Truth(r)
<1>1. \A f \in Fields : Value(f) = Want(f)
  BY DEF FieldsHold
<1>2. \A f \in Fields : f[1] # "out" => Value(f) = Decode(f, Get(FieldOf[f].a))
  BY DEF Value
<1>3. CASE r[1] = "gpio_get_pud" /\ r[2] \in Pins /\ a = PullReg(r[2])
  <2>1. PICK pin \in Pins : pin = r[2]
    BY <1>3
  <2> DEFINE f == <<"pull", pin>>
             v == Get(a)
  <2>2. /\ f \in Fields /\ FieldOf[f].a = a
        /\ Result(<<"gpio_get_pud", pin>>, v) = Num(Decode(f, v), 0, 4)
    BY <1>3, <2>1, PullRead
  <2>3. a # <<"gpio", 13>> /\ a # <<"gpio", 14>> /\ a[1] # "pads"
    <3>1. Pin(pin)
      BY PinsPin
    <3>2. PICK q : q = pin \div 16
      OBVIOUS
    <3>3. a = <<"gpio", 57 + q>>
      BY <1>3, <2>1, <3>2 DEF PullReg, GPPUPPDN
    <3>4. q \in Int /\ 0 <= q /\ q <= 3
      BY <3>1, <3>2, PinPlace
    <3>5. 57 + q # 13 /\ 57 + q # 14
      BY <3>4
    <3>6. a[1] = "gpio" /\ a[2] = 57 + q
      BY <3>3
    <3> QED
      BY <3>5, <3>6
  <2>4. HwRead(a) = v
    BY <2>3, HwReadIs
  <2>5. Want(f) = Decode(f, v)
    BY <1>1, <1>2, <2>2
  <2>6. Truth(r) = Num(Want(f), 0, 4)
    BY <1>3, <2>1 DEF Truth
  <2>7. Result(r, v) = Result(<<"gpio_get_pud", pin>>, v)
    BY <1>3, <2>1 DEF Result
  <2> QED
    BY <2>2, <2>4, <2>5, <2>6, <2>7
<1>4. CASE r[1] = "gpio_pad" /\ r[2] \in 0..2 /\ a = <<"pads", 11 + r[2]>>
  <2>1. PICK g \in 0..2 : g = r[2]
    BY <1>4
  <2> DEFINE f == <<"pad", g>>
             v == Get(a)
  <2>2. f \in Fields
    BY DEF Fields
  <2>3. FieldOf[f].a = a /\ FieldOf[f].lo = 0 /\ FieldOf[f].n = 5
    <3>1. FieldOf[f].a[1] = "pads"
      BY <2>2, FieldArms, AtParts DEF FieldOf
    <3>2. FieldOf[f] = At("pads", 11 + g, 0, 5)
      BY <2>2, <3>1, OtherBlocks
    <3> QED
      BY <1>4, <2>1, <3>2, AtParts
  <2>4. Decode(f, v) = v \cap (0..4)
    <3>1. Decode(f, v) = {i - 0 : i \in v \cap (0..(0 + 5 - 1))}
      BY <2>3 DEF Decode
    <3>2. 0 + 5 - 1 = 4 /\ \A i \in v \cap (0..4) : i - 0 = i
      OBVIOUS
    <3> QED
      BY <3>1, <3>2
  <2>5. Want(f) = v \cap (0..4)
    BY <1>1, <1>2, <2>2, <2>3, <2>4
  <2>6. HwRead(a) = v \cap (0..4)
    BY <1>4, HwReadIs
  <2>7. Truth(r) = Want(f) /\ Result(r, HwRead(a)) = HwRead(a)
    BY <1>4, <2>1 DEF Truth, Result
  <2> QED
    BY <2>5, <2>6, <2>7
<1>5. CASE r[1] = "gpio_lev" /\ r[2] \in Pins /\ a = Bank("GPLEV", r[2])
  <2>1. PICK pin \in Pins : pin = r[2]
    BY <1>5
  <2> DEFINE f == <<"out", pin>>
             b == pin \div 32
             s == pin % 32
  <2>2. f \in Fields
    BY DEF Fields
  <2>3. /\ Span(f) = {s} /\ FieldOf[f].lo = s /\ Value(f) = Decode(f, latch[b]) /\ b \in {0, 1}
    BY <2>2, OutField
  <2>4. a = <<"gpio", 13 + b>>
    BY <1>5, <2>1, BankWords DEF Bank
  <2>5. HwRead(a) = latch[b]
    BY <2>3, <2>4, HwReadIs
  <2>6. (Decode(f, latch[b]) = {0}) <=> (s \in latch[b])
    BY <2>2, <2>3, FlagRead
  <2>7. Truth(r) = (Want(f) = {0}) /\ Result(r, HwRead(a)) = (HwRead(a) \cap {s} # {})
    BY <1>5, <2>1 DEF Truth, Result, Shift
  <2> HIDE DEF f, b, s
  <2>8. Truth(r) = (s \in latch[b]) /\ Result(r, HwRead(a)) = (s \in latch[b])
    BY <1>1, <2>2, <2>3, <2>5, <2>6, <2>7
  <2> QED
    BY <2>8
<1>6. CASE r[1] = "gpio_eds" /\ r[2] \in Pins /\ a = Bank("GPEDS", r[2])
  <2>1. PICK pin \in Pins : pin = r[2]
    BY <1>6
  <2> DEFINE f == <<"GPEDS", pin>>
             s == pin % 32
             v == Get(a)
  <2>2. /\ f \in Fields /\ FieldOf[f].a = a /\ a = <<"gpio", 16 + pin \div 32>> /\ pin \div 32 \in {0, 1}
        /\ Shift(pin) = {s} /\ ((Decode(f, v) = {0}) <=> (s \in v))
    BY <1>6, <2>1, EdsRead
  <2>3. HwRead(a) = v
    BY <2>2, HwReadIs
  <2>4. Truth(r) = (Want(f) = {0}) /\ Result(r, HwRead(a)) = (HwRead(a) \cap Shift(pin) # {})
    BY <1>6, <2>1 DEF Truth, Result
  <2>5. Want(f) = Decode(f, v)
    BY <1>1, <1>2, <2>2
  <2> HIDE DEF f, s, v
  <2>6. Truth(r) = (s \in v) /\ Result(r, HwRead(a)) = (s \in v)
    BY <2>2, <2>3, <2>4, <2>5
  <2> QED
    BY <2>6
<1>7. CASE r[1] = "gpio_eds_multi" /\ r[2] = Low /\ a = Bank("GPEDS", 0)
  <2> DEFINE v == Get(a)
  <2>1. a = <<"gpio", 16>>
    BY <1>7, BankWords DEF Bank
  <2>2. HwRead(a) = v
    BY <2>1, HwReadIs
  <2>3. Truth(r) = {p \in Low : Want(<<"GPEDS", p>>) = {0}} /\ Result(r, HwRead(a)) = HwRead(a) \cap Low
    BY <1>7 DEF Truth, Result
  <2>4. ASSUME NEW p \in Low PROVE (Want(<<"GPEDS", p>>) = {0}) <=> (p \in v)
    <3> DEFINE f == <<"GPEDS", p>>
    <3>1. p \in Pins /\ p < 32
      BY DEF Low
    <3>2. p % 32 = p /\ p \div 32 = 0
      BY <3>1, PinBank
    <3>3. /\ f \in Fields /\ FieldOf[f].a = Bank("GPEDS", p) /\ Bank("GPEDS", p) = <<"gpio", 16 + p \div 32>>
          /\ ((Decode(f, v) = {0}) <=> (p % 32 \in v))
      BY <3>1, EdsRead
    <3>4. FieldOf[f].a = a
      BY <2>1, <3>2, <3>3
    <3>5. Want(f) = Decode(f, v)
      BY <1>1, <1>2, <3>3, <3>4
    <3> QED
      BY <3>2, <3>3, <3>5
  <2> HIDE DEF v
  <2> QED
    BY <2>2, <2>3, <2>4
<1> QED
  BY <1>3, <1>4, <1>5, <1>6, <1>7 DEF LookAt

\* The address that goes on the bus, for a channel.
Addressed(channel, address) == Bits(channel, 8) \cup Bits(address % 64, 0)

\* What is left of the seven accesses of a transfer after k of them.
Rest(p, full, k) == Len(p) = 7 - k /\ \A i \in 1..(7 - k) : p[i] = full[i + k]

\* The bus after k accesses of a write of D to A that has it to itself.
Writing(k, A, D) ==
    /\ k <= 4 => smi = <<>>
    /\ 2 <= k /\ k <= 4 => 2 \notin Get(DirCs)
    /\ 3 <= k /\ k <= 4 => Get(SmiAddr) = A
    /\ k = 4 => Get(SmiData) = D
    /\ k = 5 => \/ smi = <<[write |-> TRUE, a |-> A, d |-> D]>> /\ 2 \notin Get(DirCs)
                \/ smi = <<>> /\ served = <<A, D>>
    /\ 6 <= k => smi = <<>> /\ served = <<A, D>>

\* The bus after k accesses of a read of A that has it to itself.
Reading(k, A) ==
    /\ k <= 3 => smi = <<>>
    /\ 2 <= k /\ k <= 3 => 2 \notin Get(DirCs)
    /\ k = 3 => Get(SmiAddr) = A
    /\ k = 4 => \/ smi # <<>> /\ smi[1].write = FALSE /\ smi[1].a = A /\ 2 \notin Get(DirCs)
                \/ smi = <<>> /\ Get(SmiData) = Answer(A)
    /\ k = 5 => smi = <<>> /\ Get(SmiData) = Answer(A)

\* A caller outside the transfers leaves them alone, and has the right result once it has read.
PlainOK(c) ==
    call[c].name \notin Transfers => PlainProg(call[c].prog) /\ (call[c].alone => call[c].ret = call[c].truth)

WriteOK(c) ==
    call[c].name = "smi_write" => \E channel \in {0, 3}, k \in 0..7 :
        /\ Rest(call[c].prog, smi_write(channel, \hA5, 5), k)
        /\ call[c].alone => Writing(k, Addressed(channel, 5), Bits(\hA5, 0))

ReadOK(c) ==
    call[c].name = "smi_read" => \E channel \in {0, 3}, k \in 0..7 :
        /\ Rest(call[c].prog, smi_read(channel, \h2A), k)
        /\ call[c].alone => /\ Reading(k, Addressed(channel, \h2A))
                            /\ 6 <= k => call[c].ret = call[c].truth

\* While a transfer counts as alone no other one runs.
Exclusive ==
    \A c, d \in Callers : c # d /\ call[c].name \in Transfers /\ call[c].alone /\ Running(d) => call[d].name \notin Transfers

ResultsHold == Exclusive /\ \A c \in Callers : PlainOK(c) /\ WriteOK(c) /\ ReadOK(c)

\* w writes data D to address A.
WriteAt(w, A, D) ==
    /\ Len(w) = 7 /\ w[1] = Test(DirCs, {2}) /\ w[2] = peri_write(DirCs, {2}, nothing)
    /\ w[3] = peri_write(SmiAddr, A, nothing) /\ w[4] = peri_write(SmiData, D, nothing)
    /\ w[5] = peri_write(DirCs, {0, 1, 3}, nothing) /\ w[6] = Await(DirCs, {2}, TRUE)
    /\ w[7] = peri_write(DirCs, {2}, nothing)

\* w reads address A for the result r.
ReadAt(w, A, r) ==
    /\ Len(w) = 7 /\ w[1] = Test(DirCs, {2}) /\ w[2] = peri_write(DirCs, {2}, nothing)
    /\ w[3] = peri_write(SmiAddr, A, nothing) /\ w[4] = peri_write(DirCs, {0, 1}, nothing)
    /\ w[5] = Await(DirCs, {2}, TRUE) /\ w[6] = Fetch(SmiData, r) /\ w[7] = peri_write(DirCs, {2}, nothing)

\* The accesses of a write.
LEMMA WriteAccesses ==
    ASSUME NEW ch \in {0, 3}
    PROVE  WriteAt(smi_write(ch, \hA5, 5), Addressed(ch, 5), Bits(\hA5, 0))
<1>w. PICK w : w = smi_write(ch, \hA5, 5)
  OBVIOUS
<1>1. SMI.DIRDATA = 15 /\ SMI.DIRADDR = 14
  BY DEF SMI
<1>2. /\ DIRCS.DONE = {2} /\ DIRCS.WRITE \cup DIRCS.START \cup DIRCS.ENABLE = {0, 1, 3}
  BY DEF DIRCS
<1> DEFINE t == Test(DirCs, {2})
           e == peri_write(DirCs, {2}, nothing)
           a == peri_write(SmiAddr, Addressed(ch, 5), nothing)
           x == peri_write(SmiData, Bits(\hA5, 0), nothing)
           s == peri_write(DirCs, {0, 1, 3}, nothing)
           u == Await(DirCs, {2}, TRUE)
<1>3. DirAddr(ch, 5) = a
  BY <1>1 DEF DirAddr, SmiAddr, Addressed
<1>4. ~(ch > 3)
  OBVIOUS
<1>5. w = <<t, e>> \o <<a, x, s, u, e>>
  BY <1>w, <1>1, <1>2, <1>3, <1>4 DEF smi_write, ClearStaleDone, SmiData
<1> HIDE DEF t, e, a, x, s, u
<1>6. Len(w) = 7 /\ w[1] = t /\ w[2] = e /\ w[3] = a /\ w[4] = x /\ w[5] = s /\ w[6] = u /\ w[7] = e
  BY <1>5
<1>7. WriteAt(w, Addressed(ch, 5), Bits(\hA5, 0))
  BY <1>6 DEF WriteAt, t, e, a, x, s, u
<1> QED
  BY <1>w, <1>7, Zenon

\* The accesses of a read.
LEMMA ReadAccesses ==
    ASSUME NEW ch \in {0, 3}
    PROVE  ReadAt(smi_read(ch, \h2A), Addressed(ch, \h2A), <<"smi_read", ch, \h2A>>)
<1>w. PICK w : w = smi_read(ch, \h2A)
  OBVIOUS
<1>1. SMI.DIRDATA = 15 /\ SMI.DIRADDR = 14
  BY DEF SMI
<1>2. /\ DIRCS.DONE = {2} /\ DIRCS.START \cup DIRCS.ENABLE = {0, 1}
  BY DEF DIRCS
<1> DEFINE t == Test(DirCs, {2})
           e == peri_write(DirCs, {2}, nothing)
           a == peri_write(SmiAddr, Addressed(ch, \h2A), nothing)
           s == peri_write(DirCs, {0, 1}, nothing)
           u == Await(DirCs, {2}, TRUE)
           g == Fetch(SmiData, <<"smi_read", ch, \h2A>>)
<1>3. DirAddr(ch, \h2A) = a
  BY <1>1 DEF DirAddr, SmiAddr, Addressed
<1>4. ~(ch > 3)
  OBVIOUS
<1>5. w = <<t, e>> \o <<a, s, u, g, e>>
  BY <1>w, <1>1, <1>2, <1>3, <1>4 DEF smi_read, ClearStaleDone, SmiData
<1> HIDE DEF t, e, a, s, u, g
<1>6. Len(w) = 7 /\ w[1] = t /\ w[2] = e /\ w[3] = a /\ w[4] = s /\ w[5] = u /\ w[6] = g /\ w[7] = e
  BY <1>5
<1>7. ReadAt(w, Addressed(ch, \h2A), <<"smi_read", ch, \h2A>>)
  BY <1>6 DEF ReadAt, t, e, a, s, u, g
<1> QED
  BY <1>w, <1>7, Zenon

\* What is left after one more access, or two.
LEMMA RestTail ==
    ASSUME NEW p, NEW S, p \in Seq(S), p # <<>>, NEW full, NEW k \in 0..7, Rest(p, full, k)
    PROVE  /\ k < 7 /\ k + 1 \in 0..7 /\ Head(p) = full[k + 1] /\ Rest(Tail(p), full, k + 1)
           /\ k < 6 => k + 2 \in 0..7 /\ Rest(Tail(Tail(p)), full, k + 2)
<1>1. Len(p) \in Nat /\ Len(p) > 0 /\ Len(p) = 7 - k /\ Head(p) = p[1] /\ \A i \in 1..(7 - k) : p[i] = full[i + k]
  BY DEF Rest
<1>2. k < 7 /\ k + 1 \in 0..7 /\ (k < 6 => k + 2 \in 0..7)
  BY <1>1
<1>3. Head(p) = full[k + 1]
  <2>1. 1 \in 1..(7 - k) /\ 1 + k = k + 1
    BY <1>2
  <2> QED
    BY <1>1, <2>1
<1>4. PICK q : q = Tail(p)
  OBVIOUS
<1>5. q \in Seq(S) /\ Len(q) = 7 - (k + 1) /\ \A i \in 1..(7 - (k + 1)) : i + 1 \in 1..(7 - k) /\ q[i] = p[i + 1]
  BY <1>1, <1>2, <1>4
<1>6. Rest(q, full, k + 1)
  <2> SUFFICES ASSUME NEW i \in 1..(7 - (k + 1)) PROVE q[i] = full[i + (k + 1)]
    BY <1>5 DEF Rest
  <2>1. i + 1 \in 1..(7 - k) /\ q[i] = p[i + 1] /\ (i + 1) + k = i + (k + 1)
    BY <1>5
  <2> QED
    BY <1>1, <2>1
<1>7. ASSUME k < 6 PROVE Rest(Tail(q), full, k + 2)
  <2>1. PICK z : z = Tail(q)
    OBVIOUS
  <2>2. q # <<>>
    BY <1>5, <1>7
  <2>3. Len(z) = 7 - (k + 2) /\ \A i \in 1..(7 - (k + 2)) : i + 1 \in 1..(7 - (k + 1)) /\ z[i] = q[i + 1]
    BY <1>5, <1>7, <2>1, <2>2
  <2>4. ASSUME NEW i \in 1..(7 - (k + 2)) PROVE z[i] = full[i + (k + 2)]
    <3>1. i + 1 \in 1..(7 - (k + 1)) /\ z[i] = q[i + 1] /\ (i + 1) + (k + 1) = i + (k + 2)
      BY <2>3
    <3>2. q[i + 1] = full[(i + 1) + (k + 1)]
      BY <1>6, <3>1 DEF Rest
    <3> QED
      BY <3>1, <3>2
  <2> QED
    BY <2>1, <2>3, <2>4 DEF Rest
<1> QED
  BY <1>2, <1>3, <1>4, <1>6, <1>7

\* The registers of the direct transfers and the bus stay as they are.
BusSame == smi' = smi /\ served' = served /\ \A b \in Direct : Get(b)' = Get(b)

\* The registers of the direct transfers are three.
LEMMA DirectWords == DirCs = <<"smi", 13>> /\ DirCs # SmiAddr /\ DirCs # SmiData /\ SmiAddr # SmiData
  BY Special DEF SmiAddr, SmiData

\* A write to any other register leaves the bus alone.
LEMMA BusAway ==
    ASSUME NEW a, NEW v, HwWrite(a, v), a \notin Direct, fill' = fill, served' = served
    PROVE  BusSame
<1>1. a # DirCs
  BY DEF Direct
<1>2. smi' = smi
  BY <1>1 DEF HwWrite
<1>3. PICK x : reg' = reg \/ reg' = Put(a, x)
  BY DEF HwWrite
<1>4. \A b \in Direct : Get(b)' = Get(b)
  <2> TAKE b \in Direct
  <2>1. b # a
    OBVIOUS
  <2>2. CASE reg' = reg
    BY <2>2 DEF Get
  <2>3. CASE reg' = Put(a, x)
    BY <2>1, <2>3, GetPut
  <2> QED
    BY <1>3, <2>2, <2>3
<1> QED
  BY <1>2, <1>4 DEF BusSame

\* A write to one of the registers of the direct transfers.
LEMMA BusWrite ==
    ASSUME NEW a, NEW v, HwWrite(a, v), a \in Direct, fill' = fill
    PROVE  /\ \A b : Get(b)' = IF b # a THEN Get(b) ELSE IF a = DirCs THEN (v \ {1, 2}) \cup ({2} \cap (Get(a) \ v)) ELSE v
           /\ smi' = IF a = DirCs /\ 1 \in v
                     THEN <<[write |-> 3 \in v, a |-> Get(SmiAddr), d |-> Get(SmiData)]>> ELSE smi
<1>1. a \in {<<"smi", 13>>, <<"smi", 14>>, <<"smi", 15>>} /\ DirCs = <<"smi", 13>>
  BY Special DEF Direct, SmiAddr, SmiData
<1>2. a \notin Banks("GPSET") \cup Banks("GPCLR") /\ ~Refused(a, v) /\ a \notin Acks
  BY <1>1, Special DEF Refused
<1> DEFINE x == Stored(a, v, Get(a))
<1>3. reg' = Put(a, x)
  BY <1>2 DEF HwWrite
<1>4. x = IF a = DirCs THEN (v \ {1, 2}) \cup ({2} \cap (Get(a) \ v)) ELSE v
  BY <1>1, <1>2, StoredIs
<1> HIDE DEF x
<1>5. \A b : Get(b)' = IF b = a THEN x ELSE Get(b)
  BY <1>3, GetPut
<1>6. smi' = IF a = DirCs /\ 1 \in v
             THEN <<[write |-> 3 \in v, a |-> Get(SmiAddr), d |-> Get(SmiData)]>> ELSE smi
  <2>1. (DIRCS.START \subseteq v <=> 1 \in v) /\ (DIRCS.WRITE \subseteq v <=> 3 \in v)
    BY DEF DIRCS
  <2>2. SmiAddr = <<"smi", SMI.DIRADDR>> /\ SmiData = <<"smi", SMI.DIRDATA>>
    BY DEF SmiAddr, SmiData, SMI
  <2>3. smi' = IF a = DirCs /\ DIRCS.START \subseteq v
               THEN <<[write |-> DIRCS.WRITE \subseteq v, a |-> Get(SmiAddr), d |-> Get(SmiData)]>> ELSE smi
    BY <2>2 DEF HwWrite
  <2> HIDE DEF DirCs, SmiAddr, SmiData
  <2>4. (DIRCS.WRITE \subseteq v) = (3 \in v) /\ (DIRCS.START \subseteq v) = (1 \in v)
    BY <2>1
  <2> QED
    BY <2>3, <2>4
<1> QED
  BY <1>4, <1>5, <1>6

\* A transfer stays in its phase while the bus stays as it is.
LEMMA PhasesSame ==
    ASSUME BusSame, NEW k, NEW A, NEW D
    PROVE  (Writing(k, A, D) => Writing(k, A, D)') /\ (Reading(k, A) => Reading(k, A)')
<1>1. smi' = smi /\ served' = served /\ Get(DirCs)' = Get(DirCs) /\ Get(SmiAddr)' = Get(SmiAddr) /\ Get(SmiData)' = Get(SmiData)
  BY DEF BusSame, Direct
<1> QED
  BY <1>1 DEF Writing, Reading

\* A caller that does not move, on a bus that stays as it is or is not its own.
LEMMA CallerSame ==
    ASSUME NEW c, PlainOK(c), WriteOK(c), ReadOK(c),
           call'[c].name = call[c].name, call'[c].prog = call[c].prog, call'[c].ret = call[c].ret,
           call'[c].truth = call[c].truth, call'[c].alone => call[c].alone,
           BusSame \/ (call[c].name \in Transfers => ~call[c].alone)
    PROVE  PlainOK(c)' /\ WriteOK(c)' /\ ReadOK(c)'
<1>1. PlainOK(c)'
  BY DEF PlainOK
<1>2. WriteOK(c)'
  <2> SUFFICES ASSUME call[c].name = "smi_write"
               PROVE  \E channel \in {0, 3}, k \in 0..7 :
                         /\ Rest(call'[c].prog, smi_write(channel, \hA5, 5), k)
                         /\ call'[c].alone => Writing(k, Addressed(channel, 5), Bits(\hA5, 0))'
    BY DEF WriteOK
  <2>1. PICK channel \in {0, 3}, k \in 0..7 :
           /\ Rest(call[c].prog, smi_write(channel, \hA5, 5), k)
           /\ call[c].alone => Writing(k, Addressed(channel, 5), Bits(\hA5, 0))
    BY DEF WriteOK
  <2>2. call'[c].alone => Writing(k, Addressed(channel, 5), Bits(\hA5, 0))'
    BY <2>1, PhasesSame DEF Transfers
  <2>3. Rest(call'[c].prog, smi_write(channel, \hA5, 5), k)
    BY <2>1
  <2> QED
    BY <2>2, <2>3
<1>3. ReadOK(c)'
  <2> SUFFICES ASSUME call[c].name = "smi_read"
               PROVE  \E channel \in {0, 3}, k \in 0..7 :
                         /\ Rest(call'[c].prog, smi_read(channel, \h2A), k)
                         /\ call'[c].alone => /\ Reading(k, Addressed(channel, \h2A))'
                                              /\ 6 <= k => call'[c].ret = call'[c].truth
    BY DEF ReadOK
  <2>1. PICK channel \in {0, 3}, k \in 0..7 :
           /\ Rest(call[c].prog, smi_read(channel, \h2A), k)
           /\ call[c].alone => Reading(k, Addressed(channel, \h2A)) /\ (6 <= k => call[c].ret = call[c].truth)
    BY DEF ReadOK
  <2>2. call'[c].alone => Reading(k, Addressed(channel, \h2A))' /\ (6 <= k => call'[c].ret = call'[c].truth)
    BY <2>1, PhasesSame DEF Transfers
  <2>3. Rest(call'[c].prog, smi_read(channel, \h2A), k)
    BY <2>1
  <2> QED
    BY <2>2, <2>3
<1> QED
  BY <1>1, <1>2, <1>3

\* Steps that leave the callers and the transfers' registers alone.
LEMMA BusQuiet == ASSUME ResultsHold, BusSame, call' = call PROVE ResultsHold'
<1>1. Exclusive'
  BY DEF ResultsHold, Exclusive, Running
<1>2. \A c \in Callers : PlainOK(c)' /\ WriteOK(c)' /\ ReadOK(c)'
  BY CallerSame DEF ResultsHold
<1> QED
  BY <1>1, <1>2 DEF ResultsHold

\* The PWM clock stops: the transfers do not notice.
LEMMA ClockStopsResults == ASSUME ResultsHold, ClockStops PROVE ResultsHold'
<1> DEFINE a == <<"clk", PWMCLK.CNTL>>
           x == Get(a) \ {7}
<1>1. reg' = Put(a, x) /\ UNCHANGED <<fill, smi, served, call>>
  BY DEF ClockStops
<1>2. a \notin Direct
  BY Special DEF Direct, SmiAddr, SmiData
<1> HIDE DEF a, x
<1>3. \A b \in Direct : Get(b)' = Get(b)
  BY <1>1, <1>2, GetPut
<1> QED
  BY <1>1, <1>3, BusQuiet DEF BusSame

\* An event on a pin: the transfers do not notice.
LEMMA EventResults == ASSUME ResultsHold, NEW pin \in Pins, Event(pin) PROVE ResultsHold'
<1> DEFINE a == Bank("GPEDS", pin)
           x == Get(a) \cup Shift(pin)
<1>1. reg' = Put(a, x) /\ UNCHANGED <<fill, smi, served, call>>
  BY DEF Event
<1>2. a \notin Direct
  BY Special DEF Direct, SmiAddr, SmiData, Bank
<1> HIDE DEF a, x
<1>3. \A b \in Direct : Get(b)' = Get(b)
  BY <1>1, <1>2, GetPut
<1> QED
  BY <1>1, <1>3, BusQuiet DEF BusSame

\* The bus finishes the transfer that a caller waits for.
LEMMA SmiFinishPhases ==
    ASSUME SmiFinish, NEW k \in 0..7, NEW A, NEW D
    PROVE  (Writing(k, A, D) => Writing(k, A, D)') /\ (Reading(k, A) => Reading(k, A)')
<1>1. smi # <<>> /\ smi' = <<>> /\ fill' = fill
  BY DEF SmiFinish
<1>2. ASSUME Writing(k, A, D) PROVE Writing(k, A, D)'
  <2>1. k = 5 /\ smi = <<[write |-> TRUE, a |-> A, d |-> D]>>
    BY <1>1, <1>2 DEF Writing
  <2>2. smi[1].write = TRUE /\ smi[1].a = A /\ smi[1].d = D
    BY <2>1
  <2>3. served' = <<A, D>>
    BY <2>2 DEF SmiFinish
  <2> QED
    BY <1>1, <2>1, <2>3 DEF Writing
<1>3. ASSUME Reading(k, A) PROVE Reading(k, A)'
  <2>1. CASE 6 <= k
    BY <2>1 DEF Reading
  <2>2. CASE ~(6 <= k)
    <3>1. k = 4
      BY <1>1, <1>3, <2>2 DEF Reading
    <3>2. smi[1].write = FALSE /\ smi[1].a = A
      BY <1>1, <1>3, <3>1 DEF Reading
    <3> DEFINE x == Get(DirCs) \cup DIRCS.DONE
               s == Over(One(SmiData, Answer(A)), reg)
    <3>3. <<"smi", SMI.DIRDATA>> = SmiData
      BY DEF SMI, SmiData
    <3>4. reg' = Over(One(DirCs, x), s)
      BY <3>2, <3>3 DEF SmiFinish, Put
    <3>5. \A b : /\ b \in DOMAIN s <=> b = SmiData \/ b \in DOMAIN reg
                 /\ b \in DOMAIN s => s[b] = IF b = SmiData THEN Answer(A) ELSE reg[b]
      BY OverReg
    <3> HIDE DEF x, s
    <3>6. \A b : /\ b \in DOMAIN reg' <=> b = DirCs \/ b \in DOMAIN s
                 /\ b \in DOMAIN reg' => reg'[b] = IF b = DirCs THEN x ELSE s[b]
      BY <3>4, OverReg
    <3>7. SmiData \in DOMAIN reg' /\ reg'[SmiData] = Answer(A)
      BY <3>5, <3>6, DirectWords
    <3>8. Get(SmiData)' = Answer(A)
      BY <3>7 DEF Get
    <3> QED
      BY <1>1, <3>1, <3>8 DEF Reading
  <2> QED
    BY <2>1, <2>2
<1> QED
  BY <1>2, <1>3

\* A transfer on the bus ends, its own caller waiting for it or nobody.
LEMMA SmiFinishResults == ASSUME ResultsHold, SmiFinish PROVE ResultsHold'
<1>1. call' = call
  BY DEF SmiFinish
<1>2. Exclusive'
  BY <1>1 DEF ResultsHold, Exclusive, Running
<1>3. ASSUME NEW c \in Callers PROVE PlainOK(c)' /\ WriteOK(c)' /\ ReadOK(c)'
  <2>1. PlainOK(c) /\ WriteOK(c) /\ ReadOK(c)
    BY DEF ResultsHold
  <2>2. PlainOK(c)'
    BY <1>1, <2>1 DEF PlainOK
  <2>3. WriteOK(c)'
    BY <1>1, <2>1, SmiFinishPhases DEF WriteOK
  <2>4. ReadOK(c)'
    BY <1>1, <2>1, SmiFinishPhases DEF ReadOK
  <2> QED
    BY <2>2, <2>3, <2>4
<1> QED
  BY <1>2, <1>3 DEF ResultsHold

\* A step of a caller with the program q that begins with x, and what it leaves alone.
Moves(c, q, x) ==
    /\ q # <<>> /\ fill' = fill /\ served' = served /\ call'[c].name = call[c].name
    /\ \A d \in Callers : d # c => call'[d] = call[d]
    /\ x.op # "fetch" => call'[c].ret = call[c].ret /\ call'[c].truth = call[c].truth /\ call'[c].alone = call[c].alone
    /\ x.op \in {"write", "back"} => HwWrite(x.a, x.v) /\ call'[c].prog = Tail(q)
    /\ x.op = "read" => /\ UNCHANGED <<reg, smi>>
                        /\ \E y : y.a = x.a /\ y.op = "back" /\ call'[c].prog = <<y>> \o Tail(q)
    /\ x.op = "await" => (x.v \subseteq Get(x.a)) = x.clear /\ UNCHANGED <<reg, smi>> /\ call'[c].prog = Tail(q)
    /\ x.op = "test" => /\ UNCHANGED <<reg, smi>>
                        /\ call'[c].prog = IF x.v \subseteq Get(x.a) THEN Tail(q) ELSE Tail(Tail(q))
    /\ x.op = "fetch" => /\ UNCHANGED <<reg, smi>> /\ call'[c].prog = Tail(q)
                         /\ call'[c].ret = Result(x.v, HwRead(x.a)) /\ call'[c].truth = Truth(x.v)
                         /\ call'[c].alone => call[c].alone /\ lost = {}
    /\ x.op \in {"write", "back", "read", "await", "test", "fetch"}

\* A step of a caller is such a move.
LEMMA StepIs ==
    ASSUME CallersOK, NEW c \in Callers, Step(c), NEW q, q = call[c].prog, NEW x, x = Head(q)
    PROVE  Moves(c, q, x)
<1>1. PICK r : r = call[c]
  OBVIOUS
<1>2. r = [name |-> r.name, prog |-> r.prog, ret |-> r.ret, truth |-> r.truth, alone |-> r.alone]
  BY <1>1 DEF CallersOK, IsCall
<1>3. call = [d \in Callers |-> call[d]]
  BY DEF CallersOK
<1>4. ASSUME NEW rest, call' = [call EXCEPT ![c].prog = rest]
      PROVE  /\ \A d \in Callers : d # c => call'[d] = call[d]
             /\ call'[c].name = r.name /\ call'[c].prog = rest /\ call'[c].ret = r.ret
             /\ call'[c].truth = r.truth /\ call'[c].alone = r.alone
  <2>1. \A d \in Callers : d # c => call'[d] = call[d]
    BY <1>3, <1>4
  <2>2. call'[c] = [r EXCEPT !.prog = rest]
    BY <1>1, <1>3, <1>4
  <2>3. call'[c] = [name |-> r.name, prog |-> rest, ret |-> r.ret, truth |-> r.truth, alone |-> r.alone]
    BY <1>2, <2>2
  <2> QED
    BY <2>1, <2>3
<1>5. q # <<>> /\ fill' = fill /\ served' = served
  BY DEF Step
<1>6. CASE x.op = "write"
  <2>1. HwWrite(x.a, x.v) /\ call' = [call EXCEPT ![c].prog = Tail(q)]
    BY <1>6 DEF Step
  <2> QED
    BY <1>1, <1>4, <1>5, <1>6, <2>1 DEF Moves
<1>7. CASE x.op = "back"
  <2>1. HwWrite(x.a, x.v) /\ call' = [call EXCEPT ![c].prog = Tail(q)]
    BY <1>7 DEF Step
  <2> QED
    BY <1>1, <1>4, <1>5, <1>7, <2>1 DEF Moves
<1>8. CASE x.op = "read"
  <2> DEFINE y == [x EXCEPT !.op = "back", !.v = (Get(x.a) \ x.clear) \cup x.v, !.clear = Get(x.a)]
  <2>1. UNCHANGED <<reg, smi>> /\ call' = [call EXCEPT ![c].prog = <<y>> \o Tail(q)]
    BY <1>8 DEF Step
  <2>2. y.a = x.a /\ y.op = "back"
    <3>1. Access(x)
      BY <1>5, TailProg DEF CallersOK, IsCall
    <3>2. x = [op |-> x.op, a |-> x.a, v |-> x.v, clear |-> x.clear, set |-> x.set]
      BY <3>1 DEF Access
    <3> QED
      BY <3>2
  <2> HIDE DEF y
  <2>3. PICK rest : rest = <<y>> \o Tail(q)
    OBVIOUS
  <2>4. call' = [call EXCEPT ![c].prog = rest]
    BY <2>1, <2>3
  <2>5. /\ \A d \in Callers : d # c => call'[d] = call[d]
        /\ call'[c].name = r.name /\ call'[c].prog = rest /\ call'[c].ret = r.ret
        /\ call'[c].truth = r.truth /\ call'[c].alone = r.alone
    BY <1>4, <2>4
  <2>6. \E z : z.a = x.a /\ z.op = "back" /\ call'[c].prog = <<z>> \o Tail(q)
    BY <2>2, <2>3, <2>5
  <2> QED
    BY <1>1, <1>5, <1>8, <2>1, <2>5, <2>6 DEF Moves
<1>9. CASE x.op = "await"
  <2>1. (x.v \subseteq Get(x.a)) = x.clear /\ UNCHANGED <<reg, smi>> /\ call' = [call EXCEPT ![c].prog = Tail(q)]
    BY <1>9 DEF Step
  <2> QED
    BY <1>1, <1>4, <1>5, <1>9, <2>1 DEF Moves
<1>10. CASE x.op = "test"
  <2>1. UNCHANGED <<reg, smi>> /\ call' = [call EXCEPT ![c].prog = IF x.v \subseteq Get(x.a) THEN Tail(q) ELSE Tail(Tail(q))]
    BY <1>10 DEF Step
  <2> QED
    BY <1>1, <1>4, <1>5, <1>10, <2>1 DEF Moves
<1>11. CASE x.op = "fetch"
  <2>1. PICK ret, truth : ret = Result(x.v, HwRead(x.a)) /\ truth = Truth(x.v)
    OBVIOUS
  <2>2. UNCHANGED <<reg, smi>> /\ call' = [call EXCEPT ![c].prog = Tail(q), ![c].ret = ret, ![c].truth = truth,
                                                       ![c].alone = @ /\ lost = {}]
    BY <1>11, <2>1 DEF Step
  <2>3. \A d \in Callers : d # c => call'[d] = call[d]
    BY <1>3, <2>2
  <2>4. PICK alone : alone = (r.alone /\ lost = {})
    OBVIOUS
  <2>5. call'[c] = [r EXCEPT !.prog = Tail(q), !.ret = ret, !.truth = truth, !.alone = alone]
    BY <1>1, <1>2, <1>3, <2>2, <2>4
  <2>6. call'[c] = [name |-> r.name, prog |-> Tail(q), ret |-> ret, truth |-> truth, alone |-> alone]
    BY <1>2, <2>5
  <2>7. /\ call'[c].name = r.name /\ call'[c].prog = Tail(q) /\ call'[c].ret = ret
        /\ call'[c].truth = truth /\ call'[c].alone = alone
    BY <2>6
  <2>8. call'[c].alone => call[c].alone /\ lost = {}
    BY <1>1, <2>4, <2>7
  <2> QED
    BY <1>1, <1>5, <1>11, <2>1, <2>2, <2>3, <2>7, <2>8 DEF Moves
<1>12. x.op \in {"write", "back", "read", "await", "test", "fetch"}
  BY DEF Step
<1> QED
  BY <1>6, <1>7, <1>8, <1>9, <1>10, <1>11, <1>12

\* Writes to the registers of the direct transfers, one by one.
LEMMA DirectWrites ==
    ASSUME NEW a, NEW v, HwWrite(a, v), fill' = fill
    PROVE  /\ a = DirCs /\ v = {2} => 2 \notin Get(DirCs)' /\ smi' = smi
           /\ a = SmiAddr => Get(SmiAddr)' = v /\ Get(DirCs)' = Get(DirCs) /\ smi' = smi
           /\ a = SmiData => Get(SmiData)' = v /\ Get(SmiAddr)' = Get(SmiAddr) /\ Get(DirCs)' = Get(DirCs) /\ smi' = smi
           /\ a = DirCs /\ v \in {{0, 1}, {0, 1, 3}} =>
                 /\ 2 \notin Get(DirCs) => 2 \notin Get(DirCs)'
                 /\ smi' = <<[write |-> 3 \in v, a |-> Get(SmiAddr), d |-> Get(SmiData)]>>
<1> SUFFICES ASSUME a \in Direct
             PROVE  /\ a = DirCs /\ v = {2} => 2 \notin Get(DirCs)' /\ smi' = smi
                    /\ a = SmiAddr => Get(SmiAddr)' = v /\ Get(DirCs)' = Get(DirCs) /\ smi' = smi
                    /\ a = SmiData => /\ Get(SmiData)' = v /\ Get(SmiAddr)' = Get(SmiAddr)
                                      /\ Get(DirCs)' = Get(DirCs) /\ smi' = smi
                    /\ a = DirCs /\ v \in {{0, 1}, {0, 1, 3}} =>
                          /\ 2 \notin Get(DirCs) => 2 \notin Get(DirCs)'
                          /\ smi' = <<[write |-> 3 \in v, a |-> Get(SmiAddr), d |-> Get(SmiData)]>>
  BY DEF Direct
<1>1. /\ \A b : Get(b)' = IF b # a THEN Get(b) ELSE IF a = DirCs THEN (v \ {1, 2}) \cup ({2} \cap (Get(a) \ v)) ELSE v
      /\ smi' = IF a = DirCs /\ 1 \in v
                THEN <<[write |-> 3 \in v, a |-> Get(SmiAddr), d |-> Get(SmiData)]>> ELSE smi
  BY BusWrite
<1>2. ASSUME a = DirCs, v = {2} PROVE 2 \notin Get(DirCs)' /\ smi' = smi
  BY <1>1, <1>2
<1>3. ASSUME a = SmiAddr PROVE Get(SmiAddr)' = v /\ Get(DirCs)' = Get(DirCs) /\ smi' = smi
  BY <1>1, <1>3, DirectWords
<1>4. ASSUME a = SmiData
      PROVE  Get(SmiData)' = v /\ Get(SmiAddr)' = Get(SmiAddr) /\ Get(DirCs)' = Get(DirCs) /\ smi' = smi
  BY <1>1, <1>4, DirectWords
<1>5. ASSUME a = DirCs, v \in {{0, 1}, {0, 1, 3}}
      PROVE  /\ 2 \notin Get(DirCs) => 2 \notin Get(DirCs)'
             /\ smi' = <<[write |-> 3 \in v, a |-> Get(SmiAddr), d |-> Get(SmiData)]>>
  <2>1. 1 \in v /\ 2 \notin v
    BY <1>5
  <2>2. Get(DirCs)' = (v \ {1, 2}) \cup ({2} \cap (Get(DirCs) \ v))
    BY <1>1, <1>5
  <2> QED
    BY <1>1, <1>5, <2>1, <2>2
<1> QED
  BY <1>2, <1>3, <1>4, <1>5

\* The bus from one access of a write to the next.
LEMMA WritingMoves ==
    ASSUME fill' = fill, served' = served, NEW k \in 0..7, NEW A, NEW D, Writing(k, A, D)
    PROVE  /\ k = 0 /\ BusSame => Writing(k + 1, A, D)' /\ (2 \notin Get(DirCs) => Writing(k + 2, A, D)')
           /\ k = 1 /\ HwWrite(DirCs, {2}) => Writing(k + 1, A, D)'
           /\ k = 2 /\ HwWrite(SmiAddr, A) => Writing(k + 1, A, D)'
           /\ k = 3 /\ HwWrite(SmiData, D) => Writing(k + 1, A, D)'
           /\ k = 4 /\ HwWrite(DirCs, {0, 1, 3}) => Writing(k + 1, A, D)'
           /\ k = 5 /\ BusSame /\ 2 \in Get(DirCs) => Writing(k + 1, A, D)'
           /\ k = 6 /\ HwWrite(DirCs, {2}) => Writing(k + 1, A, D)'
<1>1. ASSUME BusSame
      PROVE  smi' = smi /\ Get(DirCs)' = Get(DirCs) /\ Get(SmiAddr)' = Get(SmiAddr) /\ Get(SmiData)' = Get(SmiData)
  BY <1>1 DEF BusSame, Direct
<1>2. ASSUME k = 0, BusSame PROVE Writing(k + 1, A, D)' /\ (2 \notin Get(DirCs) => Writing(k + 2, A, D)')
  BY <1>1, <1>2 DEF Writing
<1>3. ASSUME k = 1, HwWrite(DirCs, {2}) PROVE Writing(k + 1, A, D)'
  <2>1. 2 \notin Get(DirCs)' /\ smi' = smi
    BY <1>3, DirectWrites
  <2> QED
    BY <1>3, <2>1 DEF Writing
<1>4. ASSUME k = 2, HwWrite(SmiAddr, A) PROVE Writing(k + 1, A, D)'
  <2>1. Get(SmiAddr)' = A /\ Get(DirCs)' = Get(DirCs) /\ smi' = smi
    BY <1>4, DirectWrites
  <2> QED
    BY <1>4, <2>1 DEF Writing
<1>5. ASSUME k = 3, HwWrite(SmiData, D) PROVE Writing(k + 1, A, D)'
  <2>1. Get(SmiData)' = D /\ Get(SmiAddr)' = Get(SmiAddr) /\ Get(DirCs)' = Get(DirCs) /\ smi' = smi
    BY <1>5, DirectWrites
  <2> QED
    BY <1>5, <2>1 DEF Writing
<1>6. ASSUME k = 4, HwWrite(DirCs, {0, 1, 3}) PROVE Writing(k + 1, A, D)'
  <2>1. PICK v : v = {0, 1, 3}
    OBVIOUS
  <2>2. /\ 2 \notin Get(DirCs) => 2 \notin Get(DirCs)'
        /\ smi' = <<[write |-> 3 \in v, a |-> Get(SmiAddr), d |-> Get(SmiData)]>>
    BY <1>6, <2>1, DirectWrites
  <2>3. (3 \in v) = TRUE
    BY <2>1
  <2>4. 2 \notin Get(DirCs) /\ Get(SmiAddr) = A /\ Get(SmiData) = D
    BY <1>6 DEF Writing
  <2>5. smi' = <<[write |-> TRUE, a |-> A, d |-> D]>> /\ 2 \notin Get(DirCs)'
    BY <2>2, <2>3, <2>4
  <2> QED
    BY <1>6, <2>5 DEF Writing
<1>7. ASSUME k = 5, BusSame, 2 \in Get(DirCs) PROVE Writing(k + 1, A, D)'
  BY <1>1, <1>7 DEF Writing
<1>8. ASSUME k = 6, HwWrite(DirCs, {2}) PROVE Writing(k + 1, A, D)'
  <2>1. smi' = smi
    BY <1>8, DirectWrites
  <2> QED
    BY <1>8, <2>1 DEF Writing
<1> QED
  BY <1>2, <1>3, <1>4, <1>5, <1>6, <1>7, <1>8

\* The bus from one access of a read to the next.
LEMMA ReadingMoves ==
    ASSUME fill' = fill, served' = served, NEW k \in 0..7, NEW A, Reading(k, A)
    PROVE  /\ k = 0 /\ BusSame => Reading(k + 1, A)' /\ (2 \notin Get(DirCs) => Reading(k + 2, A)')
           /\ k = 1 /\ HwWrite(DirCs, {2}) => Reading(k + 1, A)'
           /\ k = 2 /\ HwWrite(SmiAddr, A) => Reading(k + 1, A)'
           /\ k = 3 /\ HwWrite(DirCs, {0, 1}) => Reading(k + 1, A)'
           /\ k = 4 /\ BusSame /\ 2 \in Get(DirCs) => Reading(k + 1, A)'
           /\ k = 5 => Reading(k + 1, A)'
           /\ k = 6 => Reading(k + 1, A)'
<1>1. ASSUME BusSame
      PROVE  smi' = smi /\ Get(DirCs)' = Get(DirCs) /\ Get(SmiAddr)' = Get(SmiAddr) /\ Get(SmiData)' = Get(SmiData)
  BY <1>1 DEF BusSame, Direct
<1>2. ASSUME k = 0, BusSame PROVE Reading(k + 1, A)' /\ (2 \notin Get(DirCs) => Reading(k + 2, A)')
  BY <1>1, <1>2 DEF Reading
<1>3. ASSUME k = 1, HwWrite(DirCs, {2}) PROVE Reading(k + 1, A)'
  <2>1. 2 \notin Get(DirCs)' /\ smi' = smi
    BY <1>3, DirectWrites
  <2> QED
    BY <1>3, <2>1 DEF Reading
<1>4. ASSUME k = 2, HwWrite(SmiAddr, A) PROVE Reading(k + 1, A)'
  <2>1. Get(SmiAddr)' = A /\ Get(DirCs)' = Get(DirCs) /\ smi' = smi
    BY <1>4, DirectWrites
  <2> QED
    BY <1>4, <2>1 DEF Reading
<1>5. ASSUME k = 3, HwWrite(DirCs, {0, 1}) PROVE Reading(k + 1, A)'
  <2>1. PICK v, d : v = {0, 1} /\ d = Get(SmiData)
    OBVIOUS
  <2>2. /\ 2 \notin Get(DirCs) => 2 \notin Get(DirCs)'
        /\ smi' = <<[write |-> 3 \in v, a |-> Get(SmiAddr), d |-> d]>>
    BY <1>5, <2>1, DirectWrites
  <2>3. (3 \in v) = FALSE
    BY <2>1
  <2>4. 2 \notin Get(DirCs) /\ Get(SmiAddr) = A
    BY <1>5 DEF Reading
  <2>5. smi' = <<[write |-> FALSE, a |-> A, d |-> d]>> /\ 2 \notin Get(DirCs)'
    BY <2>2, <2>3, <2>4
  <2>6. smi' # <<>> /\ smi'[1].write = FALSE /\ smi'[1].a = A /\ 2 \notin Get(DirCs)'
    BY <2>5
  <2> QED
    BY <1>5, <2>6 DEF Reading
<1>6. ASSUME k = 4, BusSame, 2 \in Get(DirCs) PROVE Reading(k + 1, A)'
  BY <1>1, <1>6 DEF Reading
<1>7. ASSUME k = 5 \/ k = 6 PROVE Reading(k + 1, A)'
  BY <1>7 DEF Reading
<1> QED
  BY <1>2, <1>3, <1>4, <1>5, <1>6, <1>7

\* Registers that are only read.
LEMMA BusRead == ASSUME UNCHANGED <<reg, smi>>, fill' = fill, served' = served PROVE BusSame
  BY DEF BusSame, Get

\* A step of a call outside the transfers.
LEMMA PlainStep ==
    ASSUME Inv, NEW c \in Callers, Step(c), PlainOK(c), call[c].name \notin Transfers
    PROVE  BusSame /\ PlainOK(c)'
<1>1. CallersOK /\ FieldsHold
  BY DEF Inv
<1>2. PICK q : q = call[c].prog
  OBVIOUS
<1>3. PICK x : x = Head(q)
  OBVIOUS
<1>4. Moves(c, q, x)
  BY <1>1, <1>2, <1>3, StepIs
<1>5. PlainProg(q) /\ (call[c].alone => call[c].ret = call[c].truth)
  BY <1>2 DEF PlainOK
<1>6. q # <<>> /\ fill' = fill /\ served' = served /\ call'[c].name = call[c].name
      /\ x.op \in {"write", "back", "read", "await", "test", "fetch"}
  BY <1>4 DEF Moves
<1>7. Plain(x) /\ PlainProg(Tail(q))
  BY <1>3, <1>5, <1>6, PlainTail
<1>8. x.a \notin Direct /\ (x.op = "fetch" => LookAt(x.v, x.a))
  BY <1>7 DEF Plain
<1>9. IsProg(q)
  BY <1>1, <1>2 DEF CallersOK, IsCall
<1>10. BusSame
  <2>1. CASE x.op \in {"write", "back"}
    <3>1. HwWrite(x.a, x.v)
      BY <1>4, <2>1 DEF Moves
    <3> QED
      BY <1>6, <1>8, <3>1, BusAway
  <2>2. CASE x.op \notin {"write", "back"}
    <3>1. UNCHANGED <<reg, smi>>
      BY <1>4, <1>6, <2>2 DEF Moves
    <3> QED
      BY <1>6, <3>1, BusRead
  <2> QED
    BY <2>1, <2>2
<1>11. PlainProg(call'[c].prog)
  <2>1. CASE x.op = "read"
    <3>1. PICK y : y.a = x.a /\ y.op = "back" /\ call'[c].prog = <<y>> \o Tail(q)
      BY <1>4, <2>1 DEF Moves
    <3>2. Plain(y)
      BY <1>8, <3>1 DEF Plain
    <3>3. PlainProg(<<y>>)
      BY <3>2, PlainOne
    <3>4. PlainProg(<<y>> \o Tail(q))
      BY <1>7, <3>3, PlainBoth
    <3> QED
      BY <3>1, <3>4
  <2>2. CASE x.op = "test"
    <3>1. Tail(q) # <<>>
      BY <1>3, <1>6, <1>9, <2>2 DEF IsProg
    <3>2. PICK z : z = Tail(q)
      OBVIOUS
    <3>3. PlainProg(Tail(z))
      BY <1>7, <3>1, <3>2, PlainTail
    <3>4. call'[c].prog = Tail(q) \/ call'[c].prog = Tail(z)
      BY <1>4, <2>2, <3>2 DEF Moves
    <3> QED
      BY <1>7, <3>3, <3>4
  <2>3. CASE x.op \notin {"read", "test"}
    <3>1. call'[c].prog = Tail(q)
      BY <1>4, <1>6, <2>3 DEF Moves
    <3> QED
      BY <1>7, <3>1
  <2> QED
    BY <2>1, <2>2, <2>3
<1>12. call'[c].alone => call'[c].ret = call'[c].truth
  <2>1. CASE x.op = "fetch"
    <3>1. /\ call'[c].ret = Result(x.v, HwRead(x.a)) /\ call'[c].truth = Truth(x.v) /\ (call'[c].alone => lost = {})
      BY <1>4, <2>1 DEF Moves
    <3>2. lost = {} => Result(x.v, HwRead(x.a)) = Truth(x.v)
      BY <1>1, <1>8, <2>1, ReadExact
    <3> QED
      BY <3>1, <3>2
  <2>2. CASE x.op # "fetch"
    <3>1. call'[c].ret = call[c].ret /\ call'[c].truth = call[c].truth /\ call'[c].alone = call[c].alone
      BY <1>4, <2>2 DEF Moves
    <3> QED
      BY <1>5, <3>1
  <2> QED
    BY <2>1, <2>2
<1> QED
  BY <1>10, <1>11, <1>12 DEF PlainOK

\* A step of smi_write.
LEMMA WriteTransferStep ==
    ASSUME Inv, NEW c \in Callers, Step(c), WriteOK(c), call[c].name = "smi_write"
    PROVE  WriteOK(c)' /\ (call'[c].alone => call[c].alone)
<1>1. CallersOK
  BY DEF Inv
<1>2. PICK q : q = call[c].prog
  OBVIOUS
<1>3. PICK x : x = Head(q)
  OBVIOUS
<1>4. Moves(c, q, x)
  BY <1>1, <1>2, <1>3, StepIs
<1>5. q # <<>> /\ fill' = fill /\ served' = served /\ call'[c].name = call[c].name
  BY <1>4 DEF Moves
<1>6. PICK ch \in {0, 3}, k \in 0..7 :
         /\ Rest(q, smi_write(ch, \hA5, 5), k)
         /\ call[c].alone => Writing(k, Addressed(ch, 5), Bits(\hA5, 0))
  BY <1>2 DEF WriteOK
<1>7. PICK w : w = smi_write(ch, \hA5, 5)
  OBVIOUS
<1>8. PICK A, D : A = Addressed(ch, 5) /\ D = Bits(\hA5, 0)
  OBVIOUS
<1>9. IsProg(q)
  BY <1>1, <1>2 DEF CallersOK, IsCall
<1>10. PICK S : q \in Seq(S)
  BY <1>9 DEF IsProg
<1>11. Rest(q, w, k)
  BY <1>6, <1>7
<1>12. /\ k < 7 /\ k + 1 \in 0..7 /\ x = w[k + 1] /\ Rest(Tail(q), w, k + 1)
       /\ k < 6 => k + 2 \in 0..7 /\ Rest(Tail(Tail(q)), w, k + 2)
  BY <1>3, <1>5, <1>10, <1>11, RestTail
<1>13. /\ w[1] = Test(DirCs, {2}) /\ w[2] = peri_write(DirCs, {2}, nothing)
       /\ w[3] = peri_write(SmiAddr, A, nothing) /\ w[4] = peri_write(SmiData, D, nothing)
       /\ w[5] = peri_write(DirCs, {0, 1, 3}, nothing) /\ w[6] = Await(DirCs, {2}, TRUE)
       /\ w[7] = peri_write(DirCs, {2}, nothing)
  <2>1. WriteAt(smi_write(ch, \hA5, 5), Addressed(ch, 5), Bits(\hA5, 0))
    BY WriteAccesses
  <2>2. WriteAt(w, A, D)
    BY <1>7, <1>8, <2>1, Zenon
  <2> QED
    BY <2>2, Zenon DEF WriteAt
<1>14. call[c].alone => Writing(k, A, D)
  BY <1>6, <1>8
<1>15. ASSUME NEW j \in 0..7, Rest(call'[c].prog, w, j), call'[c].alone => Writing(j, A, D)'
       PROVE  WriteOK(c)'
  <2>1. Rest(call'[c].prog, smi_write(ch, \hA5, 5), j)
    BY <1>7, <1>15
  <2>2. call'[c].alone => Writing(j, Addressed(ch, 5), Bits(\hA5, 0))'
    BY <1>8, <1>15
  <2> QED
    BY <2>1, <2>2 DEF WriteOK
<1>16. ASSUME NEW a, NEW v, x = peri_write(a, v, nothing)
       PROVE  HwWrite(a, v) /\ call'[c].alone = call[c].alone /\ call'[c].prog = Tail(q)
              /\ call'[c].ret = call[c].ret /\ call'[c].truth = call[c].truth
  <2>1. x.op = "write" /\ x.a = a /\ x.v = v
    BY <1>16 DEF peri_write
  <2> QED
    BY <1>4, <2>1 DEF Moves
<1>17. CASE k = 0
  <2>1. k + 1 = 1
    BY <1>17
  <2>2. x = w[1]
    BY <1>12, <2>1
  <2>3. x.op = "test" /\ x.a = DirCs /\ x.v = {2}
    BY <1>13, <2>2 DEF Test
  <2>4. /\ UNCHANGED <<reg, smi>> /\ call'[c].alone = call[c].alone
        /\ call'[c].prog = IF {2} \subseteq Get(DirCs) THEN Tail(q) ELSE Tail(Tail(q))
    BY <1>4, <2>3 DEF Moves
  <2>5. BusSame
    BY <1>5, <2>4, BusRead
  <2>6. call[c].alone => Writing(k + 1, A, D)' /\ (2 \notin Get(DirCs) => Writing(k + 2, A, D)')
    BY <1>5, <1>14, <1>17, <2>5, WritingMoves
  <2>7. ~(6 <= k + 1) /\ ~(6 <= k + 2) /\ k < 6
    BY <1>17
  <2>8. CASE 2 \in Get(DirCs)
    <3>1. call'[c].prog = Tail(q)
      BY <2>4, <2>8
    <3> QED
      BY <1>12, <1>15, <2>4, <2>6, <2>7, <3>1
  <2>9. CASE 2 \notin Get(DirCs)
    <3>1. call'[c].prog = Tail(Tail(q))
      BY <2>4, <2>9
    <3>2. k + 2 \in 0..7 /\ Rest(Tail(Tail(q)), w, k + 2)
      BY <1>12, <2>7
    <3> QED
      BY <1>15, <2>4, <2>6, <2>7, <2>9, <3>1, <3>2
  <2> QED
    BY <2>4, <2>8, <2>9
<1>18. CASE k = 1
  <2>1. k + 1 = 2
    BY <1>18
  <2>2. x = w[2]
    BY <1>12, <2>1
  <2>3. x = peri_write(DirCs, {2}, nothing)
    BY <1>13, <2>2
  <2>4. HwWrite(DirCs, {2}) /\ call'[c].alone = call[c].alone /\ call'[c].prog = Tail(q)
        /\ call'[c].ret = call[c].ret /\ call'[c].truth = call[c].truth
    BY <1>16, <2>3
  <2>5. call[c].alone => Writing(k + 1, A, D)'
    BY <1>5, <1>14, <1>18, <2>4, WritingMoves
  <2> QED
    BY <1>12, <1>15, <2>4, <2>5
<1>19. CASE k = 2
  <2>1. k + 1 = 3
    BY <1>19
  <2>2. x = w[3]
    BY <1>12, <2>1
  <2>3. x = peri_write(SmiAddr, A, nothing)
    BY <1>13, <2>2
  <2>4. HwWrite(SmiAddr, A) /\ call'[c].alone = call[c].alone /\ call'[c].prog = Tail(q)
        /\ call'[c].ret = call[c].ret /\ call'[c].truth = call[c].truth
    BY <1>16, <2>3
  <2>5. call[c].alone => Writing(k + 1, A, D)'
    BY <1>5, <1>14, <1>19, <2>4, WritingMoves
  <2> QED
    BY <1>12, <1>15, <2>4, <2>5
<1>20. CASE k = 3
  <2>1. k + 1 = 4
    BY <1>20
  <2>2. x = w[4]
    BY <1>12, <2>1
  <2>3. x = peri_write(SmiData, D, nothing)
    BY <1>13, <2>2
  <2>4. HwWrite(SmiData, D) /\ call'[c].alone = call[c].alone /\ call'[c].prog = Tail(q)
        /\ call'[c].ret = call[c].ret /\ call'[c].truth = call[c].truth
    BY <1>16, <2>3
  <2>5. call[c].alone => Writing(k + 1, A, D)'
    BY <1>5, <1>14, <1>20, <2>4, WritingMoves
  <2> QED
    BY <1>12, <1>15, <2>4, <2>5
<1>21. CASE k = 4
  <2>1. k + 1 = 5
    BY <1>21
  <2>2. x = w[5]
    BY <1>12, <2>1
  <2>3. x = peri_write(DirCs, {0, 1, 3}, nothing)
    BY <1>13, <2>2
  <2>4. HwWrite(DirCs, {0, 1, 3}) /\ call'[c].alone = call[c].alone /\ call'[c].prog = Tail(q)
        /\ call'[c].ret = call[c].ret /\ call'[c].truth = call[c].truth
    BY <1>16, <2>3
  <2>5. call[c].alone => Writing(k + 1, A, D)'
    BY <1>5, <1>14, <1>21, <2>4, WritingMoves
  <2> QED
    BY <1>12, <1>15, <2>4, <2>5
<1>22. CASE k = 5
  <2>1. k + 1 = 6
    BY <1>22
  <2>2. x = w[6]
    BY <1>12, <2>1
  <2>3. x.op = "await" /\ x.a = DirCs /\ x.v = {2} /\ x.clear = TRUE
    BY <1>13, <2>2 DEF Await
  <2>4. UNCHANGED <<reg, smi>> /\ call'[c].alone = call[c].alone /\ call'[c].prog = Tail(q) /\ 2 \in Get(DirCs)
    BY <1>4, <2>3 DEF Moves
  <2>5. BusSame
    BY <1>5, <2>4, BusRead
  <2>6. call[c].alone => Writing(k + 1, A, D)'
    BY <1>5, <1>14, <1>22, <2>4, <2>5, WritingMoves
  <2> QED
    BY <1>12, <1>15, <2>4, <2>6
<1>23. CASE k = 6
  <2>1. k + 1 = 7
    BY <1>23
  <2>2. x = w[7]
    BY <1>12, <2>1
  <2>3. x = peri_write(DirCs, {2}, nothing)
    BY <1>13, <2>2
  <2>4. HwWrite(DirCs, {2}) /\ call'[c].alone = call[c].alone /\ call'[c].prog = Tail(q)
        /\ call'[c].ret = call[c].ret /\ call'[c].truth = call[c].truth
    BY <1>16, <2>3
  <2>5. call[c].alone => Writing(k + 1, A, D)'
    BY <1>5, <1>14, <1>23, <2>4, WritingMoves
  <2> QED
    BY <1>12, <1>15, <2>4, <2>5
<1> QED
  BY <1>12, <1>17, <1>18, <1>19, <1>20, <1>21, <1>22, <1>23

\* What smi_read makes of the data register, and what it should return.
LEMMA ReadAnswer ==
    ASSUME NEW ch \in {0, 3}, NEW r, r = <<"smi_read", ch, \h2A>>
    PROVE  Result(r, HwRead(SmiData)) = Get(SmiData) /\ Truth(r) = Answer(Addressed(ch, \h2A))
<1>1. r[1] = "smi_read" /\ r[2] = ch /\ r[3] = \h2A
  OBVIOUS
<1>2. HwRead(SmiData) = Get(SmiData)
  BY HwReadIs DEF SmiData
<1>3. Result(r, HwRead(SmiData)) = Get(SmiData)
  BY <1>1, <1>2 DEF Result
<1>4. Truth(r) = Answer(Bits(256 * ch + \h2A, 0))
  BY <1>1 DEF Truth
<1>5. Bits(256 * ch + \h2A, 0) = Addressed(ch, \h2A)
  <2>1. /\ ~Odd(42, 0) /\ Odd(42, 1) /\ ~Odd(42, 2) /\ Odd(42, 3) /\ ~Odd(42, 4)
        /\ Odd(42, 5) /\ ~Odd(42, 6) /\ ~Odd(42, 7) /\ ~Odd(42, 8)
        /\ ~Odd(42, 9) /\ ~Odd(42, 10) /\ ~Odd(42, 11) /\ ~Odd(42, 12) /\ ~Odd(42, 13)
        /\ ~Odd(42, 14) /\ ~Odd(42, 15) /\ ~Odd(42, 16) /\ ~Odd(42, 17)
    BY Powers DEF Odd
  <2>2. /\ ~Odd(810, 0) /\ Odd(810, 1) /\ ~Odd(810, 2) /\ Odd(810, 3) /\ ~Odd(810, 4)
        /\ Odd(810, 5) /\ ~Odd(810, 6) /\ ~Odd(810, 7) /\ Odd(810, 8)
        /\ Odd(810, 9) /\ ~Odd(810, 10) /\ ~Odd(810, 11) /\ ~Odd(810, 12) /\ ~Odd(810, 13)
        /\ ~Odd(810, 14) /\ ~Odd(810, 15) /\ ~Odd(810, 16) /\ ~Odd(810, 17)
    BY Powers DEF Odd
  <2> HIDE DEF Odd
  <2>3. \A j \in 0..17 : Odd(42, j) <=> j \in {1, 3, 5}
    BY <2>1
  <2>4. \A j \in 0..17 : Odd(810, j) <=> j \in {1, 3, 5, 8, 9}
    BY <2>2
  <2>5. Bits(42, 0) = {1, 3, 5} /\ Bits(810, 0) = {1, 3, 5, 8, 9}
    BY <2>3, <2>4, BitsAre
  <2>6. Bits(0, 8) = {} /\ Bits(3, 8) = {8, 9}
    BY BitsSmall
  <2>7. CASE ch = 0
    <3>1. 256 * ch + 42 = 42 /\ 42 % 64 = 42
      BY <2>7
    <3> QED
      BY <2>5, <2>6, <2>7, <3>1 DEF Addressed
  <2>8. CASE ch = 3
    <3>1. 256 * ch + 42 = 810 /\ 42 % 64 = 42
      BY <2>8
    <3> QED
      BY <2>5, <2>6, <2>8, <3>1 DEF Addressed
  <2> QED
    BY <2>7, <2>8
<1> QED
  BY <1>3, <1>4, <1>5

\* A step of smi_read.
LEMMA ReadTransferStep ==
    ASSUME Inv, NEW c \in Callers, Step(c), ReadOK(c), call[c].name = "smi_read"
    PROVE  ReadOK(c)' /\ (call'[c].alone => call[c].alone)
<1>1. CallersOK
  BY DEF Inv
<1>2. PICK q : q = call[c].prog
  OBVIOUS
<1>3. PICK x : x = Head(q)
  OBVIOUS
<1>4. Moves(c, q, x)
  BY <1>1, <1>2, <1>3, StepIs
<1>5. q # <<>> /\ fill' = fill /\ served' = served /\ call'[c].name = call[c].name
  BY <1>4 DEF Moves
<1>6. PICK ch \in {0, 3}, k \in 0..7 :
         /\ Rest(q, smi_read(ch, \h2A), k)
         /\ call[c].alone => Reading(k, Addressed(ch, \h2A)) /\ (6 <= k => call[c].ret = call[c].truth)
  BY <1>2 DEF ReadOK
<1>7. PICK w : w = smi_read(ch, \h2A)
  OBVIOUS
<1>8. PICK A : A = Addressed(ch, \h2A)
  OBVIOUS
<1>9. IsProg(q)
  BY <1>1, <1>2 DEF CallersOK, IsCall
<1>10. PICK S : q \in Seq(S)
  BY <1>9 DEF IsProg
<1>11. Rest(q, w, k)
  BY <1>6, <1>7
<1>12. /\ k < 7 /\ k + 1 \in 0..7 /\ x = w[k + 1] /\ Rest(Tail(q), w, k + 1)
       /\ k < 6 => k + 2 \in 0..7 /\ Rest(Tail(Tail(q)), w, k + 2)
  BY <1>3, <1>5, <1>10, <1>11, RestTail
<1>13. /\ w[1] = Test(DirCs, {2}) /\ w[2] = peri_write(DirCs, {2}, nothing)
       /\ w[3] = peri_write(SmiAddr, A, nothing) /\ w[4] = peri_write(DirCs, {0, 1}, nothing)
       /\ w[5] = Await(DirCs, {2}, TRUE) /\ w[6] = Fetch(SmiData, <<"smi_read", ch, \h2A>>)
       /\ w[7] = peri_write(DirCs, {2}, nothing)
  <2>1. ReadAt(smi_read(ch, \h2A), Addressed(ch, \h2A), <<"smi_read", ch, \h2A>>)
    BY ReadAccesses
  <2>2. ReadAt(w, A, <<"smi_read", ch, \h2A>>)
    BY <1>7, <1>8, <2>1, Zenon
  <2> QED
    BY <2>2, Zenon DEF ReadAt
<1>14. call[c].alone => Reading(k, A) /\ (6 <= k => call[c].ret = call[c].truth)
  BY <1>6, <1>8
<1>15. ASSUME NEW j \in 0..7, Rest(call'[c].prog, w, j),
              call'[c].alone => Reading(j, A)' /\ (6 <= j => call'[c].ret = call'[c].truth)
       PROVE  ReadOK(c)'
  <2>1. Rest(call'[c].prog, smi_read(ch, \h2A), j)
    BY <1>7, <1>15
  <2>2. call'[c].alone => /\ Reading(j, Addressed(ch, \h2A))'
                          /\ 6 <= j => call'[c].ret = call'[c].truth
    BY <1>8, <1>15
  <2> QED
    BY <2>1, <2>2 DEF ReadOK
<1>16. ASSUME NEW a, NEW v, x = peri_write(a, v, nothing)
       PROVE  HwWrite(a, v) /\ call'[c].alone = call[c].alone /\ call'[c].prog = Tail(q)
              /\ call'[c].ret = call[c].ret /\ call'[c].truth = call[c].truth
  <2>1. x.op = "write" /\ x.a = a /\ x.v = v
    BY <1>16 DEF peri_write
  <2> QED
    BY <1>4, <2>1 DEF Moves
<1>17. CASE k = 0
  <2>1. k + 1 = 1
    BY <1>17
  <2>2. x = w[1]
    BY <1>12, <2>1
  <2>3. x.op = "test" /\ x.a = DirCs /\ x.v = {2}
    BY <1>13, <2>2 DEF Test
  <2>4. /\ UNCHANGED <<reg, smi>> /\ call'[c].alone = call[c].alone
        /\ call'[c].prog = IF {2} \subseteq Get(DirCs) THEN Tail(q) ELSE Tail(Tail(q))
    BY <1>4, <2>3 DEF Moves
  <2>5. BusSame
    BY <1>5, <2>4, BusRead
  <2>6. call[c].alone => Reading(k + 1, A)' /\ (2 \notin Get(DirCs) => Reading(k + 2, A)')
    BY <1>5, <1>14, <1>17, <2>5, ReadingMoves
  <2>7. ~(6 <= k + 1) /\ ~(6 <= k + 2) /\ k < 6
    BY <1>17
  <2>8. CASE 2 \in Get(DirCs)
    <3>1. call'[c].prog = Tail(q)
      BY <2>4, <2>8
    <3> QED
      BY <1>12, <1>15, <2>4, <2>6, <2>7, <3>1
  <2>9. CASE 2 \notin Get(DirCs)
    <3>1. call'[c].prog = Tail(Tail(q))
      BY <2>4, <2>9
    <3>2. k + 2 \in 0..7 /\ Rest(Tail(Tail(q)), w, k + 2)
      BY <1>12, <2>7
    <3> QED
      BY <1>15, <2>4, <2>6, <2>7, <2>9, <3>1, <3>2
  <2> QED
    BY <2>4, <2>8, <2>9
<1>18. CASE k = 1
  <2>1. k + 1 = 2
    BY <1>18
  <2>2. x = w[2]
    BY <1>12, <2>1
  <2>3. x = peri_write(DirCs, {2}, nothing)
    BY <1>13, <2>2
  <2>4. HwWrite(DirCs, {2}) /\ call'[c].alone = call[c].alone /\ call'[c].prog = Tail(q)
        /\ call'[c].ret = call[c].ret /\ call'[c].truth = call[c].truth
    BY <1>16, <2>3
  <2>5. call[c].alone => Reading(k + 1, A)'
    BY <1>5, <1>14, <1>18, <2>4, ReadingMoves
  <2>6. ~(6 <= k + 1)
    BY <1>18
  <2> QED
    BY <1>12, <1>15, <2>4, <2>5, <2>6
<1>19. CASE k = 2
  <2>1. k + 1 = 3
    BY <1>19
  <2>2. x = w[3]
    BY <1>12, <2>1
  <2>3. x = peri_write(SmiAddr, A, nothing)
    BY <1>13, <2>2
  <2>4. HwWrite(SmiAddr, A) /\ call'[c].alone = call[c].alone /\ call'[c].prog = Tail(q)
        /\ call'[c].ret = call[c].ret /\ call'[c].truth = call[c].truth
    BY <1>16, <2>3
  <2>5. call[c].alone => Reading(k + 1, A)'
    BY <1>5, <1>14, <1>19, <2>4, ReadingMoves
  <2>6. ~(6 <= k + 1)
    BY <1>19
  <2> QED
    BY <1>12, <1>15, <2>4, <2>5, <2>6
<1>20. CASE k = 3
  <2>1. k + 1 = 4
    BY <1>20
  <2>2. x = w[4]
    BY <1>12, <2>1
  <2>3. x = peri_write(DirCs, {0, 1}, nothing)
    BY <1>13, <2>2
  <2>4. HwWrite(DirCs, {0, 1}) /\ call'[c].alone = call[c].alone /\ call'[c].prog = Tail(q)
        /\ call'[c].ret = call[c].ret /\ call'[c].truth = call[c].truth
    BY <1>16, <2>3
  <2>5. call[c].alone => Reading(k + 1, A)'
    BY <1>5, <1>14, <1>20, <2>4, ReadingMoves
  <2>6. ~(6 <= k + 1)
    BY <1>20
  <2> QED
    BY <1>12, <1>15, <2>4, <2>5, <2>6
<1>21. CASE k = 4
  <2>1. k + 1 = 5
    BY <1>21
  <2>2. x = w[5]
    BY <1>12, <2>1
  <2>3. x.op = "await" /\ x.a = DirCs /\ x.v = {2} /\ x.clear = TRUE
    BY <1>13, <2>2 DEF Await
  <2>4. UNCHANGED <<reg, smi>> /\ call'[c].alone = call[c].alone /\ call'[c].prog = Tail(q) /\ 2 \in Get(DirCs)
    BY <1>4, <2>3 DEF Moves
  <2>5. BusSame
    BY <1>5, <2>4, BusRead
  <2>6. call[c].alone => Reading(k + 1, A)'
    BY <1>5, <1>14, <1>21, <2>4, <2>5, ReadingMoves
  <2>7. ~(6 <= k + 1)
    BY <1>21
  <2> QED
    BY <1>12, <1>15, <2>4, <2>6, <2>7
<1>22. CASE k = 5
  <2>1. k + 1 = 6
    BY <1>22
  <2>2. x = w[6]
    BY <1>12, <2>1
  <2>3. PICK r : r = <<"smi_read", ch, \h2A>>
    OBVIOUS
  <2>4. x.op = "fetch" /\ x.a = SmiData /\ x.v = r
    BY <1>13, <2>2, <2>3 DEF Fetch
  <2>5. /\ call'[c].prog = Tail(q) /\ call'[c].ret = Result(r, HwRead(SmiData)) /\ call'[c].truth = Truth(r)
        /\ call'[c].alone => call[c].alone
    BY <1>4, <2>4 DEF Moves
  <2>6. call[c].alone => Reading(k + 1, A)'
    BY <1>5, <1>14, <1>22, ReadingMoves
  <2>7. call[c].alone => Get(SmiData) = Answer(A)
    BY <1>14, <1>22 DEF Reading
  <2>8. Result(r, HwRead(SmiData)) = Get(SmiData) /\ Truth(r) = Answer(A)
    BY <1>8, <2>3, ReadAnswer
  <2>9. call'[c].alone => call'[c].ret = call'[c].truth
    BY <2>5, <2>7, <2>8
  <2> QED
    BY <1>12, <1>15, <2>5, <2>6, <2>9
<1>23. CASE k = 6
  <2>1. k + 1 = 7
    BY <1>23
  <2>2. x = w[7]
    BY <1>12, <2>1
  <2>3. x = peri_write(DirCs, {2}, nothing)
    BY <1>13, <2>2
  <2>4. HwWrite(DirCs, {2}) /\ call'[c].alone = call[c].alone /\ call'[c].prog = Tail(q)
        /\ call'[c].ret = call[c].ret /\ call'[c].truth = call[c].truth
    BY <1>16, <2>3
  <2>5. call[c].alone => Reading(k + 1, A)'
    BY <1>5, <1>14, <1>23, <2>4, ReadingMoves
  <2>6. call[c].alone => call[c].ret = call[c].truth
    BY <1>14, <1>23
  <2> QED
    BY <1>12, <1>15, <2>4, <2>5, <2>6
<1> QED
  BY <1>12, <1>17, <1>18, <1>19, <1>20, <1>21, <1>22, <1>23

\* A step of a caller leaves the transfers in order.
LEMMA StepResults == ASSUME Inv, ResultsHold, NEW c \in Callers, Step(c) PROVE ResultsHold'
<1>1. CallersOK
  BY DEF Inv
<1>2. Exclusive /\ \A d \in Callers : PlainOK(d) /\ WriteOK(d) /\ ReadOK(d)
  BY DEF ResultsHold
<1>3. PICK q : q = call[c].prog
  OBVIOUS
<1>4. PICK x : x = Head(q)
  OBVIOUS
<1>5. Moves(c, q, x)
  BY <1>1, <1>3, <1>4, StepIs
<1>6. Running(c) /\ call'[c].name = call[c].name /\ \A d \in Callers : d # c => call'[d] = call[d]
  BY <1>3, <1>5 DEF Moves, Running
<1>7. \/ call[c].name \notin Transfers
      \/ call[c].name = "smi_write"
      \/ call[c].name = "smi_read"
  BY DEF Transfers
<1>8. "smi_write" \in Transfers /\ "smi_read" \in Transfers /\ "smi_write" # "smi_read"
  BY DEF Transfers
<1>9. /\ PlainOK(c)' /\ WriteOK(c)' /\ ReadOK(c)'
      /\ call[c].name \in Transfers => (call'[c].alone => call[c].alone)
  <2>1. CASE call[c].name \notin Transfers
    <3>1. PlainOK(c)'
      BY <1>2, <2>1, PlainStep
    <3>2. WriteOK(c)' /\ ReadOK(c)'
      BY <1>6, <1>8, <2>1 DEF WriteOK, ReadOK
    <3> QED
      BY <2>1, <3>1, <3>2
  <2>2. CASE call[c].name = "smi_write"
    <3>1. WriteOK(c)' /\ (call'[c].alone => call[c].alone)
      BY <1>2, <2>2, WriteTransferStep
    <3>2. PlainOK(c)' /\ ReadOK(c)'
      BY <1>6, <1>8, <2>2 DEF PlainOK, ReadOK
    <3> QED
      BY <3>1, <3>2
  <2>3. CASE call[c].name = "smi_read"
    <3>1. ReadOK(c)' /\ (call'[c].alone => call[c].alone)
      BY <1>2, <2>3, ReadTransferStep
    <3>2. PlainOK(c)' /\ WriteOK(c)'
      BY <1>6, <1>8, <2>3 DEF PlainOK, WriteOK
    <3> QED
      BY <3>1, <3>2
  <2> QED
    BY <1>7, <2>1, <2>2, <2>3
<1>10. ASSUME NEW d \in Callers, d # c PROVE PlainOK(d)' /\ WriteOK(d)' /\ ReadOK(d)'
  <2>1. call'[d] = call[d]
    BY <1>6, <1>10
  <2>2. BusSame \/ (call[d].name \in Transfers => ~call[d].alone)
    <3>1. CASE call[c].name \notin Transfers
      BY <1>2, <3>1, PlainStep
    <3>2. CASE call[c].name \in Transfers
      BY <1>2, <1>6, <1>10, <3>2 DEF Exclusive
    <3> QED
      BY <3>1, <3>2
  <2> QED
    BY <1>2, <2>1, <2>2, CallerSame
<1>11. Exclusive'
  <2> SUFFICES ASSUME NEW e \in Callers, NEW d \in Callers, e # d, call'[e].name \in Transfers, call'[e].alone,
                      call'[d].prog # <<>>
               PROVE  call'[d].name \notin Transfers
    BY DEF Exclusive, Running
  <2>1. \A u \in Callers : call'[u].name = call[u].name
    BY <1>6
  <2>2. call[e].alone
    BY <1>6, <1>9, <2>1
  <2>3. Running(d)
    BY <1>6 DEF Running
  <2> QED
    BY <1>2, <2>1, <2>2, <2>3 DEF Exclusive
<1> QED
  BY <1>9, <1>10, <1>11 DEF ResultsHold

\* What the beginning of a call does to the callers, and leaves alone.
Begins(c, name, prog) ==
    /\ smi' = smi /\ served' = served /\ reg' = reg /\ fill' = fill
    /\ call'[c].name = name /\ call'[c].prog = prog /\ call'[c].ret = call'[c].truth
    /\ name \in Transfers /\ call'[c].alone =>
          smi = <<>> /\ \A d \in Callers : d # c /\ Running(d) => call[d].name \notin Transfers
    /\ \A d \in Callers : d # c =>
          /\ call'[d].name = call[d].name /\ call'[d].prog = call[d].prog /\ call'[d].ret = call[d].ret
          /\ call'[d].truth = call[d].truth /\ (call'[d].alone => call[d].alone)
          /\ call'[d].alone => ~(name \in Transfers /\ call[d].name \in Transfers)

\* Call begins a call in that way.
LEMMA CallBegins ==
    ASSUME CallersOK, NEW c \in Callers, NEW name, NEW prog, Call(c, name, prog)
    PROVE  Begins(c, name, prog)
<1> DEFINE other == \E d \in Callers \ {c} : Running(d) /\ call[d].name \in Transfers
           new == [Idle EXCEPT !.name = name, !.prog = prog, !.alone = name \in Transfers => ~other /\ smi = <<>>]
<1>1. /\ call' = [d \in Callers |->
              IF d = c THEN new ELSE [call[d] EXCEPT !.alone = @ /\ ~({name, call[d].name} \subseteq Transfers)]]
      /\ UNCHANGED <<mapped, fill, reg, latch, smi, served, want, lost>>
  BY DEF Call
<1>2. PICK o : o = (name \in Transfers => ~other /\ smi = <<>>)
  OBVIOUS
<1>3. call'[c] = new
  BY <1>1
<1>4. new = [Idle EXCEPT !.name = name, !.prog = prog, !.alone = o]
  BY <1>2
<1> HIDE DEF new
<1>5. call'[c] = [name |-> name, prog |-> prog, ret |-> 0, truth |-> 0, alone |-> o]
  BY <1>3, <1>4 DEF Idle
<1>6. call'[c].name = name /\ call'[c].prog = prog /\ call'[c].ret = call'[c].truth /\ call'[c].alone = o
  BY <1>5
<1>7. name \in Transfers /\ o =>
          smi = <<>> /\ \A d \in Callers : d # c /\ Running(d) => call[d].name \notin Transfers
  BY <1>2
<1>8. ASSUME NEW d \in Callers, d # c
      PROVE  /\ call'[d].name = call[d].name /\ call'[d].prog = call[d].prog /\ call'[d].ret = call[d].ret
             /\ call'[d].truth = call[d].truth /\ (call'[d].alone => call[d].alone)
             /\ call'[d].alone => ~(name \in Transfers /\ call[d].name \in Transfers)
  <2>1. PICK r : r = call[d]
    OBVIOUS
  <2>2. PICK u : u = (r.alone /\ ~({name, r.name} \subseteq Transfers))
    OBVIOUS
  <2>3. r = [name |-> r.name, prog |-> r.prog, ret |-> r.ret, truth |-> r.truth, alone |-> r.alone]
    BY <2>1 DEF CallersOK, IsCall
  <2>4. call'[d] = [r EXCEPT !.alone = u]
    BY <1>1, <1>8, <2>1, <2>2, <2>3
  <2>5. call'[d] = [name |-> r.name, prog |-> r.prog, ret |-> r.ret, truth |-> r.truth, alone |-> u]
    BY <2>3, <2>4
  <2>6. u => r.alone /\ ~(name \in Transfers /\ r.name \in Transfers)
    BY <2>2
  <2> QED
    BY <2>1, <2>5, <2>6
<1>9. smi' = smi /\ served' = served /\ reg' = reg /\ fill' = fill
  BY <1>1
<1> QED
  BY <1>6, <1>7, <1>8, <1>9 DEF Begins

\* The programs that a call may run.
Runs(name, prog) ==
    \/ name \notin Transfers /\ PlainProg(prog)
    \/ name = "smi_write" /\ \E channel \in {0, 3} : prog = smi_write(channel, \hA5, 5)
    \/ name = "smi_read" /\ \E channel \in {0, 3} : prog = smi_read(channel, \h2A)

\* The beginning of a call.
LEMMA CallResults ==
    ASSUME Inv, ResultsHold, NEW c \in Callers, NEW name, NEW prog, Runs(name, prog), Call(c, name, prog)
    PROVE  ResultsHold'
<1>1. CallersOK
  BY DEF Inv
<1>2. Exclusive /\ \A d \in Callers : PlainOK(d) /\ WriteOK(d) /\ ReadOK(d)
  BY DEF ResultsHold
<1>3. Begins(c, name, prog)
  BY <1>1, CallBegins
<1>4. BusSame
  BY <1>3 DEF Begins, BusSame, Get
<1>5. ASSUME NEW d \in Callers, d # c PROVE PlainOK(d)' /\ WriteOK(d)' /\ ReadOK(d)'
  <2>1. /\ call'[d].name = call[d].name /\ call'[d].prog = call[d].prog /\ call'[d].ret = call[d].ret
        /\ call'[d].truth = call[d].truth /\ (call'[d].alone => call[d].alone)
    BY <1>3, <1>5 DEF Begins
  <2> QED
    BY <1>2, <1>4, <2>1, CallerSame
<1>6. call'[c].name = name /\ call'[c].prog = prog /\ call'[c].ret = call'[c].truth
  BY <1>3 DEF Begins
<1>7. name \in Transfers /\ call'[c].alone => smi' = <<>>
  BY <1>3 DEF Begins
<1>8. "smi_write" \in Transfers /\ "smi_read" \in Transfers /\ "smi_write" # "smi_read"
  BY DEF Transfers
<1>9. PlainOK(c)' /\ WriteOK(c)' /\ ReadOK(c)'
  <2>1. CASE name \notin Transfers /\ PlainProg(prog)
    BY <1>6, <1>8, <2>1 DEF PlainOK, WriteOK, ReadOK
  <2>2. ASSUME name = "smi_write", NEW ch \in {0, 3}, prog = smi_write(ch, \hA5, 5)
        PROVE  PlainOK(c)' /\ WriteOK(c)' /\ ReadOK(c)'
    <3>1. Len(prog) = 7
      BY <2>2, WriteAccesses DEF WriteAt
    <3>2. Rest(prog, prog, 0)
      BY <3>1 DEF Rest
    <3>3. Rest(call'[c].prog, smi_write(ch, \hA5, 5), 0)
      BY <1>6, <2>2, <3>2
    <3>4. call'[c].alone => Writing(0, Addressed(ch, 5), Bits(\hA5, 0))'
      BY <1>7, <1>8, <2>2 DEF Writing
    <3>5. 0 \in 0..7
      OBVIOUS
    <3>6. WriteOK(c)'
      BY <3>3, <3>4, <3>5 DEF WriteOK
    <3> QED
      BY <1>6, <1>8, <2>2, <3>6 DEF PlainOK, ReadOK
  <2>3. ASSUME name = "smi_read", NEW ch \in {0, 3}, prog = smi_read(ch, \h2A)
        PROVE  PlainOK(c)' /\ WriteOK(c)' /\ ReadOK(c)'
    <3>1. Len(prog) = 7
      BY <2>3, ReadAccesses DEF ReadAt
    <3>2. Rest(prog, prog, 0)
      BY <3>1 DEF Rest
    <3>3. Rest(call'[c].prog, smi_read(ch, \h2A), 0)
      BY <1>6, <2>3, <3>2
    <3>4. call'[c].alone => Reading(0, Addressed(ch, \h2A))'
      BY <1>7, <1>8, <2>3 DEF Reading
    <3>5. 0 \in 0..7
      OBVIOUS
    <3>6. ReadOK(c)'
      BY <1>6, <3>3, <3>4, <3>5 DEF ReadOK
    <3> QED
      BY <1>6, <1>8, <2>3, <3>6 DEF PlainOK, WriteOK
  <2> QED
    BY <2>1, <2>2, <2>3 DEF Runs
<1>10. Exclusive'
  <2> SUFFICES ASSUME NEW e \in Callers, NEW d \in Callers, e # d, call'[e].name \in Transfers, call'[e].alone,
                      call'[d].prog # <<>>
               PROVE  call'[d].name \notin Transfers
    BY DEF Exclusive, Running
  <2>1. CASE e = c
    <3>1. call'[d].name = call[d].name /\ Running(d) /\ name \in Transfers
      BY <1>3, <2>1 DEF Begins, Running
    <3> QED
      BY <1>3, <2>1, <3>1 DEF Begins
  <2>2. CASE d = c
    BY <1>3, <2>2 DEF Begins
  <2>3. CASE e # c /\ d # c
    <3>1. call[e].name \in Transfers /\ call[e].alone /\ Running(d) /\ call'[d].name = call[d].name
      BY <1>3, <2>3 DEF Begins, Running
    <3> QED
      BY <1>2, <3>1 DEF Exclusive
  <2> QED
    BY <2>1, <2>2, <2>3
<1> QED
  BY <1>5, <1>9, <1>10 DEF ResultsHold

\* The names of the calls that are no transfers.
LEMMA PlainNames ==
    \A name : name \in {"gpio_fsel", "gpio_write", "gpio_pudclk", "gpio_detect", "gpio_set_eds", "gpio_set_pud",
                        "gpio_get_pud", "gpio_lev", "gpio_eds", "gpio_write_multi", "gpio_write_mask",
                        "gpio_set_eds_multi", "gpio_eds_multi", "gpio_pud", "spi_end", "aux_spi_end", "i2c_end",
                        "smi_end", "spi_setClockDivider", "spi_setDataMode", "spi_chipSelect",
                        "spi_setChipSelectPolarity", "aux_spi_setClockDivider", "i2c_setSlaveAddress",
                        "i2c_setClockDivider", "spi_set_speed_hz", "aux_spi_speed", "i2c_set_baudrate",
                        "smi_set_timing", "smi_refused", "gpio_set_pad", "gpio_pad", "spi_begin", "aux_spi_begin",
                        "i2c_begin", "smi_begin", "pwm_set_clock", "pwm_set_mode", "pwm_set_range", "pwm_set_data",
                        "none"}
             => name \notin Transfers
  BY DEF Transfers

\* The beginning of a call that is no transfer.
LEMMA PlainCall ==
    ASSUME Inv, ResultsHold, NEW c \in Callers, NEW name, name \notin Transfers,
           NEW prog, PlainProg(prog), Call(c, name, prog)
    PROVE  ResultsHold'
  BY CallResults DEF Runs

\* The calls of the GPIO.
LEMMA GpioCallResults == ASSUME Inv, ResultsHold, NEW c \in Callers, gpio_calls(c) PROVE ResultsHold'
<1>1. \A name, prog : Call(c, name, prog) /\ PlainProg(prog) /\ name \notin Transfers => ResultsHold'
  BY PlainCall
<1>2. PICK pin \in Pins :
        \/ \E mode : Call(c, "gpio_fsel", gpio_fsel(pin, mode))
        \/ \E on : Call(c, "gpio_write", gpio_write(pin, on))
        \/ \E on : Call(c, "gpio_pudclk", gpio_pudclk(pin, on))
        \/ \E r, on : Call(c, "gpio_detect", gpio_detect(r, pin, on))
        \/ Call(c, "gpio_set_eds", gpio_set_eds(pin))
        \/ \E pud : Call(c, "gpio_set_pud", gpio_set_pud(pin, pud))
        \/ Call(c, "gpio_get_pud", gpio_get_pud(pin))
        \/ Call(c, "gpio_lev", gpio_lev(pin))
        \/ Call(c, "gpio_eds", gpio_eds(pin))
  BY DEF gpio_calls
<1>3. \A mode, on, r, pud :
         /\ PlainProg(gpio_fsel(pin, mode)) /\ PlainProg(gpio_write(pin, on)) /\ PlainProg(gpio_detect(r, pin, on))
         /\ PlainProg(gpio_set_eds(pin)) /\ PlainProg(gpio_set_pud(pin, pud)) /\ PlainProg(gpio_pudclk(pin, on))
  BY PlainGpio
<1>4. PlainProg(gpio_get_pud(pin)) /\ PlainProg(gpio_lev(pin)) /\ PlainProg(gpio_eds(pin))
  BY PlainReads
<1>5. /\ "gpio_fsel" \notin Transfers /\ "gpio_write" \notin Transfers /\ "gpio_pudclk" \notin Transfers
      /\ "gpio_detect" \notin Transfers /\ "gpio_set_eds" \notin Transfers /\ "gpio_set_pud" \notin Transfers
      /\ "gpio_get_pud" \notin Transfers /\ "gpio_lev" \notin Transfers /\ "gpio_eds" \notin Transfers
  BY PlainNames
<1> QED
  BY <1>1, <1>2, <1>3, <1>4, <1>5

\* The calls for many pins.
LEMMA MultiCallResults == ASSUME Inv, ResultsHold, NEW c \in Callers, gpio_multi_calls(c) PROVE ResultsHold'
<1>1. \A name, prog : Call(c, name, prog) /\ PlainProg(prog) /\ name \notin Transfers => ResultsHold'
  BY PlainCall
<1>2. \/ \E on : Call(c, "gpio_write_multi", gpio_write_multi(Low, on))
      \/ \E value : Call(c, "gpio_write_mask", gpio_write_mask(value, Low))
      \/ Call(c, "gpio_set_eds_multi", gpio_set_eds_multi(Low))
      \/ Call(c, "gpio_eds_multi", gpio_eds_multi(Low))
      \/ \E pud : Call(c, "gpio_pud", gpio_pud(pud))
  BY DEF gpio_multi_calls
<1>3. \A on, value, pud :
         /\ PlainProg(gpio_write_multi(Low, on)) /\ PlainProg(gpio_write_mask(value, Low))
         /\ PlainProg(gpio_set_eds_multi(Low)) /\ PlainProg(gpio_pud(pud))
  BY PlainGpio
<1>4. PlainProg(gpio_eds_multi(Low))
  BY PlainReads
<1>5. /\ "gpio_write_multi" \notin Transfers /\ "gpio_write_mask" \notin Transfers
      /\ "gpio_set_eds_multi" \notin Transfers /\ "gpio_eds_multi" \notin Transfers /\ "gpio_pud" \notin Transfers
  BY PlainNames
<1> QED
  BY <1>1, <1>2, <1>3, <1>4, <1>5

\* The calls of the buses.
LEMMA BusCallResults == ASSUME Inv, ResultsHold, NEW c \in Callers, bus_calls(c) PROVE ResultsHold'
<1>1. \A name, prog : Call(c, name, prog) /\ PlainProg(prog) /\ name \notin Transfers => ResultsHold'
  BY PlainCall
<1>2. \/ spi_end(c) \/ aux_spi_end(c) \/ i2c_end(c) \/ smi_end(c)
      \/ \E d : \/ Call(c, "spi_setClockDivider", spi_setClockDivider(d))
                \/ Call(c, "aux_spi_setClockDivider", aux_spi_setClockDivider(d))
                \/ Call(c, "i2c_setClockDivider", i2c_setClockDivider(d))
      \/ \E x : \/ Call(c, "spi_setDataMode", spi_setDataMode(x)) \/ Call(c, "spi_chipSelect", spi_chipSelect(x))
                \/ Call(c, "i2c_setSlaveAddress", i2c_setSlaveAddress(x))
      \/ \E x, y : Call(c, "spi_setChipSelectPolarity", spi_setChipSelectPolarity(x, y))
      \/ \E hz : \/ Call(c, "spi_set_speed_hz", spi_set_speed_hz(hz))
                 \/ Call(c, "aux_spi_speed", aux_spi_speed(hz))
                 \/ Call(c, "i2c_set_baudrate", i2c_set_baudrate(hz))
  BY SMT DEF bus_calls
<1>3. CASE spi_end(c) \/ aux_spi_end(c) \/ i2c_end(c) \/ smi_end(c)
  <2>1. /\ PlainProg(FselAll(SpiPins, FSEL.INPT)) /\ PlainProg(FselAll(AuxPins, FSEL.INPT))
        /\ PlainProg(FselAll(I2cPins, FSEL.INPT)) /\ PlainProg(FselAll(SmiPins, FSEL.INPT))
    BY PlainBusPins
  <2>2. /\ "spi_end" \notin Transfers /\ "aux_spi_end" \notin Transfers /\ "i2c_end" \notin Transfers
        /\ "smi_end" \notin Transfers
    BY PlainNames
  <2> QED
    BY <1>1, <1>3, <2>1, <2>2 DEF spi_end, aux_spi_end, i2c_end, smi_end
<1>4. /\ "spi_setClockDivider" \notin Transfers /\ "aux_spi_setClockDivider" \notin Transfers
      /\ "i2c_setClockDivider" \notin Transfers /\ "spi_setDataMode" \notin Transfers
      /\ "spi_chipSelect" \notin Transfers /\ "i2c_setSlaveAddress" \notin Transfers
      /\ "spi_setChipSelectPolarity" \notin Transfers /\ "spi_set_speed_hz" \notin Transfers
      /\ "aux_spi_speed" \notin Transfers /\ "i2c_set_baudrate" \notin Transfers
  BY PlainNames
<1> QED
  BY <1>1, <1>2, <1>3, <1>4, PlainBus

\* The calls of the SMI bus, the transfers among them.
LEMMA SmiCallResults == ASSUME Inv, ResultsHold, NEW c \in Callers, smi_calls(c) PROVE ResultsHold'
<1>1. \A name, prog : Call(c, name, prog) /\ PlainProg(prog) /\ name \notin Transfers => ResultsHold'
  BY PlainCall
<1>2. "smi_set_timing" \notin Transfers /\ "smi_refused" \notin Transfers
  BY PlainNames
<1>3. ASSUME NEW ch \in {0, 3, 4}, NEW read \in BOOLEAN, Call(c, "smi_set_timing", smi_set_timing(ch, read, 63, 127, 1, 64))
      PROVE  ResultsHold'
  BY <1>1, <1>2, <1>3, PlainSmi
<1>4. ASSUME NEW ch \in {0, 3}, Call(c, "smi_write", smi_write(ch, \hA5, 5)) PROVE ResultsHold'
  <2>1. Runs("smi_write", smi_write(ch, \hA5, 5))
    BY DEF Runs
  <2> QED
    BY <1>4, <2>1, CallResults
<1>5. ASSUME NEW ch \in {0, 3}, Call(c, "smi_read", smi_read(ch, \h2A)) PROVE ResultsHold'
  <2>1. Runs("smi_read", smi_read(ch, \h2A))
    BY DEF Runs
  <2> QED
    BY <1>5, <2>1, CallResults
<1>6. CASE Call(c, "smi_refused", smi_write(4, \hA5, 5)) \/ Call(c, "smi_refused", smi_read(4, 5))
  <2>1. smi_write(4, \hA5, 5) = <<>> /\ smi_read(4, 5) = <<>>
    BY DEF smi_write, smi_read
  <2> QED
    BY <1>1, <1>2, <1>6, <2>1, PlainNone
<1>7. \A channel : \A read \in (IF channel = 3 THEN BOOLEAN ELSE {FALSE}) : read \in BOOLEAN
  OBVIOUS
<1>8. CASE \E ch \in {0, 3, 4} : \E read \in (IF ch = 3 THEN BOOLEAN ELSE {FALSE}) :
               Call(c, "smi_set_timing", smi_set_timing(ch, read, 63, 127, 1, 64))
  BY <1>3, <1>7, <1>8, Zenon
<1>9. CASE \E ch \in {0, 3} : Call(c, "smi_write", smi_write(ch, \hA5, 5)) \/ Call(c, "smi_read", smi_read(ch, \h2A))
  BY <1>4, <1>5, <1>9, Zenon
<1> QED
  BY <1>6, <1>8, <1>9, Zenon DEF smi_calls

\* The calls that look first whether their block is mapped.
LEMMA GuardedCallResults == ASSUME Inv, ResultsHold, NEW c \in Callers, guarded_calls(c) PROVE ResultsHold'
<1>1. \A name, prog : Call(c, name, prog) /\ PlainProg(prog) /\ name \notin Transfers => ResultsHold'
  BY PlainCall
<1>2. \/ \E group, control : Call(c, "gpio_set_pad", gpio_set_pad(group, control))
      \/ \E group \in 0..2 : Call(c, "gpio_pad", gpio_pad(group))
      \/ Call(c, "spi_begin", spi_begin) \/ Call(c, "aux_spi_begin", aux_spi_begin)
      \/ Call(c, "i2c_begin", i2c_begin) \/ Call(c, "smi_begin", smi_begin)
      \/ Call(c, "pwm_set_clock", pwm_set_clock(\h1010))
      \/ \E channel, x, y : \/ Call(c, "pwm_set_mode", pwm_set_mode(channel, x, y))
                            \/ Call(c, "pwm_set_range", pwm_set_range(channel, x))
                            \/ Call(c, "pwm_set_data", pwm_set_data(channel, x))
  BY DEF guarded_calls
<1>3. /\ "gpio_set_pad" \notin Transfers /\ "gpio_pad" \notin Transfers /\ "spi_begin" \notin Transfers
      /\ "aux_spi_begin" \notin Transfers /\ "i2c_begin" \notin Transfers /\ "smi_begin" \notin Transfers
      /\ "pwm_set_clock" \notin Transfers /\ "pwm_set_mode" \notin Transfers /\ "pwm_set_range" \notin Transfers
      /\ "pwm_set_data" \notin Transfers
  BY PlainNames
<1>4. \A group \in 0..2 : PlainProg(gpio_pad(group))
  BY PlainReads
<1>5. PlainProg(spi_begin) /\ PlainProg(aux_spi_begin) /\ PlainProg(i2c_begin) /\ PlainProg(smi_begin)
  BY PlainBus, PlainSmi
<1> QED
  BY <1>1, <1>2, <1>3, <1>4, <1>5, PlainGuarded

\* At the start nobody has called.
LEMMA ResultsInit == Init => ResultsHold
<1> SUFFICES ASSUME Init PROVE ResultsHold
  OBVIOUS
<1>1. \A c \in Callers : call[c].name = "none" /\ call[c].prog = <<>> /\ call[c].ret = call[c].truth
  BY DEF Init, Idle
<1>2. "none" \notin Transfers /\ "none" # "smi_write" /\ "none" # "smi_read"
  BY PlainNames
<1>3. \A c \in Callers : PlainOK(c) /\ WriteOK(c) /\ ReadOK(c)
  BY <1>1, <1>2, PlainNone DEF PlainOK, WriteOK, ReadOK
<1>4. Exclusive
  BY <1>1, <1>2 DEF Exclusive
<1> QED
  BY <1>3, <1>4 DEF ResultsHold

\* Every step keeps the transfers and the results in order.
LEMMA ResultsNext == Inv /\ ResultsHold /\ [Next]_vars => ResultsHold'
<1> SUFFICES ASSUME Inv, ResultsHold, [Next]_vars PROVE ResultsHold'
  OBVIOUS
<1>1. CASE Next
  <2>1. ASSUME NEW c \in Callers, guarded_calls(c) PROVE ResultsHold'
    BY <2>1, GuardedCallResults
  <2>2. ASSUME NEW c \in Callers, gpio_calls(c) \/ gpio_multi_calls(c) \/ bus_calls(c) \/ smi_calls(c)
        PROVE  ResultsHold'
    BY <2>2, GpioCallResults, MultiCallResults, BusCallResults, SmiCallResults
  <2>3. ASSUME NEW c \in Callers, Step(c) PROVE ResultsHold'
    BY <2>3, StepResults
  <2>4. CASE SmiFinish
    BY <2>4, SmiFinishResults
  <2>5. CASE ClockStops
    BY <2>5, ClockStopsResults
  <2>6. ASSUME NEW pin \in Pins, Event(pin) PROVE ResultsHold'
    BY <2>6, EventResults
  <2> QED
    BY <1>1, <2>1, <2>2, <2>3, <2>4, <2>5, <2>6 DEF Next
<1>2. CASE UNCHANGED vars
  <2>1. fill' = fill /\ reg' = reg /\ smi' = smi /\ served' = served /\ call' = call
    BY <1>2 DEF vars
  <2>2. BusSame
    BY <2>1, BusRead
  <2> QED
    BY <2>1, <2>2, BusQuiet
<1> QED
  BY <1>1, <1>2

\* What the device was given, once a write is over.
LEMMA Delivered ==
    ASSUME NEW ch \in {0, 3}, NEW s, s = <<Addressed(ch, 5), Bits(\hA5, 0)>>
    PROVE  s[2] = Bits(\hA5, 0) /\ s[1] \ {8, 9} = Bits(5, 0)
<1>1. 5 % 64 = 5 /\ Bits(5, 0) = {0, 2}
  BY BitsSmall
<1>2. Bits(0, 8) = {} /\ Bits(3, 8) = {8, 9}
  BY BitsSmall
<1>3. Addressed(ch, 5) \ {8, 9} = {0, 2}
  <2>1. CASE ch = 0
    BY <1>1, <1>2, <2>1 DEF Addressed
  <2>2. CASE ch = 3
    BY <1>1, <1>2, <2>2 DEF Addressed
  <2> QED
    BY <2>1, <2>2
<1>4. s[1] = Addressed(ch, 5) /\ s[2] = Bits(\hA5, 0)
  OBVIOUS
<1> QED
  BY <1>1, <1>3, <1>4

(* For any callers, pins, speeds and number of calls: a call that reads    *)
(* returns what its field was last set to, if no update was lost before it *)
(* read; smi_read returns the device's answer to its own address and       *)
(* smi_write returns when the device has its data, whatever done bit an    *)
(* earlier transfer left, if they had the bus to themselves.               *)
THEOREM ResultsAreExact == Spec => []ResultsExact
<1>1. ResultsHold => ResultsExact
  <2> SUFFICES ASSUME ResultsHold, NEW c \in Callers, call[c].prog = <<>>, call[c].alone
               PROVE  /\ call[c].name \in Reads => call[c].ret = call[c].truth
                      /\ call[c].name = "smi_write" =>
                            served[2] = Bits(\hA5, 0) /\ served[1] \ {8, 9} = Bits(5, 0)
    BY DEF ResultsExact
  <2>1. PlainOK(c) /\ WriteOK(c) /\ ReadOK(c)
    BY DEF ResultsHold
  <2>2. \A full : \A k \in 0..7 : Rest(call[c].prog, full, k) => k = 7
    BY DEF Rest
  <2>3. CASE call[c].name = "smi_write"
    <3>1. PICK ch \in {0, 3}, k \in 0..7 :
             /\ Rest(call[c].prog, smi_write(ch, \hA5, 5), k)
             /\ Writing(k, Addressed(ch, 5), Bits(\hA5, 0))
      BY <2>1, <2>3 DEF WriteOK
    <3>2. 6 <= k
      BY <2>2, <3>1
    <3>3. served = <<Addressed(ch, 5), Bits(\hA5, 0)>>
      BY <3>1, <3>2 DEF Writing
    <3>4. served[2] = Bits(\hA5, 0) /\ served[1] \ {8, 9} = Bits(5, 0)
      BY <3>3, Delivered
    <3> QED
      BY <2>3, <3>4 DEF Reads
  <2>4. CASE call[c].name = "smi_read"
    <3>1. PICK ch \in {0, 3}, k \in 0..7 :
             /\ Rest(call[c].prog, smi_read(ch, \h2A), k)
             /\ 6 <= k => call[c].ret = call[c].truth
      BY <2>1, <2>4 DEF ReadOK
    <3>2. 6 <= k
      BY <2>2, <3>1
    <3> QED
      BY <2>4, <3>1, <3>2
  <2>5. CASE call[c].name \notin Transfers
    <3>1. call[c].ret = call[c].truth
      BY <2>1, <2>5 DEF PlainOK
    <3> QED
      BY <2>5, <3>1 DEF Transfers
  <2> QED
    BY <2>3, <2>4, <2>5 DEF Transfers
<1>2. Inv /\ ResultsHold /\ [Next]_vars => ResultsHold'
  BY ResultsNext
<1>3. Init => ResultsHold
  BY ResultsInit
<1> QED
  BY <1>1, <1>2, <1>3, InvAlways, PTL DEF Spec

=============================================================================
