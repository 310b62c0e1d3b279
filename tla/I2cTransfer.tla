------------------------------ MODULE I2cTransfer ------------------------------
(***************************************************************************)
(* The I2C functions of the register library (termosos/driver/bcm2835.c):  *)
(* bcm2835_i2c_write, _read, _read_register_rs and _write_read_rs polling  *)
(* the status register of the BSC controller and moving bytes through its  *)
(* FIFO, one status read or FIFO access per step.                          *)
(*                                                                         *)
(* The controller and the device on the bus (external) work at their own   *)
(* pace between the steps.  Clearing the FIFO aborts a transfer; starting  *)
(* one while another is active makes it a repeated start; a set DONE flag  *)
(* stays set until 1 is written to it.  RXD means that received data waits *)
(* in the FIFO.  A byte is named by the call, its direction and its index. *)
(***************************************************************************)
EXTENDS Integers, Sequences

CONSTANTS
    WriteLens, ReadLens,   \* numbers of bytes a caller asks to write and to read
    CommandLens,           \* numbers of bytes written before a repeated start
    FifoSize,              \* BCM2835_BSC_FIFO_SIZE
    PollsPerByte,          \* 1000 in the code
    FailsafeMod,           \* 2^w for an unsigned long of w bits
    Devices,               \* how the device on the bus may behave during a call
    MaxCalls               \* bound: calls made

ASSUME I2cAssumption ==
    /\ WriteLens \subseteq Nat /\ ReadLens \subseteq Nat /\ CommandLens \subseteq Nat
    /\ {FifoSize, PollsPerByte, FailsafeMod} \subseteq Nat \ {0}
    /\ MaxCalls \in Nat
    /\ Devices \subseteq {"good", "noisy", "nack", "stretch", "stuck"}

VARIABLES
    op, wlen, rlen,       \* the function called, bytes to write, bytes to read
    pc, i, remaining,     \* where it is and its counters
    failsafe, timeout,    \* the limit on polls of bcm2835_i2c_write
    reason, buf,          \* result and bytes read
    calls,                \* number of this call
    fifo,                 \* the controller's FIFO
    active, done, err, clkt,   \* status bits TA, DONE, ERR, CLKT
    mode, left, again,    \* direction, bytes left, DLEN of a repeated start or -1
    device, wire, sent    \* behaviour of the device; bytes it got; number it sent

callVars   == <<op, wlen, rlen, calls, device>>
callerVars == <<pc, i, remaining, failsafe, timeout, reason, buf>>
statusVars == <<active, done, err, clkt>>
busVars    == <<mode, left, again, wire, sent>>
vars == <<callVars, callerVars, fifo, statusVars, busVars>>

Ops     == {"write", "read", "read_register_rs", "write_read_rs"}
Reasons == {"OK", "NACK", "CLKT", "DATA", "TIMEOUT"}
Bytes   == (1..MaxCalls) \X {"out", "in"} \X Nat

TypeOK ==
    /\ op \in Ops /\ wlen \in Nat /\ rlen \in Nat /\ calls \in 0..MaxCalls
    /\ pc \in {"idle", "outer", "inner", "started", "missed", "restart",
               "router", "rinner", "drain", "check"}
    /\ i \in 0..(wlen + rlen) /\ remaining \in 0..(wlen + rlen)
    /\ failsafe \in 0..(FailsafeMod - 1) /\ timeout \in BOOLEAN
    /\ reason \in Reasons
    /\ \A s \in {buf, fifo, wire} : \A k \in DOMAIN s : s[k] \in Bytes
    /\ Len(fifo) <= FifoSize
    /\ active \in BOOLEAN /\ done \in BOOLEAN /\ err \in BOOLEAN /\ clkt \in BOOLEAN
    /\ mode \in {"write", "read"} /\ left \in Nat /\ again \in Nat \cup {-1}
    /\ sent \in Nat

Init ==
    /\ op = "write" /\ wlen = 0 /\ rlen = 0 /\ calls = 0 /\ device = "good"
    /\ pc = "idle" /\ i = 0 /\ remaining = 0 /\ failsafe = 0 /\ timeout = FALSE
    /\ reason = "OK" /\ buf = << >>
    /\ fifo = << >> /\ active = FALSE /\ done = FALSE /\ err = FALSE /\ clkt = FALSE
    /\ mode = "write" /\ left = 0 /\ again = -1 /\ wire = << >> /\ sent = 0

-----------------------------------------------------------------------------
(* Register accesses. *)

\* Mutant: the FIFO takes a byte when it is full.
TXDIgnored == TRUE

TXD == Len(fifo) < FifoSize
RXD == mode = "read" /\ fifo # << >>

\* Control <- I2CEN | ST (| READ): start a transfer, or note a repeated start.
StartTransfer(dir, dlen) ==
    IF active THEN again' = dlen /\ UNCHANGED <<active, mode, left>>
    ELSE active' = TRUE /\ mode' = dir /\ left' = dlen /\ again' = -1

\* The bytes of the caller's buffer with the indices from 0 to n - 1.
WriteBytes(n) == [k \in 1..n |-> <<calls + 1, "out", k>>]

\* The FIFO is cleared and filled up to its size.
Prefill(n) == fifo' = WriteBytes(n)

\* Mutant: old status bits are kept.
ClearStatusForgotten == UNCHANGED <<done, err, clkt>>

ClearStatus == done' = FALSE /\ err' = FALSE /\ clkt' = FALSE

FilledFrom(n) == IF n < FifoSize THEN n ELSE FifoSize

-----------------------------------------------------------------------------
(* The functions. *)

\* A function is called.  Clearing the FIFO aborts what the controller was doing, so
\* it is idle until the control register is written at the end of the prelude.
Call(o, w, r, d) ==
    /\ pc = "idle" /\ calls < MaxCalls
    /\ op' = o /\ wlen' = w /\ rlen' = r /\ device' = d
    /\ calls' = calls + 1
    /\ Prefill(FilledFrom(w)) /\ ClearStatus
    /\ i' = FilledFrom(w)
    /\ remaining' = IF o = "read" THEN r ELSE w - FilledFrom(w)
    /\ failsafe' = IF o = "write" THEN (w * PollsPerByte) % FailsafeMod ELSE 0
    /\ timeout' = FALSE /\ reason' = "OK" /\ buf' = << >>
    /\ active' = TRUE /\ again' = -1
    /\ mode' = (IF o = "read" THEN "read" ELSE "write")
    /\ left' = (IF o = "read" THEN r ELSE w)
    /\ wire' = << >> /\ sent' = 0
    /\ pc' = CASE o = "write" -> "outer" [] o = "read" -> "router" [] OTHER -> "started"

\* The calls of each function: a register read writes one byte.
CallWrite(w, d)          == Call("write", w, 0, d)
CallRead(r, d)           == Call("read", 0, r, d)
CallReadRegisterRs(r, d) == Call("read_register_rs", 1, r, d)
CallWriteReadRs(w, r, d) == Call("write_read_rs", w, r, d)

\* while (!Timeout && !(status & DONE))
OuterTest ==
    /\ pc = "outer"
    /\ pc' = IF timeout \/ done THEN "check" ELSE "inner"
    /\ UNCHANGED <<callVars, i, remaining, failsafe, timeout, reason, buf, fifo,
                   statusVars, busVars>>

\* --Failsafe == 0, in unsigned arithmetic.
Countdown ==
    /\ failsafe' = (failsafe - 1) % FailsafeMod
    /\ timeout' = (timeout \/ failsafe' = 0)

\* Mutant: only the inner loop is limited.
OuterUnlimited ==
    /\ pc = "inner"
    /\ ~(remaining > 0 /\ TXD)
    /\ pc' = "outer"
    /\ UNCHANGED <<callVars, i, remaining, failsafe, timeout, reason, buf, fifo,
                   statusVars, busVars>>

\* The inner loop of bcm2835_i2c_write ends, and the outer one counts down.
InnerEnd ==
    /\ pc = "inner"
    /\ timeout \/ ~(remaining > 0 /\ TXD)
    /\ Countdown
    /\ pc' = "outer"
    /\ UNCHANGED <<callVars, i, remaining, reason, buf, fifo, statusVars, busVars>>

FifoWrite ==
    /\ pc = "inner"
    /\ ~timeout /\ remaining > 0 /\ TXD
    /\ fifo' = Append(fifo, <<calls, "out", i + 1>>)
    /\ i' = i + 1 /\ remaining' = remaining - 1
    /\ Countdown
    /\ UNCHANGED <<callVars, pc, reason, buf, statusVars, busVars>>

\* Repeated start: poll for TA, or DONE when the whole transfer was missed.
PollActive ==
    /\ pc = "started"
    /\ pc' = IF active THEN "restart" ELSE "missed"
    /\ UNCHANGED <<callVars, i, remaining, failsafe, timeout, reason, buf, fifo,
                   statusVars, busVars>>

PollMissed ==
    /\ pc = "missed"
    /\ pc' = IF done THEN "restart" ELSE "started"
    /\ UNCHANGED <<callVars, i, remaining, failsafe, timeout, reason, buf, fifo,
                   statusVars, busVars>>

\* DLEN and the control register are written.  The delay that follows is a multiple
\* of i2c_byte_wait_us, which is 0: (cdiv / BCM2835_CORE_CLK_HZ) is 0 for any cdiv.
RepeatedStart ==
    /\ pc = "restart"
    /\ StartTransfer("read", rlen)
    /\ remaining' = rlen /\ i' = 0
    /\ pc' = "router"
    /\ UNCHANGED <<callVars, failsafe, timeout, reason, buf, fifo, done, err, clkt,
                   wire, sent>>

\* Mutant: what is left in the FIFO when DONE is set is not read.
ReadOuterTestNoDrain ==
    /\ pc = "router"
    /\ pc' = IF done THEN "check" ELSE "rinner"
    /\ UNCHANGED <<callVars, i, remaining, failsafe, timeout, reason, buf, fifo,
                   statusVars, busVars>>

\* while (!(status & DONE)) around the loop that empties the FIFO.
ReadOuterTest ==
    /\ pc = "router"
    /\ pc' = IF done THEN "drain" ELSE "rinner"
    /\ UNCHANGED <<callVars, i, remaining, failsafe, timeout, reason, buf, fifo,
                   statusVars, busVars>>

\* Mutant: RXD is tested but not remaining.
MoreToReadUnbounded == RXD

MoreToRead == remaining > 0 /\ RXD

FifoRead ==
    /\ pc \in {"rinner", "drain"}
    /\ MoreToRead
    /\ buf' = Append(buf, Head(fifo)) /\ fifo' = Tail(fifo)
    /\ i' = i + 1 /\ remaining' = remaining - 1
    /\ UNCHANGED <<callVars, pc, failsafe, timeout, reason, statusVars, busVars>>

ReadLoopEnd ==
    /\ pc \in {"rinner", "drain"}
    /\ ~MoreToRead
    /\ pc' = IF pc = "rinner" THEN "router" ELSE "check"
    /\ UNCHANGED <<callVars, i, remaining, failsafe, timeout, reason, buf, fifo,
                   statusVars, busVars>>

\* Mutant: bytes left over are not looked at.
ReasonWithoutData ==
    CASE timeout -> "TIMEOUT" [] err -> "NACK" [] clkt -> "CLKT" [] OTHER -> "OK"

Reason ==
    CASE timeout -> "TIMEOUT" [] err -> "NACK" [] clkt -> "CLKT"
      [] remaining > 0 -> "DATA" [] OTHER -> "OK"

\* Reading writes DONE back to the status register, with the bits that were set, and
\* so clears them.  The others set DONE's bit in the control register: no effect.
Acknowledge ==
    IF op = "read" THEN ClearStatus ELSE UNCHANGED <<done, err, clkt>>

Return ==
    /\ pc = "check"
    /\ reason' = Reason
    /\ Acknowledge
    /\ pc' = "idle"
    /\ UNCHANGED <<callVars, i, remaining, failsafe, timeout, buf, fifo, active, busVars>>

-----------------------------------------------------------------------------
(* The controller and the device (external). *)

Working == active /\ device \in {"good", "noisy", "nack", "stretch"}

\* A byte leaves the FIFO for the device.
ShiftOut ==
    /\ Working /\ mode = "write" /\ left > 0 /\ fifo # << >>
    /\ wire' = Append(wire, Head(fifo)) /\ fifo' = Tail(fifo)
    /\ left' = left - 1
    /\ UNCHANGED <<callVars, callerVars, statusVars, mode, again, sent>>

\* A byte of the device arrives; on a noisy line one more than was asked for.
ShiftIn ==
    /\ Working /\ mode = "read" /\ TXD
    /\ left > 0 \/ (device = "noisy" /\ sent = rlen)
    /\ fifo' = Append(fifo, <<calls, "in", sent + 1>>)
    /\ sent' = sent + 1
    /\ left' = IF left > 0 THEN left - 1 ELSE 0
    /\ UNCHANGED <<callVars, callerVars, statusVars, mode, again, wire>>

\* All bytes moved: go on with the repeated start, or be done.
Complete ==
    /\ Working /\ left = 0
    /\ IF again >= 0
       THEN mode' = "read" /\ left' = again /\ again' = -1 /\ UNCHANGED <<active, done>>
       ELSE active' = FALSE /\ done' = TRUE /\ UNCHANGED <<mode, left, again>>
    /\ UNCHANGED <<callVars, callerVars, fifo, err, clkt, wire, sent>>

\* The device does not acknowledge, or stretches the clock for too long.
Abort ==
    /\ active
    /\ \/ device = "nack" /\ err' = TRUE /\ UNCHANGED clkt
       \/ device = "stretch" /\ clkt' = TRUE /\ UNCHANGED err
    /\ active' = FALSE /\ done' = TRUE /\ again' = -1
    /\ UNCHANGED <<callVars, callerVars, fifo, mode, left, wire, sent>>

-----------------------------------------------------------------------------

Calls ==
    \E d \in Devices :
        \/ \E w \in WriteLens : CallWrite(w, d)
        \/ \E r \in ReadLens : CallRead(r, d) \/ CallReadRegisterRs(r, d)
        \/ \E w \in CommandLens, r \in ReadLens : CallWriteReadRs(w, r, d)

Caller ==
    \/ OuterTest \/ InnerEnd \/ FifoWrite
    \/ PollActive \/ PollMissed \/ RepeatedStart
    \/ ReadOuterTest \/ FifoRead \/ ReadLoopEnd \/ Return

Controller == ShiftOut \/ ShiftIn \/ Complete \/ Abort

Next == Calls \/ Caller \/ Controller

\* The caller runs, and the controller moves a byte that it can move.
Spec == Init /\ [][Next]_vars /\ WF_vars(Caller) /\ WF_vars(Controller)

-----------------------------------------------------------------------------
(* Properties. *)

Returned == pc = "idle" /\ calls > 0

\* A write that returns BCM2835_I2C_REASON_OK has put exactly the caller's bytes on
\* the wire, in order, whatever an earlier call left in the FIFO and the status.
WriteDelivers ==
    Returned /\ op = "write" /\ reason = "OK" => wire = [k \in 1..wlen |-> <<calls, "out", k>>]

\* A read that returns OK, with or without a repeated start, has stored the bytes
\* that the device sent in this call: all that were asked for, in order.
ReadIsWhole ==
    Returned /\ op # "write" /\ reason = "OK" => buf = [k \in 1..rlen |-> <<calls, "in", k>>]

\* The caller's buffer is never overrun, even by a line that delivers more.
NoOverrun == Len(buf) <= rlen

\* bcm2835_i2c_read succeeds on a device that answers: no byte is left in the FIFO
\* when DONE is seen before the last bytes were read.
NoFalseAlarm ==
    Returned /\ op = "read" /\ device = "good" => reason = "OK"

\* A write returns whatever the bus does, and a read if the controller ends it.
CallReturns ==
    (pc # "idle" /\ (op = "write" \/ device # "stuck")) ~> pc = "idle"

\* bcm2835_i2c_write_read_rs returns however many bytes it is asked to send to a
\* device that answers.
ArbitraryCommand ==
    (pc # "idle" /\ op = "write_read_rs" /\ device = "good") ~> pc = "idle"
=============================================================================
