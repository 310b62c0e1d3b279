--------------------------- MODULE I2cTransferProofs ---------------------------
(***************************************************************************)
(* Proofs about I2cTransfer for every length of the buffers and the FIFO,  *)
(* every width of the failsafe counter and every number of calls.  The     *)
(* inductive invariant says which bytes are where at every step of a call. *)
(***************************************************************************)
EXTENDS I2cTransfer, SequenceTheorems, TLAPS

WithRestart == {"read_register_rs", "write_read_rs"}
BeforeRestart == {"started", "missed", "restart"}

\* The caller is past the repeated start, or makes none.
InReadPhase == op = "read" \/ (op \in WithRestart /\ pc \notin BeforeRestart)

\* Which function can be where, and what each leaves alone.
Phases ==
    /\ op = "write" => /\ pc \in {"idle", "outer", "inner", "check"}
                       /\ rlen = 0 /\ mode = "write"
    /\ op = "read" => /\ pc \in {"idle", "router", "rinner", "drain", "check"}
                      /\ wlen = 0 /\ mode = "read"
    /\ op \in WithRestart =>
          pc \in BeforeRestart \cup {"idle", "router", "rinner", "drain", "check"}
    /\ again # -1 => again = rlen /\ op \in WithRestart /\ InReadPhase /\ mode = "write"
    /\ calls = 0 => pc = "idle" /\ ~active
    /\ op # "write" => ~timeout
    /\ device = "good" => ~err /\ ~clkt

\* The counters of the function called and of the controller.
Counts ==
    /\ i + remaining = IF InReadPhase THEN rlen ELSE wlen
    /\ Len(buf) = IF InReadPhase THEN i ELSE 0
    /\ mode = "write" => /\ left + Len(wire) = wlen
                         /\ sent = 0 /\ buf = << >>
                         /\ Len(wire) + Len(fifo) = IF op = "write" THEN i ELSE FilledFrom(wlen)
    /\ op \in WithRestart /\ ~InReadPhase => mode = "write" /\ i = FilledFrom(wlen)

\* A call of a function that does not clear the status bits went wrong.
Spoilt == op # "read" /\ (err \/ clkt)

\* The bytes written are on the wire and behind it in the FIFO; the bytes received
\* are in the caller's buffer and behind it in the FIFO.
Contents ==
    /\ mode = "write" =>
          /\ \A k \in 1..Len(wire) : wire[k] = <<calls, "out", k>>
          /\ \A k \in 1..Len(fifo) : fifo[k] = <<calls, "out", Len(wire) + k>>
    /\ mode = "read" /\ ~Spoilt =>
          /\ Len(buf) + Len(fifo) = sent
          /\ \A k \in 1..Len(buf) : buf[k] = <<calls, "in", k>>
          /\ \A k \in 1..Len(fifo) : fifo[k] = <<calls, "in", Len(buf) + k>>
          /\ sent + left = rlen \/ (left = 0 /\ device = "noisy" /\ sent = rlen + 1)

\* What DONE means to the loops that poll it.
DoneMeans ==
    /\ op # "read" /\ ~active /\ ~err /\ ~clkt => left = 0
    /\ op \in {"write", "read"} /\ done /\ ~err /\ ~clkt => left = 0
    /\ op = "write" /\ pc = "check" => timeout \/ done
    /\ op = "write" /\ pc = "idle" /\ reason = "OK" => left = 0
    /\ op = "read" /\ pc \in {"drain", "check"} => done
    /\ op = "read" /\ pc = "check" /\ device = "good" => remaining = 0

\* Nothing refills the FIFO before a repeated start: without an error only a command
\* that fits into it is ever sent to its end.
ShortCommand ==
    op \in WithRestart /\ ~err /\ ~clkt
        /\ (mode = "read" \/ done \/ pc \in {"idle", "drain", "check"}) => wlen <= FifoSize

Shapes == {fifo, wire, buf} \subseteq Seq(Bytes)

IInv == TypeOK /\ Shapes /\ Phases /\ Counts /\ Contents /\ DoneMeans
            /\ ShortCommand /\ ReadIsWhole /\ NoFalseAlarm
-----------------------------------------------------------------------------
(* Facts about the operators. *)

\* What Append does to a queue of bytes.
LEMMA Appended ==
    ASSUME NEW s \in Seq(Bytes), NEW b \in Bytes
    PROVE  /\ Append(s, b) \in Seq(Bytes) /\ Len(s) \in Nat
           /\ Len(Append(s, b)) = Len(s) + 1
           /\ \A k \in 1..Len(s) : Append(s, b)[k] = s[k]
           /\ Append(s, b)[Len(s) + 1] = b
  BY AppendProperties, LenProperties

\* What taking the oldest byte does to a queue.
LEMMA Taken ==
    ASSUME NEW s \in Seq(Bytes), s # << >>
    PROVE  /\ Head(s) \in Bytes /\ Tail(s) \in Seq(Bytes)
           /\ Len(s) \in Nat \ {0} /\ Len(Tail(s)) = Len(s) - 1
           /\ Head(s) = s[1] /\ \A k \in 1..Len(Tail(s)) : Tail(s)[k] = s[k + 1]
  BY HeadTailProperties, LenProperties, EmptySeq

\* A sequence is determined by its length and its elements.
LEMMA Elements ==
    ASSUME NEW s \in Seq(Bytes)
    PROVE  /\ Len(s) \in Nat /\ (Len(s) = 0 <=> s = << >>)
           /\ s = [k \in 1..Len(s) |-> s[k]]
           /\ \A k \in DOMAIN s : s[k] \in Bytes
  BY LenProperties, EmptySeq

\* The unsigned arithmetic of the failsafe counter stays within its width.
LEMMA Wraps ==
    ASSUME NEW n \in Int
    PROVE  n % FailsafeMod \in 0..(FailsafeMod - 1)
  BY I2cAssumption

\* The prefill of a FIFO that takes n bytes.
LEMMA Prefilled ==
    ASSUME NEW w \in Nat, calls + 1 \in 1..MaxCalls
    PROVE  /\ FilledFrom(w) \in 0..FifoSize /\ FilledFrom(w) <= w
           /\ WriteBytes(FilledFrom(w)) \in Seq(Bytes)
           /\ Len(WriteBytes(FilledFrom(w))) = FilledFrom(w)
           /\ \A k \in 1..FilledFrom(w) : WriteBytes(FilledFrom(w))[k] = <<calls + 1, "out", k>>
<1>1. FilledFrom(w) \in 0..FifoSize /\ FilledFrom(w) <= w
  BY I2cAssumption DEF FilledFrom
<1>2. ASSUME NEW n \in Nat
      PROVE  /\ WriteBytes(n) \in Seq(Bytes) /\ Len(WriteBytes(n)) = n
             /\ \A k \in 1..n : WriteBytes(n)[k] = <<calls + 1, "out", k>>
  BY DEF WriteBytes, Bytes
<1>3. FilledFrom(w) \in Nat
  BY <1>1, I2cAssumption
<1> QED
  BY <1>1, <1>2, <1>3

-----------------------------------------------------------------------------
(* The invariant. *)

\* Before the first call nothing is anywhere.
LEMMA Initial == Init => IInv
<1> SUFFICES ASSUME Init PROVE IInv
  OBVIOUS
<1>1. Shapes
  BY EmptySeq DEF Init, Shapes
<1>2. Len(buf) = 0 /\ Len(fifo) = 0 /\ Len(wire) = 0
  BY EmptySeq DEF Init
<1>3. TypeOK
  <2>1. \A s \in {buf, fifo, wire} : \A k \in DOMAIN s : s[k] \in Bytes
    BY <1>1, Elements DEF Shapes
  <2>2. /\ i \in 0..(wlen + rlen) /\ remaining \in 0..(wlen + rlen) /\ failsafe \in 0..(FailsafeMod - 1)
        /\ Len(fifo) <= FifoSize /\ calls \in 0..MaxCalls
    BY <1>2, I2cAssumption DEF Init
  <2> QED
    BY <2>1, <2>2 DEF Init, TypeOK, Ops, Reasons
<1>4. Phases /\ Counts
  BY <1>2, I2cAssumption DEF Init, Phases, Counts, InReadPhase, WithRestart
<1>5. Contents /\ DoneMeans /\ ShortCommand /\ ReadIsWhole /\ NoFalseAlarm
  BY <1>2 DEF Init, Contents, DoneMeans, ShortCommand, WithRestart, ReadIsWhole, NoFalseAlarm, Returned
<1> QED
  BY <1>1, <1>3, <1>4, <1>5 DEF IInv

\* A call starts with a cleared FIFO and status, whatever the last one left there.
LEMMA CallKeeps ==
    ASSUME IInv, NEW o \in Ops, NEW w \in Nat, NEW r \in Nat, NEW d \in Devices, Call(o, w, r, d),
           o = "write" => r = 0, o = "read" => w = 0
    PROVE  IInv'
<1> USE I2cAssumption
<1>0. calls + 1 \in 1..MaxCalls /\ calls' = calls + 1
  <2>1. calls \in 0..MaxCalls
    BY DEF IInv, TypeOK
  <2>2. calls < MaxCalls /\ calls' = calls + 1
    BY DEF Call
  <2> QED
    BY <2>1, <2>2
<1>1. /\ FilledFrom(w) \in 0..FifoSize /\ FilledFrom(w) <= w
      /\ fifo' \in Seq(Bytes) /\ Len(fifo') = FilledFrom(w)
      /\ \A k \in 1..Len(fifo') : fifo'[k] = <<calls', "out", k>>
  BY <1>0, Prefilled DEF Call, Prefill
<1>2. /\ buf' \in Seq(Bytes) /\ wire' \in Seq(Bytes) /\ buf' = << >> /\ wire' = << >>
      /\ Len(buf') = 0 /\ Len(wire') = 0
  BY EmptySeq DEF Call
<1>3. Shapes'
  BY <1>1, <1>2 DEF Shapes
<1>4. (w * PollsPerByte) % FailsafeMod \in 0..(FailsafeMod - 1)
  BY Wraps
<1>5. TypeOK'
  <2>1. \A s \in {buf', fifo', wire'} : \A k \in DOMAIN s : s[k] \in Bytes
    BY <1>1, <1>2, Elements
  <2>2. failsafe' \in 0..(FailsafeMod - 1)
    BY <1>4 DEF Call
  <2>3. pc' \in {"outer", "router", "started"}
    BY DEF Call, Ops
  <2>4. active' \in BOOLEAN /\ done' \in BOOLEAN /\ err' \in BOOLEAN /\ clkt' \in BOOLEAN /\ timeout' \in BOOLEAN
    BY DEF Call, ClearStatus
  <2>5. i' \in 0..(wlen' + rlen') /\ remaining' \in 0..(wlen' + rlen') /\ left' \in Nat
    BY <1>1 DEF Call
  <2> QED
    BY <1>0, <1>1, <2>1, <2>2, <2>3, <2>4, <2>5 DEF Call, TypeOK, Reasons
<1>6. Phases'
  BY <1>0 DEF Call, ClearStatus, Phases, InReadPhase, WithRestart, BeforeRestart, Ops
<1>7. Counts'
  BY <1>1, <1>2 DEF Call, Counts, InReadPhase, WithRestart, BeforeRestart, Ops, FilledFrom
<1>8. Contents'
  BY <1>1, <1>2 DEF Call, Contents, FilledFrom
<1>9. DoneMeans' /\ ShortCommand' /\ ReadIsWhole' /\ NoFalseAlarm'
  BY DEF Call, ClearStatus, DoneMeans, ShortCommand, WithRestart, ReadIsWhole, NoFalseAlarm, Returned, Ops
<1> QED
  BY <1>3, <1>5, <1>6, <1>7, <1>8, <1>9 DEF IInv

\* Every step of the functions and of the controller keeps the invariant.
LEMMA Inductive == IInv /\ [Next]_vars => IInv'
<1> SUFFICES ASSUME IInv, [Next]_vars PROVE IInv'
  OBVIOUS
<1> USE I2cAssumption
<1>a. /\ fifo \in Seq(Bytes) /\ buf \in Seq(Bytes) /\ wire \in Seq(Bytes)
      /\ Len(fifo) \in Nat /\ Len(buf) \in Nat /\ Len(wire) \in Nat
      /\ Len(fifo) = 0 <=> fifo = << >>
  BY Elements DEF IInv, Shapes
<1>b. i \in Nat /\ remaining \in Nat /\ wlen \in Nat /\ rlen \in Nat /\ left \in Nat /\ sent \in Nat
  BY DEF IInv, TypeOK
<1> USE DEF callVars, callerVars, statusVars, busVars
<1>1. CASE Calls
  <2>1. \E o \in Ops, w \in Nat, r \in Nat, d \in Devices :
            Call(o, w, r, d) /\ (o = "write" => r = 0) /\ (o = "read" => w = 0)
    BY <1>1 DEF Calls, CallWrite, CallRead, CallReadRegisterRs, CallWriteReadRs, Ops
  <2> QED
    BY <2>1, CallKeeps
<1>2. ASSUME UNCHANGED <<callVars, i, remaining, failsafe, timeout, reason, buf, fifo, statusVars, busVars>>,
             OuterTest \/ PollActive \/ PollMissed \/ ReadOuterTest \/ ReadLoopEnd
      PROVE  IInv'
  <2>1. TypeOK' /\ Shapes'
    BY <1>2 DEF IInv, TypeOK, Shapes, OuterTest, PollActive, PollMissed, ReadOuterTest, ReadLoopEnd, Bytes
  <2>2. Phases' /\ (InReadPhase' <=> InReadPhase)
    BY <1>2 DEF IInv, Phases, InReadPhase, WithRestart, BeforeRestart, Ops, TypeOK,
                OuterTest, PollActive, PollMissed, ReadOuterTest, ReadLoopEnd
  <2>3. Counts'
    BY <1>2, <2>2 DEF IInv, Counts, FilledFrom
  <2>4. Contents'
    BY <1>2 DEF IInv, Contents, Spoilt
  <2>5. DoneMeans'
    <3>1. CASE ReadLoopEnd /\ op = "read" /\ pc = "drain" /\ device = "good"
      BY <1>2, <1>a, <1>b, <3>1 DEF ReadLoopEnd, MoreToRead, RXD, IInv, DoneMeans, Phases, Counts, Contents,
                                     Spoilt, InReadPhase
    <3>2. CASE ~(ReadLoopEnd /\ op = "read" /\ pc = "drain" /\ device = "good")
      BY <1>2, <3>2 DEF IInv, DoneMeans, Phases, BeforeRestart, WithRestart,
                OuterTest, PollActive, PollMissed, ReadOuterTest, ReadLoopEnd
    <3> QED
      BY <3>1, <3>2
  <2>6. ShortCommand' /\ ReadIsWhole' /\ NoFalseAlarm'
    BY <1>2 DEF IInv, ShortCommand, WithRestart, Phases, ReadIsWhole, NoFalseAlarm, Returned, OuterTest, PollActive, PollMissed, ReadOuterTest, ReadLoopEnd
  <2> QED
    BY <2>1, <2>2, <2>3, <2>4, <2>5, <2>6 DEF IInv
<1>3. CASE InnerEnd
  <2>1. failsafe' \in 0..(FailsafeMod - 1) /\ timeout' \in BOOLEAN
    BY <1>3, Wraps DEF InnerEnd, Countdown, IInv, TypeOK
  <2>2. TypeOK' /\ Shapes'
    BY <1>3, <2>1 DEF InnerEnd, IInv, TypeOK, Shapes, Bytes
  <2>3. op = "write" /\ op' = "write"
    BY <1>3 DEF InnerEnd, IInv, Phases, TypeOK, Ops, WithRestart, BeforeRestart
  <2>4. Phases' /\ Counts' /\ Contents'
    BY <1>3, <2>3 DEF InnerEnd, IInv, Phases, Counts, Contents, Spoilt, InReadPhase, WithRestart, FilledFrom
  <2>5. DoneMeans' /\ ShortCommand' /\ ReadIsWhole' /\ NoFalseAlarm'
    BY <1>3, <2>3 DEF InnerEnd, IInv, DoneMeans, ShortCommand, WithRestart, ReadIsWhole, NoFalseAlarm, Returned
  <2> QED
    BY <2>2, <2>4, <2>5 DEF IInv
<1>4. CASE FifoWrite
  <2>1. failsafe' \in 0..(FailsafeMod - 1) /\ timeout' \in BOOLEAN
    BY <1>4, Wraps DEF FifoWrite, Countdown, IInv, TypeOK
  <2>2. op = "write" /\ op' = "write"
    BY <1>4 DEF FifoWrite, IInv, Phases, TypeOK, Ops, WithRestart, BeforeRestart
  <2>3. i + 1 <= wlen /\ mode = "write" /\ i' = i + 1 /\ i' + remaining' = wlen
    BY <1>4, <1>b, <2>2 DEF FifoWrite, IInv, Phases, Counts, InReadPhase, WithRestart
  <2>4. <<calls, "out", i + 1>> \in Bytes
    <3>1. calls # 0
      BY <1>4 DEF FifoWrite, IInv, Phases
    <3> QED
      BY <1>b, <3>1 DEF IInv, TypeOK, Bytes
  <2>5. /\ fifo' \in Seq(Bytes) /\ Len(fifo') = Len(fifo) + 1 /\ Len(fifo') <= FifoSize
        /\ \A k \in 1..Len(fifo) : fifo'[k] = fifo[k]
        /\ fifo'[Len(fifo) + 1] = <<calls, "out", i + 1>>
    BY <1>4, <1>a, <2>4, Appended DEF FifoWrite, TXD
  <2>6. TypeOK' /\ Shapes'
    <3>1. \A s \in {buf', fifo', wire'} : \A k \in DOMAIN s : s[k] \in Bytes
      BY <1>4, <2>5, Elements DEF FifoWrite, IInv, TypeOK
    <3> QED
      BY <1>4, <1>b, <2>1, <2>3, <2>5, <3>1 DEF FifoWrite, IInv, TypeOK, Shapes
  <2>7. Counts' /\ Phases'
    BY <1>4, <1>a, <1>b, <2>2, <2>3, <2>5 DEF FifoWrite, IInv, Phases, Counts, InReadPhase, WithRestart
  <2>8. Contents'
    <3>1. \A k \in 1..Len(fifo') : fifo'[k] = <<calls, "out", Len(wire) + k>>
      <4>1. Len(wire) + Len(fifo) = i
        BY <2>2, <2>3 DEF IInv, Counts
      <4>2. \A k \in 1..Len(fifo) : fifo[k] = <<calls, "out", Len(wire) + k>>
        BY <2>3 DEF IInv, Contents
      <4> TAKE k \in 1..Len(fifo')
      <4>3. CASE k \in 1..Len(fifo)
        BY <2>5, <4>2, <4>3
      <4>4. CASE k = Len(fifo) + 1
        <5>1. Len(wire) + k = i + 1
          BY <1>a, <4>1, <4>4
        <5> QED
          BY <2>5, <4>4, <5>1
      <4> QED
        BY <1>a, <2>5, <4>3, <4>4
    <3> QED
      BY <1>4, <2>3, <3>1 DEF FifoWrite, IInv, Contents
  <2>9. DoneMeans' /\ ShortCommand' /\ ReadIsWhole' /\ NoFalseAlarm'
    BY <1>4, <2>2 DEF FifoWrite, IInv, DoneMeans, ShortCommand, WithRestart, ReadIsWhole, NoFalseAlarm, Returned
  <2> QED
    BY <2>6, <2>7, <2>8, <2>9 DEF IInv
<1>5. CASE RepeatedStart
  <2>1. op \in WithRestart /\ op' = op /\ ~InReadPhase /\ InReadPhase' /\ mode = "write" /\ again = -1
    BY <1>5 DEF RepeatedStart, IInv, Phases, Counts, TypeOK, Ops, WithRestart, BeforeRestart, InReadPhase
  <2>2. buf = << >> /\ Len(buf) = 0 /\ sent = 0
    BY <1>a, <2>1, Elements DEF IInv, Counts
  <2>3. ~active /\ ~err /\ ~clkt => fifo = << >> /\ Len(fifo) = 0 /\ wlen <= FifoSize
    BY <1>a, <1>b, <2>1 DEF IInv, Counts, DoneMeans, WithRestart, FilledFrom
  <2>4. TypeOK' /\ Shapes'
    <3>1. mode' \in {"write", "read"} /\ left' \in Nat /\ again' \in Nat \cup {-1} /\ active' \in BOOLEAN
      BY <1>5, <1>b DEF RepeatedStart, StartTransfer, IInv, TypeOK
    <3> QED
      BY <1>5, <1>b, <3>1 DEF RepeatedStart, IInv, TypeOK, Shapes, Bytes
  <2>5. Phases'
    BY <1>5, <2>1 DEF RepeatedStart, StartTransfer, IInv, Phases, WithRestart, BeforeRestart
  <2>6. Counts'
    BY <1>5, <1>a, <1>b, <2>1, <2>2 DEF RepeatedStart, StartTransfer, IInv, Counts, WithRestart, FilledFrom
  <2>7. Contents'
    BY <1>5, <1>a, <1>b, <2>1, <2>2, <2>3 DEF RepeatedStart, StartTransfer, IInv, Contents, Spoilt, WithRestart
  <2>8. DoneMeans' /\ ShortCommand' /\ ReadIsWhole' /\ NoFalseAlarm'
    BY <1>5, <2>1, <2>3 DEF RepeatedStart, StartTransfer, IInv, DoneMeans, ShortCommand, ReadIsWhole, NoFalseAlarm, Returned, WithRestart
  <2> QED
    BY <2>4, <2>5, <2>6, <2>7, <2>8 DEF IInv
<1>6. CASE FifoRead
  <2>1. mode = "read" /\ mode' = "read" /\ InReadPhase /\ InReadPhase' /\ remaining # 0 /\ op \in Ops \ {"write"}
    BY <1>6 DEF FifoRead, MoreToRead, RXD, IInv, Phases, InReadPhase, TypeOK, Ops, WithRestart, BeforeRestart
  <2>2. /\ Head(fifo) \in Bytes /\ fifo' \in Seq(Bytes) /\ Head(fifo) = fifo[1]
        /\ Len(fifo') = Len(fifo) - 1 /\ Len(fifo) # 0
        /\ \A k \in 1..Len(fifo') : fifo'[k] = fifo[k + 1]
    BY <1>6, <1>a, Taken DEF FifoRead, MoreToRead, RXD
  <2>3. /\ buf' \in Seq(Bytes) /\ Len(buf') = Len(buf) + 1
        /\ \A k \in 1..Len(buf) : buf'[k] = buf[k]
        /\ buf'[Len(buf) + 1] = fifo[1]
    BY <1>6, <1>a, <2>2, Appended DEF FifoRead
  <2>4. TypeOK' /\ Shapes'
    <3>1. \A s \in {buf', fifo', wire'} : \A k \in DOMAIN s : s[k] \in Bytes
      BY <1>6, <2>2, <2>3, Elements DEF FifoRead, IInv, TypeOK
    <3> QED
      BY <1>6, <1>a, <1>b, <2>1, <2>2, <2>3, <3>1 DEF FifoRead, IInv, TypeOK, Shapes, Counts
  <2>5. Phases' /\ Counts'
    BY <1>6, <1>a, <1>b, <2>1, <2>3 DEF FifoRead, IInv, Phases, Counts
  <2>6. Contents'
    <3> SUFFICES ASSUME ~Spoilt PROVE Contents'
      BY <1>6, <2>1 DEF FifoRead, Contents, Spoilt
    <3>1. /\ Len(buf) + Len(fifo) = sent
          /\ \A k \in 1..Len(buf) : buf[k] = <<calls, "in", k>>
          /\ \A k \in 1..Len(fifo) : fifo[k] = <<calls, "in", Len(buf) + k>>
          /\ sent + left = rlen \/ (left = 0 /\ device = "noisy" /\ sent = rlen + 1)
      BY <2>1 DEF IInv, Contents
    <3>2. ASSUME NEW k \in 1..Len(buf') PROVE buf'[k] = <<calls, "in", k>>
      <4>1. CASE k \in 1..Len(buf)
        BY <2>3, <3>1, <4>1
      <4>2. CASE k = Len(buf) + 1
        <5>1. 1 \in 1..Len(fifo)
          BY <1>a, <2>2
        <5> QED
          BY <2>3, <3>1, <4>2, <5>1
      <4> QED
        BY <1>a, <2>3, <4>1, <4>2
    <3>3. ASSUME NEW k \in 1..Len(fifo') PROVE fifo'[k] = <<calls, "in", Len(buf') + k>>
      <4>1. k + 1 \in 1..Len(fifo) /\ Len(buf) + (k + 1) = Len(buf') + k
        BY <1>a, <2>2, <2>3
      <4>2. fifo[k + 1] = <<calls, "in", Len(buf) + (k + 1)>>
        BY <3>1, <4>1
      <4> QED
        BY <2>2, <4>1, <4>2
    <3>4. Len(buf') + Len(fifo') = sent
      BY <1>a, <2>2, <2>3, <3>1
    <3> QED
      BY <1>6, <2>1, <3>1, <3>2, <3>3, <3>4 DEF FifoRead, Contents
  <2>7. DoneMeans' /\ ShortCommand' /\ ReadIsWhole' /\ NoFalseAlarm'
    BY <1>6, <2>1 DEF FifoRead, IInv, DoneMeans, ShortCommand, ReadIsWhole, NoFalseAlarm, Returned
  <2> QED
    BY <2>4, <2>5, <2>6, <2>7 DEF IInv
<1>7. CASE Return
  <2>1. Reason \in Reasons
    BY DEF Reason, Reasons
  <2>2. /\ done' \in BOOLEAN /\ err' \in BOOLEAN /\ clkt' \in BOOLEAN
        /\ op # "read" => UNCHANGED <<done, err, clkt>>
        /\ op = "read" => ~done' /\ ~err' /\ ~clkt'
    BY <1>7 DEF Return, Acknowledge, ClearStatus, IInv, TypeOK
  <2>3. TypeOK' /\ Shapes'
    BY <1>7, <2>1, <2>2 DEF Return, IInv, TypeOK, Shapes, Bytes
  <2>4. Phases' /\ (InReadPhase' <=> InReadPhase)
    BY <1>7, <2>2 DEF Return, IInv, Phases, InReadPhase, WithRestart, BeforeRestart
  <2>5. Counts'
    BY <1>7, <2>4 DEF Return, IInv, Counts, FilledFrom
  <2>6. Contents'
    BY <1>7, <2>2 DEF Return, IInv, Contents, Spoilt
  <2>7. Reason = "OK" => ~timeout /\ ~err /\ ~clkt /\ remaining = 0
    BY <1>b DEF Reason
  <2>8. DoneMeans' /\ ShortCommand'
    BY <1>7, <2>2, <2>7 DEF Return, IInv, DoneMeans, ShortCommand, WithRestart
  <2>9. ReadIsWhole'
    <3> SUFFICES ASSUME op # "write", Reason = "OK" PROVE buf = [k \in 1..rlen |-> <<calls, "in", k>>]
      BY <1>7 DEF Return, ReadIsWhole, Returned
    <3>1. InReadPhase
      BY <1>7 DEF Return, InReadPhase, IInv, TypeOK, Ops, WithRestart, BeforeRestart
    <3>2. Len(buf) = rlen /\ \A k \in 1..Len(buf) : buf[k] = <<calls, "in", k>>
      BY <1>a, <1>b, <2>7, <3>1, EmptySeq DEF IInv, Counts, Contents, Spoilt, TypeOK
    <3> QED
      BY <1>a, <3>2, Elements
  <2>10. NoFalseAlarm'
    <3> SUFFICES ASSUME op = "read", device = "good" PROVE Reason = "OK"
      BY <1>7 DEF Return, NoFalseAlarm, Returned
    <3>1. ~timeout /\ ~err /\ ~clkt /\ remaining = 0
      BY <1>7 DEF Return, IInv, Phases, DoneMeans
    <3> QED
      BY <3>1 DEF Reason
  <2> QED
    BY <2>3, <2>4, <2>5, <2>6, <2>8, <2>9, <2>10 DEF IInv
<1>8. CASE ShiftOut
  <2>1. /\ Head(fifo) \in Bytes /\ fifo' \in Seq(Bytes) /\ Head(fifo) = fifo[1]
        /\ Len(fifo') = Len(fifo) - 1 /\ Len(fifo) # 0
        /\ \A k \in 1..Len(fifo') : fifo'[k] = fifo[k + 1]
    BY <1>8, <1>a, Taken DEF ShiftOut
  <2>2. /\ wire' \in Seq(Bytes) /\ Len(wire') = Len(wire) + 1
        /\ \A k \in 1..Len(wire) : wire'[k] = wire[k]
        /\ wire'[Len(wire) + 1] = fifo[1]
    BY <1>8, <1>a, <2>1, Appended DEF ShiftOut
  <2>3. TypeOK' /\ Shapes'
    <3>1. \A s \in {buf', fifo', wire'} : \A k \in DOMAIN s : s[k] \in Bytes
      BY <1>8, <2>1, <2>2, Elements DEF ShiftOut, IInv, TypeOK
    <3> QED
      BY <1>8, <1>a, <1>b, <2>1, <2>2, <3>1 DEF ShiftOut, IInv, TypeOK, Shapes
  <2>4. Phases' /\ (InReadPhase' <=> InReadPhase)
    BY <1>8 DEF ShiftOut, IInv, Phases, InReadPhase
  <2>5. Counts'
    <3>1. left' + Len(wire') = left + Len(wire) /\ Len(wire') + Len(fifo') = Len(wire) + Len(fifo)
      BY <1>8, <1>a, <1>b, <2>1, <2>2 DEF ShiftOut
    <3> QED
      BY <1>8, <2>4, <3>1 DEF ShiftOut, IInv, Counts, FilledFrom
  <2>6. Contents'
    BY <1>8, <1>a, <1>b, <2>1, <2>2 DEF ShiftOut, IInv, Contents
  <2>7. DoneMeans' /\ ShortCommand' /\ ReadIsWhole' /\ NoFalseAlarm'
    BY <1>8, <1>b DEF ShiftOut, IInv, DoneMeans, ShortCommand, ReadIsWhole, NoFalseAlarm, Returned
  <2> QED
    BY <2>3, <2>4, <2>5, <2>6, <2>7 DEF IInv
<1>9. CASE ShiftIn
  <2>1. <<calls, "in", sent + 1>> \in Bytes
    <3>1. calls # 0
      BY <1>9 DEF ShiftIn, Working, IInv, Phases
    <3> QED
      BY <1>b, <3>1 DEF IInv, TypeOK, Bytes
  <2>2. /\ fifo' \in Seq(Bytes) /\ Len(fifo') = Len(fifo) + 1 /\ Len(fifo') <= FifoSize
        /\ \A k \in 1..Len(fifo) : fifo'[k] = fifo[k]
        /\ fifo'[Len(fifo) + 1] = <<calls, "in", sent + 1>>
    BY <1>9, <1>a, <2>1, Appended DEF ShiftIn, TXD
  <2>3. TypeOK' /\ Shapes'
    <3>1. \A s \in {buf', fifo', wire'} : \A k \in DOMAIN s : s[k] \in Bytes
      BY <1>9, <2>2, Elements DEF ShiftIn, IInv, TypeOK
    <3> QED
      BY <1>9, <1>a, <1>b, <2>2, <3>1 DEF ShiftIn, IInv, TypeOK, Shapes
  <2>4. Phases' /\ (InReadPhase' <=> InReadPhase)
    BY <1>9 DEF ShiftIn, IInv, Phases, InReadPhase
  <2>5. Counts'
    BY <1>9, <2>4 DEF ShiftIn, IInv, Counts, FilledFrom
  <2>6. Contents'
    <3> SUFFICES ASSUME ~Spoilt PROVE Contents'
      BY <1>9 DEF ShiftIn, Contents, Spoilt
    <3>1. /\ Len(buf) + Len(fifo) = sent
          /\ \A k \in 1..Len(buf) : buf[k] = <<calls, "in", k>>
          /\ \A k \in 1..Len(fifo) : fifo[k] = <<calls, "in", Len(buf) + k>>
          /\ sent + left = rlen \/ (left = 0 /\ device = "noisy" /\ sent = rlen + 1)
      BY <1>9 DEF ShiftIn, IInv, Contents
    <3>2. Len(buf) + Len(fifo') = sent'
      BY <1>9, <1>a, <1>b, <2>2, <3>1 DEF ShiftIn
    <3>3. ASSUME NEW k \in 1..Len(fifo') PROVE fifo'[k] = <<calls, "in", Len(buf) + k>>
      <4>1. CASE k \in 1..Len(fifo)
        BY <2>2, <3>1, <4>1
      <4>2. CASE k = Len(fifo) + 1
        <5>1. Len(buf) + k = sent + 1
          BY <1>a, <3>1, <4>2
        <5> QED
          BY <2>2, <4>2, <5>1
      <4> QED
        BY <1>a, <2>2, <4>1, <4>2
    <3>4. sent' + left' = rlen \/ (left' = 0 /\ device = "noisy" /\ sent' = rlen + 1)
      <4>1. CASE left > 0
        <5>1. left' = left - 1 /\ sent' = sent + 1 /\ sent + left = rlen
          BY <1>9, <1>b, <3>1, <4>1 DEF ShiftIn
        <5> QED
          BY <1>b, <5>1
      <4>2. CASE ~(left > 0)
        BY <1>9, <1>b, <3>1, <4>2 DEF ShiftIn
      <4> QED
        BY <4>1, <4>2
    <3> QED
      BY <1>9, <3>1, <3>2, <3>3, <3>4 DEF ShiftIn, Contents
  <2>7. DoneMeans' /\ ShortCommand' /\ ReadIsWhole' /\ NoFalseAlarm'
    BY <1>9, <1>b DEF ShiftIn, IInv, DoneMeans, ShortCommand, ReadIsWhole, NoFalseAlarm, Returned
  <2> QED
    BY <2>3, <2>4, <2>5, <2>6, <2>7 DEF IInv
<1>10. CASE Complete
  <2>1. CASE again # -1
    <3>1. again = rlen /\ op \in WithRestart /\ InReadPhase /\ mode = "write"
      BY <2>1 DEF IInv, Phases
    <3>2. wlen <= FifoSize /\ Len(fifo) = 0 /\ buf = << >> /\ Len(buf) = 0 /\ sent = 0
      BY <1>10, <1>a, <1>b, <3>1, EmptySeq DEF Complete, IInv, Counts, FilledFrom, WithRestart
    <3>3. TypeOK' /\ Shapes'
      BY <1>10, <1>b, <3>1 DEF Complete, IInv, TypeOK, Shapes, Bytes
    <3>4. mode' = "read" /\ left' = rlen /\ again' = -1 /\ UNCHANGED <<active, done>>
      BY <1>10, <1>b, <3>1 DEF Complete
    <3>5. Phases' /\ InReadPhase'
      BY <1>10, <3>1, <3>4 DEF Complete, IInv, Phases, InReadPhase, WithRestart
    <3>6. Counts' /\ Contents'
      BY <1>10, <1>b, <3>1, <3>2, <3>4, <3>5 DEF Complete, IInv, Counts, Contents
    <3>7. DoneMeans' /\ ShortCommand' /\ ReadIsWhole' /\ NoFalseAlarm'
      BY <1>10, <3>1, <3>2, <3>4 DEF Complete, Working, IInv, DoneMeans, ShortCommand, ReadIsWhole, NoFalseAlarm, Returned, WithRestart
    <3> QED
      BY <3>3, <3>5, <3>6, <3>7 DEF IInv
  <2>2. CASE again = -1
    <3>1. ~active' /\ active' = FALSE /\ done' = TRUE /\ UNCHANGED <<mode, left, again>> /\ left = 0
      BY <1>10, <2>2 DEF Complete
    <3>2. TypeOK' /\ Shapes'
      BY <1>10, <3>1 DEF Complete, IInv, TypeOK, Shapes, Bytes
    <3>3. Phases' /\ (InReadPhase' <=> InReadPhase)
      BY <1>10, <3>1 DEF Complete, IInv, Phases, InReadPhase
    <3>4. Counts' /\ Contents'
      BY <1>10, <3>1, <3>3 DEF Complete, IInv, Counts, Contents, Spoilt, FilledFrom
    <3>a. op \in WithRestart /\ mode = "write" => wlen <= FifoSize
      BY <1>a, <1>b, <3>1 DEF IInv, Counts, FilledFrom, WithRestart
    <3>5. DoneMeans' /\ ShortCommand' /\ ReadIsWhole' /\ NoFalseAlarm'
      BY <1>10, <3>1, <3>a DEF TypeOK, Complete, IInv, DoneMeans, ShortCommand, ReadIsWhole, NoFalseAlarm, Returned
    <3> QED
      BY <3>2, <3>3, <3>4, <3>5 DEF IInv
  <2> QED
    BY <2>1, <2>2
<1>11. CASE Abort
  <2>1. /\ err' \in BOOLEAN /\ clkt' \in BOOLEAN /\ (err' \/ clkt') /\ device # "good"
        /\ active' = FALSE /\ done' = TRUE /\ again' = -1
    BY <1>11 DEF Abort, IInv, TypeOK
  <2>2. TypeOK' /\ Shapes'
    BY <1>11, <2>1 DEF Abort, IInv, TypeOK, Shapes, Bytes
  <2>3. Phases' /\ (InReadPhase' <=> InReadPhase)
    BY <1>11, <2>1 DEF Abort, IInv, Phases, InReadPhase
  <2>4. Counts' /\ Contents'
    BY <1>11, <2>1, <2>3 DEF Abort, IInv, Counts, Contents, Spoilt, FilledFrom
  <2>5. DoneMeans' /\ ShortCommand' /\ ReadIsWhole' /\ NoFalseAlarm'
    BY <1>11, <2>1 DEF Abort, IInv, DoneMeans, ShortCommand, ReadIsWhole, NoFalseAlarm, Returned
  <2> QED
    BY <2>2, <2>3, <2>4, <2>5 DEF IInv
<1>12. CASE UNCHANGED vars
  <2>1. TypeOK' /\ Shapes' /\ Phases' /\ (InReadPhase' <=> InReadPhase)
    BY <1>12 DEF vars, IInv, TypeOK, Shapes, Phases, InReadPhase, Bytes
  <2>2. Counts' /\ Contents'
    BY <1>12, <2>1 DEF vars, IInv, Counts, Contents, Spoilt, FilledFrom
  <2>3. DoneMeans' /\ ShortCommand' /\ ReadIsWhole' /\ NoFalseAlarm'
    BY <1>12 DEF vars, IInv, DoneMeans, ShortCommand, ReadIsWhole, NoFalseAlarm, Returned
  <2> QED
    BY <2>1, <2>2, <2>3 DEF IInv
<1> QED
  BY <1>1, <1>2, <1>3, <1>4, <1>5, <1>6, <1>7, <1>8, <1>9, <1>10, <1>11, <1>12
     DEF Next, Caller, Controller, OuterTest, PollActive, PollMissed, ReadOuterTest, ReadLoopEnd

\* The invariant holds in every reachable state.
LEMMA Invariance == Spec => []IInv
  BY Initial, Inductive, PTL DEF Spec

(* The counters of every I2C function stay within the lengths asked for,   *)
(* the failsafe counter within its width and the FIFO within its size.     *)
THEOREM I2cTypes == Spec => []TypeOK
<1>1. IInv => TypeOK
  BY DEF IInv
<1> QED
  BY Invariance, <1>1, PTL

(* bcm2835_i2c_write that returns OK has put exactly the caller's bytes on  *)
(* the wire, in order, for every length, FIFO size and pace of the bus.     *)
THEOREM I2cWriteDelivers == Spec => []WriteDelivers
<1>1. IInv => WriteDelivers
  <2> SUFFICES ASSUME IInv, op = "write", pc = "idle", reason = "OK"
               PROVE  wire = [k \in 1..wlen |-> <<calls, "out", k>>]
    BY DEF WriteDelivers, Returned
  <2>1. wire \in Seq(Bytes) /\ Len(wire) \in Nat
    BY Elements DEF IInv, Shapes
  <2>2. Len(wire) = wlen /\ \A k \in 1..Len(wire) : wire[k] = <<calls, "out", k>>
    BY <2>1 DEF IInv, Phases, Counts, Contents, DoneMeans, TypeOK
  <2> QED
    BY <2>1, <2>2, Elements
<1> QED
  BY Invariance, <1>1, PTL

(* A read that returns OK, with or without a repeated start, has stored     *)
(* exactly the bytes that the device sent in this call, in order.           *)
THEOREM I2cReadIsWhole == Spec => []ReadIsWhole
<1>1. IInv => ReadIsWhole
  BY DEF IInv
<1> QED
  BY Invariance, <1>1, PTL

(* No function stores more bytes than the caller's buffer holds, whatever  *)
(* the line delivers.                                                      *)
THEOREM I2cNoOverrun == Spec => []NoOverrun
<1>1. IInv => NoOverrun
  <2> SUFFICES ASSUME IInv PROVE Len(buf) <= rlen
    BY DEF NoOverrun
  <2>1. i \in Nat /\ remaining \in Nat /\ rlen \in Nat
    BY DEF IInv, TypeOK
  <2>2. CASE InReadPhase
    BY <2>1, <2>2 DEF IInv, Counts
  <2>3. CASE ~InReadPhase
    BY <2>1, <2>3 DEF IInv, Counts
  <2> QED
    BY <2>2, <2>3
<1> QED
  BY Invariance, <1>1, PTL

(* bcm2835_i2c_read never reports a failure of a device that answers: the  *)
(* loop after DONE takes what is left in the FIFO.                         *)
THEOREM I2cNoFalseAlarm == Spec => []NoFalseAlarm
<1>1. IInv => NoFalseAlarm
  BY DEF IInv
<1> QED
  BY Invariance, <1>1, PTL

\* A command of bcm2835_i2c_write_read_rs that does not fit into the FIFO.
LongCommandFails ==
    Returned /\ op = "write_read_rs" /\ wlen > FifoSize => err \/ clkt

(* bcm2835_i2c_write_read_rs never returns from a command longer than the  *)
(* FIFO unless the controller reports an error: the disagreement that the  *)
(* run about ArbitraryCommand shows for three bytes, for every length.     *)
THEOREM I2cLongCommandFails == Spec => []LongCommandFails
<1>1. IInv => LongCommandFails
  BY I2cAssumption DEF IInv, TypeOK, ShortCommand, LongCommandFails, Returned, WithRestart
<1> QED
  BY Invariance, <1>1, PTL
=============================================================================
