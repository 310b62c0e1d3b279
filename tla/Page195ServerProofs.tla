-------------------------- MODULE Page195ServerProofs --------------------------
(***************************************************************************)
(* Proofs about Page195Server for every number of clients and datagrams,   *)
(* every width of the timer's halves and every pulse length that the       *)
(* threshold can tell apart.  bcm2835_st_read is used through its own      *)
(* invariant, TimerInv: the server's steps keep it, and what it says of    *)
(* the value returned bounds the pulse that GetDHT22data computes.         *)
(***************************************************************************)
EXTENDS Page195Server, SystemTimerProofs, SequenceTheorems

\* A moment of the timer as a number of ticks.
Ticks(m) == m[1] * Low + m[2]

Pulse == Width(frame[j])

Timing == {"answer", "rise", "stampRise", "fall", "stampFall"}

Labels == {"main", "select", "command", "reply", "measure", "decode", "send", "exit"} \cup Timing

\* What recvfrom finds in the socket.
Items == [from : Clients, data : Datagrams] \cup {SocketError}

\* Types, and who is served where.
Serves ==
    /\ pc \in Labels /\ dest \in Clients \cup {none}
    /\ inbox \in Seq(Items)
    /\ pc = "main" => ~commanded
    /\ pc \notin {"main", "select", "command", "reply", "exit"} => dest # none
    /\ pc \in {"select", "command"} /\ dest = none => ~(commanded /\ lamp)
    /\ pc = "reply" => buffer \in {"CONNECT", "CLOSE"} /\ lamp = (buffer = "CONNECT")

\* The bits decoded so far are those that the line showed; a dead line shows its level.
Bits ==
    /\ frame \in [1..3 -> {0, 1}] /\ buf \in [1..3 -> {0, 1}] /\ j \in 1..3 /\ line \in Lines
    /\ j # 1 => pc \in Timing \cup {"decode"}
    /\ \A i \in 1..3 : i < j \/ pc = "decode" => buf[i] = frame[i]
    /\ pc \in Timing \ {"answer", "rise"} => frame[j] \in BitsShown(line)

\* When the call of bcm2835_st_read began, or would begin.
Began == IF rd = "idle" THEN Now ELSE began

\* Two reads of the timer are as far apart as the edges of the pulse, give or take the jitter.
SensorPulse ==
    /\ pc = "stampRise" => left + jitter = Pulse
    /\ pc = "fall" => /\ Pulse - MaxJitter <= left /\ left <= Pulse
                      /\ Ticks(t) <= Ticks(Now) /\ Ticks(Now) <= Ticks(t) + (Pulse - left)
    /\ pc = "stampFall" => /\ left = 0
                           /\ Ticks(t) + Pulse - MaxJitter <= Ticks(Began)
                           /\ Ticks(Began) <= Ticks(t) + Pulse

\* On a dead line the two reads of the timer are next to each other, or as far apart as the loop
\* between them lasts that gives up.
DeadPulse ==
    /\ pc \in {"stampRise", "fall", "stampFall"} => left = 0
    /\ pc = "fall" => Ticks(t) <= Ticks(Now) /\ Ticks(Now) <= Ticks(t) + MaxJitter
    /\ pc = "stampFall" /\ line = "low" => /\ Ticks(t) <= Ticks(Began)
                                           /\ Ticks(Began) <= Ticks(t) + MaxJitter
    /\ pc = "stampFall" /\ line = "high" => Ticks(t) + PollUs <= Ticks(Began)

\* Where the measurement stands with respect to the pulse on the line.
Pulses ==
    /\ jitter \in 0..MaxJitter /\ left \in Nat /\ t \in Moments
    /\ pc \notin {"main", "exit"} => st_mapped
    /\ pc \notin {"stampRise", "stampFall"} => rd = "idle" /\ jitter = 0
    /\ Ticks(Now) = Ticks(Began) + jitter
    /\ line = "sensor" => SensorPulse
    /\ line # "sensor" => DeadPulse

\* The record holds the temperature in the last consistent frame.
Record == measured # << >> => rec \in ToUint32(measured[1])

PageInv == TimerInv /\ Serves /\ Bits /\ Pulses /\ Record

-----------------------------------------------------------------------------
(* Ticks. *)

\* A product with the size of the low half, without which the provers multiply.
LEMMA Multiples ==
    ASSUME NEW a \in Nat, NEW b \in Nat
    PROVE  /\ a * Low \in Nat /\ (a + b) * Low = a * Low + b * Low
           /\ a < b => a * Low + Low <= b * Low
<1>1. a * Low \in Nat
  BY LowAssumption, SMT
<1>2. (a + b) * Low = a * Low + b * Low
  BY LowAssumption, SMT
<1>3. ASSUME a < b PROVE a * Low + Low <= b * Low
  <2>1. PICK d \in Nat : b = a + 1 + d
    <3>1. b - a - 1 \in Nat /\ b = a + 1 + (b - a - 1)
      BY <1>3
    <3> QED
      BY <3>1
  <2>2. b * Low = a * Low + Low + d * Low
    BY <2>1, LowAssumption, SMT
  <2>3. d * Low \in Nat /\ a * Low \in Nat
    BY <1>1, LowAssumption, SMT
  <2> QED
    BY <2>2, <2>3, LowAssumption
<1> QED
  BY <1>1, <1>2, <1>3

\* Ticks of moments are numbers in the order of the moments.
LEMMA TicksOrder ==
    ASSUME NEW a \in Moments, NEW b \in Moments
    PROVE  /\ Ticks(a) \in Nat
           /\ NotAfter(a, b) => Ticks(a) <= Ticks(b)
<1>1. /\ a[1] \in Nat /\ a[2] \in Nat /\ a[2] < Low
      /\ b[1] \in Nat /\ b[2] \in Nat /\ b[2] < Low
  BY LowAssumption DEF Moments
<1>2. a[1] * Low \in Nat /\ b[1] * Low \in Nat /\ (a[1] < b[1] => a[1] * Low + Low <= b[1] * Low)
  BY <1>1, Multiples
<1> DEFINE x == a[1] * Low  y == b[1] * Low
<1>3. x \in Nat /\ y \in Nat /\ (a[1] < b[1] => x + Low <= y) /\ (a[1] = b[1] => x = y)
  BY <1>2
<1> HIDE DEF x, y
<1>4. x + a[2] \in Nat /\ (NotAfter(a, b) => x + a[2] <= y + b[2])
  BY <1>1, <1>3, LowAssumption DEF NotAfter
<1> QED
  BY <1>4 DEF Ticks, x, y

\* After n ticks the timer stands at the moment After(n), whatever it carried.
LEMMA TicksAfter ==
    ASSUME chi \in Nat, clo \in 0..(Low - 1), NEW n \in Nat
    PROVE  /\ After(n)[1] \in Nat /\ After(n)[2] \in 0..(Low - 1)
           /\ Ticks(After(n)) = Ticks(Now) + n
<1> DEFINE q == (clo + n) \div Low
           m == (clo + n) % Low
<1>1. q \in Nat /\ m \in 0..(Low - 1) /\ clo + n = q * Low + m
  BY LowAssumption, SMT
<1> HIDE DEF q, m
<1>2. (chi + q) * Low = chi * Low + q * Low /\ chi * Low \in Nat /\ q * Low \in Nat
  BY <1>1, Multiples
<1> DEFINE x == chi * Low  y == q * Low  z == (chi + q) * Low
<1>3. z = x + y /\ x \in Nat /\ y \in Nat /\ clo + n = y + m
  BY <1>1, <1>2
<1> HIDE DEF x, y, z
<1>4. z + m = x + clo + n
  BY <1>1, <1>3, LowAssumption
<1>5. After(n) = <<chi + q, m>> /\ chi + q \in Nat
  BY <1>1 DEF After, q, m
<1>6. Ticks(After(n)) = z + m /\ Ticks(Now) = x + clo
  BY <1>5 DEF Ticks, Now, x, z
<1> QED
  BY <1>1, <1>3, <1>4, <1>5, <1>6

\* The difference that GetDHT22data stores in tbuf[j] is the number of ticks.
LEMMA ElapsedTicks ==
    ASSUME value \in Moments, t \in Moments
    PROVE  Elapsed = Ticks(value) - Ticks(t)
<1>1. /\ value[1] \in Nat /\ value[2] \in Nat /\ t[1] \in Nat /\ t[2] \in Nat
  BY LowAssumption DEF Moments
<1>2. (value[1] - t[1]) * Low = value[1] * Low - t[1] * Low
  BY <1>1, LowAssumption, SMT
<1>3. value[1] * Low \in Nat /\ t[1] * Low \in Nat
  BY <1>1, Multiples
<1> QED
  BY <1>1, <1>2, <1>3 DEF Elapsed, Ticks

\* How long a polling loop runs on a line that shows the level in time, at once or never.
LEMMA PollTicks ==
    ASSUME NEW l \in Lines, NEW level \in {"low", "high"}, NEW ticks \in Nat
    PROVE  /\ Poll(l, level, ticks) \subseteq Nat
           /\ l = "sensor" /\ ticks <= PollUs => Poll(l, level, ticks) = {ticks}
           /\ l # "sensor" /\ l = level => Poll(l, level, ticks) = {0}
           /\ l # "sensor" /\ l # level => Poll(l, level, ticks) = {PollUs}
<1>1. PollUs \in Nat
  BY PulseAssumption
<1>2. CASE l = "sensor"
  BY <1>1, <1>2 DEF Poll
<1>3. CASE l # "sensor" /\ l = level
  BY <1>1, <1>3 DEF Poll
<1>4. CASE l # "sensor" /\ l # level
  BY <1>1, <1>4 DEF Poll
<1> QED
  BY <1>2, <1>3, <1>4

-----------------------------------------------------------------------------
(* The invariant. *)

\* The program starts with the timer idle and nothing measured.
LEMMA PageInitial == Init => PageInv
<1> SUFFICES ASSUME Init PROVE PageInv
  OBVIOUS
<1>1. TimerInv
  BY TimerInitial DEF Init
<1>2. Serves
  BY EmptySeq DEF Init, Serves, Labels
<1>3. Bits
  BY DEF Init, Bits, NoBits, Lines, Timing
<1>4. Pulses
  <2>1. <<0, 0>> \in Moments /\ Now \in Moments
    BY <1>1, LowAssumption DEF Moments, Now, TimerInv, TimerTypeOK
  <2>2. Ticks(Now) = Ticks(Began) + 0
    BY <2>1, TicksOrder DEF Init, TimerInit, Began
  <2> QED
    BY <2>1, <2>2, PulseAssumption DEF Init, TimerInit, Pulses, SensorPulse, DeadPulse
<1>5. Record
  BY DEF Init, Record
<1> QED
  BY <1>1, <1>2, <1>3, <1>4, <1>5 DEF PageInv

\* The steps of loop(), which leave the timer and the measurement alone.
LEMMA LoopKeeps ==
    ASSUME PageInv, Unmeasured,
           \/ Main \/ SelectTimeout \/ SelectError \/ Receive \/ Command \/ Reply \/ SendFails \/ Send
           \/ SocketFails
           \/ \E c \in Clients, d \in Datagrams : Arrive(c, d)
    PROVE  PageInv'
<1>1. TimerInv'
  <2>1. UNCHANGED timerVars
    BY DEF Unmeasured
  <2> QED
    BY <2>1, TimerInductive DEF PageInv
<1>2. /\ pc \notin Timing \cup {"decode"} /\ pc' \notin Timing \cup {"decode"}
      /\ pc' \notin {"main", "exit"} => pc \notin {"main", "exit"} \/ st_mapped
  BY DEF Main, SelectTimeout, SelectError, Receive, Command, Reply, SendFails, Send, Arrive, SocketFails, Goto, Timing
<1>3. Bits' /\ Record'
  BY <1>2 DEF PageInv, Bits, Record, Unmeasured, Timing
<1>4. Pulses'
  BY <1>2 DEF PageInv, Pulses, SensorPulse, DeadPulse, Unmeasured, timerVars, Began, Now, Ticks, Moments, Timing
<1>5. Serves'
  <2> USE DEF PageInv, Serves, Labels, Timing, Goto
  <2>1. CASE Main
    BY <2>1 DEF Main
  <2>2. CASE SelectTimeout \/ SelectError \/ SendFails \/ Send
    BY <2>2 DEF SelectTimeout, SelectError, SendFails, Send
  <2>3. CASE Receive
    <3>1. Head(inbox) \in Items /\ Tail(inbox) \in Seq(Items)
      BY <2>3, HeadTailProperties DEF Receive
    <3>2. /\ dest' \in Clients \cup {none} /\ (dest' = none => dest = none)
          /\ pc = "select" /\ pc' = "command" /\ inbox' \in Seq(Items) /\ UNCHANGED <<lamp, commanded>>
      BY <2>3, <3>1, DestAssumption DEF Receive, Items
    <3> QED
      BY <3>2
  <2>4. CASE Command
    BY <2>4 DEF Command, LampAfter
  <2>5. CASE Reply
    BY <2>5 DEF Reply
  <2>6. ASSUME NEW c \in Clients, NEW d \in Datagrams, Arrive(c, d) PROVE Serves'
    <3>1. inbox' \in Seq(Items)
      BY <2>6, AppendProperties DEF Arrive, Items
    <3> QED
      BY <2>6, <3>1 DEF Arrive
  <2>7. CASE SocketFails
    <3>1. <<SocketError>> \in Seq(Items)
      BY DEF Items
    <3>2. inbox' \in Seq(Items)
      BY <2>7, <3>1, ConcatProperties DEF SocketFails
    <3> QED
      BY <2>7, <3>2 DEF SocketFails
  <2> QED
    BY <2>1, <2>2, <2>3, <2>4, <2>5, <2>6, <2>7
<1> QED
  BY <1>1, <1>3, <1>4, <1>5 DEF PageInv

\* The steps of GetDHT22data keep the conversation with the clients.
LEMMA MeasurementServes ==
    ASSUME Serves, Unserved, pc \in {"measure", "decode"} \cup Timing,
           pc' \in {"decode", "send"} \cup Timing
    PROVE  Serves'
  BY DEF Serves, Unserved, Labels, Timing

\* Every step of the program, the network and the timer keeps the invariant.
LEMMA PageInductive == PageInv /\ [Next]_vars => PageInv'
<1> SUFFICES ASSUME PageInv, [Next]_vars PROVE PageInv'
  OBVIOUS
<1>a. chi \in Nat /\ clo \in 0..(Low - 1) /\ Now \in Moments /\ value \in Moments /\ began \in Moments /\ t \in Moments
  BY DEF PageInv, TimerInv, TimerTypeOK, Pulses, Moments, Now
<1>b. /\ frame \in [1..3 -> {0, 1}] /\ buf \in [1..3 -> {0, 1}] /\ j \in 1..3 /\ line \in Lines
      /\ left \in Nat /\ jitter \in 0..MaxJitter
  BY DEF PageInv, Bits, Pulses
<1>c. /\ Pulse \in Nat /\ MaxJitter < Pulse /\ MaxJitter \in Nat /\ Pulse <= PollUs
      /\ PollUs \in Nat /\ RestUs \in Nat
  BY PulseAssumption DEF Pulse, Width
<1>d. \A h \in Nat, l \in 0..(Low - 1) : Advance(h, l) => TimerInv'
  BY TimerInductive DEF PageInv, TimerNext
<1>e. ASSUME NEW n \in Nat, Advance(After(n)[1], After(n)[2])
      PROVE  TimerInv' /\ Now' \in Moments /\ Ticks(Now') = Ticks(Now) + n
  <2>1. /\ After(n)[1] \in Nat /\ After(n)[2] \in 0..(Low - 1) /\ Ticks(After(n)) = Ticks(Now) + n
    BY <1>a, TicksAfter
  <2>2. Now' = After(n)
    BY <1>e DEF Advance, Now, After
  <2> QED
    BY <1>d, <1>e, <2>1, <2>2 DEF Moments, After
<1>1. CASE Main \/ SelectTimeout \/ SelectError \/ Receive \/ Command \/ Reply \/ SendFails \/ Send
           \/ SocketFails
           \/ \E c \in Clients, d \in Datagrams : Arrive(c, d)
  <2>1. Unmeasured
    BY <1>1 DEF Main, SelectTimeout, SelectError, Receive, Command, Reply, SendFails, Send, SocketFails, Arrive
  <2> QED
    BY <1>1, <2>1, LoopKeeps
<1>2. CASE Measure
  <2>1. PICK l \in 0..(Low - 1) : Advance(chi, l)
    BY <1>2 DEF Measure
  <2>2. TimerInv'
    BY <1>a, <1>d, <2>1
  <2>3. Serves'
    BY <1>2, MeasurementServes DEF Measure, Goto, PageInv, Timing
  <2>4. Bits' /\ Record'
    BY <1>2 DEF Measure, Goto, PageInv, Bits, Record, Timing
  <2>5. rd = "idle" /\ rd' = "idle" /\ jitter = 0
    BY <1>2, <2>1 DEF Measure, Advance, PageInv, Pulses
  <2>6. Now' \in Moments
    BY <2>2 DEF TimerInv, TimerTypeOK, Moments, Now
  <2>7. Ticks(Now') = Ticks(Began') + 0
    BY <2>5, <2>6, TicksOrder DEF Began
  <2>8. Pulses'
    BY <1>2, <2>1, <2>5, <2>7 DEF Measure, Advance, Goto, PageInv, Pulses, SensorPulse, DeadPulse, Moments, Ticks
  <2> QED
    BY <2>2, <2>3, <2>4, <2>8 DEF PageInv
<1>2a. CASE WaitAnswer
  <2>1. PICK n \in Nat : Advance(After(n)[1], After(n)[2])
    BY <1>2a, <1>b, <1>c, PollTicks DEF WaitAnswer
  <2>2. TimerInv' /\ Now' \in Moments
    BY <1>e, <2>1
  <2>3. Serves'
    BY <1>2a, MeasurementServes DEF WaitAnswer, Goto, PageInv, Timing
  <2>4. Bits' /\ Record'
    BY <1>2a DEF WaitAnswer, Goto, PageInv, Bits, Record, Timing
  <2>5. rd = "idle" /\ rd' = "idle" /\ jitter = 0
    BY <1>2a, <2>1 DEF WaitAnswer, Advance, PageInv, Pulses
  <2>6. Ticks(Now') = Ticks(Began') + 0
    BY <2>2, <2>5, TicksOrder DEF Began
  <2>7. Pulses'
    BY <1>2a, <2>1, <2>5, <2>6 DEF WaitAnswer, Advance, Goto, PageInv, Pulses, SensorPulse, DeadPulse, Moments, Ticks
  <2> QED
    BY <2>2, <2>3, <2>4, <2>7 DEF PageInv
<1>3. CASE WaitRise
  <2>1. line' \in Lines
    BY <1>3, <1>b DEF WaitRise
  <2>2. PICK n \in Nat : Advance(After(n)[1], After(n)[2])
    BY <1>3, <1>c, <2>1, PollTicks DEF WaitRise
  <2>3. PICK bit \in BitsShown(line') : /\ frame' = [frame EXCEPT ![j] = bit]
                                        /\ left' = IF line' = "sensor" THEN Width(bit) ELSE 0
    BY <1>3 DEF WaitRise
  <2>4. TimerInv' /\ Now' \in Moments
    BY <1>e, <2>2
  <2>5. Serves'
    BY <1>3, MeasurementServes DEF WaitRise, Goto, PageInv, Timing
  <2>6. /\ pc = "rise" /\ pc' = "stampRise" /\ UNCHANGED <<j, jitter, t, buf, rec, measured>>
        /\ rd = "idle" /\ rd' = "idle" /\ jitter = 0 /\ st_mapped /\ st_mapped' = st_mapped
    BY <1>3, <2>2 DEF WaitRise, Goto, Advance, PageInv, Pulses
  <2>7. bit \in {0, 1} /\ frame'[j] = bit /\ frame' \in [1..3 -> {0, 1}]
    BY <1>b, <2>1, <2>3 DEF BitsShown, Lines
  <2>8. Bits' /\ Record'
    <3>1. \A i \in 1..3 : i < j => frame'[i] = frame[i]
      BY <1>b, <2>3
    <3> QED
      BY <1>b, <2>1, <2>6, <2>7, <3>1 DEF PageInv, Bits, Record, Timing
  <2>9. Ticks(Now') = Ticks(Began') + 0
    BY <2>4, <2>6, TicksOrder DEF Began
  <2>10. /\ left' \in Nat
         /\ line' = "sensor" => left' + 0 = Pulse'
         /\ line' # "sensor" => left' = 0
    BY <2>3, <2>6, <2>7, PulseAssumption DEF Pulse, Width
  <2>11. Pulses'
    BY <1>a, <1>b, <1>c, <2>6, <2>9, <2>10 DEF Pulses, SensorPulse, DeadPulse, Moments, Ticks
  <2> QED
    BY <2>4, <2>5, <2>8, <2>11 DEF PageInv
<1>4. CASE WaitFall
  <2>1. PICK n \in Poll(line, "low", left) : Advance(After(n)[1], After(n)[2])
    BY <1>4 DEF WaitFall
  <2>2. n \in Nat
    BY <1>b, PollTicks
  <2>3. TimerInv' /\ Now' \in Moments /\ Ticks(Now') = Ticks(Now) + n
    BY <1>e, <2>1, <2>2
  <2>4. Serves'
    BY <1>4, MeasurementServes DEF WaitFall, Goto, PageInv, Timing
  <2>5. Bits' /\ Record'
    BY <1>4 DEF WaitFall, Goto, PageInv, Bits, Record, Timing
  <2>6. /\ pc = "fall" /\ pc' = "stampFall" /\ left' = 0 /\ UNCHANGED <<line, frame, j, jitter, t>>
        /\ rd = "idle" /\ rd' = "idle" /\ jitter = 0 /\ st_mapped /\ st_mapped' = st_mapped
    BY <1>4, <2>1 DEF WaitFall, Goto, Advance, PageInv, Pulses
  <2>7. Pulse' = Pulse
    BY <2>6 DEF Pulse
  <2>8. Ticks(Now) \in Nat /\ Ticks(t) \in Nat
    BY <1>a, TicksOrder
  <2>9. ASSUME line = "sensor"
        PROVE  /\ Ticks(t) + Pulse - MaxJitter <= Ticks(Now')
               /\ Ticks(Now') <= Ticks(t) + Pulse
    <3>1. /\ Pulse - MaxJitter <= left /\ left <= Pulse
          /\ Ticks(t) <= Ticks(Now) /\ Ticks(Now) <= Ticks(t) + (Pulse - left)
      BY <2>6, <2>9 DEF PageInv, Pulses, SensorPulse
    <3>2. left <= PollUs
      BY <1>b, <1>c, <3>1
    <3>3. n = left
      BY <1>b, <2>1, <2>9, <3>2, PollTicks
    <3> QED
      BY <1>b, <1>c, <2>3, <2>8, <3>1, <3>3
  <2>10. ASSUME line # "sensor"
         PROVE  /\ line = "low" => Ticks(t) <= Ticks(Now') /\ Ticks(Now') <= Ticks(t) + MaxJitter
                /\ line = "high" => Ticks(t) + PollUs <= Ticks(Now')
    <3>1. Ticks(t) <= Ticks(Now) /\ Ticks(Now) <= Ticks(t) + MaxJitter
      BY <2>6, <2>10 DEF PageInv, Pulses, DeadPulse
    <3>2. (line = "low" => n = 0) /\ (line = "high" => n = PollUs)
      BY <1>b, <2>1, <2>10, PollTicks
    <3> QED
      BY <1>c, <2>3, <2>8, <3>1, <3>2
  <2>11. Began' = Now' /\ Ticks(Now') = Ticks(Began') + 0
    BY <2>3, <2>6, TicksOrder DEF Began
  <2>12. Pulses'
    BY <1>a, <1>c, <2>6, <2>7, <2>9, <2>10, <2>11 DEF Pulses, SensorPulse, DeadPulse, Moments, Ticks
  <2> QED
    BY <2>3, <2>4, <2>5, <2>12 DEF PageInv
<1>5. CASE ReadTimer
  <2>1. TimerInv'
    BY <1>5, TimerInductive DEF ReadTimer, PageInv, TimerNext
  <2>2. Serves' /\ Bits' /\ Record'
    BY <1>5 DEF ReadTimer, pageVars, PageInv, Serves, Bits, Record
  <2>3. Now' = Now /\ st_mapped' = st_mapped /\ rd' # "idle" /\ Began' = Began
    BY <1>5 DEF ReadTimer, StReadStep, StRead, ReadLo, ReadHiAgain, ReadLoAgain, Return, Now, Began
  <2>4. UNCHANGED <<pc, left, jitter, t, line, frame, j>> /\ Pulse' = Pulse
    BY <1>5 DEF ReadTimer, pageVars, Pulse
  <2>5. Pulses'
    BY <1>5, <2>3, <2>4 DEF ReadTimer, PageInv, Pulses, SensorPulse, DeadPulse, Ticks, Moments
  <2> QED
    BY <2>1, <2>2, <2>5 DEF PageInv
<1>6. CASE StampRise
  <2>1. TimerInv'
    BY <1>6, TimerInductive DEF StampRise, PageInv, TimerNext
  <2>2. Serves'
    BY <1>6, MeasurementServes DEF StampRise, Goto, PageInv, Timing
  <2>3. Bits' /\ Record'
    BY <1>6 DEF StampRise, Goto, PageInv, Bits, Record, Timing
  <2>4. /\ rd = "returned" /\ rd' = "idle" /\ jitter' = 0 /\ t' = value /\ st_mapped /\ st_mapped' = st_mapped
        /\ UNCHANGED <<chi, clo, left, line>> /\ Pulse' = Pulse /\ pc' = "fall"
    BY <1>6 DEF StampRise, TakeValue, Goto, Pulse, PageInv, Pulses
  <2>5. NotAfter(began, value) /\ NotAfter(value, Now)
    BY <2>4 DEF PageInv, TimerInv, StReadExact
  <2>6. /\ Ticks(Now) = Ticks(began) + jitter
        /\ line = "sensor" => left + jitter = Pulse
        /\ line # "sensor" => left = 0
    BY <1>6, <2>4 DEF StampRise, PageInv, Pulses, SensorPulse, DeadPulse, Began
  <2>7. /\ Ticks(began) \in Nat /\ Ticks(value) \in Nat /\ Ticks(Now) \in Nat
        /\ Ticks(began) <= Ticks(value) /\ Ticks(value) <= Ticks(Now)
    BY <1>a, <2>5, TicksOrder
  <2>8. /\ Ticks(value) <= Ticks(Now) /\ Ticks(Now) <= Ticks(value) + MaxJitter
        /\ line = "sensor" => /\ Pulse - MaxJitter <= left /\ left <= Pulse
                              /\ Ticks(Now) <= Ticks(value) + (Pulse - left)
    BY <1>b, <1>c, <2>6, <2>7
  <2>9. Now' = Now /\ Began' = Now /\ Ticks(Now) = Ticks(Now) + 0
    BY <2>4, <2>7 DEF Now, Began
  <2>10. Pulses'
    BY <1>a, <1>b, <1>c, <2>4, <2>6, <2>8, <2>9 DEF Pulses, SensorPulse, DeadPulse, Moments, Ticks
  <2> QED
    BY <2>1, <2>2, <2>3, <2>10 DEF PageInv
<1>7. CASE StampFall
  <2>1. /\ rd = "returned" /\ rd' = "idle" /\ jitter' = 0 /\ t' = <<0, 0>> /\ st_mapped /\ st_mapped' = st_mapped
        /\ chi' = 0 /\ UNCHANGED <<clo, left, line, frame, rec, measured>> /\ pc' \in {"rise", "decode"}
    BY <1>7 DEF StampFall, TakeValue, Goto, PageInv, Pulses
  <2>2. TimerInv'
    BY <1>7, <1>a, <2>1, LowAssumption DEF StampFall, TakeValue, PageInv, TimerInv, TimerTypeOK, Reading,
                                           StReadExact, Moments
  <2>3. Serves'
    BY <1>7, <2>1, MeasurementServes DEF StampFall, PageInv, Timing
  <2>4. NotAfter(began, value) /\ NotAfter(value, Now)
    BY <2>1 DEF PageInv, TimerInv, StReadExact
  <2>5. Ticks(Now) = Ticks(began) + jitter
    BY <1>7, <2>1 DEF StampFall, PageInv, Pulses, Began
  <2>6. /\ Ticks(began) \in Nat /\ Ticks(value) \in Nat /\ Ticks(Now) \in Nat /\ Ticks(t) \in Nat
        /\ Ticks(began) <= Ticks(value) /\ Ticks(value) <= Ticks(Now)
    BY <1>a, <2>4, TicksOrder
  <2>7. Elapsed = Ticks(value) - Ticks(t)
    BY <1>a, ElapsedTicks
  <2>8. Elapsed > BitUs <=> frame[j] = 1
    <3>1. CASE line = "sensor"
      <4>1. Ticks(t) + Pulse - MaxJitter <= Ticks(began) /\ Ticks(began) <= Ticks(t) + Pulse
        BY <1>7, <2>1, <3>1 DEF StampFall, PageInv, Pulses, SensorPulse, Began
      <4>2. /\ Pulse - MaxJitter <= Elapsed /\ Elapsed <= Pulse + MaxJitter /\ Elapsed \in Int
        BY <1>b, <1>c, <2>5, <2>6, <2>7, <4>1
      <4>3. CASE frame[j] = 1
        BY <4>2, <4>3, PulseAssumption DEF Pulse, Width
      <4>4. CASE frame[j] # 1
        BY <4>2, <4>4, PulseAssumption DEF Pulse, Width
      <4> QED
        BY <4>3, <4>4
    <3>2. CASE line = "low"
      <4>1. Ticks(t) <= Ticks(began) /\ Ticks(began) <= Ticks(t) + MaxJitter
        BY <1>7, <2>1, <3>2 DEF StampFall, PageInv, Pulses, DeadPulse, Began
      <4>2. Elapsed <= MaxJitter + MaxJitter /\ Elapsed \in Int
        BY <1>b, <1>c, <2>5, <2>6, <2>7, <4>1
      <4>3. ~(Elapsed > BitUs)
        BY <4>2, PulseAssumption
      <4>4. frame[j] = 0
        BY <1>7, <3>2 DEF StampFall, PageInv, Bits, BitsShown, Timing
      <4> QED
        BY <4>3, <4>4
    <3>3. CASE line = "high"
      <4>1. Ticks(t) + PollUs <= Ticks(began)
        BY <1>7, <2>1, <3>3 DEF StampFall, PageInv, Pulses, DeadPulse, Began
      <4>2. Elapsed >= PollUs /\ Elapsed \in Int
        BY <1>c, <2>6, <2>7, <4>1
      <4>3. Elapsed > BitUs
        BY <4>2, PulseAssumption
      <4>4. frame[j] = 1
        BY <1>7, <3>3 DEF StampFall, PageInv, Bits, BitsShown, Timing
      <4> QED
        BY <4>3, <4>4
    <3> QED
      BY <1>b, <3>1, <3>2, <3>3 DEF Lines
  <2>9. frame[j] \in {0, 1} /\ buf' = [buf EXCEPT ![j] = frame[j]]
    BY <1>7, <1>b, <2>8 DEF StampFall
  <2>10. Bits' /\ Record'
    <3>1. buf' \in [1..3 -> {0, 1}] /\ buf'[j] = frame[j] /\ \A i \in 1..3 : i # j => buf'[i] = buf[i]
      BY <1>b, <2>9
    <3>2. \A i \in 1..3 : i < j => buf[i] = frame[i]
      BY DEF PageInv, Bits
    <3>3. \A i \in 1..3 : i <= j => buf'[i] = frame[i]
      BY <1>b, <3>1, <3>2
    <3>4. CASE j < 3
      <4>1. j' = j + 1 /\ pc' = "rise"
        BY <1>7, <3>4 DEF StampFall, Goto
      <4> QED
        BY <1>b, <2>1, <3>1, <3>3, <3>4, <4>1 DEF PageInv, Bits, Record, Timing
    <3>5. CASE ~(j < 3)
      <4>1. j = 3 /\ j' = j /\ pc' = "decode"
        BY <1>7, <1>b, <3>5 DEF StampFall, Goto
      <4> QED
        BY <1>b, <2>1, <3>1, <3>3, <4>1 DEF PageInv, Bits, Record, Timing
    <3> QED
      BY <3>4, <3>5
  <2>11. Now' \in Moments /\ t' \in Moments /\ Began' = Now'
    BY <1>a, <2>1, LowAssumption DEF Now, Moments, Began
  <2>12. Ticks(Now') = Ticks(Began') + 0
    BY <2>11, TicksOrder
  <2>13. Pulses'
    BY <1>b, <1>c, <2>1, <2>11, <2>12 DEF Pulses, SensorPulse, DeadPulse, Moments, Ticks
  <2> QED
    BY <2>2, <2>3, <2>10, <2>13 DEF PageInv
<1>8. CASE Decode
  <2>1. /\ rd = "idle" /\ rd' = "idle" /\ jitter = 0 /\ clo' = 0
        /\ UNCHANGED <<st_mapped, chi, hi, lo, st, value, began, left, jitter, t>> /\ pc' = "send"
        /\ st_mapped
    BY <1>8 DEF Decode, Goto, PageInv, Pulses
  <2>2. TimerInv'
    BY <1>a, <2>1, LowAssumption DEF PageInv, TimerInv, TimerTypeOK, Reading, StReadExact, Moments
  <2>3. Serves'
    BY <1>8, <2>1, MeasurementServes DEF Decode, PageInv, Timing
  <2>4. Bits'
    BY <1>8, <2>1 DEF Decode, Bits, NoBits, Lines, Timing
  <2>5. Record'
    <3>1. buf[1] = frame[1] /\ buf[2] = frame[2] /\ buf[3] = frame[3]
      BY <1>8 DEF Decode, PageInv, Bits
    <3>2. Stores(buf) <=> frame[3] = (frame[1] + frame[2]) % 2
      BY <3>1 DEF Stores
    <3>3. Temperature(buf) = Temperature(frame)
      BY <3>1 DEF Temperature
    <3>4. CASE Stores(buf)
      <4>1. rec' \in ToUint32(Temperature(frame)) /\ measured' = <<Temperature(frame)>>
        BY <1>8, <3>2, <3>3, <3>4 DEF Decode
      <4> QED
        BY <4>1 DEF Record, ToUint32
    <3>5. CASE ~Stores(buf)
      BY <1>8, <3>2, <3>5 DEF Decode, PageInv, Record, ToUint32
    <3> QED
      BY <3>4, <3>5
  <2>6. Now' \in Moments /\ Began' = Now'
    BY <1>a, <2>1, LowAssumption DEF Now, Moments, Began
  <2>7. Ticks(Now') = Ticks(Began') + 0
    BY <2>6, TicksOrder
  <2>8. Pulses'
    BY <1>a, <1>b, <2>1, <2>6, <2>7 DEF Pulses, SensorPulse, DeadPulse, Moments, Ticks
  <2> QED
    BY <2>2, <2>3, <2>4, <2>5, <2>8 DEF PageInv
<1>9. CASE Tick
  <2>1. TimerInv' /\ Ticks(Now') = Ticks(Now) + 1
    BY <1>9, <1>e DEF Tick
  <2>2. /\ pc \in {"stampRise", "stampFall"} /\ pc' = pc
        /\ jitter < MaxJitter /\ jitter' = jitter + 1 /\ rd # "idle"
        /\ UNCHANGED <<rd, st_mapped, began, t, line, frame, j, buf, rec, measured>> /\ Pulse' = Pulse
    BY <1>9 DEF Tick, Advance, PageInv, Pulses, Pulse
  <2>3. Serves'
    BY <1>9, <2>2, MeasurementServes DEF Tick, PageInv, Timing
  <2>4. Bits' /\ Record'
    BY <2>2 DEF PageInv, Bits, Record
  <2>5. Began' = began /\ Began = began /\ Ticks(Now) = Ticks(began) + jitter /\ Ticks(began) \in Nat
    BY <1>a, <2>2, TicksOrder DEF Began, PageInv, Pulses
  <2>6. Ticks(Now') = Ticks(Began') + jitter'
    BY <1>b, <1>c, <2>1, <2>2, <2>5
  <2>7. left' = IF left = 0 THEN 0 ELSE left - 1
    BY <1>9 DEF Tick
  <2>8. /\ left' \in Nat /\ jitter' \in 0..MaxJitter
        /\ line = "sensor" /\ pc = "stampRise" => left' + jitter' = Pulse
        /\ line # "sensor" \/ pc = "stampFall" => left' = 0
    BY <1>b, <1>c, <2>2, <2>7 DEF PageInv, Pulses, SensorPulse, DeadPulse
  <2>9. Pulses'
    BY <1>a, <2>2, <2>5, <2>6, <2>8 DEF PageInv, Pulses, SensorPulse, DeadPulse, Moments, Ticks
  <2> QED
    BY <2>1, <2>3, <2>4, <2>9 DEF PageInv
<1>10. CASE UNCHANGED vars
  <2>1. TimerInv'
    BY <1>10, TimerInductive DEF vars, PageInv
  <2>2. Serves' /\ Bits' /\ Record'
    BY <1>10 DEF vars, pageVars, PageInv, Serves, Bits, Record
  <2>3. Pulses'
    BY <1>10 DEF vars, pageVars, timerVars, PageInv, Pulses, SensorPulse, DeadPulse, Pulse, Ticks, Now, Began, Moments
  <2> QED
    BY <2>1, <2>2, <2>3 DEF PageInv
<1> QED
  BY <1>1, <1>2, <1>2a, <1>3, <1>4, <1>5, <1>6, <1>7, <1>8, <1>9, <1>10 DEF Next, ServerStep

\* The invariant holds in every reachable state.
LEMMA PageInvariance == Spec => []PageInv
  BY PageInitial, PageInductive, PTL DEF Spec

(* bcm2835_st_read is exact inside the program too: the steps of            *)
(* GetDHT22data between two calls leave it what its own proof relies on.    *)
THEOREM PageReadsExactly == Spec => []StReadExact
<1>1. PageInv => StReadExact
  BY DEF PageInv, TimerInv
<1> QED
  BY PageInvariance, <1>1, PTL

(* Every record sent after a consistent frame holds the temperature in the  *)
(* last one: the time that passes in the two calls of bcm2835_st_read and a *)
(* carry of the timer inside a pulse never turn a bit, and where the line   *)
(* is dead and the loops give up, the bits are its level: zeros, which the  *)
(* checksum accepts and the record shows as 0 C, or ones.                   *)
THEOREM PageRecordsTrue == Spec => []RecordsTrue
<1>1. PageInv => RecordsTrue
  BY DEF PageInv, Record, RecordsTrue
<1> QED
  BY PageInvariance, <1>1, PTL

(* While loop() waits in select with the lamp on, it has a client to stream *)
(* to, whatever stale command an empty datagram repeated.                   *)
THEOREM PageLampMeansStream == Spec => []LampMeansStream
<1>1. PageInv => LampMeansStream
  BY DEF PageInv, Serves, LampMeansStream
<1> QED
  BY PageInvariance, <1>1, PTL
=============================================================================
