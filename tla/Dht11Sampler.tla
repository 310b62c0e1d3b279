----------------------------- MODULE Dht11Sampler ------------------------------
(***************************************************************************)
(* One measurement: dht11_get_data (termosos/driver/dht11.c) polling the   *)
(* data line while the sensor sends its frame, and the numbers that        *)
(* dht11_driver_open prints from it.                                       *)
(*                                                                         *)
(* Time is in microseconds since the host released the line.  The sensor   *)
(* (external) is a schedule of alternating levels.  The polling loops run  *)
(* with interrupts enabled: between seeing an edge and reading the timer a *)
(* little time passes (Jitters), and once in a measurement the task may be *)
(* preempted for longer (Preempts), inside a polling loop or after it.     *)
(***************************************************************************)
EXTENDS Integers, Sequences, FiniteSets

CONSTANTS
    Frames,      \* measurements the sensor may send: humidity and temperature bytes
    Lines,       \* what is on the line: "sensor", or stuck "high" or "low"
    ZeroUs,      \* high pulse of a 0
    OneUs,       \* high pulse of a 1
    PollUs,      \* time that 1999 polls take
    Jitters,     \* delays between an edge and the timer read, at every edge
    Preempts     \* longer delays, at most one per measurement

ASSUME SamplerAssumption ==
    /\ Frames \subseteq [1..4 -> 0..255]
    /\ Lines \subseteq {"sensor", "high", "low"}
    /\ {ZeroUs, OneUs, PollUs} \subseteq Nat \ {0}
    /\ Jitters \subseteq Nat /\ 0 \in Jitters
    /\ Preempts \subseteq Nat \ {0}

\* A jitter leaves the pulses of 0 and 1 on their sides of the threshold (IsOne) and does
\* not outlast a pulse; a polling loop outlasts every phase of the answer.
ASSUME TimingAssumption ==
    /\ \A d \in Jitters : d < ZeroUs /\ ZeroUs + d <= 50 /\ OneUs - d > 50
    /\ PollUs >= 88 /\ PollUs >= OneUs

VARIABLES
    line, sent,   \* the line and the five bytes on it
    edge,         \* edge[k]: when phase k of the sensor's answer ends
    pc, j,        \* where dht11_get_data is; index of the pulse
    now, left,    \* the time; polling time left in the current loop
    t,            \* timer value at the rise of the pulse
    buf,          \* self->buf
    preempt,      \* length of the preemption suffered, 0 when none
    ret,          \* result of dht11_get_data: 0 or -1
    out           \* self->humidity and self->temperature

vars == <<line, sent, edge, pc, j, now, left, t, buf, preempt, ret, out>>
lineVars == <<line, sent, edge>>

LOW    == 0
HIGH   == 1
Pulses == 0..40
Phases == 0..83
Steps  == {"start", "answer", "rise", "riseSeen", "fall", "fallSeen", "decode", "done"}

-----------------------------------------------------------------------------
(* The sensor (external). *)

Checksum(b) == (b[1] + b[2] + b[3] + b[4]) % 256

\* Bit n, 1..40, of a frame of five bytes, most significant bit first.
FrameBit(b, n) == (b[(n - 1) \div 8 + 1] \div 2^(7 - ((n - 1) % 8))) % 2

\* How many of the first n bits have the value v.
Sent(b, n, v) == Cardinality({i \in 1..n : FrameBit(b, i) = v})

\* When the pulse of bit n ends, or for n = 0 that of the answer: 30, 80 and 88 us after
\* the release, and then 50 us low before each pulse.
PulseEnd(b, n) == 198 + 50 * n + ZeroUs * Sent(b, n, 0) + OneUs * Sent(b, n, 1)

\* Even phases are high.  Phase 0 is the released line before the answer,
\* phase 2 the answer's pulse, phase 2n + 2 the pulse of bit n.
Schedule(b) ==
    [k \in Phases |-> CASE k = 0 -> 30
                        [] k = 1 -> 110
                        [] k > 1 /\ k % 2 = 0 -> PulseEnd(b, (k - 2) \div 2)
                        [] k > 1 /\ k % 2 = 1 -> PulseEnd(b, (k - 3) \div 2) + 50]

PhaseAt(time) == Cardinality({k \in Phases : edge[k] <= time})

LevelAt(time) ==
    CASE line = "high" -> HIGH
      [] line = "low" -> LOW
      [] OTHER -> IF PhaseAt(time) % 2 = 0 THEN HIGH ELSE LOW

\* Will the line ever have the level, and when next?
Coming(level) ==
    LevelAt(now) = level \/ (line = "sensor" /\ PhaseAt(now) \in Phases)
When(level) == IF LevelAt(now) = level THEN now ELSE edge[PhaseAt(now)]

-----------------------------------------------------------------------------

\* humidity and temperature in hundredths.
MaxHumidity == 28050
MaxTemperature == 15250
Readings == [humidity : 0..MaxHumidity, temperature : (-MaxTemperature)..MaxTemperature]

TypeOK ==
    /\ line \in Lines /\ pc \in Steps /\ j \in Pulses
    /\ sent \in [1..5 -> 0..255] /\ edge \in [Phases -> Nat]
    /\ now \in Nat /\ left \in 0..PollUs /\ t \in Nat
    /\ buf \in [Pulses -> {0, 1}]
    /\ preempt \in Preempts \cup {0} /\ ret \in {0, -1}
    /\ out \in Readings

Init ==
    /\ line \in Lines
    /\ \E b \in Frames : sent = <<b[1], b[2], b[3], b[4], Checksum(b)>>
    /\ edge = Schedule(sent)
    /\ pc = "start" /\ j = 0 /\ now = 0 /\ left = 0 /\ t = 0
    /\ buf = [i \in Pulses |-> 0]
    /\ preempt = 0 /\ ret = -1
    /\ out = [humidity |-> 0, temperature |-> 0]

\* The pin is driven low for 18 ms and released.
StartSignal ==
    /\ pc = "start"
    /\ pc' = "answer" /\ now' = 0 /\ left' = PollUs
    /\ UNCHANGED <<lineVars, j, t, buf, preempt, ret, out>>

\* Mutant: a loop without the limit on the number of polls.
PollUnlimited(level, pause) == Coming(level) /\ now' = When(level) + pause

\* for (i = 1; i < 2000; i++) if (bcm2835_gpio_lev(pin) == level) break;
\* and then a pause.
Poll(level, pause) ==
    now' = pause + IF Coming(level) /\ When(level) - now <= left THEN When(level)
                   ELSE now + left

WaitAnswer ==
    /\ pc = "answer"
    /\ Poll(LOW, 1)
    /\ pc' = "rise" /\ j' = 0 /\ left' = PollUs
    /\ UNCHANGED <<lineVars, t, buf, preempt, ret, out>>

WaitRise ==
    /\ pc = "rise"
    /\ Poll(HIGH, 0)
    /\ pc' = "riseSeen"
    /\ UNCHANGED <<lineVars, j, left, t, buf, preempt, ret, out>>

StampRise ==
    /\ pc = "riseSeen"
    /\ \E d \in Jitters : now' = now + d /\ t' = now + d
    /\ pc' = "fall" /\ left' = PollUs
    /\ UNCHANGED <<lineVars, j, buf, preempt, ret, out>>

WaitFall ==
    /\ pc = "fall"
    /\ Poll(LOW, 0)
    /\ pc' = "fallSeen"
    /\ UNCHANGED <<lineVars, j, left, t, buf, preempt, ret, out>>

\* DHT11_BIT_THRESHOLD_US
IsOne(us) == IF us > 50 THEN 1 ELSE 0

\* Mutant: j <= 41.
LastPulseLate == 41

LastPulse == 40

StampFall ==
    /\ pc = "fallSeen"
    /\ \E d \in Jitters :
          now' = now + d /\ buf' = [buf EXCEPT ![j] = IsOne(now + d - t)]
    /\ \/ j < LastPulse /\ j' = j + 1 /\ pc' = "rise" /\ left' = PollUs
       \/ j = LastPulse /\ pc' = "decode" /\ UNCHANGED <<j, left>>
    /\ t' = 0
    /\ UNCHANGED <<lineVars, preempt, ret, out>>

\* Mutant: the answer's pulse, buf[0], is taken for the first bit.
GetByteFromZero(b) ==
    LET result[n \in 0..8] == IF n = 0 THEN 0
                              ELSE (2 * result[n - 1] + buf[(b - 1) * 8 + n - 1]) % 256
    IN  result[8]

\* dht11_get_byte
GetByte(b) ==
    LET result[n \in 0..8] == IF n = 0 THEN 0
                              ELSE (2 * result[n - 1] + buf[(b - 1) * 8 + n]) % 256
    IN  result[8]

\* Mutant: the fourth byte is left out of the sum.
ConsistentButFourth(b) == b[5] = (b[1] + b[2] + b[3]) % 256

\* Mutant: the checksum is not looked at.
ConsistentAlways(b) == TRUE

Consistent(b) == b[5] = Checksum(b)

\* The top bit of byte 3 is the sign.
Reading(b) ==
    LET magnitude == (b[3] % 128) * 100 + b[4] * 10
    IN  [humidity |-> b[1] * 100 + b[2] * 10,
         temperature |-> IF b[3] >= 128 THEN -magnitude ELSE magnitude]

Decode ==
    /\ pc = "decode"
    /\ LET b == [n \in 1..5 |-> GetByte(n)] IN
          \/ Consistent(b) /\ ret' = 0 /\ out' = Reading(b)
          \/ ~Consistent(b) /\ ret' = -1 /\ UNCHANGED out
    /\ pc' = "done" /\ now' = 0
    /\ UNCHANGED <<lineVars, j, left, t, buf, preempt>>

\* The task is preempted for d: in a polling loop just before the edge it
\* waits for, after which it polls on, or between an edge and the timer read.
Preempted(d) ==
    /\ preempt = 0
    /\ \/ /\ pc \in {"answer", "rise", "fall"}
          /\ LET level == IF pc = "rise" THEN HIGH ELSE LOW IN
                /\ Coming(level) /\ When(level) - now <= left
                /\ now' = When(level) + d
                /\ left' = left - (When(level) - now)
       \/ /\ pc \in {"riseSeen", "fallSeen"}
          /\ now' = now + d
          /\ UNCHANGED left
    /\ preempt' = d
    /\ UNCHANGED <<lineVars, pc, j, t, buf, ret, out>>

Step ==
    \/ StartSignal \/ WaitAnswer
    \/ WaitRise \/ StampRise \/ WaitFall \/ StampFall
    \/ Decode

Next == Step \/ \E d \in Preempts : Preempted(d)

\* The task in the kernel keeps running.
Spec == Init /\ [][Next]_vars /\ WF_vars(Step)

-----------------------------------------------------------------------------
(* What dht11_driver_open prints. *)

\* C division and remainder of signed integers truncate towards zero.
CDiv(n, d) == IF n >= 0 THEN n \div d ELSE -((-n) \div d)
CMod(n, d) == n - d * CDiv(n, d)
Abs(n) == IF n < 0 THEN -n ELSE n

\* The two numbers of "%d.%02d".
TempInt(temperature)  == CDiv(temperature, 100)
TempFrac(temperature) == Abs(CMod(temperature, 100))

\* The value a reader of the text takes from "whole.frac": the minus sign, if
\* there is one, stands before the whole number.
Shown(whole, frac) == IF whole < 0 THEN whole * 100 - frac ELSE whole * 100 + frac

-----------------------------------------------------------------------------
(* Properties. *)

Done == pc = "done"

\* What the sensor measured.
Truth ==
    LET negative == sent[3] >= 128 IN
    [humidity |-> 100 * sent[1] + 10 * sent[2],
     temperature |-> IF negative THEN -(100 * (sent[3] - 128) + 10 * sent[4])
                                 ELSE 100 * sent[3] + 10 * sent[4]]

\* Delays of up to the largest jitter between each of the 82 edges and the timer
\* read never change a bit: the threshold leaves room on both sides.
ExactDecode ==
    Done /\ line = "sensor" /\ preempt = 0 => ret = 0 /\ out = Truth

\* A preemption too short to hide a whole pulse costs at most one bit, and the
\* checksum then turns the measurement down: it is never reported wrong.
NeverWrong ==
    Done /\ line = "sensor" /\ preempt < ZeroUs => ret = -1 \/ out = Truth

\* Without a sensor no measurement is made up: a line that stays high is turned
\* down by the checksum.  A line that stays low passes it, as an all-zero frame.
SilentLine ==
    Done /\ line # "sensor" =>
        ret = -1 \/ (line = "low" /\ out = [humidity |-> 0, temperature |-> 0])

\* Whatever the line does, dht11_get_data returns: every polling loop is bounded.
Terminates == <>Done

\* The text shows the temperature that was measured.
ShowsTemperature ==
    Done /\ ret = 0 =>
        Shown(TempInt(out.temperature), TempFrac(out.temperature)) = out.temperature
=============================================================================
