---------------------------- MODULE Page195Server ----------------------------
(***************************************************************************)
(* iot_in_c/page195_dht11_srv.c: a program that answers CONNECT and CLOSE  *)
(* datagrams, switches a lamp and streams sensor records to whoever sent   *)
(* the last datagram.  GetDHT22data times the sensor's pulses with         *)
(* bcm2835_st_read, access by access (SystemTimer).                        *)
(*                                                                         *)
(* A datagram is what it does to the comparison with the two commands:     *)
(* "EMPTY" stands for one too short to change what the buffer held, which  *)
(* nothing resets between two datagrams.  A frame has three bytes of one   *)
(* bit: sign, magnitude and check, their sum.  The pulse before the first  *)
(* bit, which nothing decodes, is left out.                                *)
(*                                                                         *)
(* The data line belongs to the sensor, or it is dead from some bit on, or *)
(* for a whole measurement: it stays low or high, and the polling loops    *)
(* that wait for the other level give up.                                  *)
(***************************************************************************)
EXTENDS SystemTimer, Sequences

CONSTANTS
    Clients,
    none,           \* dest.sin_port is 0
    MaxDatagrams,   \* bound: datagrams that arrive in all
    ZeroUs, OneUs,  \* pulse of a 0 and of a 1, in ticks of the timer
    BitUs,          \* a longer pulse is a 1
    RestUs,         \* ticks of low level before the sensor's next edge
    PollUs,         \* ticks that 1999 polls of the line take
    MaxJitter,      \* bound: ticks that pass during one call of bcm2835_st_read
    Wrap            \* values of record->c: 2^32

ASSUME PulseAssumption ==
    /\ {ZeroUs, OneUs, BitUs, RestUs, PollUs, MaxJitter} \subseteq Nat
    /\ ZeroUs + MaxJitter <= BitUs /\ OneUs - MaxJitter > BitUs /\ MaxJitter < ZeroUs
    /\ RestUs <= PollUs /\ OneUs <= PollUs

ASSUME DestAssumption == none \notin Clients

VARIABLES
    pc, dest, buffer, lamp,
    inbox,          \* datagrams in the socket's receive buffer, and errors
    arrived,        \* datagrams sent to the server, and errors
    line,           \* who drives the data line
    frame, j, left, \* the bits the line shows, the one at hand, ticks until its pulse ends
    jitter,         \* ticks passed in this call of bcm2835_st_read
    t, buf,         \* GetDHT22data: timer at the rise, the bits decoded
    rec,            \* the record's temperature
    measured,       \* history: temperature in the last consistent frame, <<>> before it
    commanded       \* history: a command was executed

pageVars == <<pc, dest, buffer, lamp, inbox, arrived, line, frame, j, left, jitter, t, buf, rec, measured, commanded>>
vars == <<timerVars, pageVars>>

Commands    == {"CONNECT", "CLOSE", "OTHER"}
Datagrams   == Commands \union {"EMPTY"}
SocketError == [from |-> none, data |-> "FAILED"]
Temperature(b) == IF b[1] = 1 THEN -(20 * b[2]) ELSE 20 * b[2]
Garbage == 99       \* rec is a local variable without an initial value

\* A float below zero converted to uint32_t: undefined, 0 on ARM and modulo 2^32 elsewhere.
ToUint32(n) == IF n >= 0 THEN {n} ELSE {0, Wrap + n}

Goto(l) == pc' = l
Unmeasured == UNCHANGED <<timerVars, line, frame, j, left, jitter, t, buf, rec, measured>>

Lines    == {"sensor", "low", "high"}
NoBits   == [i \in 1..3 |-> 0]

Init ==
    /\ chi = 0 /\ clo = 0 /\ TimerInit
    /\ pc = "main" /\ dest = none /\ buffer \in Commands /\ lamp \in BOOLEAN
    /\ inbox = <<>> /\ arrived = 0
    /\ line = "sensor" /\ frame = NoBits /\ j = 1 /\ left = 0
    /\ jitter = 0 /\ t = <<0, 0>> /\ buf = NoBits
    /\ rec = Garbage /\ measured = <<>> /\ commanded = FALSE

-----------------------------------------------------------------------------
(* loop() *)

\* main, blinker_init, socket and bind; the lamp stays as an earlier run left it.
Main ==
    /\ pc = "main" /\ Goto(IF st_mapped THEN "select" ELSE "exit")
    /\ UNCHANGED <<dest, buffer, lamp, inbox, arrived, commanded>> /\ Unmeasured

\* Five seconds without a datagram.
SelectTimeout ==
    /\ pc = "select" /\ inbox = <<>> /\ dest # none /\ Goto("measure")
    /\ UNCHANGED <<dest, buffer, lamp, inbox, arrived, commanded>> /\ Unmeasured

SelectError ==
    /\ pc = "select" /\ Goto("exit")
    /\ UNCHANGED <<dest, buffer, lamp, inbox, arrived, commanded>> /\ Unmeasured

\* recvfrom overwrites dest, and as much of the buffer as the datagram is long.  When it fails,
\* which nobody looks at, it leaves both as they are.
Receive ==
    /\ pc = "select" /\ inbox # <<>> /\ Goto("command")
    /\ dest' = IF Head(inbox) = SocketError THEN dest ELSE Head(inbox).from
    /\ buffer' = IF Head(inbox).data \in Commands THEN Head(inbox).data ELSE buffer
    /\ inbox' = Tail(inbox)
    /\ UNCHANGED <<lamp, arrived, commanded>> /\ Unmeasured

\* Mutant: blinker_off is forgotten.
LampAfterKept(command) == lamp \/ command = "CONNECT"

\* blinker_on and blinker_off
LampAfter(command) == command = "CONNECT"

\* Behind a datagram that is no command, the stream goes on if there is somebody to send to.
Command ==
    /\ pc = "command"
    /\ IF buffer \in {"CONNECT", "CLOSE"}
       THEN Goto("reply") /\ lamp' = LampAfter(buffer) /\ commanded' = TRUE
       ELSE Goto(IF dest = none THEN "select" ELSE "measure") /\ UNCHANGED <<lamp, commanded>>
    /\ UNCHANGED <<dest, buffer, inbox, arrived>> /\ Unmeasured

\* A reply to port 0 fails, and assert ends the program.
Reply ==
    /\ pc = "reply"
    /\ IF dest = none THEN Goto("exit") /\ UNCHANGED dest
       ELSE IF buffer = "CLOSE" THEN dest' = none /\ Goto("select")
       ELSE Goto("measure") /\ UNCHANGED dest
    /\ UNCHANGED <<buffer, lamp, inbox, arrived, commanded>> /\ Unmeasured

\* sendto fails and assert ends the program.
SendFails ==
    /\ pc \in {"reply", "send"} /\ Goto("exit")
    /\ UNCHANGED <<dest, buffer, lamp, inbox, arrived, commanded>> /\ Unmeasured

Send ==
    /\ pc = "send" /\ Goto("select")
    /\ UNCHANGED <<dest, buffer, lamp, inbox, arrived, commanded>> /\ Unmeasured

-----------------------------------------------------------------------------
(* GetDHT22data *)

Unserved == UNCHANGED <<dest, buffer, lamp, inbox, arrived, commanded>>

After(n) == <<chi + (clo + n) \div Low, (clo + n) % Low>>

\* Mutant: a loop waits for its level without a limit.
PollUnlimited(l, level, ticks) ==
    CASE l = "sensor" -> {ticks} [] l = level -> {0} [] OTHER -> {}

\* How long one of the polling loops runs: until the line l has the level, which comes after that
\* many ticks if the sensor drives it, or until it gives up.  Nobody looks at which it was.
Poll(l, level, ticks) ==
    LET until == CASE l = "sensor" -> ticks [] l = level -> 0 [] OTHER -> PollUs
    IN  {IF until < PollUs THEN until ELSE PollUs}

\* The start signal.  The timer's low half may be anywhere.
Measure ==
    /\ pc = "measure" /\ Goto("answer")
    /\ line' \in Lines /\ \E l \in 0..(Low - 1) : Advance(chi, l)
    /\ UNCHANGED <<frame, j, left, jitter, t, buf, rec, measured>> /\ Unserved

\* The wait for the answer's low level, which may never come.
WaitAnswer ==
    /\ pc = "answer" /\ Goto("rise")
    /\ \E n \in Poll(line, "low", RestUs) : Advance(After(n)[1], After(n)[2])
    /\ UNCHANGED <<line, frame, j, left, jitter, t, buf, rec, measured>> /\ Unserved

Width(bit)   == IF bit = 1 THEN OneUs ELSE ZeroUs
BitsShown(l) == CASE l = "sensor" -> {0, 1} [] l = "low" -> {0} [] l = "high" -> {1}

\* The wait for the next bit's pulse.  A line that goes dead does so between two pulses: a pulse
\* cut short is decoded as a 0 or a 1, like a dead line.
WaitRise ==
    /\ pc = "rise" /\ Goto("stampRise")
    /\ line' \in IF line = "sensor" THEN Lines ELSE {line}
    /\ \E bit \in BitsShown(line') :
          /\ frame' = [frame EXCEPT ![j] = bit]
          /\ left' = IF line' = "sensor" THEN Width(bit) ELSE 0
    /\ \E n \in Poll(line', "high", RestUs) : Advance(After(n)[1], After(n)[2])
    /\ UNCHANGED <<j, jitter, t, buf, rec, measured>> /\ Unserved

\* The wait for the end of the pulse.
WaitFall ==
    /\ pc = "fall" /\ Goto("stampFall") /\ left' = 0
    /\ \E n \in Poll(line, "low", left) : Advance(After(n)[1], After(n)[2])
    /\ UNCHANGED <<line, frame, j, jitter, t, buf, rec, measured>> /\ Unserved

ReadTimer ==
    /\ pc \in {"stampRise", "stampFall"} /\ StReadStep
    /\ UNCHANGED pageVars

\* Time passes between two accesses of bcm2835_st_read.
Tick ==
    /\ rd \in {"lo", "hiAgain", "loAgain"} /\ jitter < MaxJitter /\ jitter' = jitter + 1
    /\ left' = IF left = 0 THEN 0 ELSE left - 1
    /\ Advance(After(1)[1], After(1)[2])
    /\ UNCHANGED <<pc, line, frame, j, t, buf, rec, measured>> /\ Unserved

StampRise ==
    /\ pc = "stampRise" /\ TakeValue /\ Goto("fall")
    /\ t' = value /\ jitter' = 0
    /\ UNCHANGED <<chi, clo, line, frame, j, left, buf, rec, measured>> /\ Unserved

\* tbuf[j] = (bcm2835_st_read() - t); buf[j] = tbuf[j] > 50
Elapsed == (value[1] - t[1]) * Low + value[2] - t[2]

\* Only the differences of the timer matter: its high half is counted from 0 for each pulse.
StampFall ==
    /\ pc = "stampFall" /\ TakeValue
    /\ buf' = [buf EXCEPT ![j] = IF Elapsed > BitUs THEN 1 ELSE 0] /\ jitter' = 0
    /\ IF j < 3 THEN j' = j + 1 /\ Goto("rise") ELSE Goto("decode") /\ UNCHANGED j
    /\ t' = <<0, 0>> /\ chi' = 0
    /\ UNCHANGED <<clo, line, frame, left, rec, measured>> /\ Unserved

\* Mutant: the record is filled in before the checksum is compared.
StoresAlways(b) == TRUE

\* The checksum.
Stores(b) == b[3] = (b[1] + b[2]) % 2

\* An inconsistent frame leaves the record as it is; it is sent all the same.
Decode ==
    /\ pc = "decode" /\ Goto("send")
    /\ IF Stores(buf) THEN rec' \in ToUint32(Temperature(buf)) ELSE UNCHANGED rec
    /\ measured' = IF frame[3] = (frame[1] + frame[2]) % 2 THEN <<Temperature(frame)>> ELSE measured
    /\ clo' = 0 /\ line' = "sensor" /\ buf' = NoBits /\ frame' = NoBits /\ j' = 1
    /\ UNCHANGED <<st_mapped, chi, rd, hi, lo, st, value, began, left, jitter, t>> /\ Unserved

-----------------------------------------------------------------------------

\* A datagram arrives (external).  While pulses are timed the socket is not looked at: a datagram
\* of that time is one that arrives before it.
Arrive(c, d) ==
    /\ pc \in {"main", "select", "command", "reply", "measure", "send"}
    /\ arrived < MaxDatagrams /\ arrived' = arrived + 1
    /\ inbox' = Append(inbox, [from |-> c, data |-> d])
    /\ UNCHANGED <<pc, dest, buffer, lamp, commanded>> /\ Unmeasured

\* The socket has an error to report (external); recvfrom reports it before it looks at datagrams.
SocketFails ==
    /\ pc = "select" /\ arrived < MaxDatagrams /\ arrived' = arrived + 1
    /\ inbox' = <<SocketError>> \o inbox
    /\ UNCHANGED <<pc, dest, buffer, lamp, commanded>> /\ Unmeasured

ServerStep ==
    \/ Main \/ SelectTimeout \/ Receive \/ Command \/ Reply \/ Send
    \/ Measure \/ WaitAnswer \/ WaitRise \/ WaitFall \/ ReadTimer \/ StampRise \/ StampFall \/ Decode

Next ==
    \/ ServerStep \/ SelectError \/ SendFails \/ Tick \/ SocketFails
    \/ \E c \in Clients, d \in Datagrams : Arrive(c, d)

\* The program runs with SCHED_FIFO priority and select has a timeout.
Spec == Init /\ [][Next]_vars /\ WF_vars(ServerStep)

-----------------------------------------------------------------------------
(* Properties. *)

(* Once a consistent frame has come, every record that goes out holds the  *)
(* temperature in the last one, whatever frames failed the checksum since, *)
(* whatever loops gave up and wherever the timer carried during a pulse; a *)
(* temperature below zero is one of the values the conversion may give.    *)
(* The frame is what the line showed: the sensor's bits, and from the bit  *)
(* where the line went dead, zeros if it is low and ones if it is high.    *)
(* So a line that is low all the time shows a consistent frame of 0 C,     *)
(* which no sensor has measured and the program sends; one that is high    *)
(* all the time shows no consistent frame, and the old record is sent.     *)
RecordsTrue == pc = "send" /\ measured # <<>> => rec \in ToUint32(measured[1])

(* While the program waits and the lamp is on, somebody is being served,   *)
(* even when a stale command is executed for an empty datagram.  (Before   *)
(* the first command the lamp is as an earlier run left it.)               *)
LampMeansStream == pc = "select" /\ commanded /\ lamp => dest # none

(* A server that streams sends record after record without another         *)
(* datagram, also when the sensor is silent or its line dead, and takes    *)
(* every datagram that arrives, until it ends.                             *)
KeepsServing ==
    /\ (pc = "select" /\ dest # none) ~> (pc \in {"send", "exit"} \/ dest = none)
    /\ (inbox # <<>>) ~> (inbox = <<>> \/ pc = "exit")
=============================================================================
