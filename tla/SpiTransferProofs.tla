--------------------------- MODULE SpiTransferProofs ---------------------------
(***************************************************************************)
(* Proofs about SpiTransfer for every depth of the FIFOs and every set of  *)
(* calls and lengths.  The inductive invariant is established in layers:   *)
(* types and counters, where the bytes of the running call are between its *)
(* two buffers, and which words of it are on their way to the wire.        *)
(***************************************************************************)
EXTENDS SpiTransfer, SequenceTheorems, TLAPS

TransmitWords == [b : Seq(Bytes), hold : BOOLEAN, k : Nat]

\* Layer 1.  The contents of the FIFOs, and how far a call is at each place.
Fifos ==
    /\ txf \in [Buses -> Seq(TransmitWords)] /\ sh \in [Buses -> Seq(TransmitWords)]
    /\ rxf \in [Buses -> Seq(Seq(Bytes))]

Progress ==
    /\ len \in 0..15 /\ (pc # "idle" => calls # 0 /\ fn # "none")
    /\ fn \in {"spi_transfer", "aux_spi_transfer"} => len = 1 /\ (pc # "idle" => rbuf = << >>)
    /\ fn \in {"spi_write", "aux_spi_write"} => len = 2
    /\ pc \in {"txd", "full"} => nt < len
    /\ pc = "io" => nt = 0
    /\ (fn = "spi_write" /\ pc = "txd") => nt = 0
    /\ pc = "low" => nt = 1

\* SPI0 moves only during its own calls, and only when it can store the answer.
Spi0Quiet ==
    /\ pc = "idle" \/ bus = "aux" => sh["spi0"] = << >>
    /\ sh["spi0"] # << >> => Len(rxf["spi0"]) < Depth

Layer1 == TypeOK /\ Fifos /\ Progress /\ Spi0Quiet

\* Layer 2.  The calls that receive, where the library can keep its promise.
Receives == fn \in {"spi_transfer", "spi_transfernb", "spi_transfern",
                    "aux_spi_transfer", "aux_spi_transfernb", "aux_spi_transfern"}
                /\ (fn \in AuxCalls => Safe)

Wide == fn \in {"aux_spi_transfernb", "aux_spi_transfern"}

\* The bytes in n full words.
Full(n) == IF Wide THEN 3 * n ELSE n

\* Byte p of the caller's buffer as it is sent.
Coded(p) == IF Wide THEN Given(calls, p) ELSE correct_order(Given(calls, p))

\* The bytes of the word that begins behind the first o bytes, and their answers.
SizeAt(o) == IF len - o < Full(1) THEN len - o ELSE Full(1)
IsSent(s, o) == Len(s) = SizeAt(o) /\ \A i \in 1..Len(s) : s[i] = Coded(o + i)
IsAnswer(s, o) == Len(s) = SizeAt(o) /\ \A i \in 1..Len(s) : s[i] = Answer(Coded(o + i))

\* Words between the two buffers.
Flying == Len(rxf[bus]) + Len(sh[bus]) + Len(txf[bus])

Flight ==
    /\ \A k \in 1..Len(rxf[bus]) : IsAnswer(rxf[bus][k], Len(rbuf) + Full(k - 1))
    /\ \A k \in 1..Len(sh[bus]) : IsSent(sh[bus][k].b, Len(rbuf) + Full(Len(rxf[bus]) + k - 1))
    /\ \A k \in 1..Len(txf[bus]) :
          IsSent(txf[bus][k].b, Len(rbuf) + Full(Len(rxf[bus]) + Len(sh[bus]) + k - 1))
    /\ Flying # 0 => Len(rbuf) + Full(Flying - 1) < len
    /\ nt = IF Len(rbuf) + Full(Flying) < len THEN Len(rbuf) + Full(Flying) ELSE len
    /\ \A p \in 1..Len(rbuf) : rbuf[p] = Answer(Given(calls, p))
    /\ \A p \in 1..len : p > Len(rbuf) => tbuf[p] = Given(calls, p)

\* Where each function knows that it has sent or received everything.
Complete ==
    /\ fn \in {"spi_transfer", "aux_spi_transfer"} /\ pc \in {"done", "busy"} => nt = len
    /\ fn \in {"spi_transfernb", "spi_transfern"} /\ pc = "done" => Len(rbuf) = len
    /\ Wide /\ pc \in {"arx", "abusy"} => nt = len

Layer2 == (pc # "idle" /\ Receives => Flight /\ Complete) /\ ReadExact

-----------------------------------------------------------------------------
(* The operators. *)

\* The table maps bytes to bytes, and putting the slave's answer back in order gives
\* the answer to the byte that was given: all 256 entries.
LEMMA Table ==
    /\ \A b \in Bytes : byte_reverse_table[b + 1] \in Bytes
    /\ \A b \in Bytes : byte_reverse_table[255 - byte_reverse_table[b + 1] + 1] = 255 - b
  BY DEF byte_reverse_table, Bytes

\* correct_order and the slave's answer stay within bytes, and undo each other.
LEMMA Ordering ==
    ASSUME NEW b \in Bytes
    PROVE  /\ correct_order(b) \in Bytes /\ Answer(b) \in Bytes
           /\ correct_order(Answer(correct_order(b))) = Answer(b)
<1>1. Answer(b) \in Bytes
  BY DEF Answer, Bytes
<1>2. CASE order = LSBFIRST
  BY <1>1, <1>2, Table DEF correct_order, Answer
<1>3. CASE order # LSBFIRST
  BY <1>1, <1>3 DEF correct_order, Answer
<1> QED
  BY <1>2, <1>3

\* The smaller of two numbers.
LEMMA MinOfTwo ==
    ASSUME NEW a \in Int, NEW b \in Int
    PROVE  Min({a, b}) = IF a <= b THEN a ELSE b
  BY DEF Min

\* The bytes taken from the receive FIFO are as many as asked for; when the word has
\* just as many, they are the word.
LEMMA ReceivedBytes ==
    ASSUME Layer1, NEW n \in 0..3
    PROVE  /\ Received(n) \in Seq(Bytes) /\ Len(Received(n)) = n
           /\ rxf[bus] # << >> /\ Len(Head(rxf[bus])) = n =>
                 \A i \in 1..n : Received(n)[i] = Head(rxf[bus])[i]
<1> DEFINE h == IF rxf[bus] = << >> THEN << >> ELSE Head(rxf[bus])
           z == <<0, 0, 0>>
           w == z \o h
<1>1. rxf[bus] \in Seq(Seq(Bytes))
  BY DEF Layer1, Fifos, Buses, bus, Bus
<1>2. h \in Seq(Bytes)
  BY <1>1, HeadTailProperties, EmptySeq
<1>3. z \in Seq(Bytes) /\ Len(z) = 3
  BY DEF Bytes
<1> HIDE DEF h, z
<1>4. /\ w \in Seq(Bytes) /\ Len(w) = 3 + Len(h) /\ Len(h) \in Nat
      /\ \A i \in 1..Len(w) : w[i] = IF i <= 3 THEN z[i] ELSE h[i - 3]
  <2>1. /\ w \in Seq(Bytes) /\ Len(w) = Len(z) + Len(h) /\ Len(h) \in Nat
        /\ \A i \in 1..(Len(z) + Len(h)) : w[i] = IF i <= Len(z) THEN z[i] ELSE h[i - Len(z)]
    BY <1>2, <1>3, ConcatProperties, LenProperties
  <2> HIDE DEF w
  <2> QED
    BY <1>3, <2>1
<1> HIDE DEF w
<1>5. Received(n) = SubSeq(w, Len(w) - n + 1, Len(w))
  BY DEF Received, w, h, z
<1>6. /\ Received(n) \in Seq(Bytes) /\ Len(Received(n)) = n
      /\ \A i \in 1..n : Received(n)[i] = w[Len(w) - n + i]
  <2>1. Len(w) - n + 1 \in 1..(Len(w) + 1) /\ Len(w) \in 0..Len(w)
    BY <1>4
  <2>2. \A i \in (Len(w) - n + 1)..Len(w) : i \in 1..Len(w)
    BY <1>4
  <2> QED
    BY <1>4, <1>5, <2>1, <2>2, SubSeqProperties
<1>7. ASSUME rxf[bus] # << >>, Len(Head(rxf[bus])) = n, NEW i \in 1..n
      PROVE  Received(n)[i] = Head(rxf[bus])[i]
  <2>1. h = Head(rxf[bus]) /\ Len(h) = n
    BY <1>7 DEF h
  <2>2. Len(w) - n + i = i + 3 /\ i + 3 \in 1..Len(w) /\ ~(i + 3 <= 3) /\ i + 3 - 3 = i
    BY <1>4, <2>1
  <2> QED
    BY <1>4, <1>6, <2>1, <2>2
<1> QED
  BY <1>6, <1>7

\* A word pushed is at the end of the transmit FIFO, or lost when there is no room.
LEMMA Pushed ==
    ASSUME Layer1, NEW w \in TransmitWords, Push(w)
    PROVE  /\ txf' \in [Buses -> Seq(TransmitWords)] /\ \A u \in Buses : Len(txf'[u]) <= Depth
           /\ \A u \in Buses : u # bus => txf'[u] = txf[u]
           /\ Len(txf[bus]) < Depth =>
                 /\ Len(txf'[bus]) = Len(txf[bus]) + 1
                 /\ \A k \in 1..Len(txf[bus]) : txf'[bus][k] = txf[bus][k]
                 /\ txf'[bus][Len(txf[bus]) + 1] = w
<1>1. bus \in Buses /\ txf \in [Buses -> Seq(TransmitWords)] /\ Depth \in Nat /\ \A u \in Buses : Len(txf[u]) <= Depth
  BY SpiAssumption DEF Layer1, TypeOK, Fifos, Buses, bus, Bus
<1> DEFINE old == txf[bus]
           new == IF Len(old) < Depth THEN Append(old, w) ELSE old
<1>2. /\ old \in Seq(TransmitWords) /\ Len(old) \in Nat /\ new \in Seq(TransmitWords) /\ Len(new) <= Depth
      /\ Len(old) < Depth => /\ Len(new) = Len(old) + 1
                             /\ \A k \in 1..Len(old) : new[k] = old[k]
                             /\ new[Len(old) + 1] = w
  BY <1>1, AppendProperties, LenProperties
<1>3. txf' = [txf EXCEPT ![bus] = new]
  BY DEF Push
<1> HIDE DEF new
<1> QED
  BY <1>1, <1>2, <1>3

\* The oldest word leaves the receive FIFO, if there is one.
LEMMA Popped ==
    ASSUME Layer1, Pop
    PROVE  /\ rxf' \in [Buses -> Seq(Seq(Bytes))] /\ \A u \in Buses : Len(rxf'[u]) <= Len(rxf[u])
           /\ \A u \in Buses : u # bus => rxf'[u] = rxf[u]
           /\ rxf[bus] # << >> =>
                 /\ Len(rxf[bus]) \in Nat \ {0} /\ Len(rxf'[bus]) = Len(rxf[bus]) - 1
                 /\ Head(rxf[bus]) = rxf[bus][1]
                 /\ \A k \in 1..Len(rxf'[bus]) : rxf'[bus][k] = rxf[bus][k + 1]
<1>1. bus \in Buses /\ rxf \in [Buses -> Seq(Seq(Bytes))] /\ \A u \in Buses : Len(rxf[u]) \in Nat
  BY LenProperties DEF Layer1, Fifos, Buses, bus, Bus
<1> DEFINE old == rxf[bus]
           new == IF old = << >> THEN old ELSE Tail(old)
<1>2. /\ old \in Seq(Seq(Bytes)) /\ Len(old) \in Nat /\ new \in Seq(Seq(Bytes)) /\ Len(new) <= Len(old)
      /\ old # << >> => /\ Len(old) # 0 /\ Len(new) = Len(old) - 1 /\ Head(old) = old[1]
                        /\ \A k \in 1..Len(new) : new[k] = old[k + 1]
  BY <1>1, HeadTailProperties, LenProperties, EmptySeq
<1>3. rxf' = [rxf EXCEPT ![bus] = new]
  BY DEF Pop
<1> HIDE DEF new
<1> QED
  BY <1>1, <1>2, <1>3

\* What is stored is appended to the receive buffer and leaves the bytes behind it.
LEMMA Stored ==
    ASSUME Layer1, NEW s \in Seq(Bytes), Len(rbuf) + Len(s) <= len, Store(s)
    PROVE  /\ rbuf' \in Seq(Bytes) /\ tbuf' \in Seq(Bytes) /\ Len(tbuf') = len
           /\ Len(rbuf') = Len(rbuf) + Len(s) /\ Len(rbuf') \in 0..len
           /\ \A p \in 1..Len(rbuf) : rbuf'[p] = rbuf[p]
           /\ \A i \in 1..Len(s) : rbuf'[Len(rbuf) + i] = s[i]
           /\ \A p \in 1..len : p > Len(rbuf') => tbuf'[p] = tbuf[p]
<1>1. rbuf \in Seq(Bytes) /\ tbuf \in Seq(Bytes) /\ Len(tbuf) = len /\ len \in Nat /\ Len(rbuf) \in Nat /\ Len(s) \in Nat
  BY LenProperties DEF Layer1, TypeOK, Progress
<1>2. rbuf' = rbuf \o s
  BY DEF Store
<1>3. /\ rbuf' \in Seq(Bytes) /\ Len(rbuf') = Len(rbuf) + Len(s)
      /\ \A i \in 1..(Len(rbuf) + Len(s)) : rbuf'[i] = IF i <= Len(rbuf) THEN rbuf[i] ELSE s[i - Len(rbuf)]
  BY <1>1, <1>2, ConcatProperties
<1>4. /\ \A p \in 1..Len(rbuf) : rbuf'[p] = rbuf[p]
      /\ \A i \in 1..Len(s) : rbuf'[Len(rbuf) + i] = s[i]
  <2>1. \A p \in 1..Len(rbuf) : p \in 1..(Len(rbuf) + Len(s)) /\ p <= Len(rbuf)
    BY <1>1
  <2>2. \A i \in 1..Len(s) : /\ Len(rbuf) + i \in 1..(Len(rbuf) + Len(s)) /\ ~(Len(rbuf) + i <= Len(rbuf))
                             /\ Len(rbuf) + i - Len(rbuf) = i
    BY <1>1
  <2> QED
    BY <1>3, <2>1, <2>2
<1>5. DOMAIN rbuf' = 1..Len(rbuf') /\ \A p \in 1..Len(rbuf') : rbuf'[p] \in Bytes
  BY <1>3, LenProperties, ElementOfSeq
<1>6. \A p \in 1..len : tbuf[p] \in Bytes
  BY <1>1, ElementOfSeq
<1>7. CASE fn \in {"spi_transfern", "aux_spi_transfern"}
  <2>1. tbuf' = [i \in 1..len |-> IF i \in DOMAIN rbuf' THEN rbuf'[i] ELSE tbuf[i]]
    BY <1>7 DEF Store
  <2>2. \A p \in 1..len : tbuf'[p] \in Bytes /\ (p > Len(rbuf') => tbuf'[p] = tbuf[p])
    BY <1>1, <1>3, <1>5, <1>6, <2>1
  <2>3. tbuf' \in [1..len -> Bytes]
    BY <2>1, <2>2
  <2>4. tbuf' \in Seq(Bytes) /\ Len(tbuf') = len
    BY <1>1, <2>3, LenProperties
  <2> QED
    BY <1>1, <1>3, <1>4, <2>2, <2>4
<1>8. CASE fn \notin {"spi_transfern", "aux_spi_transfern"}
  <2>1. tbuf' = tbuf
    BY <1>8 DEF Store
  <2> QED
    BY <1>1, <1>3, <1>4, <2>1
<1> QED
  BY <1>7, <1>8

-----------------------------------------------------------------------------
(* Layer 1: types and counters. *)

\* Nothing was called and nothing moves.
LEMMA Initial1 == Init => Layer1
<1> SUFFICES ASSUME Init PROVE Layer1
  OBVIOUS
<1>1. /\ tbuf \in Seq(Bytes) /\ Len(tbuf) = 0 /\ rbuf \in Seq(Bytes) /\ Len(rbuf) = 0
  BY EmptySeq DEF Init
<1>2. Fifos /\ \A u \in Buses : txf[u] = << >> /\ sh[u] = << >> /\ rxf[u] = << >>
  BY EmptySeq DEF Init, Fifos
<1>3. \A u \in Buses : Len(txf[u]) = 0 /\ Len(sh[u]) = 0 /\ Len(rxf[u]) = 0
  BY <1>2, EmptySeq
<1>4. TypeOK
  BY <1>1, <1>3, SpiAssumption DEF Init, TypeOK, LSBFIRST, MSBFIRST
<1>5. Progress
  BY DEF Init, Progress
<1>6. Spi0Quiet
  BY <1>2 DEF Spi0Quiet, Buses
<1> QED
  BY <1>2, <1>4, <1>5, <1>6 DEF Layer1

\* What Begin prepares.
LEMMA Begun ==
    ASSUME Layer1, NEW f \in Calls, NEW n \in Length(f), Begin(f, n)
    PROVE  /\ n \in 1..15 /\ calls' = calls + 1 /\ calls' \in 1..MaxCalls
           /\ tbuf' \in Seq(Bytes) /\ Len(tbuf') = n
           /\ \A p \in 1..n : tbuf'[p] = Given(calls', p)
           /\ rbuf' = << >> /\ rbuf' \in Seq(Bytes) /\ Len(rbuf') = 0
<1>1. n \in 1..15 /\ calls' = calls + 1 /\ calls' \in 1..MaxCalls /\ calls' \in 1..7
  BY SpiAssumption DEF Length, Begin, Layer1, TypeOK
<1>2. tbuf' = [i \in 1..n |-> Given(calls', i)]
  BY <1>1 DEF Begin
<1>3. \A i \in 1..n : Given(calls', i) \in Bytes
  BY <1>1 DEF Given, Bytes
<1>4. tbuf' \in Seq(Bytes) /\ Len(tbuf') = n
  BY <1>1, <1>2, <1>3
<1>5. rbuf' = << >> /\ rbuf' \in Seq(Bytes) /\ Len(rbuf') = 0
  BY EmptySeq DEF Begin
<1> QED
  BY <1>1, <1>2, <1>4, <1>5

\* A step of the function that is running, from what it does to the buffers and FIFOs.
LEMMA RunningKeeps ==
    ASSUME Layer1, pc # "idle", UNCHANGED <<call, sh>>,
           pc' \in {"idle", "txd", "tx", "rx", "drain", "low", "done", "full", "busy", "atx", "arx", "abusy"},
           nt' \in 0..len,
           txf' \in [Buses -> Seq(TransmitWords)], \A u \in Buses : Len(txf'[u]) <= Depth,
           rxf' \in [Buses -> Seq(Seq(Bytes))], \A u \in Buses : Len(rxf'[u]) <= Len(rxf[u]),
           tbuf' \in Seq(Bytes), Len(tbuf') = len, rbuf' \in Seq(Bytes), Len(rbuf') \in 0..len,
           fn \in {"spi_transfer", "aux_spi_transfer"} /\ pc' # "idle" => rbuf' = << >>,
           pc' \in {"txd", "full"} => nt' < len /\ fn # "spi_write",
           pc' = "low" => nt' = 1,
           pc' = "idle" /\ bus = "spi0" => sh["spi0"] = << >>
    PROVE  Layer1'
<1>1. bus' = bus
  BY DEF call, bus, Bus
<1>2. Fifos'
  BY DEF Layer1, Fifos
<1>3. TypeOK'
  <2>1. \A u \in Buses : Len(txf'[u]) <= Depth /\ Len(sh'[u]) <= 1 /\ Len(rxf'[u]) <= Depth
    <3>1. \A u \in Buses : Len(rxf[u]) \in Nat /\ Len(rxf'[u]) \in Nat
      BY LenProperties DEF Layer1, Fifos
    <3>2. sh' = sh /\ Depth \in Nat /\ \A u \in Buses : Len(sh[u]) <= 1 /\ Len(rxf[u]) <= Depth
      BY SpiAssumption DEF Layer1, TypeOK
    <3> TAKE u \in Buses
    <3>3. Len(txf'[u]) <= Depth /\ Len(rxf'[u]) <= Len(rxf[u])
      OBVIOUS
    <3>4. Len(rxf'[u]) <= Depth
      BY <3>1, <3>2, <3>3
    <3> QED
      BY <3>2, <3>3, <3>4
  <2> QED
    BY <2>1 DEF Layer1, TypeOK, call
<1>4. Progress'
  BY DEF Layer1, Progress, call
<1>5. Spi0Quiet'
  <2>1. "spi0" \in Buses /\ Len(rxf["spi0"]) \in Nat /\ Len(rxf'["spi0"]) \in Nat /\ Depth \in Nat
    BY LenProperties, SpiAssumption DEF Layer1, Fifos, Buses
  <2>2. pc' = "idle" \/ bus' = "aux" => sh'["spi0"] = << >>
    BY <1>1 DEF Layer1, Spi0Quiet, bus, Bus
  <2>3. sh'["spi0"] # << >> => Len(rxf'["spi0"]) < Depth
    BY <2>1 DEF Layer1, Spi0Quiet
  <2> QED
    BY <2>2, <2>3 DEF Spi0Quiet
<1> QED
  BY <1>2, <1>3, <1>4, <1>5 DEF Layer1

\* The controller moves a word on.
LEMMA ControllerKeeps1 ==
    ASSUME Layer1, NEW u \in Buses, Load(u) \/ Emit(u)
    PROVE  Layer1'
<1>1. /\ txf \in [Buses -> Seq(TransmitWords)] /\ sh \in [Buses -> Seq(TransmitWords)]
      /\ rxf \in [Buses -> Seq(Seq(Bytes))] /\ Depth \in Nat
      /\ \A v \in Buses : Len(txf[v]) \in Nat /\ Len(sh[v]) \in Nat /\ Len(rxf[v]) \in Nat
      /\ \A v \in Buses : Len(txf[v]) <= Depth /\ Len(sh[v]) <= 1 /\ Len(rxf[v]) <= Depth
  BY LenProperties, SpiAssumption DEF Layer1, TypeOK, Fifos
<1>2. UNCHANGED <<pc, fn, len, calls, order, began, tbuf, nt, rbuf>> /\ bus' = bus
  BY DEF Load, Emit, call, bus, Bus
<1>3. CASE Load(u)
  <2>1. /\ Head(txf[u]) \in TransmitWords /\ Tail(txf[u]) \in Seq(TransmitWords) /\ Len(Tail(txf[u])) <= Depth
    BY <1>1, <1>3, HeadTailProperties, LenProperties DEF Load
  <2>2. <<Head(txf[u])>> \in Seq(TransmitWords) /\ Len(<<Head(txf[u])>>) = 1
    BY <2>1
  <2>3. /\ txf' = [txf EXCEPT ![u] = Tail(txf[u])] /\ sh' = [sh EXCEPT ![u] = <<Head(txf[u])>>] /\ rxf' = rxf
        /\ u = "spi0" => pc # "idle" /\ bus = "spi0" /\ Len(rxf[u]) < Depth
    BY <1>3 DEF Load
  <2>4. /\ txf' \in [Buses -> Seq(TransmitWords)] /\ sh' \in [Buses -> Seq(TransmitWords)]
        /\ \A v \in Buses : Len(txf'[v]) <= Depth /\ Len(sh'[v]) <= 1 /\ Len(rxf'[v]) <= Depth
    BY <1>1, <2>1, <2>2, <2>3
  <2>5. Spi0Quiet'
    BY <1>1, <1>2, <2>3 DEF Layer1, Spi0Quiet, Buses, bus, Bus
  <2> QED
    BY <1>1, <1>2, <2>3, <2>4, <2>5 DEF Layer1, TypeOK, Fifos, Progress
<1>4. CASE Emit(u)
  <2> DEFINE w == sh[u][1]
             a == [i \in DOMAIN w.b |-> Answer(w.b[i])]
             r == IF Len(rxf[u]) = Depth THEN rxf[u] ELSE Append(rxf[u], a)
  <2>1. w \in TransmitWords /\ w.b \in Seq(Bytes)
    <3>1. sh[u] \in Seq(TransmitWords) /\ sh[u] # << >>
      BY <1>1, <1>4 DEF Emit
    <3>2. Len(sh[u]) \in Nat /\ Len(sh[u]) # 0
      BY <3>1, LenProperties, EmptySeq
    <3>3. 1 \in 1..Len(sh[u])
      BY <3>2
    <3>4. w \in TransmitWords
      BY <3>1, <3>3, ElementOfSeq
    <3> QED
      BY <3>4 DEF TransmitWords
  <2>2. a \in Seq(Bytes)
    <3>1. DOMAIN w.b = 1..Len(w.b) /\ Len(w.b) \in Nat /\ \A i \in 1..Len(w.b) : Answer(w.b[i]) \in Bytes
      BY <2>1, LenProperties, ElementOfSeq, Ordering
    <3> QED
      BY <3>1
  <2> HIDE DEF a
  <2>3. r \in Seq(Seq(Bytes)) /\ Len(r) <= Depth
    BY <1>1, <2>2, AppendProperties
  <2>4. rxf' = [rxf EXCEPT ![u] = r] /\ sh' = [sh EXCEPT ![u] = << >>] /\ txf' = txf /\ sh[u] # << >>
    BY <1>4 DEF Emit, a
  <2> HIDE DEF r
  <2>5. << >> \in Seq(TransmitWords) /\ Len(<< >>) = 0
    BY EmptySeq
  <2>6. /\ rxf' \in [Buses -> Seq(Seq(Bytes))] /\ sh' \in [Buses -> Seq(TransmitWords)]
        /\ \A v \in Buses : Len(txf'[v]) <= Depth /\ Len(sh'[v]) <= 1 /\ Len(rxf'[v]) <= Depth
    BY <1>1, <2>3, <2>4, <2>5
  <2>7. Spi0Quiet'
    BY <1>1, <1>2, <2>4 DEF Layer1, Spi0Quiet, Buses
  <2> QED
    BY <1>1, <1>2, <2>4, <2>6, <2>7 DEF Layer1, TypeOK, Fifos, Progress
<1> QED
  BY <1>3, <1>4

\* The words that the functions push, with their types.
LEMMA WordTypes ==
    ASSUME Layer1
    PROVE  /\ \A b \in Bytes, h \in BOOLEAN : Word(<<b>>, h) \in TransmitWords
           /\ \A s \in Seq(Bytes), h \in BOOLEAN : Word(s, h) \in TransmitWords
           /\ \A p \in 1..len : tbuf[p] \in Bytes /\ correct_order(tbuf[p]) \in Bytes
<1>1. calls \in Nat /\ tbuf \in Seq(Bytes) /\ Len(tbuf) = len
  BY SpiAssumption DEF Layer1, TypeOK
<1>2. \A s \in Seq(Bytes), h \in BOOLEAN : Word(s, h) \in TransmitWords
  BY <1>1 DEF Word, TransmitWords
<1>3. \A b \in Bytes : <<b>> \in Seq(Bytes)
  OBVIOUS
<1>4. \A p \in 1..len : tbuf[p] \in Bytes
  BY <1>1, ElementOfSeq
<1> QED
  BY <1>2, <1>3, <1>4, Ordering

\* One word of the auxiliary SPI is filled and pushed.
LEMMA WordSent ==
    ASSUME Layer1, nt < len, SendWord
    PROVE  /\ nt' = (IF nt + 3 <= len THEN nt + 3 ELSE len) /\ nt' \in 1..len
           /\ \E s \in Seq(Bytes), h \in BOOLEAN :
                 /\ Push(Word(s, h)) /\ Len(s) = nt' - nt
                 /\ \A i \in 1..Len(s) : s[i] = tbuf[nt + i]
                 /\ h <=> nt' < len
<1> DEFINE last == Min({nt + 3, len})
           s == SubSeq(tbuf, nt + 1, last)
<1>1. nt \in Nat /\ len \in Nat /\ tbuf \in Seq(Bytes) /\ Len(tbuf) = len
  BY DEF Layer1, TypeOK, Progress
<1>2. last = IF nt + 3 <= len THEN nt + 3 ELSE len
  BY <1>1, MinOfTwo
<1>3. nt' = last /\ Push(Word(s, last < len)) /\ (last < len) \in BOOLEAN
  BY DEF SendWord
<1> HIDE DEF last
<1>4. \A i \in (nt + 1)..last : tbuf[i] \in Bytes
  BY <1>1, <1>2, ElementOfSeq
<1>5. s \in Seq(Bytes) /\ Len(s) = last - nt /\ \A i \in 1..(last - nt) : s[i] = tbuf[nt + i]
  <2>1. nt + 1 \in Int /\ last \in Int /\ nt + 1 <= last /\ last - (nt + 1) + 1 = last - nt
    BY <1>1, <1>2
  <2>2. s \in Seq(Bytes) /\ Len(s) = last - nt /\ \A i \in 1..(last - nt) : s[i] = tbuf[nt + 1 + i - 1]
    BY <1>4, <2>1, SubSeqProperties
  <2> HIDE DEF s
  <2> QED
    BY <1>1, <2>2
<1> HIDE DEF s
<1>6. nt' = (IF nt + 3 <= len THEN nt + 3 ELSE len) /\ nt' \in 1..len
  BY <1>1, <1>2, <1>3
<1>7. PICK h \in BOOLEAN : h = (last < len)
  BY <1>3
<1>8. Push(Word(s, h)) /\ (h <=> nt' < len)
  BY <1>3, <1>7
<1> QED
  BY <1>3, <1>5, <1>6, <1>8

\* One word of the auxiliary SPI is taken and stored.
LEMMA WordStored ==
    ASSUME Layer1, Len(rbuf) < len, StoreWord
    PROVE  \E n \in 1..3 : /\ n = IF len - Len(rbuf) <= 3 THEN len - Len(rbuf) ELSE 3
                           /\ Pop /\ Store(Received(n)) /\ Len(rbuf) + n <= len
<1>1. Len(rbuf) \in Nat /\ len \in Nat
  BY DEF Layer1, TypeOK, Progress
<1>2. Min({len - Len(rbuf), 3}) = IF len - Len(rbuf) <= 3 THEN len - Len(rbuf) ELSE 3
  BY <1>1, MinOfTwo
<1> DEFINE n == Min({len - Len(rbuf), 3})
<1>3. n \in 1..3 /\ Len(rbuf) + n <= len
  BY <1>1, <1>2
<1>4. Pop /\ Store(Received(n))
  BY DEF StoreWord
<1> QED
  BY <1>2, <1>3, <1>4

\* Every step of a running function keeps the types: no loop leaves its buffers.
LEMMA Running1 ==
    ASSUME Layer1, Running
    PROVE  Layer1'
<1>a. /\ nt \in 0..len /\ len \in 0..15 /\ txf \in [Buses -> Seq(TransmitWords)] /\ rxf \in [Buses -> Seq(Seq(Bytes))]
      /\ tbuf \in Seq(Bytes) /\ Len(tbuf) = len /\ rbuf \in Seq(Bytes) /\ Len(rbuf) \in 0..len
  BY DEF Layer1, TypeOK, Fifos, Progress
<1>b. \A u \in Buses : Len(txf[u]) <= Depth /\ Len(rxf[u]) <= Len(rxf[u])
  <2>1. \A u \in Buses : Len(rxf[u]) \in Nat
    BY <1>a, LenProperties
  <2> QED
    BY <2>1 DEF Layer1, TypeOK
<1>c. /\ fn \in {"spi_transfer", "aux_spi_transfer"} => len = 1 /\ (pc # "idle" => rbuf = << >>)
      /\ fn \in {"spi_write", "aux_spi_write"} => len = 2
      /\ pc \in {"txd", "full"} => nt < len
      /\ pc = "io" => nt = 0
      /\ (fn = "spi_write" /\ pc = "txd") => nt = 0
      /\ pc = "low" => nt = 1
  BY DEF Layer1, Progress
<1>d. \A b \in Bytes : Push(Word(<<b>>, TRUE)) =>
          txf' \in [Buses -> Seq(TransmitWords)] /\ \A u \in Buses : Len(txf'[u]) <= Depth
  BY WordTypes, Pushed
<1>e. Pop => rxf' \in [Buses -> Seq(Seq(Bytes))] /\ \A u \in Buses : Len(rxf'[u]) <= Len(rxf[u])
  BY Popped
<1>f. /\ <<correct_order(Received(1)[1])>> \in Seq(Bytes) /\ Len(<<correct_order(Received(1)[1])>>) = 1
  <2>1. Received(1) \in Seq(Bytes) /\ Len(Received(1)) = 1
    BY ReceivedBytes
  <2>2. Received(1)[1] \in Bytes
    BY <2>1, ElementOfSeq
  <2> QED
    BY <2>2, Ordering
<1>g. ASSUME Len(rbuf) < len, Store(<<correct_order(Received(1)[1])>>)
      PROVE  rbuf' \in Seq(Bytes) /\ tbuf' \in Seq(Bytes) /\ Len(tbuf') = len /\ Len(rbuf') \in 0..len
  <2>1. Len(rbuf) + Len(<<correct_order(Received(1)[1])>>) <= len
    BY <1>a, <1>f, <1>g
  <2> QED
    BY <1>f, <1>g, <2>1, Stored
<1>h. DONE => sh["spi0"] = << >>
  BY DEF DONE
<1>1. CASE spi_transfer
  <2>1. ASSUME pc = "txd", SendByte(correct_order(tbuf[1])), Goto("done"), UNCHANGED <<tbuf, rbuf, rxf, sh>>
        PROVE  Layer1'
    <3>1. correct_order(tbuf[1]) \in Bytes /\ nt' = 1
      BY <1>1, <1>a, <1>c, <2>1, WordTypes DEF spi_transfer, SendByte
    <3>2. txf' \in [Buses -> Seq(TransmitWords)] /\ \A u \in Buses : Len(txf'[u]) <= Depth
      BY <1>d, <2>1, <3>1 DEF SendByte
    <3>3. fn = "spi_transfer" /\ len = 1 /\ rbuf' = << >> /\ nt' \in 0..len
      BY <1>1, <1>c, <2>1, <3>1 DEF spi_transfer
    <3> QED
      BY <1>a, <1>b, <2>1, <3>2, <3>3, RunningKeeps DEF Goto
  <2>2. ASSUME pc = "done", DONE, Pop, Store(<<correct_order(Received(1)[1])>>), Goto("idle"), UNCHANGED <<nt, txf, sh>>
        PROVE  Layer1'
    <3>1. Len(rbuf) < len
      BY <1>1, <1>c, <2>2, EmptySeq DEF spi_transfer
    <3> QED
      BY <1>1, <1>a, <1>b, <1>c, <1>e, <1>g, <1>h, <2>2, <3>1, RunningKeeps DEF Goto
  <2> QED
    BY <1>1, <2>1, <2>2 DEF spi_transfer
<1>2. CASE spi_transfernb
  <2>0. fn \notin {"spi_transfer", "aux_spi_transfer", "spi_write"} /\ sh' = sh
    BY <1>2 DEF spi_transfernb
  <2>1. ASSUME pc = "tx", nt < len, SendByte(correct_order(tbuf[nt + 1])), Goto("tx"), UNCHANGED <<tbuf, rbuf, rxf>>
        PROVE  Layer1'
    <3>1. correct_order(tbuf[nt + 1]) \in Bytes /\ nt' \in 0..len
      BY <1>a, <2>1, WordTypes DEF SendByte
    <3> QED
      BY <1>a, <1>b, <1>d, <2>0, <2>1, <3>1, RunningKeeps DEF SendByte, Goto
  <2>2. ASSUME pc \in {"tx", "rx", "done"}, NEW l \in {"tx", "rx", "done"}, Goto(l),
               UNCHANGED <<tbuf, nt, rbuf, txf, rxf>>
        PROVE  Layer1'
    BY <1>a, <1>b, <2>0, <2>2, RunningKeeps DEF Goto
  <2>3. ASSUME pc = "rx", Len(rbuf) < len, Pop, Store(<<correct_order(Received(1)[1])>>), Goto("rx"), UNCHANGED <<nt, txf>>
        PROVE  Layer1'
    BY <1>a, <1>b, <1>e, <1>g, <2>0, <2>3, RunningKeeps DEF Goto
  <2>4. ASSUME pc = "done", DONE, Goto("idle"), UNCHANGED <<tbuf, nt, rbuf, txf, rxf>>
        PROVE  Layer1'
    BY <1>a, <1>b, <1>h, <2>0, <2>4, RunningKeeps DEF Goto
  <2> QED
    BY <1>2, <2>1, <2>2, <2>3, <2>4 DEF spi_transfernb
<1>3. CASE spi_writenb
  <2>0. fn \notin {"spi_transfer", "aux_spi_transfer", "spi_write"} /\ UNCHANGED <<tbuf, rbuf, sh>>
    BY <1>3 DEF spi_writenb
  <2>1. ASSUME pc = "txd", SendByte(correct_order(tbuf[nt + 1])), Goto("drain"), UNCHANGED rxf
        PROVE  Layer1'
    <3>1. correct_order(tbuf[nt + 1]) \in Bytes /\ nt' \in 0..len
      BY <1>a, <1>c, <2>1, WordTypes DEF SendByte
    <3> QED
      BY <1>a, <1>b, <1>d, <2>0, <2>1, <3>1, RunningKeeps DEF SendByte, Goto
  <2>2. ASSUME pc \in {"drain", "done"}, Pop, Goto("drain"), UNCHANGED <<nt, txf>>
        PROVE  Layer1'
    BY <1>a, <1>b, <1>e, <2>0, <2>2, RunningKeeps DEF Goto
  <2>3. ASSUME pc = "drain", Goto(IF nt < len THEN "txd" ELSE "done"), UNCHANGED <<nt, txf, rxf>>
        PROVE  Layer1'
    BY <1>a, <1>b, <2>0, <2>3, RunningKeeps DEF Goto
  <2>4. ASSUME pc = "done", DONE, Goto("idle"), UNCHANGED <<nt, txf, rxf>>
        PROVE  Layer1'
    BY <1>a, <1>b, <1>h, <2>0, <2>4, RunningKeeps DEF Goto
  <2> QED
    BY <1>3, <2>1, <2>2, <2>3, <2>4 DEF spi_writenb
<1>4. CASE spi_write
  <2>0. fn = "spi_write" /\ len = 2 /\ UNCHANGED <<tbuf, rbuf, rxf, sh>>
    BY <1>4, <1>c DEF spi_write
  <2>1. ASSUME pc = "txd", SendByte(tbuf[1]), Goto("low")
        PROVE  Layer1'
    <3>1. tbuf[1] \in Bytes /\ nt' = 1
      BY <1>c, <2>0, <2>1, WordTypes DEF SendByte
    <3>2. txf' \in [Buses -> Seq(TransmitWords)] /\ \A u \in Buses : Len(txf'[u]) <= Depth
      BY <1>d, <2>1, <3>1 DEF SendByte
    <3>3. nt' \in 0..len
      BY <2>0, <3>1
    <3> QED
      BY <1>a, <1>b, <2>0, <2>1, <3>1, <3>2, <3>3, RunningKeeps DEF Goto
  <2>2. ASSUME pc = "low", SendByte(tbuf[2]), Goto("done")
        PROVE  Layer1'
    <3>1. tbuf[2] \in Bytes /\ nt' = 2
      BY <1>c, <2>0, <2>2, WordTypes DEF SendByte
    <3>2. txf' \in [Buses -> Seq(TransmitWords)] /\ \A u \in Buses : Len(txf'[u]) <= Depth
      BY <1>d, <2>2, <3>1 DEF SendByte
    <3>3. nt' \in 0..len
      BY <2>0, <3>1
    <3> QED
      BY <1>a, <1>b, <2>0, <2>2, <3>1, <3>2, <3>3, RunningKeeps DEF Goto
  <2>3. ASSUME pc = "done", DONE, Goto("idle"), UNCHANGED <<nt, txf>>
        PROVE  Layer1'
    BY <1>a, <1>b, <1>h, <2>0, <2>3, RunningKeeps DEF Goto
  <2> QED
    BY <1>4, <2>1, <2>2, <2>3 DEF spi_write
<1>i. fn \in AuxCalls => bus # "spi0"
  BY DEF bus, Bus
<1>5. CASE aux_spi_transfer
  <2>0. fn = "aux_spi_transfer" /\ len = 1 /\ bus # "spi0" /\ sh' = sh
    BY <1>5, <1>c, <1>i DEF aux_spi_transfer, AuxCalls
  <2>1. ASSUME pc = "io", Push(Word(<<correct_order(tbuf[1])>>, FALSE)), nt' = 1, Goto("busy"),
               UNCHANGED <<tbuf, rbuf, rxf>>
        PROVE  Layer1'
    <3>0. correct_order(tbuf[1]) \in Bytes
      BY <2>0, WordTypes
    <3>1. Word(<<correct_order(tbuf[1])>>, FALSE) \in TransmitWords
      BY <3>0, WordTypes
    <3>2. txf' \in [Buses -> Seq(TransmitWords)] /\ \A u \in Buses : Len(txf'[u]) <= Depth
      BY <2>1, <3>1, Pushed
    <3> QED
      BY <1>a, <1>b, <1>c, <2>0, <2>1, <3>2, RunningKeeps DEF Goto
  <2>2. ASSUME pc = "busy", Store(<<correct_order(Received(1)[1])>>),
               txf' = [txf EXCEPT !["aux"] = << >>], rxf' = [rxf EXCEPT !["aux"] = << >>],
               Goto("idle"), UNCHANGED nt
        PROVE  Layer1'
    <3>1. Len(rbuf) < len
      BY <1>c, <2>0, <2>2, EmptySeq
    <3>2. << >> \in Seq(TransmitWords) /\ << >> \in Seq(Seq(Bytes)) /\ Len(<< >>) = 0
      BY EmptySeq
    <3>3. Depth \in Nat /\ \A u \in Buses : Len(rxf[u]) \in Nat
      BY <1>a, LenProperties, SpiAssumption
    <3>4. /\ txf' \in [Buses -> Seq(TransmitWords)] /\ \A u \in Buses : Len(txf'[u]) <= Depth
      <4>1. txf' \in [Buses -> Seq(TransmitWords)]
        BY <1>a, <2>2, <3>2
      <4>2. ASSUME NEW u \in Buses PROVE txf'[u] = << >> \/ txf'[u] = txf[u]
        BY <1>a, <2>2
      <4> QED
        BY <1>b, <3>2, <3>3, <4>1, <4>2
    <3>5. rxf' \in [Buses -> Seq(Seq(Bytes))]
      BY <1>a, <2>2, <3>2
    <3>6. \A u \in Buses : Len(rxf'[u]) <= Len(rxf[u])
      <4> TAKE u \in Buses
      <4>1. CASE u = "aux"
        BY <1>a, <2>2, <3>2, <3>3, <4>1
      <4>2. CASE u # "aux"
        BY <1>a, <1>b, <2>2, <4>2
      <4> QED
        BY <4>1, <4>2
    <3> QED
      BY <1>a, <1>g, <2>0, <2>2, <3>1, <3>4, <3>5, <3>6, RunningKeeps DEF Goto
  <2> QED
    BY <1>5, <2>1, <2>2 DEF aux_spi_transfer
<1>j. ASSUME nt < len, SendWord
      PROVE  nt' \in 0..len /\ txf' \in [Buses -> Seq(TransmitWords)] /\ \A u \in Buses : Len(txf'[u]) <= Depth
  <2>1. PICK s \in Seq(Bytes), h \in BOOLEAN : Push(Word(s, h))
    BY <1>j, WordSent
  <2>2. Word(s, h) \in TransmitWords
    BY WordTypes
  <2>3. nt' \in 1..len
    BY <1>j, WordSent
  <2> QED
    BY <1>a, <2>1, <2>2, <2>3, Pushed
<1>k. ASSUME Len(rbuf) < len, StoreWord
      PROVE  /\ rbuf' \in Seq(Bytes) /\ tbuf' \in Seq(Bytes) /\ Len(tbuf') = len /\ Len(rbuf') \in 0..len
             /\ rxf' \in [Buses -> Seq(Seq(Bytes))] /\ \A u \in Buses : Len(rxf'[u]) <= Len(rxf[u])
  <2>1. PICK n \in 1..3 : Pop /\ Store(Received(n)) /\ Len(rbuf) + n <= len
    BY <1>k, WordStored
  <2>2. n \in 0..3
    OBVIOUS
  <2>3. Received(n) \in Seq(Bytes) /\ Len(Received(n)) = n
    BY <2>2, ReceivedBytes
  <2> QED
    BY <1>e, <2>1, <2>3, Stored
<1>6. CASE aux_spi_transfernb
  <2>0. fn \in AuxCalls \ {"aux_spi_transfer"} /\ fn # "spi_transfer" /\ fn # "spi_write" /\ bus # "spi0" /\ sh' = sh
    BY <1>6, <1>i DEF aux_spi_transfernb, AuxCalls
  <2>1. ASSUME pc = "atx", nt < len, SendWord, Goto("atx"), UNCHANGED <<tbuf, rbuf, rxf>>
        PROVE  Layer1'
    BY <1>a, <1>b, <1>j, <2>0, <2>1, RunningKeeps DEF Goto
  <2>2. ASSUME pc \in {"atx", "arx", "abusy"}, NEW l \in {"atx", "arx", "abusy", "idle"}, Goto(l),
               UNCHANGED <<tbuf, nt, rbuf, txf, rxf>>
        PROVE  Layer1'
    BY <1>a, <1>b, <2>0, <2>2, RunningKeeps DEF Goto
  <2>3. ASSUME NEW l \in {"arx", "abusy"}, pc = l, Len(rbuf) < len, StoreWord, Goto(l), UNCHANGED <<nt, txf>>
        PROVE  Layer1'
    BY <1>a, <1>b, <1>k, <2>0, <2>3, RunningKeeps DEF Goto
  <2> QED
    BY <1>6, <2>1, <2>2, <2>3 DEF aux_spi_transfernb
<1>7. CASE aux_spi_writenb
  <2>0. fn = "aux_spi_writenb" /\ bus # "spi0" /\ UNCHANGED <<tbuf, rbuf, sh>>
    BY <1>7, <1>i DEF aux_spi_writenb, AuxCalls
  <2>1. ASSUME pc = "full", SendWord, Goto("busy"), UNCHANGED rxf
        PROVE  Layer1'
    BY <1>a, <1>b, <1>c, <1>j, <2>0, <2>1, RunningKeeps DEF Goto
  <2>2. ASSUME pc = "busy", Pop, Goto(IF nt < len THEN "full" ELSE "idle"), UNCHANGED <<nt, txf>>
        PROVE  Layer1'
    BY <1>a, <1>b, <1>e, <2>0, <2>2, RunningKeeps DEF Goto
  <2> QED
    BY <1>7, <2>1, <2>2 DEF aux_spi_writenb
<1>8. CASE aux_spi_write
  <2>0. fn = "aux_spi_write" /\ len = 2 /\ bus # "spi0" /\ UNCHANGED <<tbuf, rbuf, sh, rxf>>
    BY <1>8, <1>c, <1>i DEF aux_spi_write, AuxCalls
  <2>1. Word(tbuf, FALSE) \in TransmitWords
    BY <1>a, WordTypes
  <2>2. txf' \in [Buses -> Seq(TransmitWords)] /\ \A u \in Buses : Len(txf'[u]) <= Depth
    BY <1>8, <2>1, Pushed DEF aux_spi_write
  <2> QED
    BY <1>8, <1>a, <1>b, <2>0, <2>2, RunningKeeps DEF aux_spi_write, Goto
<1> QED
  BY <1>1, <1>2, <1>3, <1>4, <1>5, <1>6, <1>7, <1>8 DEF Running

\* Layer 1 is kept by every step.
LEMMA Inductive1 == Layer1 /\ [Next]_vars => Layer1'
<1> SUFFICES ASSUME Layer1, [Next]_vars PROVE Layer1'
  OBVIOUS
<1>1. ASSUME NEW o \in {LSBFIRST, MSBFIRST}, spi_setBitOrder(o) PROVE Layer1'
  <2>1. UNCHANGED <<pc, fn, len, calls, began, tbuf, nt, rbuf, txf, sh, rxf>> /\ order' = o
    BY <1>1 DEF spi_setBitOrder
  <2>2. TypeOK'
    BY <2>1 DEF Layer1, TypeOK
  <2> QED
    BY <2>1, <2>2 DEF Layer1, Fifos, Progress, Spi0Quiet, bus, Bus
<1>2. ASSUME NEW f \in Calls, NEW n \in Length(f), Begin(f, n) PROVE Layer1'
  <2>1. /\ n \in 1..15 /\ calls' \in 1..MaxCalls /\ tbuf' \in Seq(Bytes) /\ Len(tbuf') = n
        /\ rbuf' \in Seq(Bytes) /\ Len(rbuf') = 0 /\ rbuf' = << >>
    BY <1>2, Begun
  <2>2. f \in Spi0Calls \union AuxCalls /\ pc' = Entry(f) /\ fn' = f /\ len' = n /\ nt' = 0 /\ order' = order /\ sh' = sh
    BY <1>2, SpiAssumption DEF Begin
  <2>3. Entry(f) \in {"txd", "tx", "io", "full", "atx"}
    BY <2>2 DEF Entry, Spi0Calls, AuxCalls
  <2>4. /\ txf' = txf \/ txf' = [txf EXCEPT !["spi0"] = << >>]
        /\ rxf' = rxf \/ rxf' = [rxf EXCEPT !["spi0"] = << >>]
        /\ Bus(f) = "spi0" => rxf'["spi0"] = << >>
    BY <1>2 DEF Begin, BeginFifos, Layer1, Fifos, Buses
  <2>5. << >> \in Seq(TransmitWords) /\ << >> \in Seq(Seq(Bytes)) /\ Len(<< >>) = 0 /\ Depth \in Nat
    BY EmptySeq, SpiAssumption
  <2>6. Fifos'
    BY <2>2, <2>4, <2>5 DEF Layer1, Fifos
  <2>7. \A u \in Buses : Len(txf'[u]) <= Depth /\ Len(sh'[u]) <= 1 /\ Len(rxf'[u]) <= Depth
    <3> TAKE u \in Buses
    <3>1. (txf'[u] = << >> \/ txf'[u] = txf[u]) /\ (rxf'[u] = << >> \/ rxf'[u] = rxf[u]) /\ sh'[u] = sh[u]
      BY <2>2, <2>4 DEF Layer1, Fifos
    <3> QED
      BY <2>5, <3>1 DEF Layer1, TypeOK
  <2>8. began' \in [order : {LSBFIRST, MSBFIRST}, clean : BOOLEAN]
    <3>1. began' = [order |-> order, clean |-> << >> = txf[Bus(f)] \o sh[Bus(f)] \o rxf[Bus(f)]]
      BY <1>2 DEF Begin
    <3>2. order \in {LSBFIRST, MSBFIRST}
      BY DEF Layer1, TypeOK
    <3>3. (<< >> = txf[Bus(f)] \o sh[Bus(f)] \o rxf[Bus(f)]) \in BOOLEAN
      OBVIOUS
    <3> QED
      BY <3>1, <3>2, <3>3
  <2>9. TypeOK'
    <3>1. calls' \in 0..MaxCalls /\ nt' \in 0..len' /\ Len(rbuf') \in 0..len' /\ Len(tbuf') = len'
      BY <2>1, <2>2
    <3> QED
      BY <2>1, <2>2, <2>3, <2>7, <2>8, <3>1 DEF Layer1, TypeOK
  <2>10. Progress'
    <3>1. /\ f \in {"spi_transfer", "aux_spi_transfer"} => n = 1
          /\ f \in {"spi_write", "aux_spi_write"} => n = 2
          /\ f # "none"
      BY <2>2 DEF Length, Spi0Calls, AuxCalls
    <3>2. calls' # 0 /\ n \in 0..15 /\ 0 < n
      BY <2>1
    <3> QED
      BY <2>1, <2>2, <2>3, <3>1, <3>2 DEF Progress
  <2>11. Spi0Quiet'
    <3>1. sh["spi0"] = << >>
      BY <1>2 DEF Layer1, Spi0Quiet, Begin
    <3> QED
      BY <2>2, <3>1 DEF Spi0Quiet
  <2> QED
    BY <2>6, <2>9, <2>10, <2>11 DEF Layer1
<1>3. CASE UNCHANGED vars
  BY <1>3 DEF Layer1, TypeOK, Fifos, Progress, Spi0Quiet, vars, call, bus, Bus
<1> QED
  BY <1>1, <1>2, <1>3, Running1, ControllerKeeps1 DEF Next

(* Whatever the lengths of the buffers and the depth of the FIFOs, and     *)
(* however the caller and the controllers interleave, no call reads or     *)
(* writes beyond its buffers and no word is kept beyond the depth.         *)
THEOREM SpiTypes == Spec => []TypeOK
<1>1. Layer1 => TypeOK
  BY DEF Layer1
<1> QED
  BY <1>1, Initial1, Inductive1, PTL DEF Spec

-----------------------------------------------------------------------------
(* Layer 2: the bytes between the two buffers of a call that receives. *)

\* Full words add up.
LEMMA FullWords ==
    /\ Full(0) = 0 /\ Full(1) \in 1..3
    /\ \A n \in Nat : Full(n) \in Nat /\ n <= Full(n) /\ Full(n + 1) = Full(n) + Full(1)
    /\ \A n \in Nat \ {0} : n - 1 \in Nat /\ Full(n) = Full(n - 1) + Full(1)
    /\ \A m, n \in Nat : m <= n => Full(m) <= Full(n)
  BY DEF Full

\* Flight in the next state, where the call is the same.
LEMMA FlightNext ==
    ASSUME UNCHANGED call,
           \A k \in 1..Len(rxf'[bus]) : IsAnswer(rxf'[bus][k], Len(rbuf') + Full(k - 1)),
           \A k \in 1..Len(sh'[bus]) : IsSent(sh'[bus][k].b, Len(rbuf') + Full(Len(rxf'[bus]) + k - 1)),
           \A k \in 1..Len(txf'[bus]) :
               IsSent(txf'[bus][k].b, Len(rbuf') + Full(Len(rxf'[bus]) + Len(sh'[bus]) + k - 1)),
           NEW m, m = Len(rxf'[bus]) + Len(sh'[bus]) + Len(txf'[bus]),
           m # 0 => Len(rbuf') + Full(m - 1) < len,
           nt' = IF Len(rbuf') + Full(m) < len THEN Len(rbuf') + Full(m) ELSE len,
           \A p \in 1..Len(rbuf') : rbuf'[p] = Answer(Given(calls, p)),
           \A p \in 1..len : p > Len(rbuf') => tbuf'[p] = Given(calls, p)
    PROVE  Flight'
<1>1. bus' = bus /\ fn' = fn /\ len' = len /\ calls' = calls /\ order' = order
  BY DEF call, bus, Bus
<1>2. (\A k \in 1..Len(rxf[bus]) : IsAnswer(rxf[bus][k], Len(rbuf) + Full(k - 1)))'
  <2> SUFFICES ASSUME NEW k \in (1..Len(rxf[bus]))'
               PROVE  IsAnswer(rxf[bus][k], Len(rbuf) + Full(k - 1))'
    OBVIOUS
  <2> DEFINE s == rxf'[bus][k]
             o == Len(rbuf') + Full(k - 1)
  <2>1. IsAnswer(s, o)
    BY <1>1
  <2>2. Len(s) = SizeAt(o) /\ \A i \in 1..Len(s) : s[i] = Answer(Coded(o + i))
    BY <2>1 DEF IsAnswer
  <2>3. s = (rxf[bus][k])' /\ o = (Len(rbuf) + Full(k - 1))'
    BY <1>1 DEF Full, Wide
  <2> HIDE DEF s, o
  <2> QED
    BY <1>1, <2>2, <2>3 DEF IsAnswer, SizeAt, Coded, Full, Wide, correct_order, Given, Answer
<1>3. (\A k \in 1..Len(sh[bus]) : IsSent(sh[bus][k].b, Len(rbuf) + Full(Len(rxf[bus]) + k - 1)))'
  <2> SUFFICES ASSUME NEW k \in (1..Len(sh[bus]))'
               PROVE  IsSent(sh[bus][k].b, Len(rbuf) + Full(Len(rxf[bus]) + k - 1))'
    OBVIOUS
  <2> DEFINE s == sh'[bus][k].b
             o == Len(rbuf') + Full(Len(rxf'[bus]) + k - 1)
  <2>1. IsSent(s, o)
    BY <1>1
  <2>2. Len(s) = SizeAt(o) /\ \A i \in 1..Len(s) : s[i] = Coded(o + i)
    BY <2>1 DEF IsSent
  <2>3. s = (sh[bus][k].b)' /\ o = (Len(rbuf) + Full(Len(rxf[bus]) + k - 1))'
    BY <1>1 DEF Full, Wide
  <2> HIDE DEF s, o
  <2> QED
    BY <1>1, <2>2, <2>3 DEF IsSent, SizeAt, Coded, Full, Wide, correct_order, Given
<1>4. (\A k \in 1..Len(txf[bus]) :
          IsSent(txf[bus][k].b, Len(rbuf) + Full(Len(rxf[bus]) + Len(sh[bus]) + k - 1)))'
  <2> SUFFICES ASSUME NEW k \in (1..Len(txf[bus]))'
               PROVE  IsSent(txf[bus][k].b, Len(rbuf) + Full(Len(rxf[bus]) + Len(sh[bus]) + k - 1))'
    OBVIOUS
  <2> DEFINE s == txf'[bus][k].b
             o == Len(rbuf') + Full(Len(rxf'[bus]) + Len(sh'[bus]) + k - 1)
  <2>1. IsSent(s, o)
    BY <1>1
  <2>2. Len(s) = SizeAt(o) /\ \A i \in 1..Len(s) : s[i] = Coded(o + i)
    BY <2>1 DEF IsSent
  <2>3. s = (txf[bus][k].b)' /\ o = (Len(rbuf) + Full(Len(rxf[bus]) + Len(sh[bus]) + k - 1))'
    BY <1>1 DEF Full, Wide
  <2> HIDE DEF s, o
  <2> QED
    BY <1>1, <2>2, <2>3 DEF IsSent, SizeAt, Coded, Full, Wide, correct_order, Given
<1>5. /\ (Flying # 0 => Len(rbuf) + Full(Flying - 1) < len)'
      /\ (nt = IF Len(rbuf) + Full(Flying) < len THEN Len(rbuf) + Full(Flying) ELSE len)'
  BY <1>1 DEF Flying, Full, Wide
<1>6. /\ (\A p \in 1..Len(rbuf) : rbuf[p] = Answer(Given(calls, p)))'
      /\ (\A p \in 1..len : p > Len(rbuf) => tbuf[p] = Given(calls, p))'
  BY <1>1 DEF Answer, Given
<1> QED
  BY <1>2, <1>3, <1>4, <1>5, <1>6 DEF Flight

\* The numbers of words and bytes are numbers.
LEMMA Numbers ==
    ASSUME Layer1
    PROVE  /\ bus \in Buses /\ Len(rbuf) \in 0..len /\ len \in Nat /\ nt \in 0..len /\ calls \in Nat
           /\ Len(rxf[bus]) \in Nat /\ Len(sh[bus]) \in 0..1 /\ Len(txf[bus]) \in Nat /\ Flying \in Nat
           /\ Depth \in Nat /\ Len(txf[bus]) <= Depth /\ Len(rxf[bus]) <= Depth
           /\ rxf[bus] \in Seq(Seq(Bytes)) /\ sh[bus] \in Seq(TransmitWords) /\ txf[bus] \in Seq(TransmitWords)
           /\ (rxf[bus] = << >> <=> Len(rxf[bus]) = 0) /\ (sh[bus] = << >> <=> Len(sh[bus]) = 0)
           /\ (txf[bus] = << >> <=> Len(txf[bus]) = 0)
<1>1. bus \in Buses
  BY DEF bus, Bus, Buses
<1>2. rxf[bus] \in Seq(Seq(Bytes)) /\ sh[bus] \in Seq(TransmitWords) /\ txf[bus] \in Seq(TransmitWords)
  BY <1>1 DEF Layer1, Fifos
<1>3. /\ (rxf[bus] = << >> <=> Len(rxf[bus]) = 0) /\ (sh[bus] = << >> <=> Len(sh[bus]) = 0)
      /\ (txf[bus] = << >> <=> Len(txf[bus]) = 0)
      /\ Len(rxf[bus]) \in Nat /\ Len(sh[bus]) \in Nat /\ Len(txf[bus]) \in Nat
  BY <1>2, EmptySeq, LenProperties
<1>4. Depth \in Nat /\ Len(txf[bus]) <= Depth /\ Len(rxf[bus]) <= Depth /\ Len(sh[bus]) <= 1
  BY <1>1, SpiAssumption DEF Layer1, TypeOK
<1>5. Len(rbuf) \in 0..len /\ len \in Nat /\ nt \in 0..len /\ calls \in Nat
  BY SpiAssumption DEF Layer1, TypeOK, Progress
<1> DEFINE r == Len(rxf[bus])
           h == Len(sh[bus])
           t == Len(txf[bus])
<1>6. Flying = r + h + t
  BY DEF Flying
<1>7. r \in Nat /\ h \in Nat /\ t \in Nat /\ h <= 1
  BY <1>3, <1>4
<1> HIDE DEF r, h, t
<1>8. Flying \in Nat /\ h \in 0..1
  BY <1>6, <1>7
<1> QED
  BY <1>1, <1>2, <1>3, <1>4, <1>5, <1>8 DEF h

\* A word that holds the next bytes is sent.
LEMMA PushKeeps ==
    ASSUME Layer1, Flight, UNCHANGED <<call, tbuf, rbuf, sh, rxf>>, nt < len, Len(txf[bus]) < Depth,
           NEW w \in TransmitWords, Push(w), IsSent(w.b, nt), nt' = nt + SizeAt(nt)
    PROVE  Flight'
<1> DEFINE L == Len(rbuf)
           r == Len(rxf[bus])
           h == Len(sh[bus])
           t == Len(txf[bus])
<1>1. L \in 0..len /\ len \in Nat /\ nt \in 0..len /\ r \in Nat /\ h \in 0..1 /\ t \in Nat
  BY Numbers
<1>2. /\ Len(txf'[bus]) = t + 1 /\ \A k \in 1..t : txf'[bus][k] = txf[bus][k]
      /\ txf'[bus][t + 1] = w
  BY Pushed
<1>3. Flying = r + h + t
  BY DEF Flying
<1>4. /\ \A k \in 1..r : IsAnswer(rxf[bus][k], L + Full(k - 1))
      /\ \A k \in 1..h : IsSent(sh[bus][k].b, L + Full(r + k - 1))
      /\ \A k \in 1..t : IsSent(txf[bus][k].b, L + Full(r + h + k - 1))
      /\ nt = IF L + Full(r + h + t) < len THEN L + Full(r + h + t) ELSE len
      /\ \A p \in 1..L : rbuf[p] = Answer(Given(calls, p))
      /\ \A p \in 1..len : p > L => tbuf[p] = Given(calls, p)
  BY <1>3 DEF Flight
<1>a. Len(rbuf') = L /\ Len(rxf'[bus]) = r /\ Len(sh'[bus]) = h
  OBVIOUS
<1> HIDE DEF L, r, h, t
<1>5. nt = L + Full(r + h + t)
  BY <1>1, <1>4
<1>6. \A k \in 1..Len(txf'[bus]) : IsSent(txf'[bus][k].b, L + Full(r + h + k - 1))
  <2> TAKE k \in 1..Len(txf'[bus])
  <2>1. CASE k = t + 1
    BY <1>1, <1>2, <1>5, <2>1
  <2>2. CASE k # t + 1
    <3>1. k \in 1..t
      BY <1>1, <1>2, <2>2
    <3>2. txf'[bus][k] = txf[bus][k] /\ IsSent(txf[bus][k].b, L + Full(r + h + k - 1))
      BY <1>2, <1>4, <3>1
    <3> QED
      BY <3>2
  <2> QED
    BY <2>1, <2>2
<1> DEFINE n == r + h + t
           m == r + h + t + 1
<1>7. /\ m \in Nat \ {0} /\ m - 1 = r + h + t /\ Full(m) = Full(r + h + t) + Full(1)
      /\ Full(1) \in 1..3 /\ Full(r + h + t) \in Nat
  <2>1. n \in Nat /\ m = n + 1
    BY <1>1
  <2> HIDE DEF n, m
  <2>2. Full(n + 1) = Full(n) + Full(1) /\ Full(n) \in Nat /\ Full(1) \in 1..3
    BY <2>1, FullWords
  <2>3. m \in Nat \ {0} /\ m - 1 = n
    BY <2>1
  <2> QED
    BY <2>1, <2>2, <2>3 DEF n
<1> HIDE DEF m
<1>8. nt' = IF L + Full(m) < len THEN L + Full(m) ELSE len
  <2> DEFINE a == Full(r + h + t)
             b == Full(1)
  <2>1. a \in Nat /\ b \in 1..3 /\ nt = L + a /\ Full(m) = a + b
    BY <1>5, <1>7
  <2>2. nt' = nt + IF len - nt < b THEN len - nt ELSE b
    BY DEF SizeAt
  <2> HIDE DEF a, b
  <2> QED
    BY <1>1, <2>1, <2>2
<1>9. m = Len(rxf'[bus]) + Len(sh'[bus]) + Len(txf'[bus])
  <2>1. r + h + t + 1 = r + h + (t + 1)
    BY <1>1
  <2> QED
    BY <1>2, <1>a, <2>1 DEF m
<1> QED
  BY <1>1, <1>4, <1>5, <1>6, <1>7, <1>8, <1>9, <1>a, FlightNext

\* The answer at the head of the receive FIFO is stored.
LEMMA PopKeeps ==
    ASSUME Layer1, Flight, UNCHANGED <<call, nt, txf, sh>>, rxf[bus] # << >>, Pop,
           NEW s \in Seq(Bytes), Len(s) = SizeAt(Len(rbuf)), Store(s),
           \A i \in 1..Len(s) : s[i] = Answer(Given(calls, Len(rbuf) + i))
    PROVE  Flight'
<1> DEFINE L == Len(rbuf)
           r == Len(rxf[bus])
           h == Len(sh[bus])
           t == Len(txf[bus])
           z == Len(s)
           n == r + h + t
<1>1. /\ L \in 0..len /\ len \in Nat /\ nt \in 0..len /\ r \in Nat /\ h \in 0..1 /\ t \in Nat
      /\ \A k \in 1..r : IsAnswer(rxf[bus][k], L + Full(k - 1))
      /\ \A k \in 1..h : IsSent(sh[bus][k].b, L + Full(r + k - 1))
      /\ \A k \in 1..t : IsSent(txf[bus][k].b, L + Full(r + h + k - 1))
      /\ n # 0 => L + Full(n - 1) < len
      /\ nt = IF L + Full(n) < len THEN L + Full(n) ELSE len
      /\ \A p \in 1..L : rbuf[p] = Answer(Given(calls, p))
      /\ \A p \in 1..len : p > L => tbuf[p] = Given(calls, p)
  <2>1. Flying = n
    BY DEF Flying
  <2> QED
    BY <2>1, Numbers DEF Flight
<1>2. /\ \A j \in Nat : Full(j) \in Nat
      /\ \A j \in Nat \ {0} : j - 1 \in Nat /\ Full(j) = Full(j - 1) + Full(1)
  BY FullWords
<1>3. Full(0) = 0 /\ Full(1) \in 1..3 /\ \A i, j \in Nat : i <= j => Full(i) <= Full(j)
  BY FullWords
<1>4. /\ r # 0 /\ Len(rxf'[bus]) = r - 1 /\ \A k \in 1..(r - 1) : rxf'[bus][k] = rxf[bus][k + 1]
      /\ Len(sh'[bus]) = h /\ Len(txf'[bus]) = t
  BY Popped
<1>5. z = IF len - L < Full(1) THEN len - L ELSE Full(1)
  BY DEF SizeAt
<1>6. L + z <= len
  <2> HIDE DEF L, z, r, h, t, n
  <2> QED
    BY <1>1, <1>3, <1>5
<1>7. /\ Len(rbuf') = L + z
      /\ \A p \in 1..L : rbuf'[p] = rbuf[p]
      /\ \A i \in 1..z : rbuf'[L + i] = s[i]
      /\ \A p \in 1..len : p > L + z => tbuf'[p] = tbuf[p]
  BY <1>6, Stored
<1>8. \A i \in 1..z : s[i] = Answer(Given(calls, L + i))
  OBVIOUS
<1> HIDE DEF L, r, h, t, z, n
<1>9. n \in Nat \ {0} /\ n = r + h + t /\ n - 1 \in Nat
  BY <1>1, <1>4 DEF n
<1>10. \A p \in 1..(L + z) : rbuf'[p] = Answer(Given(calls, p))
  <2> TAKE p \in 1..(L + z)
  <2>1. CASE p \in 1..L
    BY <1>1, <1>7, <2>1
  <2>2. CASE p \notin 1..L
    <3>1. p - L \in 1..z /\ L + (p - L) = p
      BY <1>1, <1>3, <1>5, <2>2
    <3> DEFINE i == p - L
    <3> HIDE DEF i
    <3>2. i \in 1..z /\ L + i = p
      BY <3>1 DEF i
    <3>3. rbuf'[L + i] = s[i] /\ s[i] = Answer(Given(calls, L + i))
      BY <1>7, <1>8, <3>2
    <3> QED
      BY <3>2, <3>3
  <2> QED
    BY <2>1, <2>2
<1>11. \A p \in 1..len : p > L + z => tbuf'[p] = Given(calls, p)
  <2> TAKE p \in 1..len
  <2>1. p > L + z => p > L
    BY <1>1, <1>3, <1>5
  <2> QED
    BY <1>1, <1>7, <2>1
<1>12. CASE n = 1
  <2>1. r = 1 /\ h = 0 /\ t = 0
    BY <1>1, <1>4, <1>9, <1>12
  <2>2. nt = IF L + z + Full(0) < len THEN L + z + Full(0) ELSE len
    BY <1>1, <1>3, <1>5, <1>12
  <2>3. 0 = Len(rxf'[bus]) + Len(sh'[bus]) + Len(txf'[bus])
    BY <1>4, <2>1
  <2> QED
    BY <1>4, <1>7, <1>10, <1>11, <2>1, <2>2, <2>3, FlightNext
<1>13. CASE n # 1
  <2>1. z = Full(1) /\ n - 1 \in Nat \ {0} /\ n - 2 \in Nat
    <3>1. n - 1 \in Nat \ {0} /\ 1 <= n - 1 /\ n - 2 \in Nat /\ n # 0
      BY <1>9, <1>13
    <3>2. Full(1) <= Full(n - 1) /\ Full(n - 1) \in Nat
      BY <1>2, <1>3, <3>1
    <3>3. L + Full(n - 1) < len
      BY <1>1, <3>1
    <3> QED
      BY <1>1, <1>3, <1>5, <3>1, <3>2, <3>3
  <2>2. \A j \in Nat \ {0} : L + Full(j) = L + z + Full(j - 1)
    <3> TAKE j \in Nat \ {0}
    <3>1. j - 1 \in Nat /\ Full(j) = Full(j - 1) + Full(1)
      BY <1>2
    <3>2. Full(j - 1) \in Nat
      BY <1>2, <3>1
    <3> QED
      BY <1>1, <1>3, <2>1, <3>1, <3>2
  <2>3. ASSUME NEW k \in 1..(r - 1)
        PROVE  IsAnswer(rxf'[bus][k], L + z + Full(k - 1))
    <3>1. k + 1 \in 1..r /\ k \in Nat \ {0} /\ k + 1 - 1 = k
      BY <1>1
    <3>2. IsAnswer(rxf[bus][k + 1], L + Full(k))
      BY <1>1, <3>1
    <3> QED
      BY <1>4, <2>2, <3>1, <3>2
  <2>4. ASSUME NEW k \in 1..h
        PROVE  IsSent(sh'[bus][k].b, L + z + Full(r - 1 + k - 1))
    <3> DEFINE j == r + k - 1
    <3>1. j \in Nat \ {0} /\ j - 1 = r - 1 + k - 1
      BY <1>1, <1>4
    <3>2. IsSent(sh[bus][k].b, L + Full(j)) /\ sh' = sh
      BY <1>1
    <3> HIDE DEF j
    <3>3. L + Full(j) = L + z + Full(j - 1)
      BY <2>2, <3>1
    <3> QED
      BY <3>1, <3>2, <3>3
  <2>5. ASSUME NEW k \in 1..t
        PROVE  IsSent(txf'[bus][k].b, L + z + Full(r - 1 + h + k - 1))
    <3> DEFINE j == r + h + k - 1
    <3>1. j \in Nat \ {0} /\ j - 1 = r - 1 + h + k - 1
      BY <1>1, <1>4
    <3>2. IsSent(txf[bus][k].b, L + Full(j)) /\ txf' = txf
      BY <1>1
    <3> HIDE DEF j
    <3>3. L + Full(j) = L + z + Full(j - 1)
      BY <2>2, <3>1
    <3> QED
      BY <3>1, <3>2, <3>3
  <2>6. L + z + Full(n - 1 - 1) < len
    BY <1>1, <1>9, <2>1, <2>2
  <2>7. nt = IF L + z + Full(n - 1) < len THEN L + z + Full(n - 1) ELSE len
    BY <1>1, <1>9, <2>2
  <2>8. n - 1 = Len(rxf'[bus]) + Len(sh'[bus]) + Len(txf'[bus])
    BY <1>1, <1>4, <1>9
  <2> QED
    BY <1>4, <1>7, <1>10, <1>11, <2>3, <2>4, <2>5, <2>6, <2>7, <2>8, FlightNext
<1> QED
  BY <1>12, <1>13

\* Where the words fit, the auxiliary SPI never has more in flight than it can hold, and
\* when it has as many, everything was sent.
LEMMA AuxFits ==
    ASSUME Layer1, Flight, Receives, fn \in AuxCalls
    PROVE  Flying <= Depth /\ (Len(txf[bus]) = Depth => nt = len)
<1> DEFINE n == Flying
           L == Len(rbuf)
           t == Len(txf[bus])
<1>1. L \in 0..len /\ len \in Nat /\ nt \in 0..len /\ n \in Nat /\ Depth \in Nat /\ t \in Nat
  BY Numbers
<1>2. t <= n
  <2> DEFINE r == Len(rxf[bus])
             h == Len(sh[bus])
  <2>1. n = r + h + t /\ r \in Nat /\ h \in Nat
    BY Numbers DEF Flying
  <2> HIDE DEF n, r, h, t
  <2> QED
    BY <1>1, <2>1
<1>3. Words <= Depth
  BY DEF Receives, Safe
<1>4. /\ n # 0 => L + Full(n - 1) < len
      /\ nt = IF L + Full(n) < len THEN L + Full(n) ELSE len
  BY DEF Flight
<1> HIDE DEF n, L, t
<1>5. CASE Wide
  <2>1. Full(n) = 3 * n /\ Full(n - 1) = 3 * (n - 1)
    BY <1>5 DEF Full
  <2> QED
    BY <1>1, <1>2, <1>3, <1>4, <2>1 DEF Words, n, t
<1>6. CASE ~Wide
  <2>1. Full(n) = n /\ Full(n - 1) = n - 1
    BY <1>6 DEF Full
  <2>2. len = 1
    BY <1>6, SpiAssumption DEF Receives, Wide, AuxCalls, Layer1, Progress
  <2> QED
    BY <1>1, <1>2, <1>3, <1>4, <2>1, <2>2 DEF Words, n, t
<1> QED
  BY <1>5, <1>6

\* The controller moves a word on.
LEMMA ControllerKeeps2 ==
    ASSUME Layer1, Flight, Receives, NEW u \in Buses, Load(u) \/ Emit(u)
    PROVE  Flight'
<1> DEFINE L == Len(rbuf)
           r == Len(rxf[bus])
           h == Len(sh[bus])
           t == Len(txf[bus])
           n == r + h + t
<1>1. /\ L \in 0..len /\ len \in Nat /\ nt \in 0..len /\ r \in Nat /\ h \in 0..1 /\ t \in Nat
      /\ \A k \in 1..r : IsAnswer(rxf[bus][k], L + Full(k - 1))
      /\ \A k \in 1..h : IsSent(sh[bus][k].b, L + Full(r + k - 1))
      /\ \A k \in 1..t : IsSent(txf[bus][k].b, L + Full(r + h + k - 1))
      /\ n # 0 => L + Full(n - 1) < len
      /\ nt = IF L + Full(n) < len THEN L + Full(n) ELSE len
      /\ \A p \in 1..L : rbuf[p] = Answer(Given(calls, p))
      /\ \A p \in 1..len : p > L => tbuf[p] = Given(calls, p)
  <2>1. Flying = n
    BY DEF Flying
  <2> QED
    BY <2>1, Numbers DEF Flight
<1>2. bus \in Buses /\ UNCHANGED <<call, tbuf, nt, rbuf>> /\ Len(rbuf') = L
  BY Numbers DEF Load, Emit
<1>3. /\ txf \in [Buses -> Seq(TransmitWords)] /\ sh \in [Buses -> Seq(TransmitWords)]
      /\ rxf \in [Buses -> Seq(Seq(Bytes))]
  BY DEF Layer1, Fifos
<1>4. CASE u # bus
  <2>1. rxf'[bus] = rxf[bus] /\ sh'[bus] = sh[bus] /\ txf'[bus] = txf[bus]
    BY <1>2, <1>3, <1>4 DEF Load, Emit
  <2> QED
    BY <1>1, <1>2, <2>1, FlightNext
<1>5. CASE u = bus /\ Load(u)
  <2>1. /\ h = 0 /\ t # 0 /\ rxf'[bus] = rxf[bus] /\ sh'[bus] = <<Head(txf[bus])>> /\ txf'[bus] = Tail(txf[bus])
    BY <1>2, <1>3, <1>5, Numbers DEF Load
  <2>2. /\ Head(txf[bus]) = txf[bus][1] /\ Len(txf'[bus]) = t - 1
        /\ \A k \in 1..(t - 1) : txf'[bus][k] = txf[bus][k + 1]
    BY <2>1, HeadTailProperties, Numbers
  <2>3. Len(rxf'[bus]) = r /\ Len(sh'[bus]) = 1 /\ sh'[bus][1] = txf[bus][1]
    BY <2>1, <2>2
  <2> HIDE DEF L, r, h, t
  <2>4. \A k \in 1..1 : IsSent(sh'[bus][k].b, L + Full(r + k - 1))
    <3>1. 1 \in 1..t /\ r + h + 1 - 1 = r + 1 - 1
      BY <1>1, <2>1
    <3>2. IsSent(txf[bus][1].b, L + Full(r + h + 1 - 1))
      BY <1>1, <3>1
    <3> QED
      BY <2>3, <3>1, <3>2
  <2>5. \A k \in 1..(t - 1) : IsSent(txf'[bus][k].b, L + Full(r + 1 + k - 1))
    <3> TAKE k \in 1..(t - 1)
    <3>1. k + 1 \in 1..t /\ r + h + (k + 1) - 1 = r + 1 + k - 1
      BY <1>1, <2>1
    <3>2. IsSent(txf[bus][k + 1].b, L + Full(r + h + (k + 1) - 1))
      BY <1>1, <3>1
    <3> QED
      BY <2>2, <3>1, <3>2
  <2>6. n = Len(rxf'[bus]) + Len(sh'[bus]) + Len(txf'[bus])
    <3>1. r \in Nat /\ t \in Nat /\ h = 0
      BY <1>1, <2>1
    <3>2. r + h + t = r + 1 + (t - 1)
      BY <3>1
    <3> QED
      BY <2>2, <2>3, <3>2
  <2> HIDE DEF n
  <2> QED
    BY <1>1, <1>2, <2>1, <2>2, <2>3, <2>4, <2>5, <2>6, FlightNext
<1>6. CASE u = bus /\ Emit(u)
  <2> DEFINE w == sh[bus][1]
             a == [i \in DOMAIN w.b |-> Answer(w.b[i])]
  <2>1. h = 1
    BY <1>1, <1>6, Numbers DEF Emit
  <2>2. r # Depth
    <3>1. CASE fn \in AuxCalls
      <4>1. Flying <= Depth /\ Flying = r + h + t /\ Depth \in Nat
        BY <3>1, AuxFits, Numbers DEF Flying
      <4> HIDE DEF r, h, t
      <4> QED
        BY <1>1, <2>1, <4>1
    <3>2. CASE fn \notin AuxCalls
      <4>1. bus = "spi0" /\ sh["spi0"] # << >>
        BY <1>6, <3>2 DEF bus, Bus, Emit
      <4> QED
        BY <1>1, <4>1, Numbers DEF Layer1, Spi0Quiet
    <3> QED
      BY <3>1, <3>2
  <2>3. rxf'[bus] = Append(rxf[bus], a) /\ sh'[bus] = << >> /\ txf'[bus] = txf[bus]
    BY <1>2, <1>3, <1>6, <2>2 DEF Emit
  <2>4. w \in TransmitWords /\ w.b \in Seq(Bytes) /\ IsSent(w.b, L + Full(r + 1 - 1))
    <3>1. 1 \in 1..h /\ sh[bus] \in Seq(TransmitWords)
      BY <2>1, Numbers
    <3>2. w \in TransmitWords
      BY <3>1, ElementOfSeq
    <3> QED
      BY <1>1, <3>1, <3>2 DEF TransmitWords
  <2>5. a \in Seq(Bytes) /\ Len(a) = Len(w.b) /\ \A i \in 1..Len(w.b) : a[i] = Answer(w.b[i])
    <3>1. DOMAIN w.b = 1..Len(w.b) /\ Len(w.b) \in Nat /\ \A i \in 1..Len(w.b) : Answer(w.b[i]) \in Bytes
      BY <2>4, LenProperties, ElementOfSeq, Ordering
    <3> HIDE DEF w
    <3> QED
      BY <3>1
  <2> HIDE DEF a, w
  <2>6. IsAnswer(a, L + Full(r + 1 - 1))
    BY <2>4, <2>5 DEF IsAnswer, IsSent
  <2>7. Len(rxf'[bus]) = r + 1 /\ rxf'[bus][r + 1] = a /\ \A k \in 1..r : rxf'[bus][k] = rxf[bus][k]
    BY <2>3, <2>5, Numbers, AppendProperties
  <2>8. Len(sh'[bus]) = 0 /\ Len(txf'[bus]) = t
    BY <2>3, EmptySeq
  <2> HIDE DEF L, r, h, t
  <2>9. \A k \in 1..(r + 1) : IsAnswer(rxf'[bus][k], L + Full(k - 1))
    <3> TAKE k \in 1..(r + 1)
    <3>1. CASE k = r + 1
      <4>1. k - 1 = r + 1 - 1
        BY <1>1, <3>1
      <4> QED
        BY <2>6, <2>7, <3>1, <4>1
    <3>2. CASE k # r + 1
      <4>1. k \in 1..r
        BY <1>1, <3>2
      <4>2. IsAnswer(rxf[bus][k], L + Full(k - 1)) /\ rxf'[bus][k] = rxf[bus][k]
        BY <1>1, <2>7, <4>1
      <4> QED
        BY <4>2
    <3> QED
      BY <3>1, <3>2
  <2>10. \A k \in 1..t : IsSent(txf'[bus][k].b, L + Full(r + 1 + 0 + k - 1))
    <3> TAKE k \in 1..t
    <3>1. r + 1 + 0 + k - 1 = r + h + k - 1
      BY <1>1, <2>1
    <3>2. IsSent(txf[bus][k].b, L + Full(r + h + k - 1))
      BY <1>1
    <3> QED
      BY <2>3, <3>1, <3>2
  <2>11. n = Len(rxf'[bus]) + Len(sh'[bus]) + Len(txf'[bus])
    BY <1>1, <2>1, <2>7, <2>8
  <2> HIDE DEF n
  <2> QED
    BY <1>1, <1>2, <2>7, <2>8, <2>9, <2>10, <2>11, FlightNext
<1> QED
  BY <1>4, <1>5, <1>6

\* A call begins with nothing in flight.
LEMMA BeginFlies ==
    ASSUME Layer1, NEW f \in Calls, NEW n \in Length(f), Begin(f, n), Receives'
    PROVE  Flight' /\ Complete'
<1>1. /\ n \in 1..15 /\ rbuf' = << >> /\ Len(rbuf') = 0 /\ \A p \in 1..n : tbuf'[p] = Given(calls', p)
  BY Begun
<1>2. fn' = f /\ len' = n /\ nt' = 0 /\ sh' = sh /\ pc = "idle" /\ pc' = Entry(f) /\ bus' = Bus(f)
  BY DEF Begin, bus
<1> DEFINE u == Bus(f)
<1>3. /\ u \in Buses /\ txf[u] \in Seq(TransmitWords) /\ sh[u] \in Seq(TransmitWords) /\ rxf[u] \in Seq(Seq(Bytes))
  BY DEF Layer1, Fifos, Bus, Buses
<1>4. Len(rxf'[u]) = 0 /\ Len(sh'[u]) = 0 /\ Len(txf'[u]) = 0
  <2>1. CASE u = "spi0"
    <3>1. sh[u] = << >> /\ txf'[u] = << >> /\ rxf'[u] = << >>
      BY <1>2, <2>1 DEF Begin, BeginFifos, Layer1, Spi0Quiet, Fifos, Buses
    <3> QED
      BY <1>2, <3>1, EmptySeq
  <2>2. CASE u # "spi0"
    <3>1. f \in AuxCalls /\ txf' = txf /\ rxf' = rxf
      BY <2>2 DEF Begin, BeginFifos, Bus
    <3>2. << >> = txf[u] \o sh[u] \o rxf[u]
      BY <1>2, <3>1 DEF Receives, Safe, Begin
    <3>3. txf[u] \o sh[u] \in Seq(TransmitWords) /\ Len(txf[u] \o sh[u]) = Len(txf[u]) + Len(sh[u])
      BY <1>3, ConcatProperties
    <3> DEFINE a == Len(txf[u])
               b == Len(sh[u])
               c == Len(rxf[u])
    <3>4. txf[u] \o sh[u] \in Seq(TransmitWords \union Seq(Bytes)) /\ rxf[u] \in Seq(TransmitWords \union Seq(Bytes))
      BY <1>3, <3>3
    <3>5. 0 = a + b + c
      <4> DEFINE x == txf[u] \o sh[u]
      <4>1. Len(x \o rxf[u]) = Len(x) + Len(rxf[u])
        BY <3>4, ConcatProperties
      <4>2. Len(x \o rxf[u]) = 0
        BY <3>2, EmptySeq
      <4> QED
        BY <3>3, <4>1, <4>2
    <3>6. a \in Nat /\ b \in Nat /\ c \in Nat
      BY <1>3, LenProperties
    <3> HIDE DEF a, b, c
    <3>7. a = 0 /\ b = 0 /\ c = 0
      BY <3>5, <3>6
    <3> QED
      BY <1>2, <3>1, <3>7 DEF a, b, c
  <2> QED
    BY <2>1, <2>2
<1>5. Flying' = 0
  BY <1>2, <1>4 DEF Flying
<1>6. Full(0)' = 0
  BY DEF Full
<1>7. Flight'
  <2>1. /\ (\A k \in 1..Len(rxf[bus]) : IsAnswer(rxf[bus][k], Len(rbuf) + Full(k - 1)))'
        /\ (\A k \in 1..Len(sh[bus]) : IsSent(sh[bus][k].b, Len(rbuf) + Full(Len(rxf[bus]) + k - 1)))'
        /\ (\A k \in 1..Len(txf[bus]) :
              IsSent(txf[bus][k].b, Len(rbuf) + Full(Len(rxf[bus]) + Len(sh[bus]) + k - 1)))'
    BY <1>2, <1>4 DEF IsAnswer, IsSent
  <2>2. /\ (Flying # 0 => Len(rbuf) + Full(Flying - 1) < len)'
    BY <1>5
  <2>3. (nt = IF Len(rbuf) + Full(Flying) < len THEN Len(rbuf) + Full(Flying) ELSE len)'
    BY <1>1, <1>2, <1>5 DEF Full
  <2>4. /\ (\A p \in 1..Len(rbuf) : rbuf[p] = Answer(Given(calls, p)))'
        /\ (\A p \in 1..len : p > Len(rbuf) => tbuf[p] = Given(calls, p))'
    BY <1>1, <1>2 DEF Given
  <2> QED
    BY <2>1, <2>2, <2>3, <2>4 DEF Flight
<1>8. Complete'
  <2>1. f \in Spi0Calls \union AuxCalls
    BY SpiAssumption
  <2>2. Entry(f) \in {"txd", "tx", "io", "full", "atx"}
    BY <2>1 DEF Entry, Spi0Calls, AuxCalls
  <2> QED
    BY <1>2, <2>2 DEF Complete
<1> QED
  BY <1>7, <1>8

\* A call that has stored its last byte returns the slave's answers.
LEMMA Returned ==
    ASSUME Layer1', UNCHANGED call, Len(rbuf') = len, \A p \in 1..len : rbuf'[p] = Answer(Given(calls, p))
    PROVE  ReadExact'
<1>1. rbuf' \in Seq(Bytes) /\ DOMAIN rbuf' = 1..len /\ len' = len /\ calls' = calls
  BY LenProperties DEF Layer1, TypeOK, call
<1>2. rbuf' = [i \in 1..len |-> rbuf'[i]]
  BY <1>1
<1>3. rbuf' = [i \in 1..len' |-> Answer(Given(calls', i))]
  BY <1>1, <1>2
<1> QED
  BY <1>1, <1>3 DEF ReadExact, Given, Answer

\* A byte taken from the head of the receive FIFO answers the next byte given.
LEMMA ByteReceived ==
    ASSUME Layer1, Flight, ~Wide, rxf[bus] # << >>,
           NEW s, s = <<correct_order(Received(1)[1])>>
    PROVE  /\ s \in Seq(Bytes) /\ Len(s) = 1 /\ SizeAt(Len(rbuf)) = 1 /\ Len(rbuf) < len
           /\ \A i \in 1..Len(s) : s[i] = Answer(Given(calls, Len(rbuf) + i))
<1> DEFINE L == Len(rbuf)
           n == Flying
           g == Given(calls, L + 1)
<1>1. L \in 0..len /\ len \in 0..15 /\ n \in Nat \ {0} /\ calls \in 0..7
  <2> DEFINE r == Len(rxf[bus])
             h == Len(sh[bus])
             t == Len(txf[bus])
  <2>1. r \in Nat \ {0} /\ h \in Nat /\ t \in Nat /\ n = r + h + t
    BY Numbers DEF Flying
  <2> HIDE DEF r, h, t, n
  <2>2. n \in Nat \ {0}
    BY <2>1
  <2> QED
    BY <2>2, Numbers, SpiAssumption DEF Layer1, TypeOK, Progress
<1>2. L + Full(n - 1) < len /\ Full(n - 1) \in Nat /\ Full(1) = 1 /\ Full(0) = 0
  BY <1>1 DEF Flight, Full
<1>3. IsAnswer(rxf[bus][1], L + Full(1 - 1))
  <2>1. 1 \in 1..Len(rxf[bus])
    BY Numbers
  <2> QED
    BY <2>1 DEF Flight
<1> HIDE DEF n, L
<1>4. L < len /\ SizeAt(L) = 1 /\ g \in Bytes /\ L + Full(1 - 1) = L
  BY <1>1, <1>2 DEF SizeAt, Given, Bytes
<1>5. Len(rxf[bus][1]) = 1 /\ rxf[bus][1][1] = Answer(correct_order(g))
  BY <1>3, <1>4 DEF IsAnswer, Coded
<1>6. Head(rxf[bus]) = rxf[bus][1]
  BY Numbers, HeadTailProperties
<1>7. Received(1)[1] = Answer(correct_order(g)) /\ 1 \in 0..3
  BY <1>5, <1>6, ReceivedBytes
<1>8. correct_order(Received(1)[1]) = Answer(g) /\ Answer(g) \in Bytes
  BY <1>4, <1>7, Ordering
<1>9. s = <<Answer(g)>>
  BY <1>8
<1> HIDE DEF g
<1>10. s \in Seq(Bytes) /\ Len(s) = 1 /\ s[1] = Answer(g)
  BY <1>8, <1>9
<1> QED
  BY <1>4, <1>10 DEF L, g

\* A word taken from the head of the receive FIFO answers the next bytes given.
LEMMA WordReceived ==
    ASSUME Layer1, Flight, Wide, rxf[bus] # << >>, NEW n \in 1..3,
           n = IF len - Len(rbuf) <= 3 THEN len - Len(rbuf) ELSE 3
    PROVE  /\ Received(n) \in Seq(Bytes) /\ Len(Received(n)) = n /\ SizeAt(Len(rbuf)) = n
           /\ \A i \in 1..Len(Received(n)) : Received(n)[i] = Answer(Given(calls, Len(rbuf) + i))
<1> DEFINE L == Len(rbuf)
<1>1. L \in 0..len /\ len \in Nat
  BY Numbers
<1>2. IsAnswer(rxf[bus][1], L + Full(1 - 1))
  <2>1. 1 \in 1..Len(rxf[bus])
    BY Numbers
  <2> QED
    BY <2>1 DEF Flight
<1>3. Full(1) = 3 /\ Full(1 - 1) = 0
  BY DEF Full
<1> HIDE DEF L
<1>4. L + Full(1 - 1) = L
  BY <1>1, <1>3
<1>5. SizeAt(L) = n
  BY <1>1, <1>3 DEF SizeAt, L
<1>6. Len(rxf[bus][1]) = n /\ \A i \in 1..n : rxf[bus][1][i] = Answer(Given(calls, L + i))
  BY <1>2, <1>4, <1>5 DEF IsAnswer, Coded
<1>7. Head(rxf[bus]) = rxf[bus][1]
  BY Numbers, HeadTailProperties
<1>8. n \in 0..3
  OBVIOUS
<1>9. Received(n) \in Seq(Bytes) /\ Len(Received(n)) = n /\ \A i \in 1..n : Received(n)[i] = Head(rxf[bus])[i]
  BY <1>6, <1>7, <1>8, ReceivedBytes
<1> QED
  BY <1>5, <1>6, <1>7, <1>9 DEF L

\* When everything was sent and the controller is idle, what is missing has arrived.
LEMMA Arrived ==
    ASSUME Layer1, Flight, nt = len, Len(rbuf) < len, txf[bus] = << >>, sh[bus] = << >>
    PROVE  rxf[bus] # << >>
<1> SUFFICES ASSUME rxf[bus] = << >> PROVE FALSE
  OBVIOUS
<1>1. Flying = 0
  BY EmptySeq DEF Flying
<1>2. nt = IF Len(rbuf) + Full(0) < len THEN Len(rbuf) + Full(0) ELSE len
  BY <1>1 DEF Flight
<1>3. Full(0) = 0
  BY FullWords
<1>4. Len(rbuf) \in 0..len /\ len \in Nat
  BY Numbers
<1> DEFINE L == Len(rbuf)
<1>5. L < len
  OBVIOUS
<1> HIDE DEF L
<1> QED
  BY <1>2, <1>3, <1>4, <1>5 DEF L

\* A byte is sent through SPI0 or the auxiliary SPI.
LEMMA ByteSent ==
    ASSUME Layer1, Flight, ~Wide, nt < len, Len(txf[bus]) < Depth, UNCHANGED <<call, tbuf, rbuf, sh, rxf>>,
           NEW h \in BOOLEAN, Push(Word(<<correct_order(tbuf[nt + 1])>>, h)), nt' = nt + 1
    PROVE  Flight'
<1> DEFINE b == correct_order(tbuf[nt + 1])
           w == Word(<<b>>, h)
<1>1. nt \in 0..len /\ len \in Nat /\ Len(rbuf) \in 0..len
  BY Numbers
<1>2. nt + 1 \in 1..len /\ Len(rbuf) <= nt
  <2> DEFINE L == Len(rbuf)
  <2>1. nt = IF L + Full(Flying) < len THEN L + Full(Flying) ELSE len
    BY DEF Flight
  <2>2. Full(Flying) \in Nat
    BY Numbers, FullWords
  <2>3. L \in 0..len
    BY <1>1
  <2> HIDE DEF L
  <2>4. L <= nt
    BY <1>1, <2>1, <2>2, <2>3
  <2> QED
    BY <1>1, <2>4 DEF L
<1>3. tbuf[nt + 1] = Given(calls, nt + 1)
  <2>1. nt + 1 > Len(rbuf)
    BY <1>1, <1>2
  <2> QED
    BY <1>2, <2>1 DEF Flight
<1>4. w \in TransmitWords /\ w.b = <<b>>
  BY <1>2, WordTypes DEF Word
<1>5. SizeAt(nt) = 1
  BY <1>1 DEF SizeAt, Full
<1>6. b = Coded(nt + 1)
  BY <1>3 DEF Coded
<1> HIDE DEF b
<1>7. Len(<<b>>) = 1 /\ \A i \in 1..1 : <<b>>[i] = b /\ nt + i = nt + 1
  OBVIOUS
<1>8. IsSent(w.b, nt)
  BY <1>4, <1>5, <1>6, <1>7 DEF IsSent
<1> HIDE DEF w
<1>9. Push(w)
  BY DEF w, b
<1> QED
  BY <1>4, <1>5, <1>8, <1>9, PushKeeps

\* Up to three bytes are sent through the auxiliary SPI.
LEMMA WideSent ==
    ASSUME Layer1, Flight, Wide, nt < len, Len(txf[bus]) < Depth, UNCHANGED <<call, tbuf, rbuf, sh, rxf>>,
           SendWord
    PROVE  Flight'
<1>1. nt \in 0..len /\ len \in Nat /\ Len(rbuf) \in 0..len
  BY Numbers
<1>2. PICK s \in Seq(Bytes), h \in BOOLEAN :
          Push(Word(s, h)) /\ Len(s) = nt' - nt /\ \A i \in 1..Len(s) : s[i] = tbuf[nt + i]
  BY WordSent
<1>3. nt' = IF nt + 3 <= len THEN nt + 3 ELSE len
  BY WordSent
<1>4. SizeAt(nt) = nt' - nt /\ nt' = nt + SizeAt(nt) /\ SizeAt(nt) \in Nat /\ nt + SizeAt(nt) <= len
  BY <1>1, <1>3 DEF SizeAt, Full
<1>5. Len(rbuf) <= nt
  <2> DEFINE L == Len(rbuf)
  <2>1. nt = IF L + Full(Flying) < len THEN L + Full(Flying) ELSE len
    BY DEF Flight
  <2>2. Full(Flying) \in Nat
    BY Numbers, FullWords
  <2>3. L \in 0..len
    BY <1>1
  <2> HIDE DEF L
  <2>4. L <= nt
    BY <1>1, <2>1, <2>2, <2>3
  <2> QED
    BY <2>4 DEF L
<1>6. \A i \in 1..Len(s) : s[i] = Coded(nt + i)
  <2> TAKE i \in 1..Len(s)
  <2>1. nt + i \in 1..len /\ nt + i > Len(rbuf)
    <3> DEFINE L == Len(rbuf)
               z == Len(s)
    <3>1. z \in Nat /\ nt + z <= len /\ L \in 0..len /\ L <= nt /\ i \in 1..z
      BY <1>1, <1>2, <1>4, <1>5
    <3> HIDE DEF L, z
    <3>2. nt + i \in 1..len /\ nt + i > L
      BY <1>1, <3>1
    <3> QED
      BY <3>2 DEF L
  <2>2. tbuf[nt + i] = Given(calls, nt + i)
    BY <2>1 DEF Flight
  <2> QED
    BY <1>2, <2>2 DEF Coded
<1>7. Word(s, h) \in TransmitWords /\ Word(s, h).b = s
  BY WordTypes DEF Word
<1>8. IsSent(Word(s, h).b, nt)
  BY <1>2, <1>4, <1>6, <1>7 DEF IsSent
<1> QED
  BY <1>2, <1>4, <1>7, <1>8, PushKeeps

\* The steps of a function that receives.
LEMMA Running2 ==
    ASSUME Layer1, Layer1', Layer2, Running
    PROVE  Layer2'
<1>a. UNCHANGED call /\ (Receives' <=> Receives) /\ bus' = bus /\ fn' = fn /\ len' = len /\ pc # "idle"
  <2>1. UNCHANGED call /\ pc # "idle"
    BY DEF Running, spi_transfer, spi_transfernb, spi_writenb, spi_write, aux_spi_transfer,
           aux_spi_transfernb, aux_spi_writenb, aux_spi_write, Goto
  <2> QED
    BY <2>1 DEF call, Receives, Safe, Words, bus, Bus
<1>b. CASE ~Receives
  BY <1>a, <1>b DEF Layer2, ReadExact, Receives
<1>c. CASE Receives
  <2>0. Flight /\ Complete
    BY <1>a, <1>c DEF Layer2
  <2>a. Len(rbuf) \in 0..len /\ len \in Nat /\ nt \in 0..len
    BY Numbers
  <2>b. ASSUME pc' # "idle", Flight', Complete' PROVE Layer2'
    BY <2>b DEF Layer2, ReadExact
  <2>c. ASSUME Flight', Len(rbuf') = len, pc' = "idle" PROVE Layer2'
    <3>1. \A p \in 1..len : rbuf'[p] = Answer(Given(calls, p))
      BY <1>a, <2>c DEF Flight, Given, Answer, call
    <3>2. ReadExact'
      BY <1>a, <2>c, <3>1, Returned
    <3> QED
      BY <2>c, <3>2 DEF Layer2
  <2>d. ASSUME UNCHANGED <<tbuf, nt, rbuf, txf, rxf, sh>> PROVE Flight'
    <3>1. /\ rxf'[bus] = rxf[bus] /\ sh'[bus] = sh[bus] /\ txf'[bus] = txf[bus] /\ rbuf' = rbuf /\ tbuf' = tbuf /\ nt' = nt
      BY <2>d
    <3> QED
      BY <1>a, <2>0, <3>1, FlightNext DEF Flight, Flying
  <2>e. ASSUME ~Wide, rxf[bus] # << >>, Store(<<correct_order(Received(1)[1])>>)
        PROVE  /\ Pop /\ UNCHANGED <<nt, txf, sh>> => Flight'
               /\ Len(rbuf') = Len(rbuf) + 1 /\ rbuf'[Len(rbuf) + 1] = Answer(Given(calls, Len(rbuf) + 1))
    <3> DEFINE s == <<correct_order(Received(1)[1])>>
    <3> HIDE DEF s
    <3>1. /\ s \in Seq(Bytes) /\ Len(s) = 1 /\ SizeAt(Len(rbuf)) = 1 /\ Len(rbuf) < len
          /\ \A i \in 1..Len(s) : s[i] = Answer(Given(calls, Len(rbuf) + i))
      BY <2>0, <2>e, ByteReceived DEF s
    <3>2. Store(s)
      BY <2>e DEF s
    <3>3. Len(rbuf) + Len(s) <= len
      BY <2>a, <3>1
    <3>4. Len(rbuf') = Len(rbuf) + 1 /\ \A i \in 1..1 : rbuf'[Len(rbuf) + i] = s[i]
      BY <3>1, <3>2, <3>3, Stored
    <3>5. Pop /\ UNCHANGED <<nt, txf, sh>> => Flight'
      BY <1>a, <2>0, <2>e, <3>1, <3>2, PopKeeps
    <3> QED
      BY <3>1, <3>4, <3>5
  <2>f. ASSUME Wide, rxf[bus] # << >>, Len(rbuf) < len, StoreWord, UNCHANGED <<nt, txf, sh>>
        PROVE  Flight'
    <3>1. PICK n \in 1..3 : /\ n = IF len - Len(rbuf) <= 3 THEN len - Len(rbuf) ELSE 3
                            /\ Pop /\ Store(Received(n))
      BY <2>f, WordStored
    <3>2. /\ Received(n) \in Seq(Bytes) /\ Len(Received(n)) = SizeAt(Len(rbuf))
          /\ \A i \in 1..Len(Received(n)) : Received(n)[i] = Answer(Given(calls, Len(rbuf) + i))
      BY <2>0, <2>f, <3>1, WordReceived
    <3> QED
      BY <1>a, <2>0, <2>f, <3>1, <3>2, PopKeeps
  <2>1. CASE spi_transfer
    <3>0. fn = "spi_transfer" /\ ~Wide /\ bus = "spi0" /\ len = 1 /\ rbuf = << >> /\ Len(rbuf) = 0 /\ sh' = sh
      BY <1>a, <2>1, EmptySeq DEF spi_transfer, Wide, bus, Bus, AuxCalls, Layer1, Progress
    <3>1. ASSUME pc = "txd", TXD, SendByte(correct_order(tbuf[1])), Goto("done"), UNCHANGED <<tbuf, rbuf, rxf>>
          PROVE  Layer2'
      <4>1. nt < len /\ nt = 0 /\ nt + 1 = 1 /\ nt' = 1 /\ Len(txf[bus]) < Depth
        BY <2>a, <3>0, <3>1 DEF Layer1, Progress, SendByte, TXD
      <4>2. Push(Word(<<correct_order(tbuf[nt + 1])>>, TRUE)) /\ nt' = nt + 1
        BY <3>1, <4>1 DEF SendByte
      <4>3. Flight'
        BY <1>a, <2>0, <3>0, <3>1, <4>1, <4>2, ByteSent
      <4>4. Complete' /\ pc' # "idle"
        BY <1>a, <3>0, <3>1, <4>1 DEF Complete, Goto, Wide
      <4> QED
        BY <2>b, <4>3, <4>4
    <3>2. ASSUME pc = "done", DONE, Pop, Store(<<correct_order(Received(1)[1])>>), Goto("idle"), UNCHANGED <<nt, txf>>
          PROVE  Layer2'
      <4>1. nt = len /\ Len(rbuf) < len /\ txf[bus] = << >> /\ sh[bus] = << >>
        BY <2>0, <3>0, <3>2 DEF Complete, DONE
      <4>2. rxf[bus] # << >>
        BY <2>0, <4>1, Arrived
      <4>3. Flight' /\ Len(rbuf') = len
        BY <2>e, <3>0, <3>2, <4>2
      <4> QED
        BY <2>c, <3>2, <4>3 DEF Goto
    <3> QED
      BY <2>1, <3>1, <3>2 DEF spi_transfer
  <2>2. CASE spi_transfernb
    <3>0. fn \in {"spi_transfernb", "spi_transfern"} /\ ~Wide /\ bus = "spi0" /\ sh' = sh
      BY <2>2 DEF spi_transfernb, Wide, bus, Bus, AuxCalls
    <3>1. ASSUME pc = "tx", TXD, nt < len, SendByte(correct_order(tbuf[nt + 1])), Goto("tx"), UNCHANGED <<tbuf, rbuf, rxf>>
          PROVE  Layer2'
      <4>1. Flight'
        BY <1>a, <2>0, <3>0, <3>1, ByteSent DEF SendByte, TXD
      <4>2. Complete' /\ pc' # "idle"
        BY <1>a, <3>0, <3>1 DEF Complete, Goto, Wide
      <4> QED
        BY <2>b, <4>1, <4>2
    <3>2. ASSUME NEW l \in {"tx", "rx", "done"}, Goto(l), l = "done" => Len(rbuf) = len,
                 UNCHANGED <<tbuf, nt, rbuf, txf, rxf>>
          PROVE  Layer2'
      <4>1. Complete' /\ pc' # "idle"
        BY <1>a, <3>0, <3>2 DEF Complete, Goto, Wide
      <4> QED
        BY <2>b, <2>d, <3>0, <3>2, <4>1
    <3>3. ASSUME RXD, Pop, Store(<<correct_order(Received(1)[1])>>), Goto("rx"), UNCHANGED <<nt, txf>>
          PROVE  Layer2'
      <4>1. Flight'
        BY <2>e, <3>0, <3>3 DEF RXD
      <4>2. Complete' /\ pc' # "idle"
        BY <1>a, <3>0, <3>3 DEF Complete, Goto, Wide
      <4> QED
        BY <2>b, <4>1, <4>2
    <3>4. ASSUME pc = "done", Goto("idle"), UNCHANGED <<tbuf, nt, rbuf, txf, rxf>>
          PROVE  Layer2'
      <4>1. Len(rbuf') = len /\ pc' = "idle"
        BY <2>0, <3>0, <3>4 DEF Complete, Goto
      <4> QED
        BY <2>c, <2>d, <3>0, <3>4, <4>1
    <3>5. ~(nt < len \/ Len(rbuf) < len) => Len(rbuf) = len
      BY <2>a
    <3> QED
      BY <2>2, <3>1, <3>2, <3>3, <3>4, <3>5 DEF spi_transfernb
  <2>3. CASE aux_spi_transfer
    <3>0. /\ fn = "aux_spi_transfer" /\ fn \in AuxCalls /\ ~Wide /\ bus = "aux" /\ len = 1
          /\ rbuf = << >> /\ Len(rbuf) = 0 /\ sh' = sh
      BY <1>a, <2>3, EmptySeq DEF aux_spi_transfer, Wide, bus, Bus, AuxCalls, Layer1, Progress
    <3>1. ASSUME pc = "io", Push(Word(<<correct_order(tbuf[1])>>, FALSE)), nt' = 1, Goto("busy"),
                 UNCHANGED <<tbuf, rbuf, rxf>>
          PROVE  Layer2'
      <4>1. nt < len /\ nt = 0 /\ nt + 1 = 1
        BY <3>0, <3>1 DEF Layer1, Progress
      <4>2. Len(txf[bus]) < Depth
        <5>1. Len(txf[bus]) # Depth
          BY <1>c, <2>0, <3>0, <4>1, AuxFits
        <5>2. Len(txf[bus]) \in Nat /\ Depth \in Nat /\ Len(txf[bus]) <= Depth
          BY Numbers
        <5> QED
          BY <5>1, <5>2
      <4>3. Push(Word(<<correct_order(tbuf[nt + 1])>>, FALSE)) /\ nt' = nt + 1
        BY <3>1, <4>1
      <4>4. Flight'
        BY <1>a, <2>0, <3>0, <3>1, <4>1, <4>2, <4>3, ByteSent
      <4>5. Complete' /\ pc' # "idle"
        BY <1>a, <3>0, <3>1 DEF Complete, Goto, Wide
      <4> QED
        BY <2>b, <4>4, <4>5
    <3>2. ASSUME pc = "busy", ~BUSY, Store(<<correct_order(Received(1)[1])>>), Goto("idle")
          PROVE  Layer2'
      <4>1. nt = len /\ Len(rbuf) < len /\ txf[bus] = << >> /\ sh[bus] = << >>
        BY <2>0, <3>0, <3>2 DEF Complete, BUSY
      <4>2. rxf[bus] # << >>
        BY <2>0, <4>1, Arrived
      <4>3. Len(rbuf') = len /\ rbuf'[1] = Answer(Given(calls, 1))
        BY <2>e, <3>0, <3>2, <4>2
      <4>4. \A p \in 1..len : rbuf'[p] = Answer(Given(calls, p))
        BY <3>0, <4>3
      <4>5. ReadExact'
        BY <1>a, <4>3, <4>4, Returned
      <4> QED
        BY <3>2, <4>5 DEF Layer2, Goto
    <3> QED
      BY <2>3, <3>1, <3>2 DEF aux_spi_transfer
  <2>4. CASE aux_spi_transfernb
    <3>0. Wide /\ fn \in AuxCalls /\ bus = "aux" /\ sh' = sh
      BY <2>4 DEF aux_spi_transfernb, Wide, bus, Bus, AuxCalls
    <3>a. fn \in {"aux_spi_transfernb", "aux_spi_transfern"}
      BY <3>0 DEF Wide
    <3>1. ASSUME pc = "atx", ~TX_FULL, nt < len, SendWord, Goto("atx"), UNCHANGED <<tbuf, rbuf, rxf>>
          PROVE  Layer2'
      <4>1. Len(txf[bus]) < Depth
        <5>1. Len(txf[bus]) # Depth
          BY <3>0, <3>1 DEF TX_FULL
        <5>2. Len(txf[bus]) \in Nat /\ Depth \in Nat /\ Len(txf[bus]) <= Depth
          BY Numbers
        <5> QED
          BY <5>1, <5>2
      <4>2. Flight'
        BY <1>a, <2>0, <3>0, <3>1, <4>1, WideSent
      <4>3. Complete' /\ pc' # "idle"
        BY <1>a, <3>a, <3>1 DEF Complete, Goto
      <4> QED
        BY <2>b, <4>2, <4>3
    <3>2. ASSUME NEW l \in {"atx", "arx", "abusy"}, Goto(l), l # "atx" => nt = len,
                 UNCHANGED <<tbuf, nt, rbuf, txf, rxf>>
          PROVE  Layer2'
      <4>1. Complete' /\ pc' # "idle"
        BY <1>a, <3>a, <3>2 DEF Complete, Goto
      <4> QED
        BY <2>b, <2>d, <3>0, <3>2, <4>1
    <3>3. ASSUME NEW l \in {"arx", "abusy"}, pc = l, rxf[bus] # << >>, Len(rbuf) < len, StoreWord, Goto(l),
                 UNCHANGED <<nt, txf>>
          PROVE  Layer2'
      <4>1. Flight'
        BY <2>f, <3>0, <3>3
      <4>2. nt = len
        BY <2>0, <3>0, <3>3 DEF Complete
      <4>3. Complete' /\ pc' # "idle"
        BY <1>a, <3>a, <3>3, <4>2 DEF Complete, Goto
      <4> QED
        BY <2>b, <4>1, <4>3
    <3>4. ASSUME Len(rbuf) = len, Goto("idle"), UNCHANGED <<tbuf, nt, rbuf, txf, rxf>>
          PROVE  Layer2'
      <4>1. Len(rbuf') = len /\ pc' = "idle"
        BY <3>4 DEF Goto
      <4> QED
        BY <2>c, <2>d, <3>0, <3>4, <4>1
    <3>5. TX_FULL \/ nt = len => nt = len
      BY <1>c, <2>0, <3>0, AuxFits DEF TX_FULL
    <3>6. pc \in {"arx", "abusy"} => nt = len
      BY <2>0, <3>0 DEF Complete
    <3>7. ~RX_EMPTY => rxf[bus] # << >>
      BY <3>0 DEF RX_EMPTY
    <3>8. pc = "abusy" /\ ~BUSY /\ Len(rbuf) < len => rxf[bus] # << >>
      BY <2>0, <3>0, <3>6, Arrived DEF BUSY
    <3>9. ~(nt < len \/ Len(rbuf) < len) => Len(rbuf) = len
      BY <2>a
    <3> QED
      BY <2>4, <3>1, <3>2, <3>3, <3>4, <3>5, <3>6, <3>7, <3>8, <3>9 DEF aux_spi_transfernb
  <2>5. ~(spi_writenb \/ spi_write \/ aux_spi_writenb \/ aux_spi_write)
    BY <1>c DEF Receives, spi_writenb, spi_write, aux_spi_writenb, aux_spi_write
  <2> QED
    BY <2>1, <2>2, <2>3, <2>4, <2>5 DEF Running
<1> QED
  BY <1>b, <1>c

\* Layer 2 is kept by every step.
LEMMA Inductive2 == Layer1 /\ Layer1' /\ Layer2 /\ [Next]_vars => Layer2'
<1> SUFFICES ASSUME Layer1, Layer1', Layer2, [Next]_vars PROVE Layer2'
  OBVIOUS
<1>1. ASSUME NEW o \in {LSBFIRST, MSBFIRST}, spi_setBitOrder(o) PROVE Layer2'
  BY <1>1 DEF spi_setBitOrder, Layer2, ReadExact, Safe, Words, Given, Answer
<1>2. ASSUME NEW f \in Calls, NEW n \in Length(f), Begin(f, n) PROVE Layer2'
  <2>1. pc' # "idle"
    <3>1. f \in Spi0Calls \union AuxCalls /\ pc' = Entry(f)
      BY <1>2, SpiAssumption DEF Begin
    <3> QED
      BY <3>1 DEF Entry, Spi0Calls, AuxCalls
  <2> QED
    BY <1>2, <2>1, BeginFlies DEF Layer2, ReadExact
<1>3. ASSUME NEW u \in Buses, Load(u) \/ Emit(u) PROVE Layer2'
  <2>1. UNCHANGED <<pc, fn, len, calls, order, began, tbuf, nt, rbuf>>
    BY <1>3 DEF Load, Emit, call
  <2>2. ReadExact'
    BY <2>1 DEF Layer2, ReadExact, Safe, Words, Given, Answer
  <2>3. ASSUME pc' # "idle", Receives' PROVE Flight' /\ Complete'
    <3>1. pc # "idle" /\ Receives
      BY <2>1, <2>3 DEF Receives, Safe, Words
    <3>2. Flight /\ Complete
      BY <3>1 DEF Layer2
    <3>3. Complete'
      BY <2>1, <3>2 DEF Complete, Wide
    <3> QED
      BY <1>3, <3>1, <3>2, <3>3, ControllerKeeps2
  <2> QED
    BY <2>2, <2>3 DEF Layer2
<1>4. CASE UNCHANGED vars
  <2>1. UNCHANGED call /\ UNCHANGED <<pc, tbuf, nt, rbuf, txf, sh, rxf>>
    BY <1>4 DEF vars
  <2>2. ReadExact'
    BY <2>1 DEF call, Layer2, ReadExact, Safe, Words, Given, Answer
  <2>3. ASSUME pc' # "idle", Receives' PROVE Flight' /\ Complete'
    <3>1. Flight /\ Complete
      BY <2>1, <2>3 DEF call, Layer2, Receives, Safe, Words
    <3>2. Complete'
      BY <2>1, <3>1 DEF call, Complete, Wide
    <3>3. Flight'
      BY <2>1, <3>1, FlightNext DEF Flight, Flying
    <3> QED
      BY <3>2, <3>3
  <2> QED
    BY <2>2, <2>3 DEF Layer2
<1> QED
  BY <1>1, <1>2, <1>3, <1>4, Running2 DEF Next

(* Every call that receives returns the slave's answers to the bytes it    *)
(* was given, each once, in order and none from an earlier call: for every *)
(* length and depth on SPI0, and on the auxiliary SPI wherever the         *)
(* controller was empty and the words fit into its FIFO.                   *)
THEOREM SpiReadExact == Spec => []ReadExact
<1>1. Init => Layer2
  BY DEF Init, Layer2, ReadExact
<1>2. Layer2 => ReadExact
  BY DEF Layer2
<1> QED
  BY <1>1, <1>2, Initial1, Inductive1, Inductive2, PTL DEF Spec

-----------------------------------------------------------------------------
(* Layer 3: the words of a call, on their way and out. *)

\* The bytes in n full words.
At(n) == Width * n

\* The word w holds the bytes of the call behind its first m.
Holds(w, m) ==
    /\ w.k = calls /\ Len(w.b) = IF len - m < Width THEN len - m ELSE Width
    /\ \A j \in 1..Len(w.b) : w.b[j] = Asked[m + j]
    /\ fn \in AuxCalls => (w.hold <=> m + Width < len)

\* The p-th word on its way, behind o words of earlier calls and n words of this one that are out.
Placed(w, p, o, n) == IF p <= o THEN w.k # calls ELSE Holds(w, At(n + p - o - 1))

\* The words of the call are in x, s and t in this order, with o words of earlier calls ahead of
\* them, and together they hold the first m bytes.
Line(s, t, x, o, m) ==
    /\ o <= Len(s) + Len(t) /\ (o # 0 => Len(x) = 0)
    /\ \A p \in 1..Len(s) : Placed(s[p], p, o, Len(x))
    /\ \A p \in 1..Len(t) : Placed(t[p], Len(s) + p, o, Len(x))
    /\ \A i \in 1..Len(x) : Holds(x[i], At(i - 1))
    /\ LET n == Len(x) + Len(s) + Len(t) - o
       IN  (n # 0 => At(n - 1) < len) /\ m = IF At(n) < len THEN At(n) ELSE len

\* The calls that overwrite nothing they have still to send and find room for every word.
Sound == fn \in {"aux_spi_transfern", "aux_spi_transfer"} => Safe

Tracked == \E o \in Nat : (bus = "spi0" => o = 0) /\ Line(sh[bus], txf[bus], wire, o, nt)

\* Words on their way are of this call or of earlier ones, on the other controller of earlier ones.
Stamped(s, u) == \A p \in 1..Len(s) : s[p].k <= calls /\ (u # bus => s[p].k # calls)
Dated == wire \in Seq(TransmitWords) /\ \A u \in Buses : Stamped(sh[u], u) /\ Stamped(txf[u], u)

\* What there is to send, where no function receives into it.
Source ==
    /\ fn # "none"
    /\ pc # "idle" => /\ began.order = order
                      /\ fn \notin {"spi_transfern", "aux_spi_transfern"} =>
                            \A p \in 1..len : tbuf[p] = Given(calls, p)

\* Where each function knows that it has sent everything, and that all of it has left.
Ends ==
    /\ pc \in {"idle", "done"} => nt = len
    /\ fn = "aux_spi_transfer" /\ pc = "busy" => nt = len
    /\ pc = "idle" /\ Prompt => sh[bus] = << >> /\ txf[bus] = << >>

Layer3 == Dated /\ (calls # 0 => Source /\ (Sound => Tracked /\ Ends))

\* The table mirrors the bits of every byte, and mirroring twice changes nothing.
LEMMA MirrorTable ==
    \A b \in Bytes : /\ byte_reverse_table[b + 1] = MirrorBits(b)
                     /\ byte_reverse_table[byte_reverse_table[b + 1] + 1] = b
<1>1. \A b \in Bytes : byte_reverse_table[byte_reverse_table[b + 1] + 1] = b
  BY DEF byte_reverse_table, Bytes
<1>2. \A b \in Bytes : byte_reverse_table[b + 1] = MirrorBits(b)
  BY DEF byte_reverse_table, Bytes, MirrorBits
<1> QED
  BY <1>1, <1>2

\* Full words of one or of three bytes.
LEMMA AtWords ==
    /\ Width \in {1, 3} /\ At(0) = 0
    /\ \A n \in Nat : At(n) \in Nat /\ n <= At(n) /\ At(n + 1) = At(n) + Width
    /\ \A n \in Nat \ {0} : n - 1 \in Nat /\ At(n) = At(n - 1) + Width
<1>1. CASE Width = 1
  BY <1>1 DEF At
<1>2. CASE Width = 3
  BY <1>2 DEF At
<1>3. Width \in {1, 3}
  BY DEF Width
<1> QED
  BY <1>1, <1>2, <1>3

\* The words are tracked in the next state, where the call is the same.
LEMMA TrackedSame ==
    ASSUME UNCHANGED <<fn, len, calls, began>>, NEW s, NEW t, NEW x, NEW o \in Nat, NEW m,
           Line(s, t, x, o, m), bus = "spi0" => o = 0,
           s = sh'[bus], t = txf'[bus], x = wire', m = nt'
    PROVE  Tracked'
<1>1. bus' = bus /\ fn' = fn /\ len' = len /\ calls' = calls /\ began' = began
  BY DEF call, bus, Bus
<1>2. Width' = Width /\ Asked' = Asked
  BY <1>1 DEF Width, Asked, Given
<1>3. ASSUME NEW w, NEW n PROVE Holds(w, n)' <=> Holds(w, n)
  BY <1>1, <1>2 DEF Holds
<1>4. ASSUME NEW n PROVE At(n)' = At(n)
  BY <1>2 DEF At
<1>5. ASSUME NEW w, NEW p, NEW n PROVE Placed(w, p, o, n)' <=> Placed(w, p, o, n)
  <2>1. At(n + p - o - 1)' = At(n + p - o - 1)
    BY <1>4
  <2>2. PICK c : c = At(n + p - o - 1)
    OBVIOUS
  <2>3. Holds(w, c)' <=> Holds(w, c)
    BY <1>3
  <2>4. Placed(w, p, o, n) <=> IF p <= o THEN w.k # calls ELSE Holds(w, c)
    BY <2>2 DEF Placed
  <2>5. Placed(w, p, o, n)' <=> IF p <= o THEN w.k # calls' ELSE Holds(w, c)'
    BY <2>1, <2>2 DEF Placed
  <2> QED
    BY <1>1, <2>3, <2>4, <2>5
<1>6. Line(s, t, x, o, m)'
  BY <1>1, <1>2, <1>3, <1>4, <1>5 DEF Line
<1> QED
  BY <1>1, <1>6 DEF Tracked

\* The same, from what a step leaves alone.
LEMMA TrackedNext ==
    ASSUME UNCHANGED call, NEW s, NEW t, NEW x, NEW o \in Nat, NEW m, Line(s, t, x, o, m), bus = "spi0" => o = 0,
           s = sh'[bus], t = txf'[bus], x = wire', m = nt'
    PROVE  Tracked'
<1>1. UNCHANGED <<fn, len, calls, began>>
  BY DEF call
<1> QED
  BY <1>1, TrackedSame

\* A word that holds the next bytes is appended.
LEMMA LinePush ==
    ASSUME NEW s \in Seq(TransmitWords), NEW t \in Seq(TransmitWords), NEW x \in Seq(TransmitWords),
           NEW o \in Nat, NEW m, Line(s, t, x, o, m), len \in Nat, m < len,
           NEW w \in TransmitWords, Holds(w, m), NEW y, Len(y) = Len(t) + 1,
           \A p \in 1..Len(t) : y[p] = t[p], y[Len(t) + 1] = w
    PROVE  Line(s, y, x, o, IF m + Width < len THEN m + Width ELSE len)
<1> DEFINE a == Len(s)
           b == Len(t)
           c == Len(x)
           n == c + a + b - o
<1>1. a \in Nat /\ b \in Nat /\ c \in Nat
  BY LenProperties
<1>2. /\ o <= a + b /\ (o # 0 => c = 0)
      /\ \A p \in 1..a : Placed(s[p], p, o, c)
      /\ \A p \in 1..b : Placed(t[p], a + p, o, c)
      /\ \A i \in 1..c : Holds(x[i], At(i - 1))
      /\ (n # 0 => At(n - 1) < len) /\ m = IF At(n) < len THEN At(n) ELSE len
  BY DEF Line
<1>3. Len(y) = b + 1 /\ (\A p \in 1..b : y[p] = t[p]) /\ y[b + 1] = w
  OBVIOUS
<1> HIDE DEF a, b, c, n
<1>4. n \in Nat /\ n = c + a + b - o
  BY <1>1, <1>2 DEF n
<1>5. m = At(n) /\ At(n) < len
  BY <1>2
<1>6. At(n) \in Nat /\ At(n + 1) = At(n) + Width /\ Width \in {1, 3}
  BY <1>4, AtWords
<1>7. \A p \in 1..(b + 1) : Placed(y[p], a + p, o, c)
  <2> TAKE p \in 1..(b + 1)
  <2>1. CASE p = b + 1
    <3>1. ~(a + p <= o) /\ c + (a + p) - o - 1 = n
      BY <1>1, <1>2, <1>4, <2>1
    <3> QED
      BY <1>3, <1>5, <2>1, <3>1 DEF Placed
  <2>2. CASE p # b + 1
    <3>1. p \in 1..b
      BY <1>1, <2>2
    <3> QED
      BY <1>2, <1>3, <3>1
  <2> QED
    BY <2>1, <2>2
<1>8. c + a + (b + 1) - o = n + 1 /\ n + 1 # 0 /\ n + 1 - 1 = n /\ o <= a + (b + 1)
  BY <1>1, <1>2, <1>4
<1>9. Len(s) = a /\ Len(x) = c
  BY DEF a, c
<1>10. LET k == Len(x) + Len(s) + Len(y) - o
       IN  (k # 0 => At(k - 1) < len) /\ (IF m + Width < len THEN m + Width ELSE len) = IF At(k) < len THEN At(k) ELSE len
  <2> DEFINE k == Len(x) + Len(s) + Len(y) - o
  <2>1. k = n + 1
    BY <1>3, <1>8, <1>9
  <2> HIDE DEF k
  <2>2. k # 0 /\ k - 1 = n /\ At(k) = m + Width /\ At(k - 1) < len
    BY <1>4, <1>5, <1>6, <1>8, <2>1
  <2> QED
    BY <2>2 DEF k
<1> QED
  BY <1>2, <1>3, <1>7, <1>8, <1>9, <1>10 DEF Line

\* The word at the head of the FIFO moves into the shift register.
LEMMA LineLoad ==
    ASSUME NEW s \in Seq(TransmitWords), NEW t \in Seq(TransmitWords), NEW x \in Seq(TransmitWords),
           NEW o \in Nat, NEW m, Line(s, t, x, o, m), Len(s) = 0, Len(t) # 0,
           NEW v, Len(v) = 1, v[1] = t[1],
           NEW y, Len(y) = Len(t) - 1, \A p \in 1..(Len(t) - 1) : y[p] = t[p + 1]
    PROVE  Line(v, y, x, o, m)
<1> DEFINE b == Len(t)
           c == Len(x)
<1>1. b \in Nat \ {0} /\ c \in Nat
  BY LenProperties
<1>2. /\ o <= 0 + b /\ (o # 0 => c = 0)
      /\ \A p \in 1..b : Placed(t[p], 0 + p, o, c)
      /\ \A i \in 1..c : Holds(x[i], At(i - 1))
      /\ (c + 0 + b - o # 0 => At(c + 0 + b - o - 1) < len) /\ m = IF At(c + 0 + b - o) < len THEN At(c + 0 + b - o) ELSE len
  BY DEF Line
<1>3. Len(y) = b - 1 /\ \A p \in 1..(b - 1) : y[p] = t[p + 1]
  OBVIOUS
<1> HIDE DEF b, c
<1>4. c + 0 + b - o = c + 1 + (b - 1) - o /\ 0 + b = 1 + (b - 1) /\ 1 \in 1..b
  BY <1>1
<1>5. \A p \in 1..1 : Placed(v[p], p, o, c)
  BY <1>2, <1>4
<1>6. \A p \in 1..(b - 1) : Placed(y[p], 1 + p, o, c)
  <2> TAKE p \in 1..(b - 1)
  <2>1. p + 1 \in 1..b /\ 0 + (p + 1) = 1 + p
    BY <1>1
  <2> QED
    BY <1>2, <1>3, <2>1
<1>7. Len(x) = c
  BY DEF c
<1>8. LET k == Len(x) + Len(v) + Len(y) - o
      IN  (k # 0 => At(k - 1) < len) /\ m = IF At(k) < len THEN At(k) ELSE len
  <2> DEFINE k == Len(x) + Len(v) + Len(y) - o
  <2>1. k = c + 0 + b - o
    BY <1>3, <1>4, <1>7
  <2> HIDE DEF k
  <2>2. (k # 0 => At(k - 1) < len) /\ m = IF At(k) < len THEN At(k) ELSE len
    BY <1>1, <1>2, <2>1
  <2> QED
    BY <2>2 DEF k
<1> QED
  BY <1>2, <1>3, <1>4, <1>5, <1>6, <1>7, <1>8 DEF Line

\* A word of an earlier call leaves the shift register.
LEMMA LineOld ==
    ASSUME NEW s \in Seq(TransmitWords), NEW t \in Seq(TransmitWords), NEW x \in Seq(TransmitWords),
           NEW o \in Nat, NEW m, Line(s, t, x, o, m), Len(s) = 1, s[1].k # calls, NEW v, Len(v) = 0
    PROVE  o - 1 \in Nat /\ Line(v, t, x, o - 1, m)
<1> DEFINE b == Len(t)
           c == Len(x)
<1>1. b \in Nat /\ c \in Nat
  BY LenProperties
<1>2. /\ o <= 1 + b /\ (o # 0 => c = 0)
      /\ \A p \in 1..1 : Placed(s[p], p, o, c)
      /\ \A p \in 1..b : Placed(t[p], 1 + p, o, c)
      /\ \A i \in 1..c : Holds(x[i], At(i - 1))
      /\ (c + 1 + b - o # 0 => At(c + 1 + b - o - 1) < len) /\ m = IF At(c + 1 + b - o) < len THEN At(c + 1 + b - o) ELSE len
  BY DEF Line
<1> HIDE DEF b, c
<1>3. 1 <= o
  <2>1. Placed(s[1], 1, o, c)
    BY <1>2
  <2> QED
    BY <2>1 DEF Placed, Holds
<1>4. /\ o - 1 \in Nat /\ o - 1 <= 0 + b /\ (o - 1 # 0 => c = 0)
      /\ c + 0 + b - (o - 1) = c + 1 + b - o
  BY <1>1, <1>2, <1>3
<1>5. \A p \in 1..b : Placed(t[p], 0 + p, o - 1, c)
  <2> TAKE p \in 1..b
  <2>1. (1 + p <= o <=> 0 + p <= o - 1) /\ c + (1 + p) - o - 1 = c + (0 + p) - (o - 1) - 1
    BY <1>1
  <2> QED
    BY <1>2, <2>1 DEF Placed
<1>6. Len(x) = c /\ Len(t) = b
  BY DEF b, c
<1> QED
  BY <1>2, <1>4, <1>5, <1>6 DEF Line

\* A word of this call leaves the shift register.
LEMMA LineOut ==
    ASSUME NEW s \in Seq(TransmitWords), NEW t \in Seq(TransmitWords), NEW x \in Seq(TransmitWords),
           NEW o \in Nat, NEW m, Line(s, t, x, o, m), Len(s) = 1, s[1].k = calls, NEW v, Len(v) = 0,
           NEW y, Len(y) = Len(x) + 1, \A p \in 1..Len(x) : y[p] = x[p], y[Len(x) + 1] = s[1]
    PROVE  Line(v, t, y, o, m)
<1> DEFINE b == Len(t)
           c == Len(x)
<1>1. b \in Nat /\ c \in Nat
  BY LenProperties
<1>2. /\ o <= 1 + b /\ (o # 0 => c = 0)
      /\ \A p \in 1..1 : Placed(s[p], p, o, c)
      /\ \A p \in 1..b : Placed(t[p], 1 + p, o, c)
      /\ \A i \in 1..c : Holds(x[i], At(i - 1))
      /\ (c + 1 + b - o # 0 => At(c + 1 + b - o - 1) < len) /\ m = IF At(c + 1 + b - o) < len THEN At(c + 1 + b - o) ELSE len
  BY DEF Line
<1>3. Len(y) = c + 1 /\ (\A p \in 1..c : y[p] = x[p]) /\ y[c + 1] = s[1]
  OBVIOUS
<1> HIDE DEF b, c
<1>4. ~(1 <= o) /\ Holds(s[1], At(c + 1 - o - 1))
  <2>1. Placed(s[1], 1, o, c)
    BY <1>2
  <2> QED
    BY <2>1 DEF Placed
<1>5. o = 0 /\ c + 1 - o - 1 = c + 1 - 1 /\ c + 1 + 0 + b - o = c + 1 + b - o /\ o <= 0 + b
  BY <1>1, <1>4
<1>6. \A p \in 1..b : Placed(t[p], 0 + p, o, c + 1)
  <2> TAKE p \in 1..b
  <2>1. ~(1 + p <= o) /\ ~(0 + p <= o) /\ c + (1 + p) - o - 1 = c + 1 + (0 + p) - o - 1
    BY <1>1, <1>5
  <2> QED
    BY <1>2, <2>1 DEF Placed
<1>7. \A i \in 1..(c + 1) : Holds(y[i], At(i - 1))
  <2> TAKE i \in 1..(c + 1)
  <2>1. CASE i = c + 1
    <3>1. Holds(s[1], At(c + 1 - 1))
      BY <1>4, <1>5
    <3>2. y[i] = s[1] /\ i - 1 = c + 1 - 1
      BY <1>1, <1>3, <2>1
    <3> QED
      BY <3>1, <3>2
  <2>2. CASE i # c + 1
    <3>1. i \in 1..c
      BY <1>1, <2>2
    <3> QED
      BY <1>2, <1>3, <3>1
  <2> QED
    BY <2>1, <2>2
<1>8. Len(t) = b
  BY DEF b
<1> QED
  BY <1>2, <1>3, <1>5, <1>6, <1>7, <1>8 DEF Line

\* When a call begins, what is on its way is of earlier calls.
LEMMA LineBegin ==
    ASSUME NEW s \in Seq(TransmitWords), NEW t \in Seq(TransmitWords), NEW x, Len(x) = 0, len' \in Nat \ {0},
           \A p \in 1..Len(s) : s[p].k # calls', \A p \in 1..Len(t) : t[p].k # calls'
    PROVE  Len(s) + Len(t) \in Nat /\ Line(s, t, x, Len(s) + Len(t), 0)'
<1> DEFINE a == Len(s)
           b == Len(t)
           o == a + b
<1>1. a \in Nat /\ b \in Nat
  BY LenProperties
<1>2. (\A p \in 1..a : s[p].k # calls') /\ \A p \in 1..b : t[p].k # calls'
  OBVIOUS
<1> HIDE DEF a, b
<1>3. o \in Nat /\ o <= a + b /\ 0 + a + b - o = 0
  BY <1>1
<1>4. (\A p \in 1..a : p <= o) /\ \A p \in 1..b : a + p <= o
  BY <1>1
<1> HIDE DEF o
<1>5. (\A p \in 1..a : Placed(s[p], p, o, 0)') /\ \A p \in 1..b : Placed(t[p], a + p, o, 0)'
  BY <1>2, <1>4 DEF Placed
<1>6. At(0)' = 0 /\ 0 < len'
  BY DEF At, Width
<1>7. Len(s) = a /\ Len(t) = b
  BY DEF a, b
<1>8. (LET k == Len(x) + Len(s) + Len(t) - o
       IN  (k # 0 => At(k - 1) < len) /\ 0 = IF At(k) < len THEN At(k) ELSE len)'
  BY <1>3, <1>6, <1>7
<1>9. (\A i \in 1..Len(x) : Holds(x[i], At(i - 1)))'
  <2>1. \A i \in 1..0 : FALSE
    OBVIOUS
  <2> QED
    BY <2>1
<1>10. Line(s, t, x, o, 0)'
  BY <1>3, <1>5, <1>7, <1>8, <1>9 DEF Line
<1> QED
  BY <1>3, <1>10 DEF o, a, b

\* A controller loads its shift register.
LEMMA LoadMoves ==
    ASSUME Layer1, NEW u \in Buses, Load(u)
    PROVE  /\ UNCHANGED <<call, pc, tbuf, nt, rbuf, wire>> /\ txf[u] # << >>
           /\ Len(sh[u]) = 0 /\ Len(txf[u]) \in Nat \ {0}
           /\ Len(sh'[u]) = 1 /\ sh'[u][1] = txf[u][1]
           /\ Len(txf'[u]) = Len(txf[u]) - 1 /\ \A p \in 1..(Len(txf[u]) - 1) : txf'[u][p] = txf[u][p + 1]
           /\ \A v \in Buses : v # u => sh'[v] = sh[v] /\ txf'[v] = txf[v]
<1>1. txf \in [Buses -> Seq(TransmitWords)] /\ sh \in [Buses -> Seq(TransmitWords)]
  BY DEF Layer1, Fifos
<1>2. /\ UNCHANGED <<call, pc, tbuf, nt, rbuf, wire>> /\ txf[u] # << >> /\ sh[u] = << >>
      /\ sh' = [sh EXCEPT ![u] = <<Head(txf[u])>>] /\ txf' = [txf EXCEPT ![u] = Tail(txf[u])]
  BY DEF Load
<1>3. txf[u] \in Seq(TransmitWords) /\ Len(txf[u]) \in Nat \ {0} /\ Len(sh[u]) = 0
  BY <1>1, <1>2, EmptySeq
<1>4. /\ Head(txf[u]) = txf[u][1] /\ Len(Tail(txf[u])) = Len(txf[u]) - 1
      /\ \A p \in 1..Len(Tail(txf[u])) : Tail(txf[u])[p] = txf[u][p + 1]
  BY <1>2, <1>3, HeadTailProperties
<1>5. sh'[u] = <<txf[u][1]>> /\ txf'[u] = Tail(txf[u]) /\ \A v \in Buses : v # u => sh'[v] = sh[v] /\ txf'[v] = txf[v]
  BY <1>1, <1>2, <1>4
<1>6. Len(sh'[u]) = 1 /\ sh'[u][1] = txf[u][1]
  BY <1>5
<1>7. Len(txf'[u]) = Len(txf[u]) - 1 /\ \A p \in 1..(Len(txf[u]) - 1) : txf'[u][p] = txf[u][p + 1]
  BY <1>4, <1>5, Zenon
<1> QED
  BY <1>2, <1>3, <1>5, <1>6, <1>7, Zenon

\* A controller finishes a word.
LEMMA EmitMoves ==
    ASSUME Layer1, NEW u \in Buses, Emit(u)
    PROVE  /\ UNCHANGED <<call, pc, tbuf, nt, rbuf, txf>> /\ sh[u] # << >>
           /\ Len(sh[u]) = 1 /\ Len(sh'[u]) = 0 /\ sh[u][1] \in TransmitWords
           /\ wire' = IF sh[u][1].k = calls THEN Append(wire, sh[u][1]) ELSE wire
           /\ \A v \in Buses : v # u => sh'[v] = sh[v]
<1>1. sh \in [Buses -> Seq(TransmitWords)] /\ Len(sh[u]) <= 1
  BY DEF Layer1, Fifos, TypeOK
<1>2. /\ UNCHANGED <<call, pc, tbuf, nt, rbuf, txf>> /\ sh[u] # << >> /\ sh' = [sh EXCEPT ![u] = << >>]
      /\ wire' = IF sh[u][1].k = calls THEN Append(wire, sh[u][1]) ELSE wire
  BY DEF Emit
<1>3. sh[u] \in Seq(TransmitWords) /\ Len(sh[u]) = 1
  <2>1. sh[u] \in Seq(TransmitWords)
    BY <1>1
  <2>2. Len(sh[u]) \in Nat \ {0}
    BY <1>2, <2>1, EmptySeq
  <2> DEFINE h == Len(sh[u])
  <2>3. h \in Nat \ {0} /\ h <= 1
    BY <1>1, <2>2
  <2> HIDE DEF h
  <2>4. h = 1
    BY <2>3
  <2> QED
    BY <2>1, <2>4 DEF h
<1>4. sh[u][1] \in TransmitWords
  BY <1>3, ElementOfSeq
<1>5. sh'[u] = << >> /\ \A v \in Buses : v # u => sh'[v] = sh[v]
  BY <1>1, <1>2
<1>6. Len(sh'[u]) = 0
  BY <1>5, EmptySeq
<1> QED
  BY <1>2, <1>3, <1>4, <1>5, <1>6

\* The controllers move words along the line of their call and lose none.
LEMMA ControllerKeeps3 ==
    ASSUME Layer1, Layer3, NEW u \in Buses, Load(u) \/ Emit(u)
    PROVE  Layer3'
<1>1. UNCHANGED call /\ UNCHANGED <<pc, tbuf, nt, rbuf>> /\ bus' = bus /\ calls' = calls /\ fn' = fn
  BY DEF Load, Emit, call, bus, Bus
<1>2. (Sound' <=> Sound) /\ (Prompt' <=> Prompt) /\ (Source => Source')
  BY <1>1 DEF call, Sound, Safe, Words, Prompt, Source, Given
<1>3. /\ bus \in Buses /\ wire \in Seq(TransmitWords) /\ sh[bus] \in Seq(TransmitWords) /\ txf[bus] \in Seq(TransmitWords)
  BY Numbers DEF Layer3, Dated
<1>4. \A v \in Buses : Stamped(sh[v], v) /\ Stamped(txf[v], v)
  BY DEF Layer3, Dated
<1>5. CASE Load(u)
  <2>1. /\ UNCHANGED wire /\ txf[u] # << >> /\ Len(sh[u]) = 0 /\ Len(txf[u]) \in Nat \ {0}
        /\ Len(sh'[u]) = 1 /\ sh'[u][1] = txf[u][1]
        /\ Len(txf'[u]) = Len(txf[u]) - 1 /\ \A p \in 1..(Len(txf[u]) - 1) : txf'[u][p] = txf[u][p + 1]
        /\ \A v \in Buses : v # u => sh'[v] = sh[v] /\ txf'[v] = txf[v]
    BY <1>5, LoadMoves
  <2>2. Dated'
    <3>1. ASSUME NEW v \in Buses PROVE Stamped(sh[v], v)' /\ Stamped(txf[v], v)'
      <4>1. CASE v # u
        BY <1>1, <1>4, <2>1, <4>1 DEF Stamped
      <4>2. CASE v = u
        <5>1. \A p \in 1..Len(txf[u]) : txf[u][p].k <= calls /\ (u # bus => txf[u][p].k # calls)
          BY <1>4 DEF Stamped
        <5>2. 1 \in 1..Len(txf[u]) /\ \A p \in 1..(Len(txf[u]) - 1) : p + 1 \in 1..Len(txf[u])
          BY <2>1
        <5>3. \A p \in 1..1 : sh'[u][p].k <= calls /\ (u # bus => sh'[u][p].k # calls)
          BY <2>1, <5>1, <5>2
        <5>4. \A p \in 1..(Len(txf[u]) - 1) : txf'[u][p].k <= calls /\ (u # bus => txf'[u][p].k # calls)
          BY <2>1, <5>1, <5>2
        <5> QED
          BY <1>1, <2>1, <4>2, <5>3, <5>4 DEF Stamped
      <4> QED
        BY <4>1, <4>2
    <3> QED
      BY <1>3, <2>1, <3>1 DEF Dated
  <2>3. Tracked => Tracked'
    <3> SUFFICES ASSUME Tracked PROVE Tracked'
      OBVIOUS
    <3>1. PICK o \in Nat : (bus = "spi0" => o = 0) /\ Line(sh[bus], txf[bus], wire, o, nt)
      BY DEF Tracked
    <3>2. Line(sh'[bus], txf'[bus], wire, o, nt)
      <4>1. CASE u # bus
        BY <1>3, <2>1, <3>1, <4>1
      <4>2. CASE u = bus
        BY <1>3, <2>1, <3>1, <4>2, LineLoad
      <4> QED
        BY <4>1, <4>2
    <3> QED
      BY <1>1, <2>1, <3>1, <3>2, TrackedNext
  <2>4. Ends => Ends'
    BY <1>1, <1>2, <1>3, <2>1 DEF Ends, call
  <2> QED
    BY <1>1, <1>2, <2>2, <2>3, <2>4 DEF Layer3
<1>6. CASE Emit(u)
  <2>1. /\ UNCHANGED txf /\ sh[u] # << >> /\ Len(sh[u]) = 1 /\ Len(sh'[u]) = 0 /\ sh[u][1] \in TransmitWords
        /\ wire' = IF sh[u][1].k = calls THEN Append(wire, sh[u][1]) ELSE wire
        /\ \A v \in Buses : v # u => sh'[v] = sh[v]
    BY <1>6, EmitMoves
  <2>2. Dated'
    <3>1. ASSUME NEW v \in Buses PROVE Stamped(sh[v], v)' /\ Stamped(txf[v], v)'
      <4>1. CASE v # u
        BY <1>1, <1>4, <2>1, <4>1 DEF Stamped
      <4>2. CASE v = u
        <5>1. \A p \in 1..0 : FALSE
          OBVIOUS
        <5> QED
          BY <1>1, <1>4, <2>1, <4>2, <5>1 DEF Stamped
      <4> QED
        BY <4>1, <4>2
    <3>2. wire' \in Seq(TransmitWords)
      BY <1>3, <2>1, AppendProperties
    <3> QED
      BY <3>1, <3>2 DEF Dated
  <2>3. Tracked => Tracked'
    <3> SUFFICES ASSUME Tracked PROVE Tracked'
      OBVIOUS
    <3>1. PICK o \in Nat : (bus = "spi0" => o = 0) /\ Line(sh[bus], txf[bus], wire, o, nt)
      BY DEF Tracked
    <3>2. CASE u # bus
      <4>1. 1 \in 1..Len(sh[u])
        BY <2>1
      <4>2. sh[u][1].k # calls
        BY <1>4, <3>2, <4>1 DEF Stamped
      <4>3. Line(sh'[bus], txf'[bus], wire', o, nt')
        BY <1>1, <1>3, <2>1, <3>1, <3>2, <4>2
      <4> QED
        BY <1>1, <3>1, <4>3, TrackedNext
    <3>3. CASE u = bus /\ sh[u][1].k # calls
      <4>1. o - 1 \in Nat /\ Line(sh'[bus], txf[bus], wire, o - 1, nt)
        BY <1>3, <2>1, <3>1, <3>3, LineOld
      <4>2. o # 0
        BY <4>1
      <4> QED
        BY <1>1, <2>1, <3>1, <3>3, <4>1, <4>2, TrackedNext
    <3>4. CASE u = bus /\ sh[u][1].k = calls
      <4>1. /\ Len(wire') = Len(wire) + 1 /\ (\A p \in 1..Len(wire) : wire'[p] = wire[p])
            /\ wire'[Len(wire) + 1] = sh[bus][1]
        BY <1>3, <2>1, <3>4, AppendProperties
      <4>2. Line(sh'[bus], txf[bus], wire', o, nt)
        <5>1. Len(sh[bus]) = 1 /\ sh[bus][1].k = calls /\ Len(sh'[bus]) = 0
          BY <2>1, <3>4, Zenon
        <5>2. /\ sh[bus] \in Seq(TransmitWords) /\ txf[bus] \in Seq(TransmitWords) /\ wire \in Seq(TransmitWords)
              /\ Line(sh[bus], txf[bus], wire, o, nt)
          BY <1>3, <3>1, Zenon
        <5> QED
          BY <4>1, <5>1, <5>2, LineOut, Zenon
      <4> QED
        BY <1>1, <2>1, <3>1, <4>2, TrackedNext
    <3> QED
      BY <3>2, <3>3, <3>4
  <2>4. Ends => Ends'
    BY <1>1, <1>2, <1>3, <2>1 DEF Ends, call
  <2> QED
    BY <1>1, <1>2, <2>2, <2>3, <2>4 DEF Layer3
<1> QED
  BY <1>5, <1>6

\* A call begins behind the words of earlier ones.
LEMMA BeginKeeps3 ==
    ASSUME Layer1, Layer1', Layer3, NEW f \in Calls, NEW n \in Length(f), Begin(f, n)
    PROVE  Layer3'
<1>1. n \in 1..15 /\ calls' = calls + 1 /\ calls \in Nat /\ \A p \in 1..n : tbuf'[p] = Given(calls', p)
  BY Begun, Numbers
<1>2. /\ fn' = f /\ len' = n /\ nt' = 0 /\ sh' = sh /\ pc = "idle" /\ pc' = Entry(f) /\ bus' = Bus(f) /\ wire' = << >>
      /\ order' = order /\ began'.order = order
  BY DEF Begin, bus
<1>3. f \in Spi0Calls \union AuxCalls
  BY SpiAssumption
<1>4. Entry(f) \in {"txd", "tx", "io", "full", "atx"} /\ f # "none"
  BY <1>3 DEF Entry, Spi0Calls, AuxCalls
<1>5. /\ txf \in [Buses -> Seq(TransmitWords)] /\ sh \in [Buses -> Seq(TransmitWords)]
      /\ txf' \in [Buses -> Seq(TransmitWords)]
  BY DEF Layer1, Fifos
<1>6. /\ \A v \in Buses : txf'[v] = txf[v] \/ txf'[v] = << >>
      /\ Bus(f) = "spi0" => txf'["spi0"] = << >> /\ sh["spi0"] = << >>
  BY <1>2, <1>5 DEF Begin, BeginFifos, Buses, Layer1, Spi0Quiet
<1>7. ASSUME NEW s \in Seq(TransmitWords), NEW v, Stamped(s, v)
      PROVE  \A p \in 1..Len(s) : s[p].k <= calls' /\ s[p].k # calls'
  <2> TAKE p \in 1..Len(s)
  <2>1. s[p] \in TransmitWords
    BY ElementOfSeq
  <2>2. s[p].k \in Nat
    BY <2>1 DEF TransmitWords
  <2>3. s[p].k <= calls
    BY <1>7 DEF Stamped
  <2> QED
    BY <1>1, <2>2, <2>3
<1>8. ASSUME NEW v \in Buses
      PROVE  /\ \A p \in 1..Len(sh'[v]) : sh'[v][p].k <= calls' /\ sh'[v][p].k # calls'
             /\ \A p \in 1..Len(txf'[v]) : txf'[v][p].k <= calls' /\ txf'[v][p].k # calls'
  <2>1. Stamped(sh[v], v) /\ Stamped(txf[v], v) /\ sh[v] \in Seq(TransmitWords) /\ txf[v] \in Seq(TransmitWords)
    BY <1>5 DEF Layer3, Dated
  <2>2. \A p \in 1..Len(sh[v]) : sh[v][p].k <= calls' /\ sh[v][p].k # calls'
    BY <1>7, <2>1
  <2>3. \A p \in 1..Len(txf[v]) : txf[v][p].k <= calls' /\ txf[v][p].k # calls'
    BY <1>7, <2>1
  <2>4. Len(<< >>) = 0 /\ \A p \in 1..0 : FALSE
    BY EmptySeq
  <2> QED
    BY <1>2, <1>6, <2>2, <2>3, <2>4
<1>9. Dated'
  <2>1. \A v \in Buses : Stamped(sh[v], v)' /\ Stamped(txf[v], v)'
    BY <1>8 DEF Stamped
  <2>2. wire' \in Seq(TransmitWords)
    BY <1>2, EmptySeq
  <2> QED
    BY <2>1, <2>2 DEF Dated
<1>10. Source'
  BY <1>1, <1>2, <1>4 DEF Source, Given
<1>11. Ends'
  BY <1>2, <1>4 DEF Ends
<1>12. Tracked'
  <2> DEFINE u == Bus(f)
  <2>1. u \in Buses
    BY DEF Bus, Buses
  <2>2. PICK s, y, x, o : s = sh'[u] /\ y = txf'[u] /\ x = wire' /\ o = Len(sh'[u]) + Len(txf'[u])
    OBVIOUS
  <2>3. /\ s \in Seq(TransmitWords) /\ y \in Seq(TransmitWords) /\ Len(x) = 0 /\ len' \in Nat \ {0}
        /\ (\A p \in 1..Len(s) : s[p].k # calls') /\ \A p \in 1..Len(y) : y[p].k # calls'
    BY <1>1, <1>2, <1>5, <1>8, <2>1, <2>2, EmptySeq
  <2>4. o = Len(s) + Len(y)
    BY <2>2
  <2>5. o \in Nat /\ Line(s, y, x, o, 0)'
    BY <2>3, <2>4, LineBegin
  <2>6. u = "spi0" => o = 0
    <3>1. u = "spi0" => s = << >> /\ y = << >>
      BY <1>2, <1>6, <2>2
    <3>2. Len(<< >>) = 0
      BY EmptySeq
    <3> QED
      BY <2>4, <3>1, <3>2
  <2> QED
    BY <1>2, <2>2, <2>5, <2>6 DEF Tracked
<1> QED
  BY <1>9, <1>10, <1>11, <1>12 DEF Layer3

\* A step of the running function that sends nothing.
LEMMA Sends0 ==
    ASSUME Layer1, Layer3, UNCHANGED <<call, sh, wire, nt>>, \A v \in Buses : txf'[v] = txf[v]
    PROVE  Dated' /\ (Tracked => Tracked')
<1>1. bus' = bus /\ calls' = calls /\ bus \in Buses
  BY Numbers DEF call, bus, Bus
<1>2. Dated'
  BY <1>1 DEF Layer3, Dated, Stamped
<1>3. ASSUME Tracked PROVE Tracked'
  <2>1. PICK o \in Nat : (bus = "spi0" => o = 0) /\ Line(sh[bus], txf[bus], wire, o, nt)
    BY <1>3 DEF Tracked
  <2>2. Line(sh'[bus], txf'[bus], wire', o, nt')
    BY <1>1, <2>1
  <2> QED
    BY <2>1, <2>2, TrackedNext
<1> QED
  BY <1>2, <1>3

\* A step of the running function that sends a word.
LEMMA Sends1 ==
    ASSUME Layer1, Layer3, UNCHANGED <<call, sh, wire>>, NEW w \in TransmitWords, w.k = calls, Push(w)
    PROVE  /\ Dated'
           /\ Tracked /\ nt < len /\ Len(txf[bus]) < Depth /\ Holds(w, nt)
                 /\ nt' = (IF nt + Width < len THEN nt + Width ELSE len) => Tracked'
<1>1. bus' = bus /\ calls' = calls /\ bus \in Buses /\ calls \in Nat /\ len \in Nat
  BY Numbers DEF call, bus, Bus
<1>2. /\ txf \in [Buses -> Seq(TransmitWords)] /\ \A v \in Buses : v # bus => txf'[v] = txf[v]
      /\ Len(txf[bus]) < Depth => /\ Len(txf'[bus]) = Len(txf[bus]) + 1
                                  /\ \A k \in 1..Len(txf[bus]) : txf'[bus][k] = txf[bus][k]
                                  /\ txf'[bus][Len(txf[bus]) + 1] = w
  BY Pushed DEF Layer1, Fifos
<1>3. ~(Len(txf[bus]) < Depth) => txf'[bus] = txf[bus]
  BY <1>1, <1>2 DEF Push
<1>4. Stamped(txf[bus], bus)'
  <2>1. \A p \in 1..Len(txf[bus]) : txf[bus][p].k <= calls
    BY <1>1 DEF Layer3, Dated, Stamped
  <2>2. CASE Len(txf[bus]) < Depth
    <3>1. \A p \in 1..Len(txf'[bus]) : txf'[bus][p].k <= calls
      <4> TAKE p \in 1..Len(txf'[bus])
      <4>1. CASE p = Len(txf[bus]) + 1
        BY <1>1, <1>2, <2>2, <4>1
      <4>2. CASE p # Len(txf[bus]) + 1
        <5>1. p \in 1..Len(txf[bus])
          BY <1>2, <2>2, <4>2, Numbers
        <5> QED
          BY <1>2, <2>1, <2>2, <5>1
      <4> QED
        BY <4>1, <4>2
    <3> QED
      BY <1>1, <3>1 DEF Stamped
  <2>3. CASE ~(Len(txf[bus]) < Depth)
    BY <1>1, <1>3, <2>1, <2>3 DEF Stamped
  <2> QED
    BY <2>2, <2>3
<1>5. Dated'
  <2>1. ASSUME NEW v \in Buses PROVE Stamped(sh[v], v)' /\ Stamped(txf[v], v)'
    <3>1. Stamped(sh[v], v) /\ Stamped(txf[v], v)
      BY DEF Layer3, Dated
    <3>2. v # bus => txf'[v] = txf[v]
      BY <1>2
    <3>3. Stamped(sh[v], v)'
      BY <1>1, <3>1 DEF Stamped
    <3>4. v # bus => Stamped(txf[v], v)'
      BY <1>1, <3>1, <3>2 DEF Stamped
    <3>5. v = bus => Stamped(txf[v], v)'
      BY <1>1, <1>4 DEF Stamped
    <3> QED
      BY <3>3, <3>4, <3>5
  <2>2. wire' \in Seq(TransmitWords)
    BY DEF Layer3, Dated
  <2> QED
    BY <2>1, <2>2 DEF Dated
<1>6. ASSUME Tracked, nt < len, Len(txf[bus]) < Depth, Holds(w, nt),
             nt' = (IF nt + Width < len THEN nt + Width ELSE len)
      PROVE  Tracked'
  <2>1. PICK o \in Nat : (bus = "spi0" => o = 0) /\ Line(sh[bus], txf[bus], wire, o, nt)
    BY <1>6 DEF Tracked
  <2>2. sh[bus] \in Seq(TransmitWords) /\ txf[bus] \in Seq(TransmitWords) /\ wire \in Seq(TransmitWords)
    BY Numbers DEF Layer3, Dated
  <2>3. Line(sh[bus], txf'[bus], wire, o, IF nt + Width < len THEN nt + Width ELSE len)
    <3>1. /\ Len(txf'[bus]) = Len(txf[bus]) + 1 /\ txf'[bus][Len(txf[bus]) + 1] = w
          /\ \A p \in 1..Len(txf[bus]) : txf'[bus][p] = txf[bus][p]
      BY <1>2, <1>6
    <3>2. w \in TransmitWords /\ len \in Nat /\ Line(sh[bus], txf[bus], wire, o, nt)
      BY <1>1, <2>1
    <3> QED
      BY <1>6, <2>2, <3>1, <3>2, LinePush, Zenon
  <2>4. Line(sh'[bus], txf'[bus], wire', o, nt')
    BY <1>6, <2>3
  <2> QED
    BY <2>1, <2>4, TrackedNext
<1> QED
  BY <1>5, <1>6

\* What the bytes of the buffer become on the wire.
LEMMA AskedIs ==
    ASSUME Layer1, began.order = order, NEW p \in 1..len, tbuf[p] = Given(calls, p)
    PROVE  Asked[p] = IF fn \in Ordered THEN correct_order(tbuf[p]) ELSE tbuf[p]
<1>1. tbuf[p] \in Bytes
  BY WordTypes
<1>2. byte_reverse_table[tbuf[p] + 1] = MirrorBits(tbuf[p])
  BY <1>1, MirrorTable
<1>3. Asked[p] = IF began.order = LSBFIRST /\ fn \in Ordered THEN MirrorBits(Given(calls, p)) ELSE Given(calls, p)
  BY DEF Asked
<1> QED
  BY <1>2, <1>3 DEF correct_order

\* What is still to be sent is as the caller gave it, even where answers are stored into the same buffer.
LEMMA Unsent ==
    ASSUME Layer1, Layer2, Source, Sound, pc # "idle", NEW p \in 1..len, p > nt
    PROVE  tbuf[p] = Given(calls, p) /\ began.order = order
<1>1. began.order = order
  BY DEF Source
<1>2. CASE fn \notin {"spi_transfern", "aux_spi_transfern"}
  BY <1>1, <1>2 DEF Source
<1>3. CASE fn \in {"spi_transfern", "aux_spi_transfern"}
  <2>1. Flight
    BY <1>3 DEF Layer2, Receives, Sound, AuxCalls
  <2> DEFINE L == Len(rbuf)
             F == Full(Flying)
  <2>2. L \in 0..len /\ len \in Nat /\ nt \in 0..len /\ F \in Nat
    BY Numbers, FullWords
  <2>3. nt = IF L + F < len THEN L + F ELSE len
    BY <2>1 DEF Flight
  <2>4. \A q \in 1..len : q > L => tbuf[q] = Given(calls, q)
    BY <2>1 DEF Flight
  <2> HIDE DEF L, F
  <2>5. p > L
    BY <2>2, <2>3
  <2> QED
    BY <1>1, <2>4, <2>5
<1> QED
  BY <1>2, <1>3

\* The words that the functions build hold the next bytes.
LEMMA NextWord ==
    ASSUME Layer1, Layer2, Source, Sound, pc # "idle", nt < len, NEW h \in BOOLEAN
    PROVE  /\ fn \notin AuxCalls /\ fn \in Ordered => Holds(Word(<<correct_order(tbuf[nt + 1])>>, h), nt)
           /\ fn \notin AuxCalls /\ fn \notin Ordered => Holds(Word(<<tbuf[nt + 1]>>, h), nt)
           /\ fn = "aux_spi_transfer" => Holds(Word(<<correct_order(tbuf[nt + 1])>>, FALSE), nt)
           /\ \A s \in Seq(Bytes) :
                 fn \in AuxCalls /\ fn \notin Ordered
                 /\ Len(s) = (IF nt + 3 <= len THEN 3 ELSE len - nt)
                 /\ (\A i \in 1..Len(s) : s[i] = tbuf[nt + i]) /\ (h <=> nt + 3 < len) => Holds(Word(s, h), nt)
<1>1. nt \in 0..len /\ len \in Nat /\ nt + 1 \in 1..len
  BY Numbers
<1>2. \A p \in 1..len : p > nt => Asked[p] = IF fn \in Ordered THEN correct_order(tbuf[p]) ELSE tbuf[p]
  BY Unsent, AskedIs
<1>3. Asked[nt + 1] = IF fn \in Ordered THEN correct_order(tbuf[nt + 1]) ELSE tbuf[nt + 1]
  BY <1>1, <1>2
<1>4. ASSUME NEW s, NEW g PROVE Word(s, g).k = calls /\ Word(s, g).b = s /\ Word(s, g).hold = g
  BY DEF Word
<1>5. ASSUME NEW b, b = Asked[nt + 1], NEW g, fn \notin AuxCalls \/ (len = 1 /\ nt = 0 /\ g = FALSE)
      PROVE  Holds(Word(<<b>>, g), nt)
  <2>1. Len(<<b>>) = 1 /\ \A j \in 1..1 : <<b>>[j] = b /\ nt + j = nt + 1
    BY <1>1
  <2>2. Len(<<b>>) = IF len - nt < Width THEN len - nt ELSE Width
    BY <1>1, <1>5, <2>1 DEF Width
  <2>3. \A j \in 1..Len(<<b>>) : <<b>>[j] = Asked[nt + j]
    BY <1>5, <2>1
  <2>4. fn \in AuxCalls => ~g /\ ~(nt + Width < len)
    BY <1>5 DEF Width
  <2>5. PICK w : w = Word(<<b>>, g)
    OBVIOUS
  <2>6. w.k = calls /\ w.b = <<b>> /\ w.hold = g
    BY <1>4, <2>5
  <2>7. Holds(w, nt)
    BY <2>2, <2>3, <2>4, <2>6 DEF Holds
  <2> QED
    BY <2>5, <2>7
<1>6. /\ fn \notin AuxCalls /\ fn \in Ordered => Holds(Word(<<correct_order(tbuf[nt + 1])>>, h), nt)
      /\ fn \notin AuxCalls /\ fn \notin Ordered => Holds(Word(<<tbuf[nt + 1]>>, h), nt)
  BY <1>3, <1>5
<1>7. fn = "aux_spi_transfer" => Holds(Word(<<correct_order(tbuf[nt + 1])>>, FALSE), nt)
  <2>1. fn = "aux_spi_transfer" => len = 1 /\ nt = 0 /\ fn \in Ordered
    BY <1>1 DEF Layer1, Progress, Ordered
  <2> QED
    BY <1>3, <1>5, <2>1
<1>8. ASSUME NEW s \in Seq(Bytes), fn \in AuxCalls, fn \notin Ordered, Len(s) = (IF nt + 3 <= len THEN 3 ELSE len - nt),
             \A i \in 1..Len(s) : s[i] = tbuf[nt + i], (h <=> nt + 3 < len)
      PROVE  Holds(Word(s, h), nt)
  <2>1. Width = 3
    BY <1>8 DEF Width
  <2>2. Len(s) = IF len - nt < Width THEN len - nt ELSE Width
    BY <1>1, <1>8, <2>1
  <2>3. \A j \in 1..Len(s) : s[j] = Asked[nt + j]
    <3> TAKE j \in 1..Len(s)
    <3>1. nt + j \in 1..len /\ nt + j > nt
      <4> DEFINE z == Len(s)
      <4>1. z = (IF nt + 3 <= len THEN 3 ELSE len - nt) /\ j \in 1..z
        BY <1>8
      <4> HIDE DEF z
      <4> QED
        BY <1>1, <4>1
    <3>2. Asked[nt + j] = tbuf[nt + j]
      BY <1>2, <1>8, <3>1
    <3> QED
      BY <1>8, <3>2
  <2>4. PICK w : w = Word(s, h)
    OBVIOUS
  <2>5. w.k = calls /\ w.b = s /\ w.hold = h
    BY <1>4, <2>4
  <2>6. w.hold <=> nt + Width < len
    BY <1>8, <2>1, <2>5
  <2>7. Holds(w, nt)
    BY <2>2, <2>3, <2>5, <2>6 DEF Holds
  <2> QED
    BY <2>4, <2>7
<1> QED
  BY <1>6, <1>7, <1>8

\* What the line tells about the FIFO while little was sent.
LEMMA LineRoom ==
    ASSUME Layer1, Dated, Tracked, len = 2
    PROVE  /\ bus = "spi0" /\ Width = 1 /\ nt = 1 => Len(txf[bus]) <= 1
           /\ Width = 3 /\ nt < len => nt = 0
<1>1. PICK o \in Nat : (bus = "spi0" => o = 0) /\ Line(sh[bus], txf[bus], wire, o, nt)
  BY DEF Tracked
<1> DEFINE a == Len(sh[bus])
           b == Len(txf[bus])
           c == Len(wire)
           n == c + a + b - o
<1>2. a \in Nat /\ b \in Nat /\ c \in Nat
  BY Numbers, LenProperties DEF Dated
<1>3. o <= a + b /\ nt = IF At(n) < len THEN At(n) ELSE len
  BY <1>1 DEF Line
<1> HIDE DEF a, b, c
<1>4. CASE Width = 1
  <2>1. At(n) = n
    BY <1>2, <1>4 DEF At
  <2>2. bus = "spi0" /\ nt = 1 => b <= 1
    BY <1>1, <1>2, <1>3, <2>1
  <2> QED
    BY <1>4, <2>2 DEF b
<1>5. CASE Width = 3
  <2>1. At(n) = 3 * n /\ n \in Nat
    BY <1>2, <1>3, <1>5 DEF At
  <2> HIDE DEF n
  <2> QED
    BY <1>3, <1>5, <2>1
<1> QED
  BY <1>4, <1>5, AtWords

\* When everything has arrived, nothing is on its way.
LEMMA AllIn ==
    ASSUME Layer1, Flight, Len(rbuf) = len
    PROVE  sh[bus] = << >> /\ txf[bus] = << >>
<1> DEFINE r == Len(rxf[bus])
           h == Len(sh[bus])
           t == Len(txf[bus])
           L == Len(rbuf)
           n == r + h + t
<1>1. r \in Nat /\ h \in Nat /\ t \in Nat /\ len \in Nat /\ Flying = n /\ L = len
  BY Numbers DEF Flying
<1>2. n # 0 => L + Full(n - 1) < len
  BY <1>1 DEF Flight
<1> HIDE DEF r, h, t, L
<1>3. n \in Nat
  BY <1>1
<1>4. n # 0 => Full(n - 1) \in Nat
  BY <1>3, FullWords
<1>5. n = 0
  BY <1>1, <1>2, <1>3, <1>4
<1>6. h = 0 /\ t = 0
  BY <1>1, <1>5
<1> QED
  BY <1>6, Numbers DEF h, t

\* Every step of a running function keeps the line: it sends the next bytes, once, and where
\* there is room.
LEMMA Running3 ==
    ASSUME Layer1, Layer1', Layer2, Layer3, Running
    PROVE  Layer3'
<1>a. /\ UNCHANGED call /\ UNCHANGED <<sh, wire>> /\ pc # "idle"
      /\ fn \notin {"spi_transfern", "aux_spi_transfern"} => tbuf' = tbuf
  BY DEF Running, spi_transfer, spi_transfernb, spi_writenb, spi_write, aux_spi_transfer,
         aux_spi_transfernb, aux_spi_writenb, aux_spi_write, Goto, Store, StoreWord
<1>b. /\ bus' = bus /\ fn' = fn /\ len' = len /\ calls' = calls /\ order' = order /\ began' = began
      /\ calls # 0 /\ (Sound' <=> Sound) /\ (Prompt' <=> Prompt)
  BY <1>a DEF call, bus, Bus, Sound, Safe, Words, Prompt, Layer1, Progress
<1>c. Source /\ Dated /\ (Sound => Tracked /\ Ends) /\ nt \in 0..len /\ len \in Nat /\ Len(rbuf) \in 0..len
  BY <1>b, Numbers DEF Layer3
<1>d. Source'
  BY <1>a, <1>b, <1>c DEF Source, Given
<1>e. ASSUME Dated', Sound => Tracked' /\ Ends' PROVE Layer3'
  BY <1>b, <1>d, <1>e DEF Layer3
<1>f. ASSUME nt' = nt, \A v \in Buses : txf'[v] = txf[v], Sound => Ends' PROVE Layer3'
  <2>1. Dated' /\ (Tracked => Tracked')
    BY <1>a, <1>f, Sends0
  <2> QED
    BY <1>c, <1>e, <1>f, <2>1
<1>g. ASSUME NEW w \in TransmitWords, w.k = calls, Push(w),
             Sound => nt < len /\ Len(txf[bus]) < Depth /\ Holds(w, nt)
                      /\ nt' = (IF nt + Width < len THEN nt + Width ELSE len) /\ Ends'
      PROVE  Layer3'
  <2>1. /\ Dated'
        /\ Tracked /\ nt < len /\ Len(txf[bus]) < Depth /\ Holds(w, nt)
              /\ nt' = (IF nt + Width < len THEN nt + Width ELSE len) => Tracked'
    BY <1>a, <1>g, Sends1
  <2> QED
    BY <1>c, <1>e, <1>g, <2>1
<1>h. ASSUME fn \notin AuxCalls, nt < len, Len(txf[bus]) < Depth, NEW b \in Bytes, SendByte(b), Ends',
             b = IF fn \in Ordered THEN correct_order(tbuf[nt + 1]) ELSE tbuf[nt + 1]
      PROVE  Layer3'
  <2>1. PICK w : w = Word(<<b>>, TRUE)
    OBVIOUS
  <2>2. w \in TransmitWords /\ w.k = calls /\ Push(w) /\ nt' = nt + 1
    BY <1>h, <2>1, WordTypes DEF SendByte, Word
  <2>3. Sound
    BY <1>h DEF Sound, AuxCalls
  <2>4. Holds(w, nt)
    BY <1>a, <1>c, <1>h, <2>1, <2>3, NextWord
  <2>5. Width = 1
    BY <1>h DEF Width
  <2>6. nt' = (IF nt + Width < len THEN nt + Width ELSE len)
    BY <1>c, <1>h, <2>2, <2>5
  <2> QED
    BY <1>g, <1>h, <2>2, <2>4, <2>6
<1>i. ASSUME fn \in AuxCalls, fn \notin Ordered, nt < len, Len(txf[bus]) < Depth, SendWord, Ends'
      PROVE  Layer3'
  <2>1. PICK s \in Seq(Bytes), h \in BOOLEAN :
            /\ Push(Word(s, h)) /\ Len(s) = nt' - nt /\ \A i \in 1..Len(s) : s[i] = tbuf[nt + i]
            /\ h <=> nt' < len
    BY <1>i, WordSent
  <2>2. nt' = IF nt + 3 <= len THEN nt + 3 ELSE len
    BY <1>i, WordSent
  <2>3. Len(s) = (IF nt + 3 <= len THEN 3 ELSE len - nt) /\ (h <=> nt + 3 < len)
    BY <1>c, <2>1, <2>2
  <2>4. PICK w : w = Word(s, h)
    OBVIOUS
  <2>5. w \in TransmitWords /\ w.k = calls /\ Push(w)
    BY <2>1, <2>4, WordTypes DEF Word
  <2>6. Sound => Holds(w, nt)
    BY <1>a, <1>c, <1>i, <2>1, <2>3, <2>4, NextWord
  <2>7. Width = 3
    BY <1>i DEF Width
  <2>8. nt' = (IF nt + Width < len THEN nt + Width ELSE len)
    BY <1>c, <2>2, <2>7
  <2> QED
    BY <1>g, <1>i, <2>5, <2>6, <2>8
<1>j. ASSUME pc' \notin {"idle", "done"}, ~(fn = "aux_spi_transfer" /\ pc' = "busy") PROVE Ends'
  BY <1>b, <1>j DEF Ends
<1>k. ASSUME pc' \in {"idle", "done"}, nt' = len, pc' = "idle" /\ Prompt => sh[bus] = << >> /\ txf'[bus] = << >>,
             ~(fn = "aux_spi_transfer" /\ pc' = "busy")
      PROVE  Ends'
  BY <1>a, <1>b, <1>k DEF Ends
<1>l. \A p \in 1..len : tbuf[p] \in Bytes /\ correct_order(tbuf[p]) \in Bytes
  BY WordTypes
<1>m. bus \in Buses /\ Len(txf[bus]) \in Nat /\ Len(txf[bus]) <= Depth /\ Depth \in Nat \ {0, 1}
  BY Numbers, SpiAssumption
<1>n. TXD /\ bus = "spi0" => Len(txf[bus]) < Depth
  BY DEF TXD
<1>o. ~TX_FULL /\ bus = "aux" => Len(txf[bus]) < Depth
  BY <1>m DEF TX_FULL
<1>p. DONE /\ bus = "spi0" => sh[bus] = << >> /\ txf[bus] = << >>
  BY DEF DONE
<1>q. ~BUSY /\ bus = "aux" => sh[bus] = << >> /\ txf[bus] = << >>
  BY DEF BUSY
<1>1. CASE spi_transfer
  <2>0. fn = "spi_transfer" /\ fn \notin AuxCalls /\ fn \in Ordered /\ bus = "spi0" /\ len = 1 /\ Sound
    BY <1>1, <1>a DEF spi_transfer, AuxCalls, Ordered, bus, Bus, Layer1, Progress, Sound
  <2>1. ASSUME pc = "txd", TXD, SendByte(correct_order(tbuf[1])), Goto("done")
        PROVE  Layer3'
    <3>1. nt < len /\ nt + 1 = 1 /\ nt + 1 \in 1..len /\ nt' = len /\ pc' = "done"
      BY <1>c, <2>0, <2>1 DEF Layer1, Progress, SendByte, Goto
    <3>2. Ends'
      BY <1>k, <2>0, <3>1
    <3> QED
      BY <1>h, <1>l, <1>n, <2>0, <2>1, <3>1, <3>2
  <2>2. ASSUME pc = "done", DONE, Goto("idle"), UNCHANGED <<nt, txf>>
        PROVE  Layer3'
    BY <1>c, <1>f, <1>k, <1>p, <2>0, <2>2 DEF Ends, Goto
  <2> QED
    BY <1>1, <2>1, <2>2 DEF spi_transfer
<1>2. CASE spi_transfernb
  <2>0. fn \in {"spi_transfernb", "spi_transfern"} /\ fn \notin AuxCalls /\ fn \in Ordered /\ bus = "spi0" /\ Sound
    BY <1>2 DEF spi_transfernb, AuxCalls, Ordered, bus, Bus, Sound
  <2>1. ASSUME TXD, nt < len, SendByte(correct_order(tbuf[nt + 1])), Goto("tx")
        PROVE  Layer3'
    <3>1. nt + 1 \in 1..len
      BY <1>c, <2>1
    <3>2. Ends'
      BY <1>j, <2>1 DEF Goto
    <3> QED
      BY <1>h, <1>l, <1>n, <2>0, <2>1, <3>1, <3>2
  <2>2. ASSUME NEW l \in {"tx", "rx", "done"}, Goto(l), l = "done" => nt = len, UNCHANGED <<nt, txf>>
        PROVE  Layer3'
    <3>1. Ends'
      BY <1>j, <1>k, <2>0, <2>2 DEF Goto
    <3> QED
      BY <1>f, <2>2, <3>1
  <2>3. ASSUME pc = "done", DONE, Goto("idle"), UNCHANGED <<nt, txf>>
        PROVE  Layer3'
    BY <1>c, <1>f, <1>k, <1>p, <2>0, <2>3 DEF Ends, Goto
  <2>4. ~(nt < len) => nt = len
    BY <1>c
  <2> QED
    BY <1>2, <2>1, <2>2, <2>3, <2>4 DEF spi_transfernb
<1>3. CASE spi_writenb
  <2>0. fn = "spi_writenb" /\ fn \notin AuxCalls /\ fn \in Ordered /\ bus = "spi0" /\ Sound
    BY <1>3 DEF spi_writenb, AuxCalls, Ordered, bus, Bus, Sound
  <2>1. ASSUME pc = "txd", TXD, SendByte(correct_order(tbuf[nt + 1])), Goto("drain")
        PROVE  Layer3'
    <3>1. nt < len /\ nt + 1 \in 1..len
      BY <1>c, <2>1 DEF Layer1, Progress
    <3>2. Ends'
      BY <1>j, <2>1 DEF Goto
    <3> QED
      BY <1>h, <1>l, <1>n, <2>0, <2>1, <3>1, <3>2
  <2>2. ASSUME NEW l \in {"txd", "drain", "done"}, Goto(l), l = "done" => nt = len, UNCHANGED <<nt, txf>>
        PROVE  Layer3'
    <3>1. Ends'
      BY <1>j, <1>k, <2>0, <2>2 DEF Goto
    <3> QED
      BY <1>f, <2>2, <3>1
  <2>3. ASSUME pc = "done", DONE, Goto("idle"), UNCHANGED <<nt, txf>>
        PROVE  Layer3'
    BY <1>c, <1>f, <1>k, <1>p, <2>0, <2>3 DEF Ends, Goto
  <2>4. ~(nt < len) => nt = len
    BY <1>c
  <2> QED
    BY <1>3, <2>1, <2>2, <2>3, <2>4 DEF spi_writenb
<1>4. CASE spi_write
  <2>0. fn = "spi_write" /\ fn \notin AuxCalls /\ fn \notin Ordered /\ bus = "spi0" /\ len = 2 /\ Sound
    BY <1>4 DEF spi_write, AuxCalls, Ordered, bus, Bus, Layer1, Progress, Sound
  <2>1. ASSUME pc = "txd", TXD, SendByte(tbuf[1]), Goto("low")
        PROVE  Layer3'
    <3>1. nt < len /\ nt + 1 = 1 /\ nt + 1 \in 1..len
      BY <1>c, <2>0, <2>1 DEF Layer1, Progress
    <3>2. Ends'
      BY <1>j, <2>1 DEF Goto
    <3> QED
      BY <1>h, <1>l, <1>n, <2>0, <2>1, <3>1, <3>2
  <2>2. ASSUME pc = "low", SendByte(tbuf[2]), Goto("done")
        PROVE  Layer3'
    <3>1. nt = 1 /\ nt < len /\ nt + 1 = 2 /\ nt + 1 \in 1..len /\ nt' = len /\ pc' = "done"
      BY <1>c, <2>0, <2>2 DEF Layer1, Progress, SendByte, Goto
    <3>2. Ends'
      BY <1>k, <2>0, <3>1
    <3>3. Width = 1
      BY <2>0 DEF Width
    <3>4. Len(txf[bus]) <= 1
      BY <1>c, <2>0, <3>1, <3>3, LineRoom
    <3>5. Len(txf[bus]) < Depth
      BY <1>m, <3>4
    <3> QED
      BY <1>h, <1>l, <2>0, <2>2, <3>1, <3>2, <3>5
  <2>3. ASSUME pc = "done", DONE, Goto("idle"), UNCHANGED <<nt, txf>>
        PROVE  Layer3'
    BY <1>c, <1>f, <1>k, <1>p, <2>0, <2>3 DEF Ends, Goto
  <2> QED
    BY <1>4, <2>1, <2>2, <2>3 DEF spi_write
<1>5. CASE aux_spi_transfer
  <2>0. fn = "aux_spi_transfer" /\ fn \in AuxCalls /\ bus = "aux" /\ len = 1 /\ (Sound => Receives)
    BY <1>5 DEF aux_spi_transfer, AuxCalls, bus, Bus, Layer1, Progress, Sound, Receives
  <2>1. ASSUME pc = "io", Push(Word(<<correct_order(tbuf[1])>>, FALSE)), nt' = 1, Goto("busy")
        PROVE  Layer3'
    <3>1. nt < len /\ nt = 0 /\ nt + 1 = 1 /\ 1 \in 1..len
      BY <2>0, <2>1 DEF Layer1, Progress
    <3>2. Ends'
      BY <1>b, <2>0, <2>1 DEF Ends, Goto
    <3>3. Sound => Len(txf[bus]) < Depth
      <4>1. Sound => Flight
        BY <1>a, <2>0 DEF Layer2
      <4>2. Sound => Len(txf[bus]) # Depth
        BY <2>0, <3>1, <4>1, AuxFits
      <4> QED
        BY <1>m, <4>2
    <3>4. PICK w : w = Word(<<correct_order(tbuf[1])>>, FALSE)
      OBVIOUS
    <3>5. w \in TransmitWords /\ w.k = calls /\ Push(w)
      <4>1. correct_order(tbuf[1]) \in Bytes
        BY <1>l, <3>1
      <4> QED
        BY <2>1, <3>4, <4>1, WordTypes DEF Word
    <3>6. Sound => Holds(w, nt)
      BY <1>a, <1>c, <2>0, <3>1, <3>4, NextWord
    <3>7. Width = 3
      BY <2>0 DEF Width
    <3>8. nt' = (IF nt + Width < len THEN nt + Width ELSE len)
      BY <2>0, <2>1, <3>1, <3>7
    <3> QED
      BY <1>g, <3>1, <3>2, <3>3, <3>5, <3>6, <3>8
  <2>2. ASSUME pc = "busy", ~BUSY, txf' = [txf EXCEPT !["aux"] = << >>], Goto("idle"), UNCHANGED nt
        PROVE  Layer3'
    <3>1. txf[bus] = << >> /\ sh[bus] = << >>
      BY <1>q, <2>0, <2>2
    <3>2. \A v \in Buses : txf'[v] = txf[v]
      BY <2>0, <2>2, <3>1 DEF Layer1, Fifos
    <3>3. Sound => Ends'
      BY <1>c, <1>k, <1>m, <2>0, <2>2, <3>1, <3>2 DEF Ends, Goto
    <3> QED
      BY <1>f, <2>2, <3>2, <3>3
  <2> QED
    BY <1>5, <2>1, <2>2 DEF aux_spi_transfer
<1>6. CASE aux_spi_transfernb
  <2>0. /\ fn \in {"aux_spi_transfernb", "aux_spi_transfern"} /\ fn \in AuxCalls /\ fn \notin Ordered /\ bus = "aux"
        /\ fn # "aux_spi_transfer"
    BY <1>6 DEF aux_spi_transfernb, AuxCalls, Ordered, bus, Bus
  <2>1. ASSUME ~TX_FULL, nt < len, SendWord, Goto("atx")
        PROVE  Layer3'
    <3>1. Ends'
      BY <1>j, <2>1 DEF Goto
    <3> QED
      BY <1>i, <1>o, <2>0, <2>1, <3>1
  <2>2. ASSUME NEW l \in {"atx", "arx", "abusy"}, Goto(l), UNCHANGED <<nt, txf>>
        PROVE  Layer3'
    <3>1. Ends'
      BY <1>j, <2>2 DEF Goto
    <3> QED
      BY <1>f, <2>2, <3>1
  <2>3. ASSUME nt = len, Len(rbuf) = len, Goto("idle"), UNCHANGED <<nt, txf>>
        PROVE  Layer3'
    <3>1. Prompt => sh[bus] = << >> /\ txf[bus] = << >>
      <4>1. Prompt => Receives
        BY <2>0 DEF Prompt, Spi0Calls, Receives
      <4>2. Prompt => Flight
        BY <1>a, <4>1 DEF Layer2
      <4> QED
        BY <2>3, <4>2, AllIn
    <3>2. Ends'
      BY <1>k, <2>0, <2>3, <3>1 DEF Goto
    <3> QED
      BY <1>f, <2>3, <3>2
  <2>4. ~(nt < len \/ Len(rbuf) < len) => nt = len /\ Len(rbuf) = len
    BY <1>c
  <2> QED
    BY <1>6, <2>1, <2>2, <2>3, <2>4 DEF aux_spi_transfernb
<1>7. CASE aux_spi_writenb
  <2>0. fn = "aux_spi_writenb" /\ fn \in AuxCalls /\ fn \notin Ordered /\ bus = "aux"
    BY <1>7 DEF aux_spi_writenb, AuxCalls, Ordered, bus, Bus
  <2>1. ASSUME pc = "full", ~TX_FULL, SendWord, Goto("busy")
        PROVE  Layer3'
    <3>1. nt < len
      BY <2>1 DEF Layer1, Progress
    <3>2. Ends'
      BY <1>j, <2>0, <2>1 DEF Goto
    <3> QED
      BY <1>i, <1>o, <2>0, <2>1, <3>1, <3>2
  <2>2. ASSUME ~BUSY, NEW l \in {"full", "idle"}, Goto(l), l = "idle" => nt = len, UNCHANGED <<nt, txf>>
        PROVE  Layer3'
    <3>1. Ends'
      BY <1>j, <1>k, <1>q, <2>0, <2>2 DEF Goto
    <3> QED
      BY <1>f, <2>2, <3>1
  <2>3. ~(nt < len) => nt = len
    BY <1>c
  <2> QED
    BY <1>7, <2>1, <2>2, <2>3 DEF aux_spi_writenb
<1>8. CASE aux_spi_write
  <2>0. /\ fn = "aux_spi_write" /\ fn \in AuxCalls /\ fn \notin Ordered /\ bus = "aux" /\ len = 2 /\ Sound
        /\ ~TX_FULL /\ Push(Word(tbuf, FALSE)) /\ nt' = 2 /\ pc' = "idle" /\ pc = "full"
    BY <1>8 DEF aux_spi_write, AuxCalls, Ordered, bus, Bus, Layer1, Progress, Sound, Goto
  <2>1. Width = 3
    BY <2>0 DEF Width
  <2>2. nt < len /\ nt = 0
    <3>1. nt < len
      BY <2>0 DEF Layer1, Progress
    <3> QED
      BY <1>c, <2>0, <2>1, <3>1, LineRoom
  <2>3. Ends'
    <3>1. ~Prompt
      BY <2>0 DEF Prompt, Spi0Calls
    <3> QED
      BY <1>k, <2>0, <3>1
  <2>4. PICK w : w = Word(tbuf, FALSE)
    OBVIOUS
  <2>5. tbuf \in Seq(Bytes) /\ Len(tbuf) = 2
    BY <2>0 DEF Layer1, TypeOK
  <2>6. w \in TransmitWords /\ w.k = calls /\ Push(w)
    BY <2>0, <2>4, <2>5, WordTypes DEF Word
  <2>7. Holds(w, nt)
    <3>1. Len(tbuf) = (IF nt + 3 <= len THEN 3 ELSE len - nt) /\ (FALSE <=> nt + 3 < len) /\ FALSE \in BOOLEAN
      BY <2>0, <2>2, <2>5
    <3>2. \A i \in 1..Len(tbuf) : tbuf[i] = tbuf[nt + i]
      BY <2>2, <2>5
    <3> QED
      BY <1>a, <1>c, <2>0, <2>2, <2>4, <2>5, <3>1, <3>2, NextWord
  <2>8. nt' = (IF nt + Width < len THEN nt + Width ELSE len)
    BY <2>0, <2>1, <2>2
  <2> QED
    BY <1>g, <1>o, <2>0, <2>2, <2>3, <2>6, <2>7, <2>8
<1> QED
  BY <1>1, <1>2, <1>3, <1>4, <1>5, <1>6, <1>7, <1>8 DEF Running

\* Layer 3 is kept by every step.
LEMMA Inductive3 == Layer1 /\ Layer1' /\ Layer2 /\ Layer3 /\ [Next]_vars => Layer3'
<1> SUFFICES ASSUME Layer1, Layer1', Layer2, Layer3, [Next]_vars PROVE Layer3'
  OBVIOUS
<1>1. ASSUME UNCHANGED <<pc, fn, len, calls, began, tbuf, nt, txf, sh, wire>>, order' = order \/ pc = "idle"
      PROVE  Layer3'
  <2>1. bus' = bus /\ (Sound' <=> Sound) /\ (Prompt' <=> Prompt)
    BY <1>1 DEF bus, Bus, Sound, Safe, Words, Prompt
  <2>2. Dated'
    BY <1>1, <2>1 DEF Layer3, Dated, Stamped
  <2>3. Source => Source'
    BY <1>1 DEF Source, Given
  <2>4. Ends => Ends'
    BY <1>1, <2>1 DEF Ends
  <2>5. ASSUME Tracked PROVE Tracked'
    <3>1. PICK o \in Nat : (bus = "spi0" => o = 0) /\ Line(sh[bus], txf[bus], wire, o, nt)
      BY <2>5 DEF Tracked
    <3>2. Line(sh'[bus], txf'[bus], wire', o, nt')
      BY <1>1, <3>1
    <3> QED
      BY <1>1, <3>1, <3>2, TrackedSame
  <2> QED
    BY <1>1, <2>1, <2>2, <2>3, <2>4, <2>5 DEF Layer3
<1>2. ASSUME NEW o \in {LSBFIRST, MSBFIRST}, spi_setBitOrder(o) PROVE Layer3'
  BY <1>1, <1>2 DEF spi_setBitOrder
<1>3. CASE UNCHANGED vars
  BY <1>1, <1>3 DEF vars, call
<1> QED
  BY <1>2, <1>3, BeginKeeps3, ControllerKeeps3, Running3 DEF Next

\* A word that holds the bytes behind i - 1 full ones is the i-th of the call.
LEMMA PieceIs ==
    ASSUME Layer1, NEW w \in TransmitWords, NEW i \in Nat \ {0}, Holds(w, At(i - 1)), At(i - 1) < len
    PROVE  w.b = Piece(i)
<1>1. len \in Nat /\ len <= 15 /\ calls \in Nat /\ calls <= 7
  BY SpiAssumption DEF Layer1, TypeOK, Progress
<1>2. \A p \in 1..len : Asked[p] \in Bytes
  <2> TAKE p \in 1..len
  <2>1. Given(calls, p) \in Bytes
    BY <1>1 DEF Given, Bytes
  <2>2. MirrorBits(Given(calls, p)) \in Bytes
    BY <2>1, MirrorTable, Table
  <2> QED
    BY <2>1, <2>2 DEF Asked
<1> DEFINE a == At(i - 1)
           e == Min({Width * i, len})
<1>3. a \in Nat /\ At(i) = a + Width /\ Width \in {1, 3} /\ a < len
  BY AtWords
<1>4. Width * (i - 1) + 1 = a + 1 /\ Width * i = a + Width
  BY <1>3 DEF At
<1>5. e = IF a + Width <= len THEN a + Width ELSE len
  <2>1. Width * i \in Int
    BY <1>3, <1>4
  <2> QED
    BY <1>1, <1>4, <2>1, MinOfTwo
<1>6. Piece(i) = SubSeq(Asked, a + 1, e)
  BY <1>4 DEF Piece
<1>7. /\ w.b \in Seq(Bytes) /\ Len(w.b) = (IF len - a < Width THEN len - a ELSE Width)
      /\ \A j \in 1..Len(w.b) : w.b[j] = Asked[a + j]
  BY DEF Holds, TransmitWords
<1> HIDE DEF a, e
<1>8. a + 1 \in Int /\ e \in Int /\ a + 1 <= e /\ e <= len /\ e - (a + 1) + 1 = e - a
  BY <1>1, <1>3, <1>5
<1>9. \A p \in (a + 1)..e : Asked[p] \in Bytes
  BY <1>1, <1>2, <1>3, <1>8
<1>10. /\ SubSeq(Asked, a + 1, e) \in Seq(Bytes) /\ Len(SubSeq(Asked, a + 1, e)) = e - a
       /\ \A j \in 1..(e - a) : SubSeq(Asked, a + 1, e)[j] = Asked[a + 1 + j - 1]
  BY <1>8, <1>9, SubSeqProperties
<1>11. Len(w.b) = e - a
  BY <1>1, <1>3, <1>5, <1>7
<1>12. \A j \in 1..Len(w.b) : w.b[j] = Piece(i)[j]
  <2> TAKE j \in 1..Len(w.b)
  <2>1. j \in 1..(e - a) /\ a + 1 + j - 1 = a + j
    BY <1>3, <1>8, <1>11
  <2> QED
    BY <1>6, <1>7, <1>10, <2>1
<1> QED
  <2>1. PICK s, y : s = w.b /\ y = Piece(i)
    OBVIOUS
  <2>2. s \in Seq(Bytes) /\ y \in Seq(Bytes) /\ Len(s) = Len(y)
    BY <1>6, <1>7, <1>10, <1>11, <2>1
  <2>3. \A j \in 1..Len(s) : s[j] = y[j]
    BY <1>12, <2>1
  <2>4. s = y
    BY <2>2, <2>3, SeqEqual
  <2> QED
    BY <2>1, <2>4

\* When a call has returned, the line is the wire, followed by what has not left yet.
LEMMA WireIs == ASSUME Layer1, Layer3 PROVE WireExact
<1>1. BitOrder
  <2>1. \A b \in Bytes : byte_reverse_table[b + 1] = MirrorBits(b) /\ byte_reverse_table[byte_reverse_table[b + 1] + 1] = b
    BY MirrorTable
  <2> QED
    BY <2>1 DEF BitOrder, correct_order
<1> SUFFICES ASSUME pc = "idle", calls > 0, Sound
             PROVE  /\ Len(wire) <= Pieces /\ (Prompt \/ ~BUSY => Len(wire) = Pieces)
                    /\ \A i \in DOMAIN wire :
                          wire[i].b = Piece(i) /\ (fn \in AuxCalls => wire[i].hold = (i < Pieces))
  BY <1>1 DEF WireExact, Sound
<1>2. calls # 0 /\ Dated /\ Source /\ Tracked /\ Ends
  BY Numbers DEF Layer3
<1>3. PICK o \in Nat : Line(sh[bus], txf[bus], wire, o, nt)
  BY <1>2 DEF Tracked
<1> DEFINE a == Len(sh[bus])
           b == Len(txf[bus])
           c == Len(wire)
           n == c + a + b - o
<1>4. a \in Nat /\ b \in Nat /\ c \in Nat /\ wire \in Seq(TransmitWords) /\ DOMAIN wire = 1..c /\ len \in Nat
  BY <1>2, Numbers, LenProperties DEF Dated
<1>5. /\ o <= a + b /\ (\A i \in 1..c : Holds(wire[i], At(i - 1)))
      /\ (n # 0 => At(n - 1) < len) /\ nt = IF At(n) < len THEN At(n) ELSE len
  BY <1>3 DEF Line
<1>6. nt = len
  BY <1>2 DEF Ends
<1>7. (Prompt \/ ~BUSY) => a = 0 /\ b = 0
  <2>1. Prompt => a = 0 /\ b = 0
    BY <1>2, Numbers DEF Ends
  <2>2. ~BUSY /\ bus = "aux" => a = 0 /\ b = 0
    BY Numbers DEF BUSY
  <2>3. bus # "aux" => Prompt
    BY <1>2, SpiAssumption DEF bus, Bus, Source, Prompt, Layer1, TypeOK
  <2> QED
    BY <2>1, <2>2, <2>3
<1>8. c = Len(wire)
  OBVIOUS
<1> HIDE DEF a, b, c
<1>9. n \in Nat /\ c <= n /\ (a = 0 /\ b = 0 => c = n)
  BY <1>4, <1>5
<1> HIDE DEF n
<1>10. n = Pieces
  <2>1. CASE Width = 1
    BY <1>4, <1>5, <1>6, <1>9, <2>1 DEF At, Pieces
  <2>2. CASE Width = 3
    BY <1>4, <1>5, <1>6, <1>9, <2>2 DEF At, Pieces
  <2> QED
    BY <2>1, <2>2, AtWords
<1>11. ASSUME NEW i \in 1..c
       PROVE  wire[i].b = Piece(i) /\ (fn \in AuxCalls => wire[i].hold = (i < Pieces))
  <2>1. i \in Nat \ {0} /\ i <= n /\ wire[i] \in TransmitWords
    <3>1. i \in Nat \ {0} /\ i <= n
      BY <1>4, <1>9
    <3>2. i \in 1..Len(wire)
      BY <1>8
    <3> QED
      BY <1>4, <3>1, <3>2, ElementOfSeq
  <2>2. At(i - 1) < len
    <3>1. CASE Width = 1
      BY <1>4, <1>5, <1>9, <2>1, <3>1 DEF At
    <3>2. CASE Width = 3
      BY <1>4, <1>5, <1>9, <2>1, <3>2 DEF At
    <3> QED
      BY <3>1, <3>2, AtWords
  <2>3. Holds(wire[i], At(i - 1))
    BY <1>5
  <2>4. wire[i].b = Piece(i)
    BY <2>1, <2>2, <2>3, PieceIs
  <2>5. fn \in AuxCalls => wire[i].hold = (i < Pieces)
    <3> SUFFICES ASSUME fn \in AuxCalls PROVE wire[i].hold = (i < Pieces)
      OBVIOUS
    <3>1. Width = 3
      BY DEF Width
    <3>2. wire[i].hold <=> At(i - 1) + Width < len
      BY <2>3 DEF Holds
    <3>3. At(i - 1) + Width < len <=> i < n
      BY <1>4, <1>5, <1>6, <1>9, <2>1, <3>1 DEF At
    <3>4. wire[i].hold \in BOOLEAN
      BY <2>1 DEF TransmitWords
    <3>5. wire[i].hold <=> i < Pieces
      BY <1>10, <3>2, <3>3
    <3> QED
      BY <3>4, <3>5
  <2> QED
    BY <2>4, <2>5
<1> QED
  BY <1>4, <1>7, <1>8, <1>9, <1>10, <1>11

(* Every call puts exactly the bytes it was given on the wire, each once,  *)
(* in order, in the bit order asked for, and on the auxiliary SPI holds    *)
(* the chip select until the last word: for every length, depth and        *)
(* interleaving, and also where the answers overwrite the buffer.          *)
THEOREM SpiWireExact == Spec => []WireExact
<1>1. Init => Layer2
  BY DEF Init, Layer2, ReadExact
<1>2. Init => Layer3
  <2> SUFFICES ASSUME Init PROVE Layer3
    OBVIOUS
  <2>1. wire \in Seq(TransmitWords) /\ calls = 0 /\ \A u \in Buses : sh[u] = << >> /\ txf[u] = << >>
    BY EmptySeq DEF Init
  <2>2. Len(<< >>) = 0 /\ \A p \in 1..0 : FALSE
    BY EmptySeq
  <2>3. \A u \in Buses : Stamped(sh[u], u) /\ Stamped(txf[u], u)
    BY <2>1, <2>2 DEF Stamped
  <2> QED
    BY <2>1, <2>3 DEF Layer3, Dated
<1>3. Layer1 /\ Layer3 => WireExact
  BY WireIs
<1> QED
  BY <1>1, <1>2, <1>3, Initial1, Inductive1, Inductive2, Inductive3, PTL DEF Spec

================================================================================
