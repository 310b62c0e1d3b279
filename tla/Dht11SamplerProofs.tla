--------------------------- MODULE Dht11SamplerProofs ---------------------------
(***************************************************************************)
(* Proofs about Dht11Sampler for every frame the sensor can send and all   *)
(* pulse lengths, delays and preemptions within TimingAssumption.          *)
(***************************************************************************)
EXTENDS Dht11Sampler, FiniteSetTheorems, TLAPS

Frame == edge = Schedule(sent) /\ Consistent(sent)

\* The bits decided so far, and the value that the line has for each.
Upto == IF pc \in {"decode", "done"} THEN 40 ELSE j - 1

Expected(n) == CASE line = "sensor" -> FrameBit(sent, n)
                 [] line = "high" -> 1
                 [] OTHER -> 0

Wrong(n) == buf[n] # Expected(n)
Clean    == \A n \in 1..Upto : ~Wrong(n)
OneWrong == \A m, n \in 1..Upto : Wrong(m) /\ Wrong(n) => m = n

\* What the sensor's frames are read under; a stuck line is read whatever happens.
Readable == line = "sensor" => preempt < ZeroUs

\* No preemption has disturbed the current pulse.
OnTime ==
    /\ line = "sensor" =>
          /\ pc = "answer" => now = 0 /\ left = PollUs
          /\ pc = "rise" => edge[2 * j] <= now /\ now < edge[2 * j + 1] /\ left = PollUs
          /\ pc = "riseSeen" => now = edge[2 * j + 1]
          /\ pc = "fall" => now = t /\ left = PollUs
          /\ pc = "fallSeen" => now = edge[2 * j + 2]
          /\ pc \in {"fall", "fallSeen"} => \E d \in Jitters : t = edge[2 * j + 1] + d
    /\ line = "high" => /\ pc = "fall" => t <= now /\ left = PollUs
                        /\ pc = "fallSeen" => t + PollUs <= now
    /\ line = "low" /\ pc \in {"fall", "fallSeen"} => now = t

\* The preemption has disturbed it; no bit was wrong before, and the loop is back in
\* step with the sensor before the next pulse.
Late ==
    /\ preempt # 0 /\ Clean /\ line # "high"
    /\ line = "sensor" =>
          /\ pc # "start"
          /\ pc = "answer" => now = edge[0] + preempt
          /\ pc \in {"rise", "riseSeen"} => edge[2 * j + 1] <= now /\ now <= edge[2 * j + 1] + preempt
          /\ pc = "fall" => edge[2 * j + 1] <= now /\ (left = PollUs \/ edge[2 * j + 2] <= now)
          /\ pc = "fallSeen" => edge[2 * j + 2] <= now
          /\ pc \in {"fall", "fallSeen"} => \A d \in Jitters : now + d < edge[2 * j + 2] + 50

Timed == Readable /\ pc \notin {"decode", "done"} => OnTime \/ Late

Bits == Readable => OneWrong /\ (preempt = 0 \/ line = "high" => Clean)

IInv == TypeOK /\ Frame /\ Timed /\ Bits /\ ExactDecode /\ NeverWrong /\ SilentLine

-----------------------------------------------------------------------------
(* Bytes and bits. *)

Bit == {0, 1}

\* The bits of a byte, most significant first.
BitOf(v, n) == (v \div 2^(8 - n)) % 2

\* The byte with the bits x.
Weigh(x) == 128 * x[1] + 64 * x[2] + 32 * x[3] + 16 * x[4] + 8 * x[5] + 4 * x[6] + 2 * x[7] + x[8]

\* A byte is the sum of its bits, by their places.
LEMMA PlaceValues ==
    \A v \in 0..255 :
       v = 128 * ((v \div 128) % 2) + 64 * ((v \div 64) % 2) + 32 * ((v \div 32) % 2)
            + 16 * ((v \div 16) % 2) + 8 * ((v \div 8) % 2) + 4 * ((v \div 4) % 2)
            + 2 * ((v \div 2) % 2) + (v % 2)
  OBVIOUS

\* A byte is what its bits weigh.
LEMMA Recomposed ==
    ASSUME NEW v \in 0..255, NEW x, \A n \in 1..8 : x[n] = BitOf(v, n)
    PROVE  Weigh(x) = v
<1> DEFINE w(k) == (v \div k) % 2
<1>1. /\ BitOf(v, 1) = w(128) /\ BitOf(v, 2) = w(64) /\ BitOf(v, 3) = w(32) /\ BitOf(v, 4) = w(16)
      /\ BitOf(v, 5) = w(8) /\ BitOf(v, 6) = w(4) /\ BitOf(v, 7) = w(2) /\ BitOf(v, 8) = v % 2
  BY DEF BitOf
<1>2. /\ x[1] = BitOf(v, 1) /\ x[2] = BitOf(v, 2) /\ x[3] = BitOf(v, 3) /\ x[4] = BitOf(v, 4)
      /\ x[5] = BitOf(v, 5) /\ x[6] = BitOf(v, 6) /\ x[7] = BitOf(v, 7) /\ x[8] = BitOf(v, 8)
  OBVIOUS
<1>3. v = 128 * w(128) + 64 * w(64) + 32 * w(32) + 16 * w(16) + 8 * w(8) + 4 * w(4) + 2 * w(2) + (v % 2)
  BY PlaceValues
<1> HIDE DEF w
<1>4. /\ x[1] = w(128) /\ x[2] = w(64) /\ x[3] = w(32) /\ x[4] = w(16)
      /\ x[5] = w(8) /\ x[6] = w(4) /\ x[7] = w(2) /\ x[8] = v % 2
  BY <1>1, <1>2, Zenon
<1>5. Weigh(x) = 128 * w(128) + 64 * w(64) + 32 * w(32) + 16 * w(16) + 8 * w(8) + 4 * w(4) + 2 * w(2) + (v % 2)
  BY <1>4, Zenon DEF Weigh
<1> QED
  BY <1>3, <1>5, Zenon

\* dht11_get_byte weighs the eight bits of its byte.
LEMMA ByteWeighs ==
    ASSUME NEW b \in 1..5, NEW x \in [1..8 -> Bit], \A n \in 1..8 : buf[(b - 1) * 8 + n] = x[n]
    PROVE  GetByte(b) = Weigh(x) /\ GetByte(b) \in 0..255
<1> DEFINE body(f) == [n \in 0..8 |-> IF n = 0 THEN 0 ELSE (2 * f[n - 1] + buf[(b - 1) * 8 + n]) % 256]
           r == CHOOSE f : f = body(f)
           g == [n \in 0..8 |-> CASE n = 0 -> 0
                  [] n = 1 -> x[1]
                  [] n = 2 -> 2 * x[1] + x[2]
                  [] n = 3 -> 4 * x[1] + 2 * x[2] + x[3]
                  [] n = 4 -> 8 * x[1] + 4 * x[2] + 2 * x[3] + x[4]
                  [] n = 5 -> 16 * x[1] + 8 * x[2] + 4 * x[3] + 2 * x[4] + x[5]
                  [] n = 6 -> 32 * x[1] + 16 * x[2] + 8 * x[3] + 4 * x[4] + 2 * x[5] + x[6]
                  [] n = 7 -> 64 * x[1] + 32 * x[2] + 16 * x[3] + 8 * x[4] + 4 * x[5] + 2 * x[6] + x[7]
                  [] n = 8 -> Weigh(x)]
<1>1. GetByte(b) = r[8]
  BY DEF GetByte
<1>2. /\ x[1] \in Bit /\ x[2] \in Bit /\ x[3] \in Bit /\ x[4] \in Bit
      /\ x[5] \in Bit /\ x[6] \in Bit /\ x[7] \in Bit /\ x[8] \in Bit
  OBVIOUS
<1>3. /\ g[0] = 0 /\ g[1] = x[1] /\ g[2] = 2 * g[1] + x[2] /\ g[3] = 2 * g[2] + x[3]
      /\ g[4] = 2 * g[3] + x[4] /\ g[5] = 2 * g[4] + x[5] /\ g[6] = 2 * g[5] + x[6]
      /\ g[7] = 2 * g[6] + x[7] /\ g[8] = 2 * g[7] + x[8] /\ g[8] = Weigh(x)
  BY <1>2 DEF Bit, Weigh
<1>4. DOMAIN g = 0..8 /\ g = [n \in 0..8 |-> g[n]]
  OBVIOUS
<1> HIDE DEF g
<1>5. \A n \in 1..8 : g[n] = 2 * g[n - 1] + x[n] /\ g[n] \in 0..255
  BY <1>2, <1>3 DEF Bit
<1>6. \A n \in 0..8 : g[n] = IF n = 0 THEN 0 ELSE (2 * g[n - 1] + buf[(b - 1) * 8 + n]) % 256
  <2> TAKE n \in 0..8
  <2>1. CASE n = 0
    BY <1>3, <2>1
  <2>2. CASE n # 0
    <3>1. n \in 1..8 /\ buf[(b - 1) * 8 + n] = x[n]
      BY <2>2
    <3>2. g[n] = 2 * g[n - 1] + x[n] /\ g[n] \in 0..255
      BY <1>5, <3>1
    <3> QED
      BY <2>2, <3>1, <3>2
  <2> QED
    BY <2>1, <2>2
<1>7. g = body(g)
  BY <1>4, <1>6
<1>8. r = body(r)
  BY <1>7
<1> HIDE DEF r
<1>9. \A n \in 0..8 : r[n] = IF n = 0 THEN 0 ELSE (2 * r[n - 1] + buf[(b - 1) * 8 + n]) % 256
  BY <1>8
<1>10. r[0] = 0 /\ \A n \in 1..8 : r[n] = (2 * r[n - 1] + x[n]) % 256
  BY <1>9
<1>11. \A n \in 1..8 : g[n] = (2 * g[n - 1] + x[n]) % 256
  BY <1>6
<1>12. r[1] = (2 * r[0] + x[1]) % 256 /\ g[1] = (2 * g[0] + x[1]) % 256 /\ r[0] = g[0]
  BY <1>3, <1>10, <1>11
<1>13. \A n \in 1..8 : r[n - 1] = g[n - 1] => r[n] = g[n]
  <2> DEFINE add(u, v) == (2 * u + v) % 256
  <2>1. \A n \in 1..8 : r[n] = add(r[n - 1], x[n]) /\ g[n] = add(g[n - 1], x[n])
    BY <1>10, <1>11
  <2> HIDE DEF add
  <2> QED
    BY <2>1
<1>14. r[1] = g[1] /\ r[2] = g[2] /\ r[3] = g[3] /\ r[4] = g[4]
  BY <1>12, <1>13
<1>15. r[5] = g[5] /\ r[6] = g[6] /\ r[7] = g[7] /\ r[8] = g[8]
  BY <1>13, <1>14
<1> QED
  BY <1>1, <1>3, <1>5, <1>15

Byte == 0..255
Low(n) == n % 256
LowSum(p, q, r, a) == Low(p + q + r + a)

\* Two bytes added to the same number leave sums that differ in their low bytes.
LEMMA Residues ==
    \A a, b \in Byte : \A s \in Nat : a # b => Low(s + a) # Low(s + b)
  BY DEF Byte, Low

\* Four bytes do not have the sum of the same four with one of them changed.
LEMMA OneTermOff ==
    \A a, b, p, q, r \in Byte : a # b => LowSum(p, q, r, a) # LowSum(p, q, r, b)
<1> TAKE a, b, p, q, r \in Byte
<1> HAVE a # b
<1> DEFINE s == p + q + r
<1>1. s \in Nat
  BY DEF Byte
<1>2. Low(s + a) # Low(s + b)
  <2> HIDE DEF s
  <2> QED
    BY <1>1, Residues, Zenon
<1> QED
  BY <1>2 DEF LowSum

\* The checksum tells apart any two frames that differ in one byte.
LEMMA OneByteOff ==
    ASSUME NEW c, NEW e, NEW i \in 1..5
    PROVE  c \in [1..5 -> 0..255] /\ e \in [1..5 -> 0..255] /\ Consistent(e) /\ c[i] # e[i]
              /\ (\A k \in 1..5 : k # i => c[k] = e[k]) => ~Consistent(c)
<1>1. ASSUME c \in [1..5 -> 0..255] /\ e \in [1..5 -> 0..255], c[i] # e[i],
             \A k \in 1..5 : k # i => c[k] = e[k], Consistent(e)
      PROVE  ~Consistent(c)
  <2>1. /\ c[1] \in Byte /\ c[2] \in Byte /\ c[3] \in Byte /\ c[4] \in Byte
        /\ e[1] \in Byte /\ e[2] \in Byte /\ e[3] \in Byte /\ e[4] \in Byte
    BY <1>1 DEF Byte
  <2>2. i = 1 \/ i = 2 \/ i = 3 \/ i = 4 \/ i = 5
    OBVIOUS
  <2>ints. /\ c[1] \in Int /\ c[2] \in Int /\ c[3] \in Int
        /\ e[1] \in Int /\ e[2] \in Int /\ e[3] \in Int /\ e[4] \in Int
    BY <2>1 DEF Byte
  <2>3. CASE i = 1
    <3>1. c[1] # e[1]
      BY <1>1, <2>3
    <3>2. c[2] = e[2] /\ c[3] = e[3] /\ c[4] = e[4] /\ c[5] = e[5]
      BY <1>1, <2>3
    <3>3. LowSum(e[2], e[3], e[4], c[1]) # LowSum(e[2], e[3], e[4], e[1])
      BY <2>1, <3>1, OneTermOff, Zenon
    <3>4. /\ c[1] + e[2] + e[3] + e[4] = e[2] + e[3] + e[4] + c[1]
          /\ e[1] + e[2] + e[3] + e[4] = e[2] + e[3] + e[4] + e[1]
      BY <2>ints
    <3>5. (c[1] + e[2] + e[3] + e[4]) % 256 # (e[1] + e[2] + e[3] + e[4]) % 256
      BY <3>3, <3>4, Zenon DEF LowSum, Low
    <3> QED
      BY <1>1, <3>2, <3>5, Zenon DEF Consistent, Checksum
  <2>4. CASE i = 2
    <3>1. c[2] # e[2]
      BY <1>1, <2>4
    <3>2. c[1] = e[1] /\ c[3] = e[3] /\ c[4] = e[4] /\ c[5] = e[5]
      BY <1>1, <2>4
    <3>3. LowSum(e[1], e[3], e[4], c[2]) # LowSum(e[1], e[3], e[4], e[2])
      BY <2>1, <3>1, OneTermOff, Zenon
    <3>4. /\ e[1] + c[2] + e[3] + e[4] = e[1] + e[3] + e[4] + c[2]
          /\ e[1] + e[2] + e[3] + e[4] = e[1] + e[3] + e[4] + e[2]
      BY <2>ints
    <3>5. (e[1] + c[2] + e[3] + e[4]) % 256 # (e[1] + e[2] + e[3] + e[4]) % 256
      BY <3>3, <3>4, Zenon DEF LowSum, Low
    <3> QED
      BY <1>1, <3>2, <3>5, Zenon DEF Consistent, Checksum
  <2>5. CASE i = 3
    <3>1. c[3] # e[3]
      BY <1>1, <2>5
    <3>2. c[1] = e[1] /\ c[2] = e[2] /\ c[4] = e[4] /\ c[5] = e[5]
      BY <1>1, <2>5
    <3>3. LowSum(e[1], e[2], e[4], c[3]) # LowSum(e[1], e[2], e[4], e[3])
      BY <2>1, <3>1, OneTermOff, Zenon
    <3>4. /\ e[1] + e[2] + c[3] + e[4] = e[1] + e[2] + e[4] + c[3]
          /\ e[1] + e[2] + e[3] + e[4] = e[1] + e[2] + e[4] + e[3]
      BY <2>ints
    <3>5. (e[1] + e[2] + c[3] + e[4]) % 256 # (e[1] + e[2] + e[3] + e[4]) % 256
      BY <3>3, <3>4, Zenon DEF LowSum, Low
    <3> QED
      BY <1>1, <3>2, <3>5, Zenon DEF Consistent, Checksum
  <2>6. CASE i = 4
    <3>1. c[4] # e[4]
      BY <1>1, <2>6
    <3>2. c[1] = e[1] /\ c[2] = e[2] /\ c[3] = e[3] /\ c[5] = e[5]
      BY <1>1, <2>6
    <3>3. LowSum(e[1], e[2], e[3], c[4]) # LowSum(e[1], e[2], e[3], e[4])
      BY <2>1, <3>1, OneTermOff, Zenon
    <3> QED
      BY <1>1, <3>2, <3>3, Zenon DEF Consistent, Checksum, LowSum, Low
  <2>7. CASE i = 5
    <3>1. Checksum(c) = Checksum(e) /\ c[5] # e[5]
      BY <1>1, <2>7 DEF Checksum
    <3> QED
      BY <1>1, <3>1 DEF Consistent
  <2> QED
    BY <2>2, <2>3, <2>4, <2>5, <2>6, <2>7
<1> QED
  BY <1>1

-----------------------------------------------------------------------------
(* The sensor's schedule. *)

\* A bit of the frame is a bit of one of its bytes.
LEMMA FrameBits ==
    ASSUME NEW f, NEW b \in 1..5, NEW n \in 1..8
    PROVE  (b - 1) * 8 + n \in 1..40 /\ FrameBit(f, (b - 1) * 8 + n) = BitOf(f[b], n)
<1> DEFINE k == (b - 1) * 8 + n
<1>1. k \in 1..40 /\ (k - 1) \div 8 + 1 = b /\ 7 - ((k - 1) % 8) = 8 - n
  OBVIOUS
<1> HIDE DEF k
<1>2. FrameBit(f, k) = (f[b] \div 2^(8 - n)) % 2
  BY <1>1, Zenon DEF FrameBit
<1> QED
  BY <1>1, <1>2 DEF k, BitOf

\* A bit of a frame of bytes is a bit.
LEMMA BitType ==
    ASSUME NEW f \in [1..5 -> 0..255], NEW k \in 1..40
    PROVE  FrameBit(f, k) \in Bit
<1> DEFINE b == (k - 1) \div 8 + 1
           n == ((k - 1) % 8) + 1
<1>1. b \in 1..5 /\ n \in 1..8 /\ k = (b - 1) * 8 + n
  OBVIOUS
<1> HIDE DEF b, n
<1>2. f[b] \in 0..255
  BY <1>1
<1>3. FrameBit(f, k) = BitOf(f[b], n)
  BY <1>1, FrameBits
<1>4. \A v \in 0..255 : \A m \in 1..8 : BitOf(v, m) \in Bit
  BY DEF BitOf, Bit
<1> QED
  BY <1>1, <1>2, <1>3, <1>4

\* How the number of bits sent grows.
LEMMA SentGrows ==
    ASSUME NEW f, NEW v, NEW n \in Nat
    PROVE  /\ Sent(f, n, v) \in Nat /\ Sent(f, 0, v) = 0
           /\ \A m \in 0..n : Sent(f, m, v) <= Sent(f, n, v)
           /\ FrameBit(f, n + 1) = v => Sent(f, n + 1, v) = Sent(f, n, v) + 1
           /\ FrameBit(f, n + 1) # v => Sent(f, n + 1, v) = Sent(f, n, v)
<1> DEFINE S(m) == {i \in 1..m : FrameBit(f, i) = v}
<1>1. ASSUME NEW m \in Nat PROVE IsFiniteSet(S(m)) /\ Cardinality(S(m)) \in Nat
  <2>1. IsFiniteSet(1..m)
    BY <1>1, FS_Interval
  <2>2. S(m) \in SUBSET (1..m)
    OBVIOUS
  <2> QED
    BY <2>1, <2>2, FS_Subset, FS_CardinalityType
<1>2. S(0) = {}
  OBVIOUS
<1>3. ASSUME NEW m \in 0..n PROVE Cardinality(S(m)) <= Cardinality(S(n))
  <2>1. S(m) \in SUBSET S(n)
    BY <1>3
  <2> QED
    BY <1>1, <2>1, FS_Subset
<1>4. ASSUME FrameBit(f, n + 1) = v PROVE Cardinality(S(n + 1)) = Cardinality(S(n)) + 1
  <2>1. S(n + 1) = S(n) \cup {n + 1} /\ n + 1 \notin S(n)
    BY <1>4
  <2> HIDE DEF S
  <2> QED
    BY <1>1, <2>1, FS_AddElement
<1>5. ASSUME FrameBit(f, n + 1) # v PROVE S(n + 1) = S(n)
  BY <1>5
<1> HIDE DEF S
<1>6. Cardinality(S(0)) = 0
  BY <1>2, FS_EmptySet
<1>7. \A m \in Nat : Sent(f, m, v) = Cardinality(S(m))
  BY DEF Sent, S
<1> QED
  BY <1>1, <1>3, <1>4, <1>5, <1>6, <1>7

\* Products, without which the provers multiply.
LEMMA Products ==
    ASSUME NEW c \in Nat, NEW a \in Nat, NEW b \in Nat
    PROVE  c * a \in Nat /\ c * (a + 1) = c * a + c /\ c * 0 = 0 /\ (a <= b => c * a <= c * b)
<1>1. c * a \in Nat /\ c * (a + 1) = c * a + c /\ c * 0 = 0
  BY SMT
<1>2. ASSUME a <= b PROVE c * a <= c * b
  <2>1. PICK d \in Nat : b = a + d
    <3>1. b - a \in Nat /\ b = a + (b - a)
      BY <1>2
    <3> QED
      BY <3>1
  <2>2. c * b = c * a + c * d /\ c * d \in Nat /\ c * a \in Nat
    BY <2>1, SMT
  <2> QED
    BY <2>2
<1> QED
  BY <1>1, <1>2

\* The length of the pulse of bit n.
PulseUs(f, n) == IF FrameBit(f, n) = 1 THEN OneUs ELSE ZeroUs

\* The end of pulse n of the frame f: after those of the earlier pulses, before the next.
EndOf(f, n) ==
    /\ PulseEnd(f, n) \in Nat /\ PulseEnd(f, 0) = 198
    /\ \A m \in 0..n : PulseEnd(f, m) <= PulseEnd(f, n)
    /\ \A m \in 0..n : m # n => PulseEnd(f, m) + 50 <= PulseEnd(f, n)
    /\ n < 40 => PulseEnd(f, n + 1) = PulseEnd(f, n) + 50 + PulseUs(f, n + 1)

\* Each bit takes 50 us and then the length of its pulse.
LEMMA PulseEnds ==
    ASSUME NEW f \in [1..5 -> 0..255], NEW n \in 0..40
    PROVE  EndOf(f, n)
<1> DEFINE z(m) == ZeroUs * Sent(f, m, 0)
           o(m) == OneUs * Sent(f, m, 1)
<1>1. ZeroUs \in Nat /\ OneUs \in Nat
  BY SamplerAssumption
<1>2. ASSUME NEW m \in Nat
      PROVE  z(m) \in Nat /\ o(m) \in Nat /\ PulseEnd(f, m) = 198 + 50 * m + z(m) + o(m)
  <2>1. Sent(f, m, 0) \in Nat /\ Sent(f, m, 1) \in Nat
    BY SentGrows
  <2> QED
    BY <1>1, <2>1, Products DEF PulseEnd
<1>3. z(0) = 0 /\ o(0) = 0
  <2>1. Sent(f, 0, 0) = 0 /\ Sent(f, 0, 1) = 0
    BY SentGrows
  <2> QED
    BY <1>1, <2>1, Products
<1>4. ASSUME NEW m \in 0..n PROVE z(m) <= z(n) /\ o(m) <= o(n)
  <2>1. /\ Sent(f, m, 0) \in Nat /\ Sent(f, n, 0) \in Nat /\ Sent(f, m, 0) <= Sent(f, n, 0)
        /\ Sent(f, m, 1) \in Nat /\ Sent(f, n, 1) \in Nat /\ Sent(f, m, 1) <= Sent(f, n, 1)
    BY SentGrows
  <2> QED
    BY <1>1, <2>1, Products
<1>5. ASSUME n < 40 PROVE z(n + 1) + o(n + 1) = z(n) + o(n) + PulseUs(f, n + 1)
  <2>1. Sent(f, n, 0) \in Nat /\ Sent(f, n, 1) \in Nat
    BY SentGrows
  <2>2. FrameBit(f, n + 1) = 0 \/ FrameBit(f, n + 1) = 1
    BY <1>5, BitType DEF Bit
  <2>3. CASE FrameBit(f, n + 1) = 0
    <3>1. Sent(f, n + 1, 0) = Sent(f, n, 0) + 1 /\ Sent(f, n + 1, 1) = Sent(f, n, 1)
      BY <2>3, SentGrows
    <3>2. z(n + 1) = z(n) + ZeroUs /\ o(n + 1) = o(n)
      BY <1>1, <2>1, <3>1, Products
    <3>3. PulseUs(f, n + 1) = ZeroUs
      BY <2>3 DEF PulseUs
    <3> HIDE DEF z, o
    <3>4. n \in Nat => z(n) \in Nat /\ o(n) \in Nat
      BY <1>2, Zenon
    <3> QED
      BY <1>1, <3>2, <3>3, <3>4
  <2>4. CASE FrameBit(f, n + 1) = 1
    <3>1. Sent(f, n + 1, 1) = Sent(f, n, 1) + 1 /\ Sent(f, n + 1, 0) = Sent(f, n, 0)
      BY <2>4, SentGrows
    <3>2. o(n + 1) = o(n) + OneUs /\ z(n + 1) = z(n)
      BY <1>1, <2>1, <3>1, Products
    <3>3. PulseUs(f, n + 1) = OneUs
      BY <2>4 DEF PulseUs
    <3> HIDE DEF z, o
    <3>4. n \in Nat => z(n) \in Nat /\ o(n) \in Nat
      BY <1>2, Zenon
    <3> QED
      BY <1>1, <3>2, <3>3, <3>4
  <2> QED
    BY <2>2, <2>3, <2>4
<1> HIDE DEF z, o
<1>6. PulseEnd(f, n) \in Nat /\ PulseEnd(f, 0) = 198
  <2>1. PulseEnd(f, 0) = 198 + 50 * 0 + z(0) + o(0)
    BY <1>2
  <2>2. PulseEnd(f, n) = 198 + 50 * n + z(n) + o(n) /\ z(n) \in Nat /\ o(n) \in Nat
    BY <1>2
  <2> QED
    BY <1>3, <2>1, <2>2
<1>7. ASSUME NEW m \in 0..n
      PROVE  PulseEnd(f, m) <= PulseEnd(f, n) /\ (m # n => PulseEnd(f, m) + 50 <= PulseEnd(f, n))
  BY <1>2, <1>4
<1>8. ASSUME n < 40 PROVE PulseEnd(f, n + 1) = PulseEnd(f, n) + 50 + PulseUs(f, n + 1)
  <2>1. PulseUs(f, n + 1) \in Nat
    BY <1>1 DEF PulseUs
  <2> DEFINE k == n + 1
             u == PulseUs(f, k)
  <2>2. k \in Nat /\ k = n + 1 /\ n \in Nat
    OBVIOUS
  <2>3. z(k) + o(k) = z(n) + o(n) + u
    BY <1>5, <1>8
  <2>4. u \in Nat
    BY <2>1
  <2> HIDE DEF k, u
  <2>5. z(k) \in Nat /\ o(k) \in Nat /\ PulseEnd(f, k) = 198 + 50 * k + z(k) + o(k)
    BY <1>2, <2>2, Zenon
  <2>6. z(n) \in Nat /\ o(n) \in Nat /\ PulseEnd(f, n) = 198 + 50 * n + z(n) + o(n)
    BY <1>2, <2>2, Zenon
  <2> DEFINE a == z(k)
             b == o(k)
             c == z(n)
             d == o(n)
             p == PulseEnd(f, k)
             q == PulseEnd(f, n)
  <2>7. p = q + 50 + u
    <3>1. a \in Nat /\ b \in Nat /\ c \in Nat /\ d \in Nat
      BY <2>5, <2>6, Zenon
    <3>2. a + b = c + d + u
      BY <2>3, Zenon
    <3>3. p = 198 + 50 * k + a + b
      BY <2>5, Zenon
    <3>4. q = 198 + 50 * n + c + d
      BY <2>6, Zenon
    <3> HIDE DEF a, b, c, d, p, q
    <3> QED
      BY <2>2, <2>4, <3>1, <3>2, <3>3, <3>4
  <2> QED
    BY <2>7 DEF k, u
<1> QED
  BY <1>6, <1>7, <1>8 DEF EndOf

\* Phase 2n + 2 is the pulse of bit n, and the 50 us before the next follow it.
LEMMA Edges ==
    ASSUME NEW f \in [1..5 -> 0..255]
    PROVE  /\ Schedule(f) \in [Phases -> Nat]
           /\ Schedule(f)[0] = 30 /\ Schedule(f)[1] = 110
           /\ \A n \in 0..40 : Schedule(f)[2 * n + 2] = PulseEnd(f, n) /\ Schedule(f)[2 * n + 3] = PulseEnd(f, n) + 50
<1>1. \A m \in 0..40 : PulseEnd(f, m) \in Nat
  BY PulseEnds DEF EndOf
<1>2. \A k \in Phases : /\ k > 1 /\ k % 2 = 0 => (k - 2) \div 2 \in 0..40
                        /\ k > 1 /\ k % 2 = 1 => (k - 3) \div 2 \in 0..40
  BY DEF Phases
<1>3. ASSUME NEW k \in Phases PROVE Schedule(f)[k] \in Nat
  <2>1. k = 0 \/ k = 1 \/ (k > 1 /\ k % 2 = 0) \/ (k > 1 /\ k % 2 = 1)
    BY DEF Phases
  <2>2. k > 1 => k # 0 /\ k # 1
    BY DEF Phases
  <2>3. CASE k = 0
    BY <2>3 DEF Schedule, Phases
  <2>4. CASE k = 1
    BY <2>4 DEF Schedule, Phases
  <2>5. CASE k > 1 /\ k % 2 = 0
    <3>1. Schedule(f)[k] = PulseEnd(f, (k - 2) \div 2)
      BY <2>2, <2>5 DEF Schedule
    <3> QED
      BY <1>1, <1>2, <2>5, <3>1
  <2>6. CASE k > 1 /\ k % 2 = 1
    <3>1. Schedule(f)[k] = PulseEnd(f, (k - 3) \div 2) + 50
      BY <2>2, <2>6 DEF Schedule
    <3> QED
      BY <1>1, <1>2, <2>6, <3>1
  <2> QED
    BY <2>1, <2>3, <2>4, <2>5, <2>6
<1>4. Schedule(f) \in [Phases -> Nat]
  BY <1>3 DEF Schedule
<1>5. Schedule(f)[0] = 30 /\ Schedule(f)[1] = 110
  BY DEF Schedule, Phases
<1>6. ASSUME NEW n \in 0..40 PROVE Schedule(f)[2 * n + 2] = PulseEnd(f, n)
  <2> DEFINE k == 2 * n + 2
  <2>1. k \in Phases /\ k > 1 /\ k # 0 /\ k # 1 /\ k % 2 = 0 /\ k % 2 # 1 /\ (k - 2) \div 2 = n
    BY DEF Phases
  <2> HIDE DEF k
  <2>2. Schedule(f)[k] = PulseEnd(f, (k - 2) \div 2)
    BY <2>1 DEF Schedule
  <2> QED
    BY <2>1, <2>2 DEF k
<1>7. ASSUME NEW n \in 0..40 PROVE Schedule(f)[2 * n + 3] = PulseEnd(f, n) + 50
  <2> DEFINE k == 2 * n + 3
  <2>1. k \in Phases /\ k > 1 /\ k # 0 /\ k # 1 /\ k % 2 = 1 /\ k % 2 # 0 /\ (k - 3) \div 2 = n
    BY DEF Phases
  <2> HIDE DEF k
  <2>2. Schedule(f)[k] = PulseEnd(f, (k - 3) \div 2) + 50
    BY <2>1 DEF Schedule
  <2> QED
    BY <2>1, <2>2 DEF k
<1> QED
  BY <1>4, <1>5, <1>6, <1>7

Messages == [1..5 -> 0..255]

\* Of two pulses the later ends at least 50 us after the other.
Later(f) ==
    \A m, n \in 0..40 : /\ m <= n => PulseEnd(f, m) <= PulseEnd(f, n)
                        /\ m < n => PulseEnd(f, m) + 50 <= PulseEnd(f, n)

\* The edges e are those of the frame f, pulse by pulse.
Scheduled(f, e) ==
    /\ e \in [Phases -> Nat] /\ e[0] = 30 /\ e[1] = 110 /\ PulseEnd(f, 0) = 198
    /\ \A n \in 0..40 : e[2 * n + 2] = PulseEnd(f, n) /\ e[2 * n + 3] = PulseEnd(f, n) + 50
    /\ \A n \in 0..40 : PulseEnd(f, n) \in Nat
    /\ \A n \in 0..40 : n < 40 => PulseEnd(f, n + 1) = PulseEnd(f, n) + 50 + PulseUs(f, n + 1)
    /\ Later(f)

\* The sensor keeps to its schedule.
LEMMA ScheduleKept == ASSUME NEW f \in [1..5 -> 0..255] PROVE Scheduled(f, Schedule(f))
<1>1. /\ Schedule(f) \in [Phases -> Nat] /\ Schedule(f)[0] = 30 /\ Schedule(f)[1] = 110
      /\ \A n \in 0..40 : Schedule(f)[2 * n + 2] = PulseEnd(f, n) /\ Schedule(f)[2 * n + 3] = PulseEnd(f, n) + 50
  BY Edges
<1>2. PulseEnd(f, 0) = 198 /\ \A n \in 0..40 : PulseEnd(f, n) \in Nat
  <2>1. EndOf(f, 0)
    BY PulseEnds
  <2>2. ASSUME NEW n \in 0..40 PROVE PulseEnd(f, n) \in Nat
    BY PulseEnds DEF EndOf
  <2> QED
    BY <2>1, <2>2 DEF EndOf
<1>3. ASSUME NEW n \in 0..40, n < 40 PROVE PulseEnd(f, n + 1) = PulseEnd(f, n) + 50 + PulseUs(f, n + 1)
  <2>1. EndOf(f, n)
    BY PulseEnds
  <2> QED
    BY <1>3, <2>1 DEF EndOf
<1>4. ASSUME NEW m \in 0..40, NEW n \in 0..40
      PROVE  /\ m <= n => PulseEnd(f, m) <= PulseEnd(f, n)
             /\ m < n => PulseEnd(f, m) + 50 <= PulseEnd(f, n)
  <2>1. m <= n => m \in 0..n /\ (m < n => m # n)
    OBVIOUS
  <2>2. EndOf(f, n)
    BY PulseEnds
  <2> QED
    BY <2>1, <2>2 DEF EndOf
<1>5. \A n \in 0..40 : n < 40 => PulseEnd(f, n + 1) = PulseEnd(f, n) + 50 + PulseUs(f, n + 1)
  BY <1>3, Zenon
<1>6. Later(f)
  BY <1>4 DEF Later
<1> QED
  BY <1>1, <1>2, <1>5, <1>6 DEF Scheduled

LEMMA ScheduleOnTime == ASSUME NEW f \in Messages PROVE Scheduled(f, Schedule(f))
  BY ScheduleKept DEF Messages

\* The pulses as dht11_get_data meets them, the answer's first: each is at least as long as
\* that of a 0 and no longer than a polling loop.
LEMMA Timeline ==
    ASSUME TypeOK, Frame, NEW n \in Pulses
    PROVE  /\ edge[0] = 30 /\ edge[1] = 110
           /\ edge[2 * n] \in Nat /\ edge[2 * n + 1] \in Nat /\ edge[2 * n + 2] \in Nat
           /\ edge[2 * n] < edge[2 * n + 1] /\ edge[2 * n + 1] <= edge[2 * n] + 80
           /\ edge[2 * n + 1] + ZeroUs <= edge[2 * n + 2] /\ edge[2 * n + 2] <= edge[2 * n + 1] + PollUs
           /\ edge[2 * n + 3] = edge[2 * n + 2] + 50
           /\ n > 0 => edge[2 * n + 2] = edge[2 * n + 1] + PulseUs(sent, n)
<1>1. Scheduled(sent, edge)
  <2>1. sent \in Messages /\ edge = Schedule(sent)
    BY DEF TypeOK, Frame, Messages
  <2> QED
    BY <2>1, ScheduleOnTime, Zenon
<1>2. ZeroUs \in Nat /\ OneUs \in Nat /\ PollUs \in Nat /\ ZeroUs <= 50 /\ OneUs > 50
      /\ PollUs >= 88 /\ PollUs >= OneUs
  <2>1. ZeroUs \in Nat /\ OneUs \in Nat /\ PollUs \in Nat /\ 0 \in Jitters
    BY SamplerAssumption
  <2>2. ZeroUs + 0 <= 50 /\ OneUs - 0 > 50 /\ PollUs >= 88 /\ PollUs >= OneUs
    BY <2>1, TimingAssumption
  <2> QED
    BY <2>1, <2>2
<1>3. /\ edge[0] = 30 /\ edge[1] = 110
      /\ \A m \in 0..40 : edge[2 * m + 2] = PulseEnd(sent, m) /\ edge[2 * m + 3] = PulseEnd(sent, m) + 50
  BY <1>1 DEF Scheduled
<1>4. PulseEnd(sent, 0) = 198 /\ \A m \in 0..40 : PulseEnd(sent, m) \in Nat
  BY <1>1 DEF Scheduled
<1>5. CASE n = 0
  <2>1. edge[2] = 198 /\ edge[3] = 248
    BY <1>3, <1>4
  <2> QED
    BY <1>2, <1>3, <1>5, <2>1
<1>6. CASE n > 0
  <2> DEFINE m == n - 1
  <2>1. m \in 0..39 /\ n = m + 1 /\ n \in 0..40 /\ m \in 0..40
    BY <1>6 DEF Pulses
  <2>2. edge[2 * n + 2] = PulseEnd(sent, n) /\ edge[2 * n + 3] = PulseEnd(sent, n) + 50
    BY <1>3, <2>1
  <2>3. edge[2 * n] = PulseEnd(sent, m) /\ edge[2 * n + 1] = PulseEnd(sent, m) + 50
    <3>1. 2 * m + 2 = 2 * n /\ 2 * m + 3 = 2 * n + 1
      BY <2>1
    <3> HIDE DEF m
    <3>2. edge[2 * m + 2] = PulseEnd(sent, m) /\ edge[2 * m + 3] = PulseEnd(sent, m) + 50
      BY <1>3, <2>1
    <3> QED
      BY <3>1, <3>2
  <2>4. PulseEnd(sent, n) = PulseEnd(sent, m) + 50 + PulseUs(sent, n)
    <3>1. m < 40
      BY <2>1
    <3> HIDE DEF m
    <3>2. PulseEnd(sent, m + 1) = PulseEnd(sent, m) + 50 + PulseUs(sent, m + 1)
      BY <1>1, <2>1, <3>1 DEF Scheduled
    <3> QED
      BY <2>1, <3>2
  <2>5. PulseUs(sent, n) \in Nat /\ ZeroUs <= PulseUs(sent, n) /\ PulseUs(sent, n) <= PollUs
    BY <1>2 DEF PulseUs
  <2>6. PulseEnd(sent, m) \in Nat /\ PulseEnd(sent, n) \in Nat
    BY <1>4, <2>1
  <2> HIDE DEF m
  <2> QED
    BY <1>2, <1>3, <2>2, <2>3, <2>4, <2>5, <2>6
<1> QED
  BY <1>5, <1>6 DEF Pulses

\* The edges come one after the other.
LEMMA EdgeOrder ==
    ASSUME TypeOK, Frame
    PROVE  \A k, l \in Phases : k <= l => edge[k] <= edge[l]
<1>1. Scheduled(sent, edge)
  <2>1. sent \in Messages /\ edge = Schedule(sent)
    BY DEF TypeOK, Frame, Messages
  <2> QED
    BY <2>1, ScheduleOnTime, Zenon
<1>2. /\ edge[0] = 30 /\ edge[1] = 110
      /\ \A m \in 0..40 : edge[2 * m + 2] = PulseEnd(sent, m) /\ edge[2 * m + 3] = PulseEnd(sent, m) + 50
  BY <1>1 DEF Scheduled
<1>3. PulseEnd(sent, 0) = 198 /\ \A m \in 0..40 : PulseEnd(sent, m) \in Nat
  BY <1>1 DEF Scheduled
<1>4. \A m, n \in 0..40 : /\ m <= n => PulseEnd(sent, m) <= PulseEnd(sent, n)
                          /\ m < n => PulseEnd(sent, m) + 50 <= PulseEnd(sent, n)
  <2>1. Later(sent)
    BY <1>1, Zenon DEF Scheduled
  <2> QED
    BY <2>1 DEF Later
<1>5. \A m \in 0..40 : PulseEnd(sent, m) >= 198
  BY <1>3, <1>4
<1>6. \A k \in Phases : k = 0 \/ k = 1 \/ \E m \in 0..40 : k = 2 * m + 2 \/ k = 2 * m + 3
  <2> TAKE k \in Phases
  <2>1. k > 1 => (k - 2) \div 2 \in 0..40 /\ (k = 2 * ((k - 2) \div 2) + 2 \/ k = 2 * ((k - 2) \div 2) + 3)
    BY DEF Phases
  <2>2. k > 1 \/ k = 0 \/ k = 1
    BY DEF Phases
  <2> QED
    BY <2>1, <2>2
<1> TAKE k, l \in Phases
<1> HAVE k <= l
<1>7. CASE l = 0 \/ l = 1
  <2>1. k = 0 \/ k = l
    BY <1>7 DEF Phases
  <2> QED
    BY <1>2, <1>7, <2>1
<1>8. CASE k = 0 \/ k = 1
  <2>1. CASE l = 0 \/ l = 1
    BY <1>7, <2>1
  <2>2. CASE \E m \in 0..40 : l = 2 * m + 2 \/ l = 2 * m + 3
    <3> PICK m \in 0..40 : l = 2 * m + 2 \/ l = 2 * m + 3
      BY <2>2
    <3>1. PulseEnd(sent, m) \in Nat /\ PulseEnd(sent, m) >= 198
      BY <1>3, <1>5
    <3>2. edge[l] = PulseEnd(sent, m) \/ edge[l] = PulseEnd(sent, m) + 50
      BY <1>2
    <3> QED
      BY <1>2, <1>8, <3>1, <3>2
  <2> QED
    BY <1>6, <2>1, <2>2
<1>9. CASE \E m, n \in 0..40 : (k = 2 * m + 2 \/ k = 2 * m + 3) /\ (l = 2 * n + 2 \/ l = 2 * n + 3)
  <2> PICK m, n \in 0..40 : (k = 2 * m + 2 \/ k = 2 * m + 3) /\ (l = 2 * n + 2 \/ l = 2 * n + 3)
    BY <1>9
  <2>1. m < n \/ (m = n /\ (k = 2 * m + 2 \/ l = 2 * n + 3))
    OBVIOUS
  <2>2. /\ PulseEnd(sent, m) \in Nat /\ PulseEnd(sent, n) \in Nat
        /\ m < n => PulseEnd(sent, m) + 50 <= PulseEnd(sent, n)
    BY <1>3, <1>4
  <2>3. /\ k = 2 * m + 2 => edge[k] = PulseEnd(sent, m)
        /\ k = 2 * m + 3 => edge[k] = PulseEnd(sent, m) + 50
        /\ l = 2 * n + 2 => edge[l] = PulseEnd(sent, n)
        /\ l = 2 * n + 3 => edge[l] = PulseEnd(sent, n) + 50
    BY <1>2
  <2> QED
    BY <2>1, <2>2, <2>3
<1> QED
  BY <1>6, <1>7, <1>8, <1>9

-----------------------------------------------------------------------------
(* Polling. *)

\* The phase is the number of edges that have passed.
LEMMA PhaseIs ==
    ASSUME TypeOK, Frame, NEW c \in Phases, c > 0 => edge[c - 1] <= now, now < edge[c]
    PROVE  PhaseAt(now) = c
<1>1. now \in Nat /\ \A k \in Phases : edge[k] \in Nat
  BY DEF TypeOK
<1>2. \A k, l \in Phases : k <= l => edge[k] <= edge[l]
  BY EdgeOrder
<1>3. c \in 0..83 /\ \A k \in Phases : k \in 0..83
  BY DEF Phases
<1>4. ASSUME NEW k \in Phases PROVE edge[k] <= now <=> k < c
  <2>1. CASE k < c
    <3>1. c > 0 /\ c - 1 \in Phases /\ k <= c - 1
      BY <1>3, <2>1 DEF Phases
    <3>2. edge[k] <= edge[c - 1] /\ edge[c - 1] <= now /\ edge[c - 1] \in Nat /\ edge[k] \in Nat
      BY <1>1, <1>2, <3>1
    <3> QED
      BY <1>1, <2>1, <3>2
  <2>2. CASE ~(k < c)
    <3>1. c <= k
      BY <1>3, <2>2
    <3>2. edge[c] <= edge[k] /\ edge[c] \in Nat /\ edge[k] \in Nat
      BY <1>1, <1>2, <3>1
    <3> QED
      BY <1>1, <2>2, <3>2
  <2> QED
    BY <2>1, <2>2
<1>5. {k \in Phases : edge[k] <= now} = {k \in Phases : k < c}
  BY <1>4
<1>6. {k \in Phases : k < c} = 0..(c - 1)
  BY <1>3 DEF Phases
<1>7. Cardinality(0..(c - 1)) = c
  BY <1>3, FS_Interval
<1> QED
  BY <1>5, <1>6, <1>7 DEF PhaseAt

\* An edge still to come lies ahead.
LEMMA EdgeAhead ==
    ASSUME TypeOK, Frame, PhaseAt(now) \in Phases
    PROVE  now < edge[PhaseAt(now)] /\ edge[PhaseAt(now)] \in Nat
<1> DEFINE c == PhaseAt(now)
<1>1. now \in Nat /\ \A k \in Phases : edge[k] \in Nat
  BY DEF TypeOK
<1>2. \A k, l \in Phases : k <= l => edge[k] <= edge[l]
  BY EdgeOrder
<1>3. c \in 0..83 /\ c \in Phases
  BY DEF Phases
<1>4. ASSUME edge[c] <= now PROVE FALSE
  <2> DEFINE S == {k \in Phases : edge[k] <= now}
  <2>1. S \in SUBSET (0..83)
    BY DEF Phases
  <2>2. IsFiniteSet(S)
    <3>1. 0 \in Int /\ 83 \in Int
      OBVIOUS
    <3>2. IsFiniteSet(0..83)
      BY <3>1, FS_Interval, Zenon
    <3> QED
      BY <2>1, <3>2, FS_Subset
  <2>3. ASSUME NEW k \in 0..c PROVE k \in S
    <3> HIDE DEF c
    <3>1. k \in Phases /\ k <= c
      BY <1>3, <2>3 DEF Phases
    <3>2. edge[k] <= edge[c] /\ edge[k] \in Nat /\ edge[c] \in Nat
      BY <1>1, <1>2, <1>3, <3>1
    <3> QED
      BY <1>1, <1>4, <3>1, <3>2
  <2>4. Cardinality(S) = c
    BY DEF PhaseAt
  <2> HIDE DEF S, c
  <2>5. (0..c) \in SUBSET S
    BY <2>3
  <2>6. Cardinality(0..c) <= Cardinality(S)
    BY <2>2, <2>5, FS_Subset
  <2>7. Cardinality(0..c) = c + 1
    BY <1>3, FS_Interval
  <2> QED
    BY <1>3, <2>4, <2>6, <2>7
<1> HIDE DEF c
<1>5. edge[c] \in Nat
  BY <1>1, <1>3
<1> QED
  BY <1>1, <1>4, <1>5 DEF c

\* What a polling loop is waiting for is never in the past.
LEMMA WhenAhead ==
    ASSUME TypeOK, Frame, NEW level, Coming(level)
    PROVE  When(level) \in Nat /\ now <= When(level)
<1>1. now \in Nat
  BY DEF TypeOK
<1>2. CASE LevelAt(now) = level
  BY <1>1, <1>2 DEF When
<1>3. CASE LevelAt(now) # level
  <2>1. PhaseAt(now) \in Phases
    BY <1>3 DEF Coming
  <2> QED
    BY <1>1, <1>3, <2>1, EdgeAhead DEF When
<1> QED
  BY <1>2, <1>3

\* What the loops see of the sensor in an even (high) and in an odd (low) phase, ...
LEMMA SensorLevels ==
    ASSUME TypeOK, Frame, line = "sensor", NEW c \in Phases, c > 0 => edge[c - 1] <= now, now < edge[c]
    PROVE  /\ Coming(HIGH) /\ Coming(LOW)
           /\ c % 2 = 0 => When(HIGH) = now /\ When(LOW) = edge[c]
           /\ c % 2 = 1 => When(LOW) = now /\ When(HIGH) = edge[c]
<1>1. PhaseAt(now) = c
  BY PhaseIs
<1>2. c % 2 = 0 \/ c % 2 = 1
  BY DEF Phases
<1>3. LevelAt(now) = IF c % 2 = 0 THEN HIGH ELSE LOW
  BY <1>1 DEF LevelAt
<1>4. HIGH # LOW
  BY DEF HIGH, LOW
<1> QED
  BY <1>1, <1>2, <1>3, <1>4 DEF Coming, When

\* ... and of a stuck line.
LEMMA StuckLevels ==
    /\ line = "high" => Coming(HIGH) /\ When(HIGH) = now /\ ~Coming(LOW)
    /\ line = "low" => Coming(LOW) /\ When(LOW) = now
<1>1. HIGH # LOW
  BY DEF HIGH, LOW
<1>2. line = "high" => LevelAt(now) = HIGH
  BY DEF LevelAt
<1>3. line = "low" => LevelAt(now) = LOW
  BY DEF LevelAt
<1> QED
  BY <1>1, <1>2, <1>3 DEF Coming, When

\* A loop that meets its level in time ends there; one that does not runs out.
LEMMA Polled ==
    ASSUME TypeOK, Frame, NEW level, NEW pause \in Nat, Poll(level, pause)
    PROVE  /\ Coming(level) /\ When(level) - now <= left => now' = pause + When(level)
           /\ ~Coming(level) => now' = pause + now + left
           /\ now' \in Nat
<1>1. now \in Nat /\ left \in Nat
  BY SamplerAssumption DEF TypeOK
<1>2. Coming(level) => When(level) \in Nat
  BY WhenAhead
<1> QED
  BY <1>1, <1>2 DEF Poll

-----------------------------------------------------------------------------
(* Types. *)

\* The bits of byte b, as they were decoded.
Bits8(b) == [n \in 1..8 |-> buf[(b - 1) * 8 + n]]

\* dht11_get_byte returns a byte, the weight of its eight bits.
LEMMA ByteType ==
    ASSUME TypeOK, NEW b \in 1..5
    PROVE  Bits8(b) \in [1..8 -> Bit] /\ GetByte(b) = Weigh(Bits8(b)) /\ GetByte(b) \in 0..255
<1>1. ASSUME NEW n \in 1..8 PROVE buf[(b - 1) * 8 + n] \in Bit
  <2>1. (b - 1) * 8 + n \in Pulses
    BY DEF Pulses
  <2> QED
    BY <2>1 DEF TypeOK, Bit
<1>2. Bits8(b) \in [1..8 -> Bit]
  BY <1>1 DEF Bits8
<1>3. \A n \in 1..8 : buf[(b - 1) * 8 + n] = Bits8(b)[n]
  BY DEF Bits8
<1> QED
  BY <1>2, <1>3, ByteWeighs

Hundredths(whole, tenth) == whole * 100 + tenth * 10

\* The largest readings, as numbers that the steps below need not know.
LEMMA Largest == /\ MaxHumidity \in Int /\ 28050 <= MaxHumidity
                 /\ MaxTemperature \in Int /\ 15250 <= MaxTemperature
  BY DEF MaxHumidity, MaxTemperature

\* The range of a humidity, and of a temperature without and with its sign.
LEMMA HumidityRange ==
    ASSUME NEW x \in Int, NEW y \in Int, 0 <= x, x <= 255, 0 <= y, y <= 255
    PROVE  Hundredths(x, y) \in 0..MaxHumidity
  BY Largest DEF Hundredths

LEMMA TemperatureRange ==
    ASSUME NEW x \in Int, NEW y \in Int, 0 <= x, x <= 127, 0 <= y, y <= 255
    PROVE  /\ Hundredths(x, y) \in (-MaxTemperature)..MaxTemperature
           /\ -Hundredths(x, y) \in (-MaxTemperature)..MaxTemperature
  BY Largest DEF Hundredths

\* Five bytes make a reading in range.
LEMMA ReadingType ==
    ASSUME NEW b, b[1] \in 0..255, b[2] \in 0..255, b[3] \in 0..255, b[4] \in 0..255
    PROVE  Reading(b) \in Readings
<1> DEFINE w == b[3] % 128
           h == Hundredths(b[1], b[2])
           m == Hundredths(w, b[4])
           n == IF b[3] >= 128 THEN -m ELSE m
           T == (-MaxTemperature)..MaxTemperature
<1>1. w \in Int /\ 0 <= w /\ w <= 127
  OBVIOUS
<1>2. Reading(b) = [humidity |-> h, temperature |-> n]
  BY DEF Reading, Hundredths
<1>3. /\ b[1] \in Int /\ 0 <= b[1] /\ b[1] <= 255
      /\ b[2] \in Int /\ 0 <= b[2] /\ b[2] <= 255
      /\ b[4] \in Int /\ 0 <= b[4] /\ b[4] <= 255
  OBVIOUS
<1>4. h \in 0..MaxHumidity
  BY <1>3, HumidityRange
<1> HIDE DEF w
<1>5. m \in T /\ -m \in T
  BY <1>1, <1>3, TemperatureRange
<1> HIDE DEF h, m
<1>6. n \in T
  BY <1>5
<1> HIDE DEF n
<1> QED
  BY <1>2, <1>4, <1>6 DEF Readings

\* TypeOK in two parts.
Control ==
    /\ line \in Lines /\ pc \in Steps /\ j \in Pulses /\ now \in Nat /\ left \in 0..PollUs
    /\ t \in Nat /\ preempt \in Preempts \cup {0} /\ ret \in {0, -1}

Data ==
    /\ sent \in [1..5 -> 0..255] /\ edge \in [Phases -> Nat] /\ buf \in [Pulses -> {0, 1}]
    /\ out \in Readings

\* They are all of it, before a step and after.
LEMMA TypeParts == (TypeOK <=> Control /\ Data) /\ (TypeOK' <=> Control' /\ Data')
  BY Zenon DEF TypeOK, Control, Data

\* The state before a measurement.
LEMMA InitTypes == Init => TypeOK /\ Frame
<1> SUFFICES ASSUME Init PROVE TypeOK /\ Frame
  OBVIOUS
<1>1. PICK b \in Frames : sent = <<b[1], b[2], b[3], b[4], Checksum(b)>>
  BY DEF Init
<1>2. b[1] \in 0..255 /\ b[2] \in 0..255 /\ b[3] \in 0..255 /\ b[4] \in 0..255
  BY SamplerAssumption
<1>3. Checksum(b) \in 0..255
  <2>1. b[1] \in Nat /\ b[2] \in Nat /\ b[3] \in Nat /\ b[4] \in Nat
    BY <1>2
  <2>2. b[1] + b[2] + b[3] + b[4] \in Nat
    BY <2>1
  <2> QED
    BY <2>2 DEF Checksum
<1>4. sent \in [1..5 -> 0..255]
  <2>1. PICK p, q, r, s, k : p = b[1] /\ q = b[2] /\ r = b[3] /\ s = b[4] /\ k = Checksum(b)
    OBVIOUS
  <2>2. p \in 0..255 /\ q \in 0..255 /\ r \in 0..255 /\ s \in 0..255 /\ k \in 0..255
    BY <1>2, <1>3, <2>1
  <2>3. sent = <<p, q, r, s, k>>
    BY <1>1, <2>1
  <2> QED
    BY <2>2, <2>3
<1>5. Checksum(sent) = Checksum(b) /\ sent[5] = Checksum(b)
  BY <1>1 DEF Checksum
<1>6. edge = Schedule(sent)
  BY DEF Init
<1>7. edge \in [Phases -> Nat]
  <2>1. sent \in Messages
    BY <1>4, Zenon DEF Messages
  <2>2. Scheduled(sent, edge)
    BY <1>6, <2>1, ScheduleOnTime, Zenon
  <2> QED
    BY <2>2 DEF Scheduled
<1>8. Frame
  BY <1>5, <1>6 DEF Frame, Consistent
<1>9. Control
  BY SamplerAssumption DEF Init, Steps, Pulses, Control
<1>10. buf \in [Pulses -> {0, 1}] /\ out \in Readings
  BY Largest DEF Init, Readings
<1> QED
  BY <1>4, <1>7, <1>8, <1>9, <1>10, TypeParts DEF Data

\* Every step keeps the types, and none changes what the sensor sends.
LEMMA NextTypes == ASSUME TypeOK, Frame, [Next]_vars PROVE TypeOK' /\ Frame'
<1>1. UNCHANGED lineVars
  BY DEF Next, Step, StartSignal, WaitAnswer, WaitRise, StampRise, WaitFall, StampFall, Decode,
         Preempted, vars, lineVars
<1>2. Frame'
  BY <1>1 DEF Frame, lineVars
<1>3. Control /\ Data
  BY TypeParts
<1>4. line' \in Lines /\ sent' \in [1..5 -> 0..255] /\ edge' \in [Phases -> Nat]
  BY <1>1, <1>3 DEF Control, Data, lineVars
<1>5. PollUs \in 0..PollUs /\ \A d \in Jitters : d \in Nat
  BY SamplerAssumption
<1>6. UNCHANGED <<buf, out>> => Data'
  BY <1>3, <1>4 DEF Data
<1>7. CASE StartSignal
  <2>1. Control'
    BY <1>3, <1>4, <1>5, <1>7 DEF StartSignal, Control, Steps
  <2> QED
    BY <1>6, <1>7, <2>1, <1>2, TypeParts DEF StartSignal
<1>8. CASE WaitAnswer
  <2>1. now' \in Nat
    BY <1>8, Polled DEF WaitAnswer
  <2>2. Control'
    BY <1>3, <1>4, <1>5, <1>8, <2>1 DEF WaitAnswer, Control, Steps, Pulses
  <2> QED
    BY <1>6, <1>8, <2>2, <1>2, TypeParts DEF WaitAnswer
<1>9. CASE WaitRise
  <2>1. now' \in Nat
    BY <1>9, Polled DEF WaitRise
  <2>2. Control'
    BY <1>3, <1>4, <1>9, <2>1 DEF WaitRise, Control, Steps
  <2> QED
    BY <1>6, <1>9, <2>2, <1>2, TypeParts DEF WaitRise
<1>10. CASE StampRise
  <2>1. Control'
    BY <1>3, <1>4, <1>5, <1>10 DEF StampRise, Control, Steps
  <2> QED
    BY <1>6, <1>10, <2>1, <1>2, TypeParts DEF StampRise
<1>11. CASE WaitFall
  <2>1. now' \in Nat
    BY <1>11, Polled DEF WaitFall
  <2>2. Control'
    BY <1>3, <1>4, <1>11, <2>1 DEF WaitFall, Control, Steps
  <2> QED
    BY <1>6, <1>11, <2>2, <1>2, TypeParts DEF WaitFall
<1>12. CASE StampFall
  <2>1. PICK d \in Jitters : now' = now + d /\ buf' = [buf EXCEPT ![j] = IsOne(now + d - t)]
    BY <1>12 DEF StampFall
  <2>2. /\ \/ j < 40 /\ j' = j + 1 /\ pc' = "rise" /\ left' = PollUs
           \/ j = 40 /\ pc' = "decode" /\ UNCHANGED <<j, left>>
        /\ t' = 0 /\ UNCHANGED <<preempt, ret, out>>
    BY <1>12 DEF StampFall, LastPulse
  <2>3. IsOne(now + d - t) \in {0, 1}
    BY DEF IsOne
  <2>4. buf' \in [Pulses -> {0, 1}]
    BY <1>3, <2>1, <2>3 DEF Data
  <2>5. now' \in Nat
    BY <1>3, <1>5, <2>1 DEF Control
  <2>6. j' \in Pulses /\ pc' \in Steps /\ left' \in 0..PollUs
    BY <1>3, <1>5, <2>2 DEF Control, Pulses, Steps
  <2>7. Control'
    BY <1>3, <1>4, <2>2, <2>5, <2>6 DEF Control
  <2>8. Data'
    BY <1>3, <1>4, <2>2, <2>4 DEF Data
  <2> QED
    BY <1>2, <2>7, <2>8, TypeParts
<1>13. CASE Decode
  <2> DEFINE b == [n \in 1..5 |-> GetByte(n)]
  <2>1. b \in [1..5 -> 0..255]
    BY ByteType
  <2> HIDE DEF b
  <2>2. Reading(b) \in Readings
    BY <2>1, ReadingType
  <2>3. (ret' = 0 /\ out' = Reading(b)) \/ (ret' = -1 /\ out' = out)
    BY <1>13 DEF Decode, b
  <2>4. pc' = "done" /\ now' = 0 /\ UNCHANGED <<j, left, t, buf, preempt>>
    BY <1>13 DEF Decode
  <2>5. Control'
    BY <1>3, <1>4, <2>3, <2>4 DEF Control, Steps
  <2>6. out' \in Readings
    BY <1>3, <2>2, <2>3, Zenon DEF Data
  <2>7. Data'
    BY <1>3, <1>4, <2>4, <2>6 DEF Data
  <2> QED
    BY <1>2, <2>5, <2>7, TypeParts
<1>14. ASSUME NEW d \in Preempts, Preempted(d) PROVE TypeOK'
  <2>1. d \in Nat /\ now \in Nat /\ left \in Nat /\ left <= PollUs /\ PollUs \in Nat
    BY <1>3, SamplerAssumption DEF Control
  <2>2. now' \in Nat /\ left' \in 0..PollUs
    <3>1. CASE pc \in {"answer", "rise", "fall"}
      <4> PICK level : /\ Coming(level) /\ When(level) - now <= left
                       /\ now' = When(level) + d /\ left' = left - (When(level) - now)
        BY <1>14, <3>1 DEF Preempted
      <4>1. When(level) \in Nat /\ now <= When(level)
        BY WhenAhead
      <4> QED
        BY <2>1, <4>1
    <3>2. CASE pc \in {"riseSeen", "fallSeen"}
      BY <1>3, <1>14, <2>1, <3>2 DEF Preempted, Control
    <3> QED
      BY <1>14, <3>1, <3>2 DEF Preempted
  <2>3. preempt' \in Preempts \cup {0} /\ UNCHANGED <<pc, j, t, buf, ret, out>>
    BY <1>14 DEF Preempted
  <2>4. Control'
    BY <1>3, <1>4, <2>2, <2>3 DEF Control
  <2> QED
    BY <1>6, <2>3, <2>4, TypeParts
<1>15. CASE UNCHANGED vars
  <2>1. Control'
    BY <1>3, <1>15 DEF vars, Control
  <2> QED
    BY <1>6, <1>15, <2>1, <1>2, TypeParts DEF vars
<1> QED
  BY <1>2, <1>7, <1>8, <1>9, <1>10, <1>11, <1>12, <1>13, <1>14, <1>15 DEF Next, Step

-----------------------------------------------------------------------------
(* A step of the decoder. *)

\* The margins of TimingAssumption.
LEMMA Room ==
    /\ ZeroUs \in Nat /\ ZeroUs > 0 /\ ZeroUs <= 50 /\ OneUs \in Nat /\ OneUs > 50
    /\ PollUs \in Nat /\ PollUs >= 88 /\ PollUs >= OneUs
    /\ \A d \in Jitters : d \in Nat /\ d < ZeroUs /\ ZeroUs + d <= 50 /\ OneUs - d > 50
<1>1. /\ ZeroUs \in Nat /\ ZeroUs # 0 /\ OneUs \in Nat /\ PollUs \in Nat /\ 0 \in Jitters
      /\ \A d \in Jitters : d \in Nat
  BY SamplerAssumption
<1>2. /\ \A d \in Jitters : d < ZeroUs /\ ZeroUs + d <= 50 /\ OneUs - d > 50
      /\ PollUs >= 88 /\ PollUs >= OneUs
  BY TimingAssumption
<1>3. ZeroUs + 0 <= 50 /\ OneUs - 0 > 50
  BY <1>1, <1>2
<1> QED
  BY <1>1, <1>2, <1>3

\* A step that decides no bit leaves the bits as good as they were.
LEMMA BitsKept ==
    ASSUME UNCHANGED <<lineVars, buf>>, Upto' = Upto
    PROVE  (Clean => Clean') /\ (OneWrong => OneWrong')
<1>1. \A n : Wrong(n) <=> Wrong(n)'
  BY DEF Wrong, Expected, lineVars
<1> QED
  BY <1>1 DEF Clean, OneWrong

\* A step that decides bit j can make one bit wrong at most.
LEMMA BitDecided ==
    ASSUME TypeOK, pc = "fallSeen", UNCHANGED lineVars, NEW x, buf' = [buf EXCEPT ![j] = x], Upto' = j
    PROVE  /\ Clean => OneWrong'
           /\ (j > 0 => x = Expected(j)) => (Clean => Clean') /\ (OneWrong => OneWrong')
<1>1. j \in 0..40 /\ buf \in [Pulses -> {0, 1}]
  BY DEF TypeOK, Pulses
<1>2. Upto = j - 1
  BY DEF Upto
<1>3. ASSUME NEW n \in 1..j, n # j PROVE n \in 1..Upto /\ (Wrong(n)' <=> Wrong(n))
  <2>1. n \in Pulses /\ n \in 1..Upto
    BY <1>1, <1>2, <1>3 DEF Pulses
  <2>2. buf'[n] = buf[n] /\ Expected(n)' = Expected(n)
    BY <1>1, <1>3, <2>1 DEF Expected, lineVars
  <2> QED
    BY <2>1, <2>2 DEF Wrong
<1>4. ASSUME NEW n \in 1..j, n = j, x = Expected(j) PROVE ~Wrong(n)'
  <2>1. buf'[n] = x /\ Expected(n)' = Expected(n)
    BY <1>1, <1>4 DEF Expected, lineVars, Pulses
  <2> QED
    BY <1>4, <2>1 DEF Wrong
<1>5. Clean => OneWrong'
  BY <1>3 DEF Clean, OneWrong
<1>6. ASSUME j > 0 => x = Expected(j) PROVE \A n \in 1..j : Wrong(n)' => n \in 1..Upto /\ Wrong(n)
  <2> TAKE n \in 1..j
  <2>1. CASE n = j
    BY <1>1, <1>4, <1>6, <2>1
  <2>2. CASE n # j
    BY <1>3, <2>2
  <2> QED
    BY <2>1, <2>2
<1>7. ASSUME j > 0 => x = Expected(j) PROVE (Clean => Clean') /\ (OneWrong => OneWrong')
  BY <1>6, <1>7 DEF Clean, OneWrong
<1> QED
  BY <1>5, <1>7

\* What a step starts from.
LEMMA Start ==
    ASSUME TypeOK, Frame, Timed, Bits, Readable
    PROVE  /\ pc \notin {"decode", "done"} => OnTime \/ Late
           /\ OneWrong /\ (preempt = 0 \/ line = "high" => Clean)
           /\ line = "sensor" \/ line = "high" \/ line = "low"
           /\ line = "sensor" => preempt < ZeroUs
           /\ j \in 0..40 /\ now \in Nat /\ t \in Nat /\ left \in Nat /\ preempt \in Nat
<1>1. line = "sensor" \/ line = "high" \/ line = "low"
  BY SamplerAssumption DEF TypeOK
<1>2. j \in 0..40 /\ now \in Nat /\ t \in Nat /\ left \in Nat /\ preempt \in Nat
  BY SamplerAssumption DEF TypeOK, Pulses
<1> QED
  BY <1>1, <1>2 DEF Timed, Bits, Readable

\* The release of the line starts the decoder on time.
LEMMA StartSignalStep ==
    ASSUME TypeOK, Frame, Timed, Bits, Readable, StartSignal PROVE Timed' /\ Bits'
<1>1. /\ pc = "start" /\ pc' = "answer" /\ now' = 0 /\ left' = PollUs
      /\ UNCHANGED <<lineVars, j, t, buf, preempt>>
  BY DEF StartSignal
<1>2. OnTime'
  BY <1>1 DEF OnTime
<1>3. Upto' = Upto
  BY <1>1 DEF Upto
<1>4. (Clean => Clean') /\ (OneWrong => OneWrong')
  BY <1>1, <1>3, BitsKept
<1>5. Bits'
  BY <1>1, <1>4, Start DEF Bits, lineVars
<1> QED
  BY <1>2, <1>5 DEF Timed

\* The loop for the answer ends in the answer's low phase, late or not.
LEMMA WaitAnswerStep ==
    ASSUME TypeOK, Frame, Timed, Bits, Readable, WaitAnswer PROVE Timed' /\ Bits'
<1>1. /\ pc = "answer" /\ pc' = "rise" /\ j' = 0 /\ left' = PollUs
      /\ UNCHANGED <<lineVars, t, buf, preempt>> /\ Poll(LOW, 1)
  BY DEF WaitAnswer
<1>2. OnTime'
  <2>1. CASE line = "sensor"
    <3>1. edge[0] = 30 /\ edge[1] = 110
      BY Timeline DEF Pulses
    <3>2. edge[0] <= now' /\ now' < edge[1]
      <4>1. CASE OnTime
        <5>1. now = 0 /\ left = PollUs
          BY <1>1, <2>1, <4>1 DEF OnTime
        <5>2. Coming(LOW) /\ When(LOW) = edge[0]
          BY <2>1, <3>1, <5>1, SensorLevels DEF Phases
        <5>3. now' = 1 + edge[0]
          BY <1>1, <3>1, <5>1, <5>2, Polled, Room
        <5> QED
          BY <3>1, <5>3
      <4>2. CASE Late
        <5>1. now = 30 + preempt /\ preempt \in Nat /\ preempt < 50
          BY <1>1, <2>1, <3>1, <4>2, Start, Room DEF Late
        <5>2. Coming(LOW) /\ When(LOW) = now
          BY <2>1, <3>1, <5>1, SensorLevels DEF Phases
        <5>3. now' = 1 + now
          BY <1>1, <5>1, <5>2, Polled, Start
        <5> QED
          BY <3>1, <5>1, <5>3
      <4> QED
        BY <1>1, <4>1, <4>2, Start
    <3> QED
      BY <1>1, <2>1, <3>2 DEF OnTime, lineVars
  <2>2. CASE line # "sensor"
    BY <1>1, <2>2 DEF OnTime, lineVars
  <2> QED
    BY <2>1, <2>2
<1>3. Upto' = -1
  BY <1>1 DEF Upto
<1>4. Clean' /\ OneWrong'
  BY <1>3 DEF Clean, OneWrong
<1> QED
  BY <1>2, <1>4 DEF Timed, Bits

\* The loop for the rise ends on the edge, or at once inside the pulse when late.
LEMMA WaitRiseStep ==
    ASSUME TypeOK, Frame, Timed, Bits, Readable, WaitRise PROVE Timed' /\ Bits'
<1>1. /\ pc = "rise" /\ pc' = "riseSeen" /\ UNCHANGED <<lineVars, j, left, t, buf, preempt>>
      /\ Poll(HIGH, 0)
  BY DEF WaitRise
<1>2. Upto' = Upto
  BY <1>1 DEF Upto
<1>3. (Clean => Clean') /\ (OneWrong => OneWrong')
  BY <1>1, <1>2, BitsKept
<1>4. Bits'
  BY <1>1, <1>3, Start DEF Bits, lineVars
<1>5. OnTime' \/ Late'
  <2>1. CASE line = "sensor"
    <3> DEFINE low == edge[2 * j]  rise == edge[2 * j + 1]  fall == edge[2 * j + 2]
    <3>1. /\ low \in Nat /\ rise \in Nat /\ fall \in Nat /\ low < rise /\ rise <= low + 80
          /\ rise + ZeroUs <= fall
      BY Timeline DEF TypeOK
    <3>2. CASE OnTime
      <4>1. low <= now /\ now < rise /\ left = PollUs
        BY <1>1, <2>1, <3>2 DEF OnTime
      <4>2. Coming(HIGH) /\ When(HIGH) = rise
        <5> DEFINE c == 2 * j + 1
        <5>1. c \in Phases /\ c - 1 = 2 * j /\ c % 2 = 1
          BY Start DEF Phases
        <5> HIDE DEF c
        <5>2. c > 0 => edge[c - 1] <= now
          BY <4>1, <5>1
        <5>3. now < edge[c]
          BY <4>1 DEF c
        <5> QED
          BY <2>1, <5>1, <5>2, <5>3, SensorLevels DEF c
      <4>3. now' = rise
        <5> HIDE DEF low, rise, fall
        <5>1. When(HIGH) - now <= left
          BY <3>1, <4>1, <4>2, Start, Room
        <5>2. now' = 0 + When(HIGH)
          BY <1>1, <4>2, <5>1, Polled
        <5> QED
          BY <3>1, <4>2, <5>2
      <4> QED
        BY <1>1, <2>1, <4>3 DEF OnTime, lineVars
    <3>3. CASE Late
      <4>1. rise <= now /\ now <= rise + preempt /\ Clean /\ preempt # 0
        BY <1>1, <2>1, <3>3 DEF Late
      <4>2. now < fall
        <5> HIDE DEF low, rise, fall
        <5> QED
          BY <2>1, <3>1, <4>1, Start, Room
      <4>3. Coming(HIGH) /\ When(HIGH) = now
        <5> DEFINE c == 2 * j + 2
        <5>1. c \in Phases /\ c - 1 = 2 * j + 1 /\ c % 2 = 0
          BY Start DEF Phases
        <5> HIDE DEF c
        <5>2. c > 0 => edge[c - 1] <= now
          BY <4>1, <5>1
        <5>3. now < edge[c]
          BY <4>2 DEF c
        <5> QED
          BY <2>1, <5>1, <5>2, <5>3, SensorLevels
      <4>4. now' = now
        <5>1. now' = 0 + now
          BY <1>1, <4>3, Polled, Start
        <5> QED
          BY <5>1, Start
      <4> QED
        BY <1>1, <1>3, <2>1, <4>1, <4>4 DEF Late, lineVars
    <3> QED
      BY <1>1, <3>2, <3>3, Start
  <2>2. CASE line # "sensor"
    BY <1>1, <2>2 DEF OnTime, lineVars
  <2> QED
    BY <2>1, <2>2
<1> QED
  BY <1>4, <1>5 DEF Timed

\* A delayed stamp of the rise still lies inside the pulse, or at most 50 us behind it.
LEMMA StampRiseStep ==
    ASSUME TypeOK, Frame, Timed, Bits, Readable, StampRise PROVE Timed' /\ Bits'
<1>1. PICK d \in Jitters : now' = now + d /\ t' = now + d
  BY DEF StampRise
<1>2. pc = "riseSeen" /\ pc' = "fall" /\ left' = PollUs /\ UNCHANGED <<lineVars, j, buf, preempt>>
  BY DEF StampRise
<1>3. Upto' = Upto
  BY <1>2 DEF Upto
<1>4. (Clean => Clean') /\ (OneWrong => OneWrong')
  BY <1>2, <1>3, BitsKept
<1>5. Bits'
  BY <1>2, <1>4, Start DEF Bits, lineVars
<1>6. OnTime' \/ Late'
  <2>1. CASE line = "sensor"
    <3> DEFINE rise == edge[2 * j + 1]  fall == edge[2 * j + 2]
    <3>1. rise \in Nat /\ fall \in Nat /\ rise + ZeroUs <= fall
      BY Timeline DEF TypeOK
    <3>2. CASE OnTime
      <4>1. now = rise
        BY <1>2, <2>1, <3>2 DEF OnTime
      <4> QED
        BY <1>1, <1>2, <2>1, <4>1 DEF OnTime, lineVars
    <3>3. CASE Late
      <4>1. rise <= now /\ now <= rise + preempt /\ Clean /\ preempt # 0
        BY <1>2, <2>1, <3>3 DEF Late
      <4>2. rise <= now' /\ \A e \in Jitters : now' + e < fall + 50
        <5> HIDE DEF rise, fall
        <5> QED
          BY <1>1, <2>1, <3>1, <4>1, Start, Room
      <4> QED
        BY <1>2, <1>4, <2>1, <4>1, <4>2 DEF Late, lineVars
    <3> QED
      BY <1>2, <3>2, <3>3, Start
  <2>2. CASE line # "sensor"
    <3>1. now' = t' /\ t' <= now'
      BY <1>1, Start, Room
    <3> QED
      BY <1>2, <2>2, <3>1 DEF OnTime, lineVars
  <2> QED
    BY <2>1, <2>2
<1> QED
  BY <1>5, <1>6 DEF Timed

\* The loop for the fall ends on the edge, or at once in the low phase after it.
LEMMA WaitFallStep ==
    ASSUME TypeOK, Frame, Timed, Bits, Readable, WaitFall PROVE Timed' /\ Bits'
<1>1. /\ pc = "fall" /\ pc' = "fallSeen" /\ UNCHANGED <<lineVars, j, left, t, buf, preempt>>
      /\ Poll(LOW, 0)
  BY DEF WaitFall
<1>2. Upto' = Upto
  BY <1>1 DEF Upto
<1>3. (Clean => Clean') /\ (OneWrong => OneWrong')
  BY <1>1, <1>2, BitsKept
<1>4. Bits'
  BY <1>1, <1>3, Start DEF Bits, lineVars
<1>5. OnTime' \/ Late'
  <2>1. CASE line = "sensor"
    <3> DEFINE rise == edge[2 * j + 1]  fall == edge[2 * j + 2]  next == edge[2 * j + 3]
    <3>1. /\ rise \in Nat /\ fall \in Nat /\ rise + ZeroUs <= fall /\ fall <= rise + PollUs
          /\ next = fall + 50
      BY Timeline DEF TypeOK
    <3>2. ASSUME rise <= now, now < fall, left = PollUs PROVE now' = fall
      <4>1. Coming(LOW) /\ When(LOW) = fall
        <5> DEFINE c == 2 * j + 2
        <5>1. c \in Phases /\ c - 1 = 2 * j + 1 /\ c % 2 = 0
          BY Start DEF Phases
        <5> HIDE DEF c
        <5>2. c > 0 => edge[c - 1] <= now
          BY <3>2, <5>1
        <5>3. now < edge[c]
          BY <3>2 DEF c
        <5> QED
          BY <2>1, <5>1, <5>2, <5>3, SensorLevels DEF c
      <4> HIDE DEF rise, fall, next
      <4>2. When(LOW) - now <= left
        BY <3>1, <3>2, <4>1, Start, Room
      <4>3. now' = 0 + When(LOW)
        BY <1>1, <4>1, <4>2, Polled
      <4> QED
        BY <3>1, <4>1, <4>3
    <3>3. CASE OnTime
      <4>1. PICK d \in Jitters : t = rise + d
        BY <1>1, <2>1, <3>3 DEF OnTime
      <4>2. now = t /\ left = PollUs
        BY <1>1, <2>1, <3>3 DEF OnTime
      <4>3. rise <= now /\ now < fall
        <5> HIDE DEF rise, fall, next
        <5> QED
          BY <3>1, <4>1, <4>2, Room
      <4>4. now' = fall
        BY <3>2, <4>2, <4>3
      <4> QED
        BY <1>1, <2>1, <4>1, <4>4 DEF OnTime, lineVars
    <3>4. CASE Late
      <4>1. /\ rise <= now /\ (left = PollUs \/ fall <= now) /\ Clean /\ preempt # 0
            /\ \A d \in Jitters : now + d < fall + 50
        BY <1>1, <2>1, <3>4 DEF Late
      <4>2. now < next
        <5>1. 0 \in Jitters
          BY SamplerAssumption
        <5> HIDE DEF rise, fall, next
        <5>2. now + 0 < fall + 50
          BY <4>1, <5>1
        <5> QED
          BY <3>1, <5>2, Start
      <4>3. fall <= now' /\ \A d \in Jitters : now' + d < fall + 50
        <5>1. CASE now < fall
          <6>1. now' = fall
            BY <3>1, <3>2, <4>1, <5>1, Start
          <6> HIDE DEF rise, fall, next
          <6> QED
            BY <3>1, <6>1, Room
        <5>2. CASE ~(now < fall)
          <6>0. fall <= now
            BY <3>1, <5>2, Start
          <6>1. Coming(LOW) /\ When(LOW) = now
            <7> DEFINE c == 2 * j + 3
            <7>1. c \in Phases /\ c - 1 = 2 * j + 2 /\ c % 2 = 1
              BY Start DEF Phases
            <7> HIDE DEF c
            <7>2. c > 0 => edge[c - 1] <= now
              BY <6>0, <7>1
            <7>3. now < edge[c]
              BY <4>2 DEF c
            <7> QED
              BY <2>1, <7>1, <7>2, <7>3, SensorLevels
          <6>2. now' = 0 + now
            BY <1>1, <6>1, Polled, Start
          <6>3. now' = now
            BY <6>2, Start
          <6> HIDE DEF rise, fall, next
          <6> QED
            BY <4>1, <6>0, <6>3
        <5> QED
          BY <5>1, <5>2
      <4> QED
        BY <1>1, <1>3, <2>1, <4>1, <4>3 DEF Late, lineVars
    <3> QED
      BY <1>1, <3>3, <3>4, Start
  <2>2. CASE line = "high"
    <3>1. t <= now /\ left = PollUs
      BY <1>1, <2>2, Start DEF OnTime, Late
    <3>2. now' = 0 + now + left
      BY <1>1, <2>2, StuckLevels, Polled
    <3>3. t + PollUs <= now'
      BY <3>1, <3>2, Start, Room
    <3> QED
      BY <1>1, <2>2, <3>3 DEF OnTime, lineVars
  <2>3. CASE line = "low"
    <3>1. now' = 0 + now
      BY <1>1, <2>3, StuckLevels, Polled, Start
    <3>2. now' = now
      BY <3>1, Start
    <3>3. CASE OnTime
      BY <1>1, <2>3, <3>2, <3>3 DEF OnTime, lineVars
    <3>4. CASE Late
      BY <1>1, <1>3, <2>3, <3>4 DEF Late, lineVars
    <3> QED
      BY <1>1, <3>3, <3>4, Start
  <2> QED
    BY <2>1, <2>2, <2>3, Start
<1> QED
  BY <1>4, <1>5 DEF Timed

\* The length on time decides the bit; a late one may be wrong, and the next pulse is on time.
LEMMA StampFallStep ==
    ASSUME TypeOK, Frame, Timed, Bits, Readable, StampFall PROVE Timed' /\ Bits'
<1>1. PICK d \in Jitters : now' = now + d /\ buf' = [buf EXCEPT ![j] = IsOne(now + d - t)]
  BY DEF StampFall
<1>2. /\ \/ j < 40 /\ j' = j + 1 /\ pc' = "rise" /\ left' = PollUs
         \/ j = 40 /\ pc' = "decode" /\ UNCHANGED <<j, left>>
      /\ pc = "fallSeen" /\ UNCHANGED <<lineVars, preempt>>
  BY DEF StampFall, LastPulse
<1> DEFINE x == IsOne(now + d - t)
<1>3. Upto' = j
  BY <1>2, Start DEF Upto
<1>4. /\ Clean => OneWrong'
      /\ (j > 0 => x = Expected(j)) => (Clean => Clean') /\ (OneWrong => OneWrong')
  BY <1>1, <1>2, <1>3, BitDecided
<1>5. OnTime \/ Late
  BY <1>2, Start
<1>6. CASE line = "sensor"
  <2> DEFINE rise == edge[2 * j + 1]  fall == edge[2 * j + 2]  next == edge[2 * j + 3]
  <2>1. /\ rise \in Nat /\ fall \in Nat /\ next = fall + 50
        /\ j > 0 => fall = rise + PulseUs(sent, j)
    BY Timeline DEF TypeOK
  <2>2. ASSUME fall <= now', now' < next PROVE Timed'
    <3>1. CASE j < 40
      <4>1. 2 * j' = 2 * j + 2 /\ 2 * j' + 1 = 2 * j + 3 /\ pc' = "rise" /\ left' = PollUs
        BY <1>2, <3>1, Start
      <4>2. OnTime'
        BY <1>2, <1>6, <2>2, <4>1 DEF OnTime, lineVars
      <4> QED
        BY <4>2 DEF Timed
    <3>2. CASE j = 40
      BY <1>2, <3>2 DEF Timed
    <3> QED
      BY <3>1, <3>2, Start
  <2>3. CASE OnTime
    <3>1. PICK e \in Jitters : t = rise + e
      BY <1>2, <1>6, <2>3 DEF OnTime
    <3>2. now = fall
      BY <1>2, <1>6, <2>3 DEF OnTime
    <3>3. fall <= now' /\ now' < next
      <4> HIDE DEF rise, fall, next
      <4> QED
        BY <1>1, <2>1, <3>2, Room
    <3>4. ASSUME j > 0 PROVE x = Expected(j)
      <4>1. FrameBit(sent, j) \in Bit
        BY <3>4, BitType, Start DEF TypeOK
      <4>2. Expected(j) = FrameBit(sent, j)
        BY <1>6 DEF Expected
      <4>3. CASE FrameBit(sent, j) = 1
        <5>1. fall = rise + OneUs
          BY <2>1, <3>4, <4>3 DEF PulseUs
        <5> HIDE DEF rise, fall, next
        <5>2. now + d - t > 50
          BY <2>1, <3>1, <3>2, <5>1, Room
        <5> QED
          BY <4>2, <4>3, <5>2 DEF IsOne
      <4>4. CASE FrameBit(sent, j) = 0
        <5>1. fall = rise + ZeroUs
          BY <2>1, <3>4, <4>4 DEF PulseUs
        <5> HIDE DEF rise, fall, next
        <5>2. ~(now + d - t > 50)
          BY <2>1, <3>1, <3>2, <5>1, Room
        <5> QED
          BY <4>2, <4>4, <5>2 DEF IsOne
      <4> QED
        BY <4>1, <4>3, <4>4 DEF Bit
    <3>5. Bits'
      BY <1>2, <1>4, <1>6, <3>4, Start DEF Bits, lineVars
    <3> QED
      BY <2>2, <3>3, <3>5
  <2>4. CASE Late
    <3>1. fall <= now /\ now + d < fall + 50 /\ Clean /\ preempt # 0
      BY <1>2, <1>6, <2>4 DEF Late
    <3>2. fall <= now' /\ now' < next
      <4> HIDE DEF rise, fall, next
      <4> QED
        BY <1>1, <2>1, <3>1, Start, Room
    <3>3. Bits'
      BY <1>2, <1>4, <1>6, <3>1 DEF Bits, lineVars
    <3> QED
      BY <2>2, <3>2, <3>3
  <2> QED
    BY <1>5, <2>3, <2>4
<1>7. CASE line # "sensor"
  <2>1. Timed'
    BY <1>2, <1>7 DEF Timed, OnTime, lineVars
  <2>2. CASE line = "high"
    <3>1. t + PollUs <= now /\ Clean
      BY <1>2, <1>5, <2>2, Start DEF OnTime, Late
    <3>2. now + d - t > 50
      BY <3>1, Start, Room
    <3>3. x = Expected(j)
      BY <2>2, <3>2 DEF IsOne, Expected
    <3>4. Bits'
      BY <1>2, <1>4, <3>1, <3>3, Start DEF Bits, lineVars
    <3> QED
      BY <2>1, <3>4
  <2>3. CASE line = "low" /\ OnTime
    <3>1. now = t
      BY <1>2, <2>3 DEF OnTime
    <3>2. ~(now + d - t > 50)
      BY <3>1, Start, Room
    <3>3. x = Expected(j)
      BY <2>3, <3>2 DEF IsOne, Expected
    <3>4. Bits'
      BY <1>2, <1>4, <2>3, <3>3, Start DEF Bits, lineVars
    <3> QED
      BY <2>1, <3>4
  <2>4. CASE line = "low" /\ Late
    <3>1. Clean /\ preempt # 0
      BY <2>4 DEF Late
    <3>2. Bits'
      BY <1>2, <1>4, <2>4, <3>1 DEF Bits, lineVars
    <3> QED
      BY <2>1, <3>2
  <2> QED
    BY <1>5, <1>7, <2>2, <2>3, <2>4, Start
<1> QED
  BY <1>6, <1>7

\* The one preemption makes the decoder late by less than a pulse.
LEMMA PreemptedStep ==
    ASSUME TypeOK, Frame, Timed, Bits, Readable, Readable', NEW d \in Preempts, Preempted(d)
    PROVE  Timed' /\ Bits'
<1>1. /\ preempt = 0 /\ preempt' = d /\ UNCHANGED <<lineVars, pc, j, t, buf>>
      /\ pc \in {"answer", "rise", "fall", "riseSeen", "fallSeen"}
  BY DEF Preempted
<1>2. /\ pc \in {"riseSeen", "fallSeen"} => now' = now + d
      /\ pc = "rise" => Coming(HIGH) /\ now' = When(HIGH) + d
      /\ pc \in {"answer", "fall"} => Coming(LOW) /\ now' = When(LOW) + d
  BY DEF Preempted
<1>3. OnTime /\ Clean
  BY <1>1, Start DEF Late
<1>4. d \in Nat /\ d # 0 /\ (line = "sensor" => d < ZeroUs)
  BY <1>1, SamplerAssumption DEF Readable, lineVars
<1>5. Upto' = Upto
  BY <1>1 DEF Upto
<1>6. Clean' /\ OneWrong'
  BY <1>1, <1>3, <1>5, BitsKept, Start
<1>7. Bits'
  BY <1>6 DEF Bits
<1>8. CASE line = "high"
  <2>1. pc \in {"rise", "riseSeen", "fallSeen"}
    BY <1>1, <1>2, <1>8, StuckLevels
  <2>2. pc = "fallSeen" => t + PollUs <= now'
    BY <1>2, <1>3, <1>4, <1>8, Start, Room DEF OnTime
  <2>3. OnTime'
    BY <1>1, <1>8, <2>1, <2>2 DEF OnTime, lineVars
  <2> QED
    BY <1>7, <2>3 DEF Timed
<1>9. CASE line = "low"
  <2>1. Late'
    BY <1>1, <1>4, <1>6, <1>9 DEF Late, lineVars
  <2> QED
    BY <1>7, <2>1 DEF Timed
<1>10. CASE line = "sensor"
  <2> DEFINE low == edge[2 * j]  rise == edge[2 * j + 1]  fall == edge[2 * j + 2]
  <2>1. /\ rise \in Nat /\ fall \in Nat /\ rise + ZeroUs <= fall /\ edge[0] = 30
    BY Timeline DEF TypeOK
  <2>2. CASE pc = "answer"
    <3>1. now = 0
      BY <1>3, <1>10, <2>2 DEF OnTime
    <3>2. When(LOW) = edge[0]
      BY <1>10, <2>1, <3>1, SensorLevels DEF Phases
    <3>3. Late'
      BY <1>1, <1>2, <1>4, <1>6, <1>10, <2>2, <3>2 DEF Late, lineVars
    <3> QED
      BY <1>7, <3>3 DEF Timed
  <2>3. CASE pc = "rise"
    <3>1. low <= now /\ now < rise
      BY <1>3, <1>10, <2>3 DEF OnTime
    <3>2. When(HIGH) = rise
      <4> DEFINE c == 2 * j + 1
      <4>1. c \in Phases /\ c - 1 = 2 * j /\ c % 2 = 1
        BY Start DEF Phases
      <4> HIDE DEF c
      <4>2. c > 0 => edge[c - 1] <= now
        BY <3>1, <4>1
      <4>3. now < edge[c]
        BY <3>1 DEF c
      <4> QED
        BY <1>10, <4>1, <4>2, <4>3, SensorLevels DEF c
    <3>3. rise <= now' /\ now' <= rise + preempt'
      <4> HIDE DEF low, rise, fall
      <4> QED
        BY <1>1, <1>2, <1>4, <2>1, <2>3, <3>2
    <3>4. Late'
      BY <1>1, <1>4, <1>6, <1>10, <2>3, <3>3 DEF Late, lineVars
    <3> QED
      BY <1>7, <3>4 DEF Timed
  <2>4. CASE pc = "riseSeen"
    <3>1. now = rise
      BY <1>3, <1>10, <2>4 DEF OnTime
    <3>2. rise <= now' /\ now' <= rise + preempt'
      <4> HIDE DEF low, rise, fall
      <4> QED
        BY <1>1, <1>2, <1>4, <2>1, <2>4, <3>1
    <3>3. Late'
      BY <1>1, <1>4, <1>6, <1>10, <2>4, <3>2 DEF Late, lineVars
    <3> QED
      BY <1>7, <3>3 DEF Timed
  <2>5. CASE pc \in {"fall", "fallSeen"}
    <3>1. PICK e \in Jitters : t = rise + e
      BY <1>3, <1>10, <2>5 DEF OnTime
    <3>2. now' = fall + d
      <4>1. CASE pc = "fallSeen"
        BY <1>2, <1>3, <1>10, <4>1 DEF OnTime
      <4>2. CASE pc = "fall"
        <5>1. now = t
          BY <1>3, <1>10, <4>2 DEF OnTime
        <5>2. rise <= now /\ now < fall
          <6> HIDE DEF low, rise, fall
          <6> QED
            BY <2>1, <3>1, <5>1, Room
        <5>3. When(LOW) = fall
          <6> DEFINE c == 2 * j + 2
          <6>1. c \in Phases /\ c - 1 = 2 * j + 1 /\ c % 2 = 0
            BY Start DEF Phases
          <6> HIDE DEF c
          <6>2. c > 0 => edge[c - 1] <= now
            BY <5>2, <6>1
          <6>3. now < edge[c]
            BY <5>2 DEF c
          <6> QED
            BY <1>10, <6>1, <6>2, <6>3, SensorLevels DEF c
        <5> QED
          BY <1>2, <4>2, <5>3
      <4> QED
        BY <2>5, <4>1, <4>2
    <3>3. rise <= now' /\ fall <= now' /\ \A g \in Jitters : now' + g < fall + 50
      <4> HIDE DEF low, rise, fall
      <4> QED
        BY <1>4, <1>10, <2>1, <3>2, Room
    <3>4. Late'
      BY <1>1, <1>4, <1>6, <1>10, <2>5, <3>3 DEF Late, lineVars
    <3> QED
      BY <1>7, <3>4 DEF Timed
  <2> QED
    BY <1>1, <2>2, <2>3, <2>4, <2>5
<1> QED
  BY <1>8, <1>9, <1>10, Start

-----------------------------------------------------------------------------
(* The decoded measurement. *)

\* The five bytes that a line sends when no bit of it is misread, and those decoded.
Meant   == CASE line = "sensor" -> sent
             [] line = "high" -> [n \in 1..5 |-> 255]
             [] OTHER -> [n \in 1..5 |-> 0]
Decoded == [n \in 1..5 |-> GetByte(n)]

\* A byte without a wrong bit is the byte that the line means.
LEMMA MeantByte ==
    ASSUME TypeOK, line \in {"sensor", "high", "low"}, NEW b \in 1..5,
           \A n \in 1..8 : ~Wrong((b - 1) * 8 + n)
    PROVE  GetByte(b) = Meant[b]
<1> DEFINE x == Bits8(b)
<1>1. GetByte(b) = Weigh(x)
  BY ByteType
<1>2. \A n \in 1..8 : x[n] = Expected((b - 1) * 8 + n)
  BY DEF Wrong, Bits8
<1> HIDE DEF x
<1>3. CASE line = "sensor"
  <2>1. \A n \in 1..8 : x[n] = BitOf(sent[b], n)
    BY <1>2, <1>3, FrameBits DEF Expected
  <2>2. sent[b] \in 0..255
    BY DEF TypeOK
  <2>3. Weigh(x) = sent[b]
    BY <2>1, <2>2, Recomposed
  <2> QED
    BY <1>1, <1>3, <2>3 DEF Meant
<1>4. CASE line = "high"
  <2>1. \A n \in 1..8 : x[n] = 1
    BY <1>2, <1>4 DEF Expected
  <2>2. x[1] = 1 /\ x[2] = 1 /\ x[3] = 1 /\ x[4] = 1 /\ x[5] = 1 /\ x[6] = 1 /\ x[7] = 1 /\ x[8] = 1
    BY <2>1
  <2>3. Weigh(x) = 255
    BY <2>2 DEF Weigh
  <2> QED
    BY <1>1, <1>4, <2>3 DEF Meant
<1>5. CASE line = "low"
  <2>1. \A n \in 1..8 : x[n] = 0
    BY <1>2, <1>5 DEF Expected
  <2>2. x[1] = 0 /\ x[2] = 0 /\ x[3] = 0 /\ x[4] = 0 /\ x[5] = 0 /\ x[6] = 0 /\ x[7] = 0 /\ x[8] = 0
    BY <2>1
  <2>3. Weigh(x) = 0
    BY <2>2 DEF Weigh
  <2> QED
    BY <1>1, <1>5, <2>3 DEF Meant
<1> QED
  BY <1>3, <1>4, <1>5

\* Bytes without a wrong bit are the bytes meant, and one wrong bit is in one byte.
LEMMA DecodedBytes ==
    ASSUME TypeOK, line \in {"sensor", "high", "low"}, Upto = 40
    PROVE  /\ Decoded \in [1..5 -> 0..255] /\ Meant \in [1..5 -> 0..255]
           /\ Clean => Decoded = Meant
           /\ OneWrong => \E i \in 1..5 : \A k \in 1..5 : k # i => Decoded[k] = Meant[k]
<1>1. Decoded \in [1..5 -> 0..255]
  BY ByteType DEF Decoded
<1>2. Meant \in [1..5 -> 0..255]
  BY DEF Meant, TypeOK
<1>3. \A k \in 1..5 : \A n \in 1..8 : (k - 1) * 8 + n \in 1..40
  OBVIOUS
<1>4. ASSUME Clean PROVE Decoded = Meant
  <2>1. \A k \in 1..5 : \A n \in 1..8 : ~Wrong((k - 1) * 8 + n)
    BY <1>3, <1>4 DEF Clean
  <2>2. \A k \in 1..5 : Decoded[k] = Meant[k]
    BY <2>1, MeantByte DEF Decoded
  <2> QED
    BY <1>1, <1>2, <2>2
<1>5. ASSUME OneWrong, ~Clean PROVE \E i \in 1..5 : \A k \in 1..5 : k # i => Decoded[k] = Meant[k]
  <2>1. PICK m \in 1..40 : Wrong(m)
    BY <1>5 DEF Clean
  <2>2. \A n \in 1..40 : n # m => ~Wrong(n)
    BY <1>5, <2>1 DEF OneWrong
  <2> DEFINE i == (m - 1) \div 8 + 1
  <2>3. i \in 1..5 /\ \A k \in 1..5 : \A n \in 1..8 : k # i => (k - 1) * 8 + n # m
    OBVIOUS
  <2> HIDE DEF i
  <2>4. \A k \in 1..5 : k # i => \A n \in 1..8 : ~Wrong((k - 1) * 8 + n)
    BY <1>3, <2>2, <2>3
  <2>5. \A k \in 1..5 : k # i => Decoded[k] = Meant[k]
    BY <2>4, MeantByte DEF Decoded
  <2> QED
    BY <2>3, <2>5
<1> QED
  BY <1>1, <1>2, <1>4, <1>5

\* Of what a sensor or a low line sends, one misread bit never passes for a measurement;
\* a high line does not pass for one either.
LEMMA DecodedIsMeant ==
    ASSUME TypeOK, Frame, line \in {"sensor", "high", "low"}, Upto = 40, OneWrong,
           line = "high" => Clean, Consistent(Decoded)
    PROVE  line # "high" /\ Decoded = Meant
<1>1. Decoded \in [1..5 -> 0..255] /\ Meant \in [1..5 -> 0..255]
  BY DecodedBytes
<1>2. line # "high"
  <2>1. ASSUME line = "high" PROVE FALSE
    <3>1. Decoded = [n \in 1..5 |-> 255]
      BY <2>1, DecodedBytes DEF Meant
    <3>2. Decoded[1] = 255 /\ Decoded[2] = 255 /\ Decoded[3] = 255 /\ Decoded[4] = 255 /\ Decoded[5] = 255
      BY <3>1
    <3> QED
      BY <3>2 DEF Consistent, Checksum
  <2> QED
    BY <2>1
<1>3. Consistent(Meant)
  <2>1. CASE line = "sensor"
    BY <2>1 DEF Meant, Frame
  <2>2. CASE line = "low"
    <3>1. Meant = [n \in 1..5 |-> 0]
      BY <2>2 DEF Meant
    <3>2. Meant[1] = 0 /\ Meant[2] = 0 /\ Meant[3] = 0 /\ Meant[4] = 0 /\ Meant[5] = 0
      BY <3>1
    <3> QED
      BY <3>2 DEF Consistent, Checksum
  <2> QED
    BY <1>2, <2>1, <2>2
<1>4. PICK i \in 1..5 : \A k \in 1..5 : k # i => Decoded[k] = Meant[k]
  BY DecodedBytes
<1>5. Decoded[i] = Meant[i]
  BY <1>1, <1>3, <1>4, OneByteOff
<1>6. \A k \in 1..5 : Decoded[k] = Meant[k]
  BY <1>4, <1>5
<1> QED
  BY <1>1, <1>2, <1>6

\* The reading of the bytes that a line means.
LEMMA ReadingMeant ==
    ASSUME TypeOK
    PROVE  /\ line = "sensor" => Reading(Meant) = Truth
           /\ line = "low" => Reading(Meant) = [humidity |-> 0, temperature |-> 0]
<1>1. ASSUME line = "sensor" PROVE Reading(Meant) = Truth
  <2>1. Meant = sent
    BY <1>1 DEF Meant
  <2>2. sent[1] \in Nat /\ sent[2] \in Nat /\ sent[3] \in 0..255 /\ sent[3] \in Nat /\ sent[4] \in Nat
    BY DEF TypeOK
  <2>3. \A v \in 0..255 : v % 128 = IF v >= 128 THEN v - 128 ELSE v
    OBVIOUS
  <2>4. sent[3] % 128 = IF sent[3] >= 128 THEN sent[3] - 128 ELSE sent[3]
    BY <2>2, <2>3, Zenon
  <2> QED
    BY <2>1, <2>2, <2>4 DEF Reading, Truth
<1>2. ASSUME line = "low" PROVE Reading(Meant) = [humidity |-> 0, temperature |-> 0]
  <2>1. Meant = [n \in 1..5 |-> 0]
    BY <1>2 DEF Meant
  <2>2. Meant[1] = 0 /\ Meant[2] = 0 /\ Meant[3] = 0 /\ Meant[4] = 0
    BY <2>1
  <2> QED
    BY <2>2 DEF Reading
<1> QED
  BY <1>1, <1>2

\* The end of the measurement.
LEMMA DecodeStep ==
    ASSUME TypeOK, Frame, Timed, Bits, Decode
    PROVE  Timed' /\ Bits' /\ ExactDecode' /\ NeverWrong' /\ SilentLine'
<1>1. pc = "decode" /\ pc' = "done" /\ UNCHANGED <<lineVars, j, buf, preempt>>
  BY DEF Decode
<1>2. /\ Consistent(Decoded) => ret' = 0 /\ out' = Reading(Decoded)
      /\ ~Consistent(Decoded) => ret' = -1
  BY DEF Decode, Decoded
<1>3. Upto = 40 /\ Upto' = Upto
  BY <1>1 DEF Upto
<1>4. (Clean => Clean') /\ (OneWrong => OneWrong')
  BY <1>1, <1>3, BitsKept
<1>5. Timed' /\ Bits'
  BY <1>1, <1>4 DEF Timed, Bits, Readable, lineVars
<1>6. line \in {"sensor", "high", "low"} /\ Truth' = Truth
  BY <1>1, SamplerAssumption DEF TypeOK, Truth, lineVars
<1>7. ASSUME Readable, Consistent(Decoded) PROVE line # "high" /\ out' = Reading(Meant)
  BY <1>2, <1>3, <1>6, <1>7, DecodedIsMeant DEF Bits
<1>8. ExactDecode'
  <2> SUFFICES ASSUME line = "sensor", preempt = 0 PROVE ret' = 0 /\ out' = Truth
    BY <1>1, <1>6 DEF ExactDecode, lineVars
  <2>1. Readable
    BY Room DEF Readable
  <2>2. Decoded = Meant
    BY <1>3, <1>6, <2>1, DecodedBytes DEF Bits
  <2>3. Consistent(Meant)
    BY DEF Meant, Frame
  <2> QED
    BY <1>2, <1>7, <2>1, <2>2, <2>3, ReadingMeant
<1>9. NeverWrong'
  <2> SUFFICES ASSUME line = "sensor", preempt < ZeroUs PROVE ret' = -1 \/ out' = Truth
    BY <1>1, <1>6 DEF NeverWrong, lineVars
  <2>1. Readable
    BY DEF Readable
  <2> QED
    BY <1>2, <1>7, <2>1, ReadingMeant
<1>10. SilentLine'
  <2> SUFFICES ASSUME line # "sensor"
               PROVE  ret' = -1 \/ (line = "low" /\ out' = [humidity |-> 0, temperature |-> 0])
    BY <1>1 DEF SilentLine, lineVars
  <2>1. Readable
    BY DEF Readable
  <2> QED
    BY <1>2, <1>6, <1>7, <2>1, ReadingMeant
<1> QED
  BY <1>5, <1>8, <1>9, <1>10

-----------------------------------------------------------------------------
(* The theorems. *)

\* The inductive invariant holds at the start ...
LEMMA InitIInv == Init => IInv
<1> SUFFICES ASSUME Init PROVE IInv
  OBVIOUS
<1>1. TypeOK /\ Frame
  BY InitTypes
<1>2. pc = "start" /\ j = 0 /\ preempt = 0
  BY DEF Init
<1>3. OnTime
  BY <1>2 DEF OnTime
<1>4. Clean /\ OneWrong
  <2>1. Upto = -1
    BY <1>2 DEF Upto
  <2> QED
    BY <2>1 DEF Clean, OneWrong
<1> QED
  BY <1>1, <1>2, <1>3, <1>4 DEF IInv, Timed, Bits, ExactDecode, NeverWrong, SilentLine, Done

\* ... is kept by every step ...
LEMMA NextIInv == IInv /\ [Next]_vars => IInv'
<1> SUFFICES ASSUME IInv, [Next]_vars PROVE IInv'
  OBVIOUS
<1>1. TypeOK /\ Frame /\ Timed /\ Bits
  BY DEF IInv
<1>2. TypeOK' /\ Frame'
  BY <1>1, NextTypes
<1>3. ASSUME pc' # "done" PROVE ExactDecode' /\ NeverWrong' /\ SilentLine'
  BY <1>3 DEF ExactDecode, NeverWrong, SilentLine, Done
<1>4. CASE StartSignal \/ WaitAnswer \/ WaitRise \/ StampRise \/ WaitFall \/ StampFall
  <2>1. pc' # "done" /\ UNCHANGED <<line, preempt>>
    BY <1>4 DEF StartSignal, WaitAnswer, WaitRise, StampRise, WaitFall, StampFall, lineVars
  <2>2. ASSUME Readable PROVE Timed' /\ Bits'
    BY <1>1, <1>4, <2>2, StartSignalStep, WaitAnswerStep, WaitRiseStep, StampRiseStep, WaitFallStep,
       StampFallStep
  <2>3. ~Readable => Timed' /\ Bits'
    BY <2>1 DEF Timed, Bits, Readable
  <2> QED
    BY <1>2, <1>3, <2>1, <2>2, <2>3 DEF IInv
<1>5. CASE Decode
  BY <1>1, <1>2, <1>5, DecodeStep DEF IInv
<1>6. ASSUME NEW d \in Preempts, Preempted(d) PROVE IInv'
  <2>1. pc' # "done" /\ preempt = 0 /\ UNCHANGED line
    BY <1>6 DEF Preempted, lineVars
  <2>2. Readable
    BY <2>1, Room DEF Readable
  <2>3. ASSUME Readable' PROVE Timed' /\ Bits'
    BY <1>1, <1>6, <2>2, <2>3, PreemptedStep
  <2>4. ~Readable' => Timed' /\ Bits'
    BY DEF Timed, Bits
  <2> QED
    BY <1>2, <1>3, <2>1, <2>3, <2>4 DEF IInv
<1>7. CASE UNCHANGED vars
  <2>1. UNCHANGED <<lineVars, buf>> /\ Upto' = Upto
    BY <1>7 DEF vars, lineVars, Upto
  <2>2. (Clean => Clean') /\ (OneWrong => OneWrong')
    BY <2>1, BitsKept
  <2>3. Bits'
    BY <1>1, <1>7, <2>2 DEF Bits, Readable, vars
  <2>4. (OnTime => OnTime') /\ (Late => Late')
    BY <1>7, <2>2 DEF OnTime, Late, vars
  <2>5. Timed'
    BY <1>1, <1>7, <2>4 DEF Timed, Readable, vars
  <2>6. ExactDecode' /\ NeverWrong' /\ SilentLine'
    BY <1>7 DEF IInv, ExactDecode, NeverWrong, SilentLine, Done, Truth, vars
  <2> QED
    BY <1>2, <2>3, <2>5, <2>6 DEF IInv
<1> QED
  BY <1>4, <1>5, <1>6, <1>7 DEF Next, Step

\* ... and so always holds.
LEMMA Inductive == Spec => []IInv
  BY InitIInv, NextIInv, PTL DEF Spec

\* TypeOK: whatever is on the line, the pulse index of dht11_get_data stays within self->buf
\* and the readings within what five bytes can say.
THEOREM SamplerTypes == Spec => []TypeOK
<1>1. IInv => TypeOK
  BY DEF IInv
<1> QED
  BY <1>1, Inductive, PTL

\* ExactDecode: without a preemption dht11_get_data returns every frame of the sensor exactly,
\* for all pulse lengths and delays that leave room on both sides of DHT11_BIT_THRESHOLD_US.
THEOREM SamplerExact == Spec => []ExactDecode
<1>1. IInv => ExactDecode
  BY DEF IInv
<1> QED
  BY <1>1, Inductive, PTL

\* NeverWrong: one preemption shorter than the pulse of a 0, wherever dht11_get_data meets it,
\* makes it return the sensor's measurement or -1, never another measurement.
THEOREM SamplerNeverWrong == Spec => []NeverWrong
<1>1. IInv => NeverWrong
  BY DEF IInv
<1> QED
  BY <1>1, Inductive, PTL

\* SilentLine: with a stuck line dht11_get_data returns -1, or zeros from a line that is low.
THEOREM SamplerSilent == Spec => []SilentLine
<1>1. IInv => SilentLine
  BY DEF IInv
<1> QED
  BY <1>1, Inductive, PTL

=============================================================================
