---------------------------- MODULE UdpServerProofs ----------------------------
(***************************************************************************)
(* Proofs about UdpServer for every number of clients and questions, every *)
(* queue size and every combination of faults.  The inductive invariant is *)
(* established in layers: types and the device, what the server works on,  *)
(* and, as long as no datagram was repeated, that a question is in at most *)
(* one place.  Each layer uses the ones before it.                         *)
(***************************************************************************)
EXTENDS UdpServer, SequenceTheorems, TLAPS

\* Between recvfrom and sendto.
Serving == spc \in {"log", "open", "sampling", "read", "close", "extract", "build", "send"}

\* Layer 1.  The types TypeOK leaves out, and who has the device open.
Shapes ==
    /\ inbox \in Seq(Requests) /\ Len(inbox) <= QueueSize
    /\ printed \in [Clients -> SUBSET ((1..MaxQuestions) \X Replies)]
    /\ DOMAIN sample = Sessions /\ sample["server"] \in Texts \cup {NoSample}
    /\ Serving => req \in Requests
    /\ \A c \in Clients : cpc[c] = "waiting" => asked[c] # 0

Layer1 == TypeOK /\ Shapes /\ DeviceReleased

\* Layer 2.  What is in the network, the socket and the server was asked, and the
\* text that the server goes on with was measured after its request was asked.
Asked(m) == m.n <= asked[m.from]

TextFresh(t) == t \in Texts /\ <<req.from, req.n>> \in t.after

WorksOn ==
    /\ \A m \in net : Asked(m)
    /\ \A k \in DOMAIN inbox : Asked(inbox[k])
    /\ Serving => Asked(req)
    /\ spc = "read" => TextFresh(sample["server"])
    /\ spc \in {"close", "extract"} => TextFresh(text)
    /\ (spc = "build" \/ (spc = "send" /\ ok)) /\ req.cmd \in {"t", "h"}
          => TextFresh(text) /\ text.kind = "reading"

Layer2 == WorksOn /\ FreshReading

\* Layer 3.  A request or reply in flight is about the question its client waits
\* with, and each client's question is in one place only.
Current(c, n) == cpc[c] = "waiting" /\ n = asked[c]

AllCurrent ==
    /\ \A m \in net : Current(m.from, m.n)
    /\ \A k \in DOMAIN inbox : Current(inbox[k].from, inbox[k].n)
    /\ Serving => Current(req.from, req.n)
    /\ \A r \in replies : Current(r.to, asked[r.to]) /\ r.q = <<r.to, asked[r.to]>>

OnePlace ==
    /\ \A m1, m2 \in net : m1.from = m2.from => m1 = m2
    /\ \A k1, k2 \in DOMAIN inbox : inbox[k1].from = inbox[k2].from => k1 = k2
    /\ \A r1, r2 \in replies : r1.to = r2.to => r1 = r2
    /\ \A m \in net, k \in DOMAIN inbox : m.from # inbox[k].from
    /\ \A m \in net, r \in replies : m.from # r.to
    /\ \A k \in DOMAIN inbox, r \in replies : inbox[k].from # r.to
    /\ Serving => /\ \A m \in net : m.from # req.from
                  /\ \A k \in DOMAIN inbox : inbox[k].from # req.from
                  /\ \A r \in replies : r.to # req.from

Layer3 == (copies = 0 => AllCurrent /\ OnePlace) /\ PairsUp

IInv == Layer1 /\ Layer2 /\ Layer3

-----------------------------------------------------------------------------
(* Layer 1: types and the device. *)

\* The receive buffer of the socket is a sequence of at most QueueSize requests.
LEMMA InboxBounded ==
    \A s \in Seq(Requests) : Len(s) <= QueueSize => s \in BoundedSeq(Requests, QueueSize)
<1> TAKE s \in Seq(Requests)
<1> HAVE Len(s) <= QueueSize
<1>1. Len(s) \in 0..QueueSize /\ s \in [1..Len(s) -> Requests]
  BY UdpAssumption, LenProperties
<1> QED
  BY <1>1 DEF BoundedSeq, SeqOf

\* A served request gives a well-formed reply.
LEMMA ReplyType ==
    ASSUME TypeOK, req \in Requests
    PROVE  Reply \in Replies /\ <<req.from, req.n>> \in Questions
  BY DEF TypeOK, Reply, Replies, Requests, Questions, AnswerText

\* The initial state of the server, the network and the device.
LEMMA Initial1 == Init => Layer1
<1> SUFFICES ASSUME Init PROVE Layer1
  OBVIOUS
<1>1. << >> \in Seq(Requests) /\ Len(<< >>) = 0
  BY EmptySeq
<1>2. inbox \in Seq(Requests) /\ Len(inbox) <= QueueSize
  BY <1>1, UdpAssumption DEF Init
<1>3. inbox \in BoundedSeq(Requests, QueueSize)
  BY <1>2, InboxBounded
<1>4. TypeOK
  <2>1. /\ cpc \in [Clients -> {"idle", "waiting"}] /\ asked \in [Clients -> 0..MaxQuestions]
        /\ \A c \in Clients : printed[c] \subseteq (1..MaxQuestions) \X Replies
    BY UdpAssumption DEF Init
  <2>2. copies \in 0..MaxCopies /\ stops \in 0..MaxStops
    BY UdpAssumption DEF Init
  <2> QED
    BY <1>3, <2>1, <2>2 DEF Init, TypeOK, ServerSteps, Device!Init
<1>5. Shapes
  BY <1>2 DEF Init, Shapes, Serving, Device!Init, Sessions
<1>6. DeviceReleased
  BY DEF Init, DeviceReleased, Device!Init, Nobody
<1> QED
  BY <1>4, <1>5, <1>6 DEF Layer1

\* Every step keeps the types, and the device is open exactly between open and close.
LEMMA Inductive1 == Layer1 /\ [Next]_vars => Layer1'
<1> SUFFICES ASSUME Layer1, [Next]_vars PROVE Layer1'
  OBVIOUS
<1> USE UdpAssumption
<1> USE DEF Layer1, TypeOK, Shapes, DeviceReleased, Serving, ServerSteps, Nobody, Sessions,
            serverVars, netVars, adminVars, clientVars, deviceVars
<1>1. ASSUME NEW c \in Clients, NEW cmd \in Commands, Ask(c, cmd) PROVE Layer1'
  <2>1. [from |-> c, n |-> asked[c] + 1, cmd |-> cmd] \in Requests
    BY <1>1 DEF Ask, Requests
  <2> QED
    BY <1>1, <2>1 DEF Ask
<1>2. ASSUME NEW c \in Clients, NEW r \in replies, PrintReply(c, r) PROVE Layer1'
  <2>1. <<asked[c], r>> \in (1..MaxQuestions) \X Replies
    BY <1>2 DEF PrintReply
  <2>2. replies' \subseteq replies /\ copies' \in 0..MaxCopies
    BY <1>2 DEF PrintReply, Left
  <2> QED
    BY <1>2, <2>1, <2>2 DEF PrintReply
<1>3. ASSUME NEW m \in net, Deliver(m) PROVE Layer1'
  <2>1. net' \subseteq net /\ copies' \in 0..MaxCopies
    BY <1>3 DEF Deliver, Left
  <2>2. inbox' \in Seq(Requests) /\ Len(inbox') <= QueueSize
    BY <1>3, AppendProperties DEF Deliver
  <2>3. inbox' \in BoundedSeq(Requests, QueueSize)
    BY <2>2, InboxBounded
  <2> QED
    BY <1>3, <2>1, <2>2, <2>3 DEF Deliver
<1>4. CASE Lose
  BY <1>4 DEF Lose
<1>5. CASE Boot
  BY <1>5 DEF Boot
<1>6. CASE BootFail
  BY <1>6 DEF BootFail
<1>7. CASE Receive
  <2>1. Head(inbox) \in Requests /\ Tail(inbox) \in Seq(Requests) /\ Len(Tail(inbox)) <= QueueSize
    BY <1>7, HeadTailProperties, LenProperties DEF Receive
  <2>2. Tail(inbox) \in BoundedSeq(Requests, QueueSize)
    BY <2>1, InboxBounded
  <2> QED
    BY <1>7, <2>1, <2>2 DEF Receive
<1>8. CASE Logged
  BY <1>8 DEF Logged
<1>9. CASE OpenFails
  BY <1>9 DEF OpenFails, Fail
<1>10. CASE OpenAcquires
  BY <1>10 DEF OpenAcquires, Device!Acquire
<1>11. CASE OpenReturns
  BY <1>11 DEF OpenReturns, Device!Measure
<1>12. CASE ReadText
  BY <1>12 DEF ReadText, Device!Deliver
<1>13. CASE Close
  BY <1>13 DEF Close, CloseDevice, Device!End
<1>14. CASE Extract
  BY <1>14 DEF Extract, Fail
<1>15. CASE Build
  BY <1>15 DEF Build, Fail
<1>16. CASE Send
  BY <1>16, ReplyType DEF Send
<1>17. CASE OnSignal
  <2>1. inbox' \in Seq(Requests) /\ Len(inbox') <= QueueSize
    BY <1>17 DEF OnSignal
  <2>2. inbox' \in BoundedSeq(Requests, QueueSize)
    BY <2>1, InboxBounded
  <2>3. CASE owner = "server"
    BY <1>17, <2>1, <2>2, <2>3 DEF OnSignal, Interruptible, CloseDevice, Device!End
  <2>4. CASE owner # "server"
    BY <1>17, <2>1, <2>2, <2>4 DEF OnSignal, Interruptible
  <2> QED
    BY <2>3, <2>4
<1>18. CASE OnSignalHangs
  BY <1>18 DEF OnSignalHangs
<1>19. CASE Stop
  BY <1>19 DEF Stop
<1>20. CASE Start
  BY <1>20 DEF Start
<1>21. CASE Cat
  BY <1>21 DEF Cat, Device!Acquire, Device!End
<1>22. CASE UNCHANGED vars
  BY <1>22 DEF vars
<1> QED
  BY <1>1, <1>2, <1>3, <1>4, <1>5, <1>6, <1>7, <1>8, <1>9, <1>10, <1>11, <1>12, <1>13, <1>14,
     <1>15, <1>16, <1>17, <1>18, <1>19, <1>20, <1>21, <1>22 DEF Next, ServerStep, SignalStep

-----------------------------------------------------------------------------
(* Layer 2: no answer from a stale text. *)

\* Nothing was asked or answered in the initial state.
LEMMA Initial2 == Init => Layer2
  BY DEF Init, Layer2, WorksOn, FreshReading, Serving

\* Every step keeps what the server works on fresh: open() measures after recvfrom
\* took the request, and every path to sendto from there has read that measurement.
LEMMA Inductive2 == Layer1 /\ Layer2 /\ [Next]_vars => Layer2'
<1> SUFFICES ASSUME Layer1, Layer2, [Next]_vars PROVE Layer2'
  OBVIOUS
<1> USE DEF Layer2, WorksOn, FreshReading, Asked, TextFresh, Serving,
            serverVars, netVars, adminVars, clientVars, deviceVars
<1>a. /\ asked \in [Clients -> 0..MaxQuestions] /\ net \subseteq Requests
      /\ inbox \in Seq(Requests) /\ \A k \in DOMAIN inbox : inbox[k] \in Requests
      /\ Serving => req \in Requests
  BY ElementOfSeq, LenProperties DEF Layer1, TypeOK, Shapes
<1>b. \A m \in Requests : m.from \in Clients /\ m.n \in 1..MaxQuestions
  BY DEF Requests
<1>1. ASSUME NEW c \in Clients, NEW cmd \in Commands, Ask(c, cmd) PROVE Layer2'
  <2> DEFINE m0 == [from |-> c, n |-> asked[c] + 1, cmd |-> cmd]
  <2>1. \A m \in Requests : Asked(m) => Asked(m)'
    BY <1>1, <1>a, <1>b, UdpAssumption DEF Ask
  <2>2. net' = net \cup {m0} /\ \A m \in {m0} : Asked(m)'
    BY <1>1, <1>a, UdpAssumption DEF Ask
  <2> QED
    BY <1>1, <1>a, <2>1, <2>2 DEF Ask
<1>2. ASSUME NEW c \in Clients, NEW r \in replies, PrintReply(c, r) PROVE Layer2'
  BY <1>2 DEF PrintReply
<1>3. ASSUME NEW m \in net, Deliver(m) PROVE Layer2'
  <2>1. CASE inbox' = inbox
    BY <1>3, <2>1 DEF Deliver
  <2>2. CASE inbox' = Append(inbox, m)
    <3>1. \A k \in DOMAIN inbox' : inbox'[k] = m \/ (k \in DOMAIN inbox /\ inbox'[k] = inbox[k])
      BY <1>a, <2>2, AppendProperties, LenProperties
    <3> QED
      BY <1>3, <3>1 DEF Deliver
  <2> QED
    BY <1>3, <2>1, <2>2 DEF Deliver
<1>4. CASE Lose
  BY <1>4 DEF Lose
<1>5. CASE Boot
  BY <1>5 DEF Boot
<1>6. CASE BootFail
  BY <1>6 DEF BootFail
<1>7. CASE Receive
  <2>1. /\ 1 \in DOMAIN inbox /\ req' = inbox[1]
        /\ \A k \in DOMAIN inbox' : k + 1 \in DOMAIN inbox /\ inbox'[k] = inbox[k + 1]
    BY <1>7, <1>a, HeadTailProperties, LenProperties DEF Receive
  <2> QED
    BY <1>7, <2>1 DEF Receive
<1>8. CASE Logged
  BY <1>8 DEF Logged
<1>9. CASE OpenFails
  BY <1>9 DEF OpenFails, Fail
<1>10. CASE OpenAcquires
  BY <1>10 DEF OpenAcquires
<1>11. CASE OpenReturns
  <2>1. sample'["server"] \in Texts
    BY <1>11 DEF OpenReturns, Device!Measure, Layer1, Shapes, Sessions
  <2>2. <<req.from, req.n>> \in AskedSoFar
    BY <1>11, <1>a, <1>b DEF OpenReturns, AskedSoFar, Questions
  <2> QED
    BY <1>11, <2>1, <2>2 DEF OpenReturns
<1>12. CASE ReadText
  BY <1>12 DEF ReadText
<1>13. CASE Close
  BY <1>13 DEF Close
<1>14. CASE Extract
  BY <1>14 DEF Extract, Fail
<1>15. CASE Build
  BY <1>15 DEF Build, Fail
<1>16. CASE Send
  <2>1. Reply.ok /\ Reply.cmd \in {"t", "h"} => Reply.text.kind = "reading" /\ Reply.q \in Reply.text.after
    BY <1>16 DEF Send, Reply, AnswerText
  <2> QED
    BY <1>16, <2>1 DEF Send
<1>17. CASE OnSignal
  BY <1>17, EmptySeq DEF OnSignal
<1>18. CASE OnSignalHangs
  BY <1>18 DEF OnSignalHangs
<1>19. CASE Stop
  BY <1>19 DEF Stop
<1>20. CASE Start
  BY <1>20 DEF Start
<1>21. CASE Cat
  BY <1>21 DEF Cat, Device!Acquire, Device!End, Layer1, DeviceReleased
<1>22. CASE UNCHANGED vars
  BY <1>22 DEF vars
<1> QED
  BY <1>1, <1>2, <1>3, <1>4, <1>5, <1>6, <1>7, <1>8, <1>9, <1>10, <1>11, <1>12, <1>13, <1>14,
     <1>15, <1>16, <1>17, <1>18, <1>19, <1>20, <1>21, <1>22 DEF Next, ServerStep, SignalStep

-----------------------------------------------------------------------------
(* Layer 3: questions and replies pair up. *)

\* No question is anywhere in the initial state.
LEMMA Initial3 == Init => Layer3
  BY DEF Init, Layer3, AllCurrent, OnePlace, PairsUp, Serving

\* A step that leaves copies at 0 has delivered a datagram without repeating it.
LEMMA NoCopyYet == Layer1 /\ [Next]_vars /\ copies' = 0 => copies = 0
<1> SUFFICES ASSUME Layer1, [Next]_vars, copies' = 0 PROVE copies = 0
  OBVIOUS
<1>1. copies \in Nat
  BY UdpAssumption DEF Layer1, TypeOK
<1>2. copies' = copies \/ copies' = copies + 1
  BY DEF Next, vars, netVars, Ask, PrintReply, Deliver, Left, Lose, ServerStep, Boot, BootFail, Receive,
         Logged, OpenFails, OpenAcquires, OpenReturns, ReadText, Close, Extract, Build, Send,
         SignalStep, OnSignal, OnSignalHangs, Stop, Start, Cat
<1> QED
  BY <1>1, <1>2

\* As long as no datagram was repeated, every step moves a client's question on from
\* the one place where it is, or loses it.
LEMMA Inductive3 == Layer1 /\ Layer3 /\ [Next]_vars => Layer3'
<1> SUFFICES ASSUME Layer1, Layer3, [Next]_vars, copies' = 0 PROVE (AllCurrent /\ OnePlace /\ PairsUp)'
  BY DEF Layer3, PairsUp
<1>a. copies = 0 /\ AllCurrent /\ OnePlace /\ \A c \in Clients : \A p \in printed[c] : p[2].q = <<c, p[1]>>
  BY NoCopyYet DEF Layer3, PairsUp
<1>b. /\ asked \in [Clients -> 0..MaxQuestions] /\ cpc \in [Clients -> {"idle", "waiting"}]
      /\ net \subseteq Requests /\ replies \subseteq Replies
      /\ inbox \in Seq(Requests) /\ \A k \in DOMAIN inbox : inbox[k] \in Requests
      /\ Serving => req \in Requests
      /\ printed \in [Clients -> SUBSET ((1..MaxQuestions) \X Replies)]
  BY ElementOfSeq, LenProperties DEF Layer1, TypeOK, Shapes
<1>c. /\ \A m \in Requests : m.from \in Clients
      /\ \A r \in Replies : r.to \in Clients
  BY DEF Requests, Replies
<1> USE DEF AllCurrent, OnePlace, PairsUp, Current, Serving,
            serverVars, netVars, adminVars, clientVars, deviceVars
<1>1. ASSUME NEW c \in Clients, NEW cmd \in Commands, Ask(c, cmd) PROVE (AllCurrent /\ OnePlace /\ PairsUp)'
  <2> DEFINE m0 == [from |-> c, n |-> asked[c] + 1, cmd |-> cmd]
  <2>1. /\ \A m \in net : m.from # c
        /\ \A k \in DOMAIN inbox : inbox[k].from # c
        /\ \A r \in replies : r.to # c
        /\ Serving => req.from # c
    BY <1>1, <1>a DEF Ask
  <2>2. net' = net \cup {m0} /\ m0.from = c /\ m0.n = asked'[c] /\ cpc'[c] = "waiting"
    BY <1>1, <1>b DEF Ask
  <2>3. \A d \in Clients \ {c} : asked'[d] = asked[d] /\ cpc'[d] = cpc[d]
    BY <1>1, <1>b DEF Ask
  <2> HIDE DEF m0
  <2>4. AllCurrent'
    BY <1>1, <1>a, <1>b, <1>c, <2>1, <2>2, <2>3 DEF Ask
  <2>5. OnePlace'
    BY <1>1, <1>a, <1>b, <1>c, <2>1, <2>2, <2>3 DEF Ask
  <2> QED
    BY <1>1, <1>a, <2>4, <2>5 DEF Ask
<1>2. ASSUME NEW c \in Clients, NEW r \in replies, PrintReply(c, r) PROVE (AllCurrent /\ OnePlace /\ PairsUp)'
  <2>1. r.to = c /\ r.q = <<c, asked[c]>>
    BY <1>2, <1>a DEF PrintReply
  <2>2. replies' = replies \ {r}
    BY <1>2, <1>a DEF PrintReply, Left
  <2>3. /\ \A m \in net : m.from # c
        /\ \A k \in DOMAIN inbox : inbox[k].from # c
        /\ \A r1 \in replies' : r1.to # c
        /\ Serving => req.from # c
    BY <1>2, <1>a, <2>1, <2>2
  <2>4. \A d \in Clients \ {c} : cpc'[d] = cpc[d]
    BY <1>2, <1>b DEF PrintReply
  <2>5. AllCurrent'
    BY <1>2, <1>a, <1>b, <1>c, <2>2, <2>3, <2>4 DEF PrintReply
  <2>6. OnePlace'
    BY <1>2, <1>a, <2>2 DEF PrintReply
  <2>7. PairsUp'
    BY <1>2, <1>a, <1>b, <2>1 DEF PrintReply
  <2> QED
    BY <2>5, <2>6, <2>7
<1>3. ASSUME NEW m \in net, Deliver(m) PROVE (AllCurrent /\ OnePlace /\ PairsUp)'
  <2>1. net' = net \ {m}
    BY <1>3, <1>a DEF Deliver, Left
  <2>2. CASE inbox' = inbox
    BY <1>3, <1>a, <2>1, <2>2 DEF Deliver
  <2>3. CASE inbox' = Append(inbox, m)
    <3>1. \A k \in DOMAIN inbox' : \/ k = Len(inbox) + 1 /\ inbox'[k] = m
                                   \/ k \in DOMAIN inbox /\ inbox'[k] = inbox[k]
      BY <1>b, <2>3, AppendProperties, LenProperties
    <3>2. \A m1 \in net' : m1.from # m.from
      BY <1>a, <2>1
    <3> QED
      BY <1>3, <1>a, <2>1, <3>1, <3>2 DEF Deliver
  <2> QED
    BY <1>3, <2>2, <2>3 DEF Deliver
<1>4. CASE Lose
  BY <1>4, <1>a DEF Lose
<1>5. CASE Boot
  BY <1>5, <1>a DEF Boot
<1>6. CASE BootFail
  BY <1>6, <1>a DEF BootFail
<1>7. CASE Receive
  <2>1. /\ 1 \in DOMAIN inbox /\ req' = inbox[1]
        /\ \A k \in DOMAIN inbox' : k \in Nat \ {0} /\ k + 1 \in DOMAIN inbox /\ inbox'[k] = inbox[k + 1]
    BY <1>7, <1>b, HeadTailProperties, LenProperties DEF Receive
  <2>2. AllCurrent'
    BY <1>7, <1>a, <2>1 DEF Receive
  <2>3. OnePlace'
    <3>1. \A k \in DOMAIN inbox' : inbox'[k].from # req'.from
      BY <1>a, <2>1
    <3>2. \A k1, k2 \in DOMAIN inbox' : inbox'[k1].from = inbox'[k2].from => k1 = k2
      BY <1>a, <2>1
    <3> QED
      BY <1>7, <1>a, <2>1, <3>1, <3>2 DEF Receive
  <2> QED
    BY <1>7, <1>a, <2>2, <2>3 DEF Receive
<1>8. CASE Logged
  BY <1>8, <1>a DEF Logged
<1>9. CASE OpenFails
  BY <1>9, <1>a DEF OpenFails, Fail
<1>10. CASE OpenAcquires
  BY <1>10, <1>a DEF OpenAcquires
<1>11. CASE OpenReturns
  BY <1>11, <1>a DEF OpenReturns
<1>12. CASE ReadText
  BY <1>12, <1>a DEF ReadText
<1>13. CASE Close
  BY <1>13, <1>a DEF Close
<1>14. CASE Extract
  BY <1>14, <1>a DEF Extract, Fail
<1>15. CASE Build
  BY <1>15, <1>a DEF Build, Fail
<1>16. CASE Send
  <2>1. Reply.to = req.from /\ Reply.q = <<req.from, req.n>>
    BY DEF Reply
  <2> QED
    BY <1>16, <1>a, <2>1 DEF Send
<1>17. CASE OnSignal
  BY <1>17, <1>a, EmptySeq DEF OnSignal
<1>18. CASE OnSignalHangs
  BY <1>18, <1>a DEF OnSignalHangs
<1>19. CASE Stop
  BY <1>19, <1>a DEF Stop
<1>20. CASE Start
  BY <1>20, <1>a DEF Start
<1>21. CASE Cat
  BY <1>21, <1>a DEF Cat
<1>22. CASE UNCHANGED vars
  BY <1>22, <1>a DEF vars
<1> QED
  BY <1>1, <1>2, <1>3, <1>4, <1>5, <1>6, <1>7, <1>8, <1>9, <1>10, <1>11, <1>12, <1>13, <1>14,
     <1>15, <1>16, <1>17, <1>18, <1>19, <1>20, <1>21, <1>22 DEF Next, ServerStep, SignalStep

-----------------------------------------------------------------------------

\* The conjunction of the layers holds in every reachable state.
LEMMA Invariance == Spec => []IInv
<1>1. Init => IInv
  BY Initial1, Initial2, Initial3 DEF IInv
<1>2. IInv /\ [Next]_vars => IInv'
  BY Inductive1, Inductive2, Inductive3 DEF IInv
<1> QED
  BY <1>1, <1>2, PTL DEF Spec

(* The server's request and text, the socket's queue and the clients' state *)
(* have their types, however many clients there are.                        *)
THEOREM ServerTypes == Spec => []TypeOK
<1>1. IInv => TypeOK
  BY DEF IInv, Layer1
<1> QED
  BY Invariance, <1>1, PTL

(* The server has /dev/dht11 open only between open and close of one        *)
(* request: no failure, signal or restart leaves the device occupied.       *)
THEOREM ServerReleasesDevice == Spec => []DeviceReleased
<1>1. IInv => DeviceReleased
  BY DEF IInv, Layer1
<1> QED
  BY Invariance, <1>1, PTL

(* server_process_request never answers from the text an earlier request   *)
(* left on the stack: a reading in a reply was measured after its question. *)
THEOREM ServerAnswersFresh == Spec => []FreshReading
<1>1. IInv => FreshReading
  BY DEF IInv, Layer2
<1> QED
  BY Invariance, <1>1, PTL

(* Without sequence numbers a client that waits for one datagram still     *)
(* prints the answer to its own last question, whatever is lost, reordered *)
(* or dropped by a restart, until the network repeats a datagram.          *)
THEOREM ClientPairsUp == Spec => []PairsUp
<1>1. IInv => PairsUp
  BY DEF IInv, Layer3
<1> QED
  BY Invariance, <1>1, PTL
=============================================================================
