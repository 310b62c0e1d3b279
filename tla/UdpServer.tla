------------------------------- MODULE UdpServer -------------------------------
(***************************************************************************)
(* The UDP server (termosos/udpserver/main.c and server.c), its clients    *)
(* (udpclient.c), the network between them, the init script S99udpserver   *)
(* and the sensor device, which the server shares with a local reader such *)
(* as cat.  The device is the one that Dht11Driver is proved to implement: *)
(* ExclusiveDevice, with one session for the server and one for cat.       *)
(*                                                                         *)
(* A measurement is identified by the set of questions that had been asked *)
(* when it was taken, and by whether it was consistent: that is what the   *)
(* properties need to know of its text.                                    *)
(***************************************************************************)
EXTENDS Integers, Sequences, FiniteSets, SequencesExt

CONSTANTS
    Clients,
    MaxQuestions,   \* bound: questions a client asks
    QueueSize,      \* requests that fit into the receive buffer of the socket
    Commands,       \* what a datagram may start with; "other" is anything else
    FaultSets,      \* the combinations of faults that are explored, see Faults
    MaxFaulty,      \* bound: questions asked by all clients where there are faults
    MaxCopies,      \* bound: datagrams the network delivers once more
    MaxStops        \* bound: times the administrator stops or restarts the server

\* "loss", "copy": the network loses or repeats datagrams; "outside": bind, malloc or open
\* fail for reasons outside the model; "unsafe": syslog hangs in a handler that interrupted
\* syslog or malloc; "stop": the server is stopped or restarted.
Faults == {"loss", "copy", "outside", "unsafe", "stop"}

ASSUME UdpAssumption ==
    /\ MaxQuestions \in Nat /\ QueueSize \in Nat \ {0} /\ MaxStops \in Nat /\ MaxCopies \in Nat
    /\ Commands \subseteq {"v", "?", "t", "h", "other"}
    /\ FaultSets \subseteq SUBSET Faults /\ MaxFaulty \in Nat

VARIABLES
    faults,           \* the faults that may happen in this behaviour
    spc,              \* where the server process is
    req, text, ok,    \* its request, the text in buff[], is the answer "OK"?
    sig,              \* is SIGTERM pending?
    script, stops,    \* what S99udpserver still has to do, times it was run to stop
    net, inbox,       \* requests on their way, and in the server's socket
    replies, copies,  \* replies on their way or in a client's socket; repeated deliveries
    cpc, asked,       \* each client's state and the number of questions it asked
    printed,          \* the last <<question, reply>> each client printed, if any
    answered,         \* history: the questions the server sent a reply to
    owner, sample, got   \* the device

serverVars == <<spc, req, text, ok>>
netVars    == <<faults, net, inbox, replies, copies>>
adminVars  == <<script, stops>>
clientVars == <<cpc, asked, printed>>
deviceVars == <<owner, sample, got>>
vars == <<serverVars, sig, adminVars, netVars, clientVars, answered, deviceVars>>

Nobody    == "nobody"
Sessions  == {"server", "cat"}
Questions == Clients \X (1..MaxQuestions)
Requests  == [from : Clients, n : 1..MaxQuestions, cmd : Commands]
NoRequest == [from |-> Nobody, n |-> 0, cmd |-> "other"]
Texts     == [after : SUBSET Questions, kind : {"reading", "inconsistent"}]
NoSample  == [after |-> {}, kind |-> "none"]
Replies   == [to : Clients, q : Questions, cmd : Commands,
              ok : BOOLEAN, text : Texts \cup {NoSample}]
ServerSteps == {"down", "boot", "recv", "log", "open", "sampling", "read", "close",
                "extract", "build", "send", "hung"}

Device == INSTANCE ExclusiveDevice WITH
              Files <- Sessions, NoOwner <- Nobody, SampleIds <- Texts, Cells <- {0}

TypeOK ==
    /\ spc \in ServerSteps /\ req \in Requests \cup {NoRequest}
    /\ text \in Texts \cup {NoSample} /\ ok \in BOOLEAN /\ sig \in BOOLEAN
    /\ script \in {"idle", "start"} /\ stops \in 0..MaxStops
    /\ net \subseteq Requests /\ replies \subseteq Replies /\ copies \in 0..MaxCopies
    /\ inbox \in BoundedSeq(Requests, QueueSize)
    /\ cpc \in [Clients -> {"idle", "waiting"}]
    /\ asked \in [Clients -> 0..MaxQuestions]
    /\ \A c \in Clients : printed[c] \subseteq (1..MaxQuestions) \X Replies
    /\ answered \subseteq Questions
    /\ owner \in Sessions \cup {Nobody} /\ faults \in FaultSets

Init ==
    /\ faults \in FaultSets
    /\ spc = "boot" /\ req = NoRequest /\ text = NoSample /\ ok = FALSE
    /\ sig = FALSE /\ script = "idle" /\ stops = 0
    /\ net = {} /\ inbox = << >> /\ replies = {} /\ copies = 0
    /\ cpc = [c \in Clients |-> "idle"] /\ asked = [c \in Clients |-> 0]
    /\ printed = [c \in Clients |-> {}]
    /\ answered = {}
    /\ Device!Init

-----------------------------------------------------------------------------
(* udpclient: one question, then it waits for one datagram without a timeout. *)

AskedSoFar == {q \in Questions : q[2] <= asked[q[1]]}

Ask(c, cmd) ==
    /\ cpc[c] = "idle" /\ asked[c] < MaxQuestions
    /\ faults # {} => Cardinality(AskedSoFar) < MaxFaulty
    /\ asked' = [asked EXCEPT ![c] = @ + 1]
    /\ net' = net \cup {[from |-> c, n |-> asked[c] + 1, cmd |-> cmd]}
    /\ cpc' = [cpc EXCEPT ![c] = "waiting"]
    /\ UNCHANGED <<faults, copies, serverVars, sig, adminVars, inbox, replies, printed, answered, deviceVars>>

\* A delivered datagram leaves the network, or will be delivered once more.
Left(left) ==
    \/ left /\ UNCHANGED copies
    \/ ~left /\ "copy" \in faults /\ copies < MaxCopies /\ copies' = copies + 1

PrintReply(c, r) ==
    /\ cpc[c] = "waiting"
    /\ r \in replies /\ r.to = c
    /\ replies' \in {replies, replies \ {r}} /\ Left(r \notin replies')
    /\ printed' = [printed EXCEPT ![c] = {<<asked[c], r>>}]
    /\ cpc' = [cpc EXCEPT ![c] = "idle"]
    /\ UNCHANGED <<faults, serverVars, sig, adminVars, net, inbox, asked, answered, deviceVars>>

-----------------------------------------------------------------------------
(* The network (external). *)

Bound == spc \notin {"down", "boot"}

\* A request reaches the server's socket; it is dropped when nobody is bound to
\* the port or the receive buffer is full.
Deliver(m) ==
    /\ m \in net
    /\ net' \in {net, net \ {m}} /\ Left(m \notin net')
    /\ inbox' = IF Bound /\ Len(inbox) < QueueSize THEN Append(inbox, m) ELSE inbox
    /\ UNCHANGED <<faults, serverVars, sig, adminVars, replies, clientVars, answered, deviceVars>>

Lose ==
    /\ "loss" \in faults
    /\ \/ \E m \in net : net' = net \ {m} /\ UNCHANGED replies
       \/ \E r \in replies : replies' = replies \ {r} /\ UNCHANGED net
    /\ UNCHANGED <<faults, copies, serverVars, sig, adminVars, inbox, clientVars, answered, deviceVars>>

-----------------------------------------------------------------------------
(* The server process. *)

\* getopt, socket, bind; with -d the parent returns and the child goes on.
Boot ==
    /\ spc = "boot"
    /\ spc' = "recv"
    /\ UNCHANGED <<req, text, ok, sig, adminVars, netVars, clientVars, answered, deviceVars>>

BootFail ==
    /\ "outside" \in faults /\ spc = "boot"
    /\ spc' = "down" /\ sig' = FALSE
    /\ UNCHANGED <<req, text, ok, adminVars, netVars, clientVars, answered, deviceVars>>

\* Mutant: an error of recvfrom is not noticed.
ReceiveErrorIgnored ==
    /\ spc = "recv"
    /\ inbox = << >>
    /\ spc' = "log"
    /\ UNCHANGED <<req, text, ok, sig, adminVars, netVars, clientVars, answered, deviceVars>>

\* recvfrom; when it fails the loop goes round and nothing has changed.
Receive ==
    /\ spc = "recv"
    /\ inbox # << >>
    /\ inbox' = Tail(inbox)
    /\ req' = Head(inbox)
    /\ spc' = "log"
    /\ UNCHANGED <<faults, copies, text, ok, sig, adminVars, net, replies, clientVars, answered, deviceVars>>

\* The request is logged; server_process_request then branches on the command.
Logged ==
    /\ spc = "log"
    /\ spc' = IF req.cmd \in {"t", "h"} THEN "open" ELSE "build"
    /\ UNCHANGED <<req, text, ok, sig, adminVars, netVars, clientVars, answered, deviceVars>>

\* Mutant: a request that fails is dropped.
FailSilently == spc' = "recv" /\ ok' = FALSE

\* server_process_request returned -1.
Fail == spc' = "send" /\ ok' = FALSE

\* Mutant: the result of open() is not checked.
OpenFailsUnnoticed ==
    /\ spc = "open"
    /\ owner # Nobody \/ "outside" \in faults
    /\ spc' = "extract"
    /\ UNCHANGED <<req, text, ok, sig, adminVars, netVars, clientVars, answered, deviceVars>>

\* -EBUSY when another reader has the device open; or no such device.
OpenFails ==
    /\ spc = "open"
    /\ owner # Nobody \/ "outside" \in faults
    /\ Fail
    /\ UNCHANGED <<req, text, sig, adminVars, netVars, clientVars, answered, deviceVars>>

OpenAcquires ==
    /\ spc = "open"
    /\ Device!Acquire("server")
    /\ spc' = "sampling"
    /\ UNCHANGED <<req, text, ok, sig, adminVars, netVars, clientVars, answered>>

\* open() returns with the measurement, consistent or not.
OpenReturns ==
    /\ spc = "sampling"
    /\ Device!Measure("server") /\ sample'["server"].after = AskedSoFar
    /\ spc' = "read"
    /\ UNCHANGED <<req, text, ok, sig, adminVars, netVars, clientVars, answered>>

\* One read() gets the whole text.
ReadText ==
    /\ spc = "read"
    /\ Device!Deliver("server") /\ got'["server"] # {}
    /\ text' = sample["server"]
    /\ spc' = "close"
    /\ UNCHANGED <<req, ok, sig, adminVars, netVars, clientVars, answered>>

\* Mutant: the descriptor is not closed.
CloseForgotten == UNCHANGED deviceVars

CloseDevice == Device!End("server")

Close ==
    /\ spc = "close"
    /\ CloseDevice
    /\ spc' = "extract"
    /\ UNCHANGED <<req, text, ok, sig, adminVars, netVars, clientVars, answered>>

\* strstr finds "T:" or "H:" in a reading, and neither in "Inconsistent data".
Extract ==
    /\ spc = "extract"
    /\ \/ text.kind = "reading" /\ spc' = "build" /\ UNCHANGED ok
       \/ text.kind # "reading" /\ Fail
    /\ UNCHANGED <<req, text, sig, adminVars, netVars, clientVars, answered, deviceVars>>

\* reply_string copies the answer into memory from malloc.
Build ==
    /\ spc = "build"
    /\ \/ spc' = "send" /\ ok' = TRUE
       \/ "outside" \in faults /\ Fail
    /\ UNCHANGED <<req, text, sig, adminVars, netVars, clientVars, answered, deviceVars>>

\* The part of the reply that comes from the device.
AnswerText == IF ok /\ req.cmd \in {"t", "h"} THEN text ELSE NoSample

\* Mutant: the reply goes to the address of another client.
ReplyMisdirected ==
    [to |-> CHOOSE c \in Clients : c # req.from \/ Clients = {c},
     q |-> <<req.from, req.n>>, cmd |-> req.cmd, ok |-> ok, text |-> AnswerText]

\* "OK " and the answer, or the error text, to the address of the request.
Reply ==
    [to |-> req.from, q |-> <<req.from, req.n>>,
     cmd |-> req.cmd, ok |-> ok, text |-> AnswerText]

\* Mutant: a failed request is not answered.
SendOnlyAnswers ==
    /\ spc = "send"
    /\ replies' = IF ok THEN replies \cup {Reply} ELSE replies
    /\ answered' = answered \cup {<<req.from, req.n>>}
    /\ spc' = "recv" /\ req' = NoRequest /\ ok' = FALSE
    /\ UNCHANGED <<faults, copies, text, sig, adminVars, net, inbox, clientVars, deviceVars>>

\* The loop goes round with a cleared buffer; buff[] keeps what it holds on the stack.
Send ==
    /\ spc = "send"
    /\ replies' = replies \cup {Reply}
    /\ answered' = answered \cup {<<req.from, req.n>>}
    /\ spc' = "recv" /\ req' = NoRequest /\ ok' = FALSE
    /\ UNCHANGED <<faults, copies, text, sig, adminVars, net, inbox, clientVars, deviceVars>>

-----------------------------------------------------------------------------
(* Signals.  on_signal calls syslog and exit in the handler.  A task inside the *)
(* driver's open() does not return to user space before the measurement ends.  *)

Interruptible == spc \notin {"down", "sampling", "hung"}

\* exit() closes the descriptors: the device is released, the socket's queue and the
\* memory of the process are lost.
OnSignal ==
    /\ sig /\ Interruptible
    /\ spc' = "down" /\ sig' = FALSE /\ inbox' = << >>
    /\ req' = NoRequest /\ text' = NoSample /\ ok' = FALSE
    /\ IF owner = "server" THEN CloseDevice ELSE UNCHANGED deviceVars
    /\ UNCHANGED <<faults, copies, adminVars, net, replies, clientVars, answered>>

\* syslog and malloc are not async-signal-safe: interrupted in one of them, the
\* process may wait for ever for a lock that it holds itself.
OnSignalHangs ==
    /\ "unsafe" \in faults
    /\ sig /\ spc \in {"log", "build"}
    /\ spc' = "hung"
    /\ UNCHANGED <<req, text, ok, sig, adminVars, netVars, clientVars, answered, deviceVars>>

-----------------------------------------------------------------------------
(* S99udpserver (start-stop-daemon is external). *)

\* stop: SIGTERM to the server; restart goes on to start without waiting.  An earlier
\* start has returned, which it does when the server is bound or has failed.
Stop ==
    /\ "stop" \in faults /\ script = "idle" /\ spc # "boot" /\ stops < MaxStops
    /\ stops' = stops + 1
    /\ sig' = (spc # "down")
    /\ script' \in {"idle", "start"}
    /\ UNCHANGED <<serverVars, netVars, clientVars, answered, deviceVars>>

\* start: start-stop-daemon does nothing while the program is running.
Start ==
    /\ script = "start"
    /\ script' = "idle"
    /\ spc' = IF spc = "down" THEN "boot" ELSE spc
    /\ UNCHANGED <<req, text, ok, sig, stops, netVars, clientVars, answered, deviceVars>>

-----------------------------------------------------------------------------
(* cat /dev/dht11: what it reads in its session concerns nobody else. *)

Cat ==
    /\ Device!Acquire("cat") \/ Device!End("cat")
    /\ UNCHANGED <<serverVars, sig, adminVars, netVars, clientVars, answered>>

-----------------------------------------------------------------------------

\* A pending signal is taken on the way back to user space: until then the process
\* goes on only inside open().
ServerStep ==
    /\ sig => spc \in {"open", "sampling"}
    /\ \/ Boot \/ BootFail \/ Receive
       \/ Logged \/ OpenFails \/ OpenAcquires \/ OpenReturns \/ ReadText \/ Close
       \/ Extract \/ Build \/ Send
SignalStep == OnSignal \/ OnSignalHangs

Next ==
    \/ \E c \in Clients, cmd \in Commands : Ask(c, cmd)
    \/ \E c \in Clients, r \in replies : PrintReply(c, r)
    \/ \E m \in net : Deliver(m)
    \/ Lose \/ ServerStep \/ SignalStep \/ Stop \/ Start \/ Cat

\* The processes run, a pending signal is delivered, the script goes on, a reply
\* in a client's socket is read.  The network delivers what it does not lose.
Fairness ==
    /\ WF_vars(ServerStep) /\ WF_vars(SignalStep) /\ WF_vars(Start)
    /\ \A c \in Clients : WF_vars(\E r \in replies : PrintReply(c, r))
    /\ WF_vars(\E m \in net : Deliver(m))

Spec == Init /\ [][Next]_vars /\ Fairness

-----------------------------------------------------------------------------
(* Properties. *)

\* A reading in a reply was taken after its question was asked: the server never
\* answers from a text that an earlier request left behind.
FreshReading ==
    \A r \in replies :
        r.ok /\ r.cmd \in {"t", "h"} => r.text.kind = "reading" /\ r.q \in r.text.after

\* As long as the network has repeated no datagram, what a client prints is the
\* answer to the question it has just asked, although datagrams get lost and
\* reordered and the server is restarted: the protocol has no sequence numbers.
PairsUp ==
    copies = 0 => \A c \in Clients : \A p \in printed[c] : p[2].q = <<c, p[1]>>

\* The server has the device open only while it serves a temperature or humidity
\* request, also when it fails, is stopped or hangs in its signal handler.
DeviceReleased ==
    owner = "server" <=> spc \in {"sampling", "read", "close"}

\* A request in the server's socket is answered, with a reading or an error, unless
\* the server is told to stop.
ServerAnswers ==
    \A q \in Questions :
        (\E i \in DOMAIN inbox : <<inbox[i].from, inbox[i].n>> = q) ~> (q \in answered \/ sig \/ spc = "down")

\* A question on its way to a listening server is answered, and the client goes on,
\* when the network loses nothing, the queue has room and nobody stops the server.
ClientAnswered ==
    \A c \in Clients :
        (faults = {} /\ Bound /\ \E m \in net : m.from = c /\ m.n = asked[c]) ~> cpc[c] = "idle"

\* After a restart a server is running.
RestartServes == script = "start" ~> Bound /\ ~sig
=============================================================================
