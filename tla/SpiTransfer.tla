----------------------------- MODULE SpiTransfer -----------------------------
(***************************************************************************)
(* The polled transfers of the bcm2835 library, on SPI0 and on the         *)
(* auxiliary SPI.  Each call is one loop or a few of them over status      *)
(* flags and FIFOs, beside a controller that moves words from the transmit *)
(* FIFO through its shift register to the receive FIFO at its own pace.    *)
(* The caller may be preempted anywhere: the controller then runs on for   *)
(* as long as it has work.                                                 *)
(*                                                                         *)
(* The slave answers the byte w on the wire with Answer(w), so that what a *)
(* call stores in its buffer tells which byte it is the answer to.         *)
(***************************************************************************)
EXTENDS Integers, Sequences, FiniteSetsExt

CONSTANTS
    Depth,      \* words that fit into a FIFO
    Calls,      \* functions that are called, without their prefix bcm2835_
    Lens,       \* bytes that a call of a function with a buffer transfers
    MaxCalls    \* bound: calls

Spi0Calls == {"spi_transfer", "spi_transfernb", "spi_transfern", "spi_writenb", "spi_write"}
AuxCalls  == {"aux_spi_transfer", "aux_spi_transfernb", "aux_spi_transfern",
              "aux_spi_writenb", "aux_spi_write"}

ASSUME SpiAssumption ==
    /\ Depth \in Nat \ {0, 1} /\ Lens \subseteq 1..15 /\ MaxCalls \in 1..7
    /\ Calls \subseteq Spi0Calls \union AuxCalls

VARIABLES
    pc,           \* where the caller is; "idle" between calls
    fn, len,      \* the function that is running, or ran last, and its length
    calls,        \* calls begun
    order,        \* bcm2835_spi_bit_order
    tbuf, nt,     \* the transmit buffer, and the bytes taken from it
    rbuf,         \* the bytes stored so far
    txf, sh, rxf, \* per controller: the FIFOs and the shift register
    wire,         \* history: the words of this call that went to the slave
    began         \* history: the bit order when the call began, and whether its
                  \* controller was idle and empty

call == <<fn, len, calls, order, began>>
vars == <<pc, call, tbuf, nt, rbuf, txf, sh, rxf, wire>>

Buses  == {"spi0", "aux"}
Bus(f) == IF f \in AuxCalls THEN "aux" ELSE "spi0"
bus    == Bus(fn)

LSBFIRST == 0
MSBFIRST == 1

Bytes == 0..255

-----------------------------------------------------------------------------
(* Bit order. *)

byte_reverse_table == <<
    \h00, \h80, \h40, \hc0, \h20, \ha0, \h60, \he0, \h10, \h90, \h50, \hd0, \h30, \hb0, \h70, \hf0,
    \h08, \h88, \h48, \hc8, \h28, \ha8, \h68, \he8, \h18, \h98, \h58, \hd8, \h38, \hb8, \h78, \hf8,
    \h04, \h84, \h44, \hc4, \h24, \ha4, \h64, \he4, \h14, \h94, \h54, \hd4, \h34, \hb4, \h74, \hf4,
    \h0c, \h8c, \h4c, \hcc, \h2c, \hac, \h6c, \hec, \h1c, \h9c, \h5c, \hdc, \h3c, \hbc, \h7c, \hfc,
    \h02, \h82, \h42, \hc2, \h22, \ha2, \h62, \he2, \h12, \h92, \h52, \hd2, \h32, \hb2, \h72, \hf2,
    \h0a, \h8a, \h4a, \hca, \h2a, \haa, \h6a, \hea, \h1a, \h9a, \h5a, \hda, \h3a, \hba, \h7a, \hfa,
    \h06, \h86, \h46, \hc6, \h26, \ha6, \h66, \he6, \h16, \h96, \h56, \hd6, \h36, \hb6, \h76, \hf6,
    \h0e, \h8e, \h4e, \hce, \h2e, \hae, \h6e, \hee, \h1e, \h9e, \h5e, \hde, \h3e, \hbe, \h7e, \hfe,
    \h01, \h81, \h41, \hc1, \h21, \ha1, \h61, \he1, \h11, \h91, \h51, \hd1, \h31, \hb1, \h71, \hf1,
    \h09, \h89, \h49, \hc9, \h29, \ha9, \h69, \he9, \h19, \h99, \h59, \hd9, \h39, \hb9, \h79, \hf9,
    \h05, \h85, \h45, \hc5, \h25, \ha5, \h65, \he5, \h15, \h95, \h55, \hd5, \h35, \hb5, \h75, \hf5,
    \h0d, \h8d, \h4d, \hcd, \h2d, \had, \h6d, \hed, \h1d, \h9d, \h5d, \hdd, \h3d, \hbd, \h7d, \hfd,
    \h03, \h83, \h43, \hc3, \h23, \ha3, \h63, \he3, \h13, \h93, \h53, \hd3, \h33, \hb3, \h73, \hf3,
    \h0b, \h8b, \h4b, \hcb, \h2b, \hab, \h6b, \heb, \h1b, \h9b, \h5b, \hdb, \h3b, \hbb, \h7b, \hfb,
    \h07, \h87, \h47, \hc7, \h27, \ha7, \h67, \he7, \h17, \h97, \h57, \hd7, \h37, \hb7, \h77, \hf7,
    \h0f, \h8f, \h4f, \hcf, \h2f, \haf, \h6f, \hef, \h1f, \h9f, \h5f, \hdf, \h3f, \hbf, \h7f, \hff >>

correct_order(b) == IF order = LSBFIRST THEN byte_reverse_table[b + 1] ELSE b

-----------------------------------------------------------------------------
(* The controllers, as the status flags show them.  External. *)

Word(bytes, hold) == [b |-> bytes, hold |-> hold, k |-> calls]
Answer(w)         == 255 - w

TXD  == Len(txf["spi0"]) < Depth
RXD  == rxf["spi0"] # <<>>
DONE == txf["spi0"] = <<>> /\ sh["spi0"] = <<>>

TX_FULL  == Len(txf["aux"]) = Depth
RX_EMPTY == rxf["aux"] = <<>>
BUSY     == txf["aux"] # <<>> \/ sh["aux"] # <<>>

\* A word that is written to a full transmit FIFO is lost.
Push(w) == txf' = [txf EXCEPT ![bus] = IF Len(@) < Depth THEN Append(@, w) ELSE @]

\* The low-order n bytes of the word at the head of the receive FIFO; an empty one reads as 0.
Received(n) ==
    LET w == <<0, 0, 0>> \o (IF rxf[bus] = <<>> THEN <<>> ELSE Head(rxf[bus]))
    IN  SubSeq(w, Len(w) - n + 1, Len(w))
Pop == rxf' = [rxf EXCEPT ![bus] = IF @ = <<>> THEN @ ELSE Tail(@)]

\* SPI0 moves while TA is set and has room for the answer; the auxiliary SPI needs neither.
Load(u) ==
    /\ txf[u] # <<>> /\ sh[u] = <<>>
    /\ u = "spi0" => pc # "idle" /\ bus = "spi0" /\ Len(rxf[u]) < Depth
    /\ sh'  = [sh EXCEPT ![u] = <<Head(txf[u])>>]
    /\ txf' = [txf EXCEPT ![u] = Tail(@)]
    /\ UNCHANGED <<pc, call, tbuf, nt, rbuf, rxf, wire>>

Emit(u) ==
    /\ sh[u] # <<>>
    /\ LET w == sh[u][1]
       IN  /\ wire' = IF w.k = calls THEN Append(wire, w) ELSE wire
           /\ rxf'  = [rxf EXCEPT ![u] = IF Len(@) = Depth THEN @ ELSE
                                Append(@, [i \in DOMAIN w.b |-> Answer(w.b[i])])]
    /\ sh' = [sh EXCEPT ![u] = <<>>]
    /\ UNCHANGED <<pc, call, tbuf, nt, rbuf, txf>>

-----------------------------------------------------------------------------
(* The calls.  A loop that polls a flag is a step that waits for it; a     *)
(* flag that lets the caller go on cannot change back before it does.      *)

Init ==
    /\ pc = "idle" /\ fn = "none" /\ len = 0 /\ calls = 0 /\ order = MSBFIRST
    /\ tbuf = <<>> /\ nt = 0 /\ rbuf = <<>> /\ wire = <<>>
    /\ began = [order |-> MSBFIRST, clean |-> TRUE]
    /\ txf = [u \in Buses |-> <<>>] /\ sh = txf /\ rxf = txf

spi_setBitOrder(o) ==
    /\ pc = "idle" /\ order' = o /\ o # order
    /\ UNCHANGED <<pc, fn, len, calls, began, tbuf, nt, rbuf, txf, sh, rxf, wire>>

Given(k, i) == 16 * k + i

Entry(f) == CASE f \in {"spi_transfer", "spi_writenb", "spi_write"}     -> "txd"
              [] f \in {"spi_transfernb", "spi_transfern"}              -> "tx"
              [] f = "aux_spi_transfer"                                 -> "io"
              [] f \in {"aux_spi_writenb", "aux_spi_write"}             -> "full"
              [] f \in {"aux_spi_transfernb", "aux_spi_transfern"}      -> "atx"

Length(f) == IF f \in {"spi_transfer", "aux_spi_transfer"} THEN {1}
             ELSE IF f \in {"spi_write", "aux_spi_write"} THEN {2} ELSE Lens

\* Mutant: the FIFOs of SPI0 are not cleared.
BeginNoClear(f) == UNCHANGED <<txf, rxf>>

\* An SPI0 call clears both FIFOs and sets TA; an auxiliary one only selects mode and width.
BeginFifos(f) ==
    IF Bus(f) = "spi0"
    THEN txf' = [txf EXCEPT !["spi0"] = <<>>] /\ rxf' = [rxf EXCEPT !["spi0"] = <<>>]
    ELSE UNCHANGED <<txf, rxf>>

Begin(f, n) ==
    /\ pc = "idle" /\ calls < MaxCalls
    /\ pc' = Entry(f) /\ fn' = f /\ len' = n /\ calls' = calls + 1
    /\ tbuf' = [i \in 1..n |-> Given(calls + 1, i)] /\ nt' = 0 /\ rbuf' = <<>>
    /\ wire' = <<>>
    /\ began' = [order |-> order,
                 clean |-> <<>> = txf[Bus(f)] \o sh[Bus(f)] \o rxf[Bus(f)]]
    /\ BeginFifos(f)
    /\ UNCHANGED <<order, sh>>

\* Sends the next byte of tbuf through the FIFO of SPI0.
SendByte(b) == Push(Word(<<b>>, TRUE)) /\ nt' = nt + 1

\* The next bytes are stored; transfern's two buffers are one.
Store(bytes) ==
    /\ rbuf' = rbuf \o bytes
    /\ tbuf' = IF fn \in {"spi_transfern", "aux_spi_transfern"}
               THEN [i \in 1..len |-> IF i \in DOMAIN rbuf' THEN rbuf'[i] ELSE tbuf[i]]
               ELSE tbuf

Goto(l) == pc' = l /\ UNCHANGED call

spi_transfer ==
    /\ fn = "spi_transfer"
    /\ \/ /\ pc = "txd" /\ TXD /\ SendByte(correct_order(tbuf[1]))
          /\ Goto("done") /\ UNCHANGED <<tbuf, rbuf, rxf>>
       \/ /\ pc = "done" /\ DONE
          /\ Pop /\ Store(<<correct_order(Received(1)[1])>>)
          /\ Goto("idle") /\ UNCHANGED <<nt, txf>>
    /\ UNCHANGED <<sh, wire>>

spi_transfernb ==
    /\ fn \in {"spi_transfernb", "spi_transfern"}
    /\ \/ /\ pc = "tx" /\ TXD /\ nt < len
          /\ SendByte(correct_order(tbuf[nt + 1]))
          /\ Goto("tx") /\ UNCHANGED <<tbuf, rbuf, rxf>>
       \/ /\ pc = "tx" /\ ~(TXD /\ nt < len)
          /\ Goto("rx") /\ UNCHANGED <<tbuf, nt, rbuf, txf, rxf>>
       \/ /\ pc = "rx" /\ RXD /\ Len(rbuf) < len
          /\ Pop /\ Store(<<correct_order(Received(1)[1])>>)
          /\ Goto("rx") /\ UNCHANGED <<nt, txf>>
       \/ /\ pc = "rx" /\ ~(RXD /\ Len(rbuf) < len)
          /\ Goto(IF nt < len \/ Len(rbuf) < len THEN "tx" ELSE "done")
          /\ UNCHANGED <<tbuf, nt, rbuf, txf, rxf>>
       \/ /\ pc = "done" /\ DONE
          /\ Goto("idle") /\ UNCHANGED <<tbuf, nt, rbuf, txf, rxf>>
    /\ UNCHANGED <<sh, wire>>

\* Mutant: what is received is left in the FIFO.
spi_writenb_nodrain ==
    /\ fn = "spi_writenb" /\ UNCHANGED <<tbuf, rbuf, rxf, sh, wire>>
    /\ \/ pc = "txd" /\ TXD /\ SendByte(correct_order(tbuf[nt + 1]))
          /\ Goto(IF nt + 1 < len THEN "txd" ELSE "done")
       \/ pc = "done" /\ DONE /\ Goto("idle") /\ UNCHANGED <<nt, txf>>

\* Mutant: TA is cleared once the last byte is in the FIFO.
spi_writenb_nowait ==
    /\ fn = "spi_writenb" /\ UNCHANGED <<tbuf, rbuf, sh, wire>>
    /\ \/ /\ pc = "txd" /\ TXD /\ SendByte(correct_order(tbuf[nt + 1]))
          /\ Goto("drain") /\ UNCHANGED rxf
       \/ pc = "drain" /\ RXD /\ Pop /\ Goto("drain") /\ UNCHANGED <<nt, txf>>
       \/ pc = "drain" /\ ~RXD /\ Goto(IF nt < len THEN "txd" ELSE "idle")
          /\ UNCHANGED <<nt, txf, rxf>>

spi_writenb ==
    /\ fn = "spi_writenb"
    /\ \/ /\ pc = "txd" /\ TXD /\ SendByte(correct_order(tbuf[nt + 1]))
          /\ Goto("drain") /\ UNCHANGED rxf
       \/ /\ pc = "drain" /\ RXD /\ Pop
          /\ Goto("drain") /\ UNCHANGED <<nt, txf>>
       \/ /\ pc = "drain" /\ ~RXD
          /\ Goto(IF nt < len THEN "txd" ELSE "done") /\ UNCHANGED <<nt, txf, rxf>>
       \/ /\ pc = "done" /\ ~DONE /\ RXD /\ Pop
          /\ Goto("drain") /\ UNCHANGED <<nt, txf>>
       \/ /\ pc = "done" /\ DONE
          /\ Goto("idle") /\ UNCHANGED <<nt, txf, rxf>>
    /\ UNCHANGED <<tbuf, rbuf, sh, wire>>

\* The high byte waits for room, the low byte does not; neither is put in order.
spi_write ==
    /\ fn = "spi_write"
    /\ \/ /\ pc = "txd" /\ TXD /\ SendByte(tbuf[1]) /\ Goto("low")
       \/ /\ pc = "low" /\ SendByte(tbuf[2]) /\ Goto("done")
       \/ /\ pc = "done" /\ DONE /\ Goto("idle") /\ UNCHANGED <<nt, txf>>
    /\ UNCHANGED <<tbuf, rbuf, rxf, sh, wire>>

aux_spi_transfer ==
    /\ fn = "aux_spi_transfer"
    /\ \/ /\ pc = "io" /\ Push(Word(<<correct_order(tbuf[1])>>, FALSE)) /\ nt' = 1
          /\ Goto("busy") /\ UNCHANGED <<tbuf, rbuf, rxf>>
       \/ /\ pc = "busy" /\ ~BUSY
          /\ Store(<<correct_order(Received(1)[1])>>)
          /\ txf' = [txf EXCEPT !["aux"] = <<>>] /\ rxf' = [rxf EXCEPT !["aux"] = <<>>]
          /\ Goto("idle") /\ UNCHANGED nt
    /\ UNCHANGED <<sh, wire>>

aux_spi_write ==
    /\ fn = "aux_spi_write" /\ pc = "full" /\ ~TX_FULL
    /\ Push(Word(tbuf, FALSE)) /\ nt' = 2 /\ Goto("idle")
    /\ UNCHANGED <<tbuf, rbuf, rxf, sh, wire>>

\* Mutant: the count of the last word is not clipped.
SendWordUnclipped ==
    LET last == Min({nt + 3, len})
    IN  Push(Word(SubSeq(tbuf, nt + 1, last), last < len)) /\ nt' = nt + 3

\* Up to three bytes; chip select is held (TXHOLD) unless they are the last.
SendWord ==
    LET last == Min({nt + 3, len})
    IN  Push(Word(SubSeq(tbuf, nt + 1, last), last < len)) /\ nt' = last

StoreWord == Pop /\ Store(Received(Min({len - Len(rbuf), 3})))

aux_spi_writenb ==
    /\ fn = "aux_spi_writenb"
    /\ \/ /\ pc = "full" /\ ~TX_FULL /\ SendWord
          /\ Goto("busy") /\ UNCHANGED rxf
       \/ /\ pc = "busy" /\ ~BUSY /\ Pop
          /\ Goto(IF nt < len THEN "full" ELSE "idle") /\ UNCHANGED <<nt, txf>>
    /\ UNCHANGED <<tbuf, rbuf, sh, wire>>

aux_spi_transfernb ==
    /\ fn \in {"aux_spi_transfernb", "aux_spi_transfern"}
    /\ \/ /\ pc = "atx" /\ ~TX_FULL /\ nt < len /\ SendWord
          /\ Goto("atx") /\ UNCHANGED <<tbuf, rbuf, rxf>>
       \/ /\ pc = "atx" /\ (TX_FULL \/ nt = len)
          /\ Goto("arx") /\ UNCHANGED <<tbuf, nt, rbuf, txf, rxf>>
       \/ /\ pc = "arx" /\ ~RX_EMPTY /\ Len(rbuf) < len /\ StoreWord
          /\ Goto("arx") /\ UNCHANGED <<nt, txf>>
       \/ /\ pc = "arx" /\ (RX_EMPTY \/ Len(rbuf) = len)
          /\ Goto("abusy") /\ UNCHANGED <<tbuf, nt, rbuf, txf, rxf>>
       \/ /\ pc = "abusy" /\ ~BUSY /\ Len(rbuf) < len /\ StoreWord
          /\ Goto("abusy") /\ UNCHANGED <<nt, txf>>
       \/ /\ pc = "abusy" /\ (BUSY \/ Len(rbuf) = len)
          /\ Goto(IF nt < len \/ Len(rbuf) < len THEN "atx" ELSE "idle")
          /\ UNCHANGED <<tbuf, nt, rbuf, txf, rxf>>
    /\ UNCHANGED <<sh, wire>>

Running ==
    \/ spi_transfer \/ spi_transfernb \/ spi_writenb \/ spi_write
    \/ aux_spi_transfer \/ aux_spi_transfernb \/ aux_spi_writenb \/ aux_spi_write

Next ==
    \/ \E o \in {LSBFIRST, MSBFIRST} : spi_setBitOrder(o)
    \/ \E f \in Calls : \E n \in Length(f) : Begin(f, n)
    \/ Running
    \/ \E u \in Buses : Load(u) \/ Emit(u)

Fairness ==
    /\ WF_vars(Running)
    /\ \A u \in Buses : WF_vars(Load(u)) /\ WF_vars(Emit(u))

Spec == Init /\ [][Next]_vars /\ Fairness

-----------------------------------------------------------------------------
(* Properties. *)

TypeOK ==
    /\ pc \in {"idle", "txd", "tx", "rx", "drain", "low", "done", "io", "full", "busy",
               "atx", "arx", "abusy"}
    /\ fn \in Calls \union {"none"} /\ calls \in 0..MaxCalls
    /\ order \in {LSBFIRST, MSBFIRST}
    /\ began \in [order : {LSBFIRST, MSBFIRST}, clean : BOOLEAN]
    /\ Len(tbuf) = len /\ nt \in 0..len /\ Len(rbuf) \in 0..len
    /\ tbuf \in Seq(Bytes) /\ rbuf \in Seq(Bytes)
    /\ \A u \in Buses : Len(txf[u]) <= Depth /\ Len(sh[u]) <= 1 /\ Len(rxf[u]) <= Depth

\* The byte whose bits are those of b in the opposite order.
MirrorBits(b) ==
    LET bit(d) == (b \div d) % 2
    IN  128 * bit(1) + 64 * bit(2) + 32 * bit(4) + 16 * bit(8)
        + 8 * bit(16) + 4 * bit(32) + 2 * bit(64) + bit(128)

Ordered == {"spi_transfer", "spi_transfernb", "spi_transfern", "spi_writenb", "aux_spi_transfer"}

\* What the caller gave, in the bit order it asked for where the function knows of it.
Asked == [i \in 1..len |-> IF began.order = LSBFIRST /\ fn \in Ordered
                           THEN MirrorBits(Given(calls, i)) ELSE Given(calls, i)]

\* SPI0 sends a byte at a time, the auxiliary SPI up to three; the i-th word of the call
\* and how many there are.
Width    == IF fn \in AuxCalls THEN 3 ELSE 1
Piece(i) == SubSeq(Asked, Width * (i - 1) + 1, Min({Width * i, len}))
Pieces   == (len + Width - 1) \div Width

Words == (len + 2) \div 3

\* The controller was empty and all the words of the call fit into its FIFO.
Safe == began.clean /\ Words <= Depth

\* The calls that return only when their last byte has left.
Prompt == fn \in Spi0Calls \/ fn = "aux_spi_writenb" \/ (Safe /\ fn # "aux_spi_write")

\* Every byte is put in the selected bit order by the table, and put back by it.
BitOrder ==
    \A b \in Bytes : /\ correct_order(b) = IF order = LSBFIRST THEN MirrorBits(b) ELSE b
                     /\ correct_order(correct_order(b)) = b

(* When a call returns, exactly the bytes of its buffer have gone to the   *)
(* slave, each once, in order and in the selected bit order, for which the *)
(* table of 256 entries is right whatever the bytes are; the chip          *)
(* select of the auxiliary SPI was held until the last word.  Even         *)
(* spi_transfern, which receives into the buffer it sends from, never      *)
(* overwrites a byte it has still to send.  On the auxiliary SPI some      *)
(* calls return early and their bytes follow; aux_spi_transfern and        *)
(* aux_spi_transfer need an empty controller and words that fit.           *)
WireExact ==
    /\ calls = 0 => BitOrder
    /\ pc = "idle" /\ calls > 0
          /\ (fn \in {"aux_spi_transfern", "aux_spi_transfer"} => Safe) =>
        /\ Len(wire) <= Pieces /\ (Prompt \/ ~BUSY => Len(wire) = Pieces)
        /\ \A i \in DOMAIN wire :
              wire[i].b = Piece(i) /\ (fn \in AuxCalls => wire[i].hold = (i < Pieces))

(* A call that receives returns the slave's answer to each byte it sent,   *)
(* in order and none from an earlier call, however long the caller is      *)
(* preempted between two looks at the flags.  On the auxiliary SPI this    *)
(* needs a controller that no aux_spi_write has left an answer in, and a   *)
(* transfer whose words fit into the FIFO: with more of them the last loop *)
(* of aux_spi_transfernb takes words from an empty receive FIFO.           *)
ReadExact ==
    pc = "idle" /\ fn \in {"spi_transfer", "spi_transfernb", "spi_transfern",
                           "aux_spi_transfer", "aux_spi_transfernb", "aux_spi_transfern"}
                /\ (fn \in AuxCalls => Safe) =>
        rbuf = [i \in 1..len |-> Answer(Given(calls, i))]

(* bcm2835.h:1924 says of aux_spi_transfernb that it transfers any number  *)
(* of bytes to and from the slave and puts the data read into rbuf: so     *)
(* with an idle and empty controller every answer must be there when it    *)
(* returns, however many words the call has.  The code fails here.         *)
AnyNumber ==
    pc = "idle" /\ fn = "aux_spi_transfernb" /\ began.clean =>
        rbuf = [i \in 1..len |-> Answer(Given(calls, i))]

(* Every call returns: no loop over the flags waits for a change that      *)
(* cannot come, in particular not with a full receive FIFO that stalls     *)
(* the controller.                                                         *)
CallReturns == pc # "idle" ~> pc = "idle"

=============================================================================
