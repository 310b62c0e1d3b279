---------------------------- MODULE ExclusiveDevice ----------------------------
(***************************************************************************)
(* What the dht11 device promises its users, with the driver's steps, the  *)
(* module's life cycle and the text buffer left out: sessions are served   *)
(* one at a time, a session has one measurement, and every byte handed out *)
(* during the session belongs to that measurement.                         *)
(***************************************************************************)
EXTENDS Integers

CONSTANTS Files, NoOwner, SampleIds, Cells, NoSample

VARIABLES owner,    \* the session being served, or NoOwner
          sample,   \* measurement of each session, NoSample before it is taken
          got       \* bytes handed out to each session

vars == <<owner, sample, got>>

Init ==
    /\ owner = NoOwner
    /\ sample = [f \in Files |-> NoSample]
    /\ got = [f \in Files |-> {}]

Acquire(f) ==
    /\ owner = NoOwner
    /\ owner' = f
    /\ UNCHANGED <<sample, got>>

Measure(f) ==
    /\ owner = f /\ sample[f] = NoSample
    /\ \E s \in SampleIds : sample' = [sample EXCEPT ![f] = s]
    /\ UNCHANGED <<owner, got>>

Deliver(f) ==
    /\ owner = f /\ sample[f] # NoSample
    /\ \E I \in SUBSET Cells :
          got' = [got EXCEPT ![f] = @ \cup (I \X {sample[f]})]
    /\ UNCHANGED <<owner, sample>>

\* The session ends: closed by its user, or, before its measurement, lost with
\* the module.
End(f) ==
    /\ owner = f
    /\ owner' = NoOwner
    /\ sample' = [sample EXCEPT ![f] = NoSample]
    /\ got' = [got EXCEPT ![f] = {}]

Next == \E f \in Files : Acquire(f) \/ Measure(f) \/ Deliver(f) \/ End(f)

Spec == Init /\ [][Next]_vars
=============================================================================
