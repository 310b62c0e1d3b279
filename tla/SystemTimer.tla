----------------------------- MODULE SystemTimer -----------------------------
(***************************************************************************)
(* bcm2835_st_read: a 64-bit counter that runs on while it is read as two  *)
(* halves.  Between two register accesses any time may pass, so that the   *)
(* low half may carry into the high one at every point of the call, also   *)
(* more than once when the caller is preempted.                            *)
(*                                                                         *)
(* A moment of the counter is a pair <<high half, low half>>.              *)
(***************************************************************************)
EXTENDS Integers

CONSTANT Low    \* values of the low half: 2^32 in the chip

ASSUME LowAssumption == Low \in Nat \ {0}

VARIABLES
    st_mapped,      \* bcm2835_st is not MAP_FAILED
    chi, clo,       \* BCM2835_ST_CHI and BCM2835_ST_CLO
    rd,             \* where the call is
    hi, lo, st,     \* its local variables; st is the high half read again
    value,          \* what it returned
    began           \* history: the counter when it was called

timerVars == <<st_mapped, chi, clo, rd, hi, lo, st, value, began>>

Moments == Nat \X (0..(Low - 1))
Now == <<chi, clo>>

\* Moment a is not later than moment b.
NotAfter(a, b) == a[1] < b[1] \/ (a[1] = b[1] /\ a[2] <= b[2])

TimerTypeOK ==
    /\ st_mapped \in BOOLEAN
    /\ chi \in Nat /\ clo \in 0..(Low - 1)
    /\ rd \in {"idle", "lo", "hiAgain", "loAgain", "returned"}
    /\ hi \in Nat /\ lo \in 0..(Low - 1) /\ st \in Nat
    /\ value \in Moments /\ began \in Moments

TimerInit ==
    /\ st_mapped \in BOOLEAN
    /\ chi \in Nat /\ clo \in 0..(Low - 1)
    /\ rd = "idle" /\ hi = 0 /\ lo = 0 /\ st = 0
    /\ value = <<0, 0>> /\ began = <<0, 0>>

Return(v) == rd' = "returned" /\ value' = v

\* The call and its first access.
StRead ==
    /\ rd = "idle" /\ began' = Now
    /\ IF st_mapped THEN rd' = "lo" /\ hi' = chi /\ UNCHANGED value
                    ELSE Return(<<0, 0>>) /\ UNCHANGED hi
    /\ UNCHANGED <<st_mapped, chi, clo, lo, st>>

ReadLo ==
    /\ rd = "lo" /\ rd' = "hiAgain" /\ lo' = clo
    /\ UNCHANGED <<st_mapped, chi, clo, hi, st, value, began>>

\* Mutant: no test for overflow.
ReadHiAgainTrusting ==
    /\ rd = "hiAgain" /\ Return(<<chi, lo>>)
    /\ UNCHANGED <<st_mapped, chi, clo, hi, lo, st, began>>

\* "Test for overflow"
ReadHiAgain ==
    /\ rd = "hiAgain"
    /\ IF chi = hi THEN Return(<<chi, lo>>) /\ UNCHANGED st
                   ELSE rd' = "loAgain" /\ st' = chi /\ UNCHANGED value
    /\ UNCHANGED <<st_mapped, chi, clo, hi, lo, began>>

ReadLoAgain ==
    /\ rd = "loAgain" /\ Return(<<st, clo>>)
    /\ UNCHANGED <<st_mapped, chi, clo, hi, lo, st, began>>

\* The caller goes on with the value; the local variables are gone.
TakeValue ==
    /\ rd = "returned" /\ rd' = "idle"
    /\ hi' = 0 /\ lo' = 0 /\ st' = 0 /\ value' = <<0, 0>> /\ began' = <<0, 0>>
    /\ UNCHANGED st_mapped

\* The counter moves on to a later moment.
Advance(h, l) ==
    /\ NotAfter(Now, <<h, l>>) /\ chi' = h /\ clo' = l
    /\ UNCHANGED <<st_mapped, rd, hi, lo, st, value, began>>

StReadStep == StRead \/ ReadLo \/ ReadHiAgain \/ ReadLoAgain

TimerNext ==
    \/ StReadStep \/ (TakeValue /\ UNCHANGED <<chi, clo>>)
    \/ \E h \in Nat, l \in 0..(Low - 1) : Advance(h, l)

TimerSpec == TimerInit /\ [][TimerNext]_timerVars

(* bcm2835_st_read returns a moment between the call and the return,       *)
(* however long the call takes and wherever the low half carries; without  *)
(* the mapping it returns 0.                                               *)
StReadExact ==
    rd = "returned" =>
        IF st_mapped THEN NotAfter(began, value) /\ NotAfter(value, Now) ELSE value = <<0, 0>>
=============================================================================
