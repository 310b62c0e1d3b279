-------------------------- MODULE SystemTimerProofs --------------------------
(* bcm2835_st_read returns a moment of the call, for every width of the low half. *)
EXTENDS SystemTimer, TLAPS

(* What the call knows at each access.  The high half read first is the    *)
(* one of the call's beginning; as long as the high half is still the      *)
(* same, the low half was read without a carry; a high half read again and *)
(* found larger belongs to a moment after the beginning.                   *)
Reading ==
    /\ rd \in {"lo", "hiAgain", "loAgain"} => st_mapped /\ hi = began[1] /\ NotAfter(began, Now)
    /\ rd = "hiAgain" /\ chi = hi => began[2] <= lo /\ lo <= clo
    /\ rd = "loAgain" => hi < st /\ st <= chi

TimerInv == TimerTypeOK /\ Reading /\ StReadExact

\* The counter's first state satisfies the invariant.
LEMMA TimerInitial == TimerInit => TimerInv
  BY LowAssumption DEF TimerInit, TimerInv, TimerTypeOK, Reading, StReadExact, Moments

\* Every access of bcm2835_st_read, and the counter running on, keep the invariant.
LEMMA TimerInductive == TimerInv /\ [TimerNext]_timerVars => TimerInv'
<1> SUFFICES ASSUME TimerInv, [TimerNext]_timerVars PROVE TimerInv'
  OBVIOUS
<1> USE LowAssumption DEF TimerInv, TimerTypeOK, Reading, StReadExact, Moments, Now, NotAfter
<1>1. CASE StRead
  BY <1>1 DEF StRead, Return
<1>2. CASE ReadLo
  BY <1>2 DEF ReadLo
<1>3. CASE ReadHiAgain
  BY <1>3 DEF ReadHiAgain, Return
<1>4. CASE ReadLoAgain
  BY <1>4 DEF ReadLoAgain, Return
<1>5. CASE TakeValue /\ UNCHANGED <<chi, clo>>
  BY <1>5 DEF TakeValue
<1>6. CASE \E h \in Nat, l \in 0..(Low - 1) : Advance(h, l)
  <2>1. PICK h \in Nat, l \in 0..(Low - 1) : Advance(h, l)
    BY <1>6
  <2> QED
    BY <2>1 DEF Advance
<1>7. CASE UNCHANGED timerVars
  BY <1>7 DEF timerVars
<1> QED
  BY <1>1, <1>2, <1>3, <1>4, <1>5, <1>6, <1>7 DEF TimerNext, StReadStep

(* bcm2835_st_read returns a moment of the call, for every width of the    *)
(* counter's halves and every delay between its three or four accesses.    *)
THEOREM StReadIsExact == TimerSpec => []StReadExact
<1>1. TimerInv => StReadExact
  BY DEF TimerInv
<1> QED
  BY TimerInitial, TimerInductive, <1>1, PTL DEF TimerSpec
=============================================================================
