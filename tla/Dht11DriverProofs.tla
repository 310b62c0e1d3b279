--------------------------- MODULE Dht11DriverProofs ---------------------------
(***************************************************************************)
(* Proofs about Dht11Driver for every number of tasks and files and every  *)
(* buffer size.  The inductive invariant IInv is established in layers:    *)
(* types, the module's life cycle, who owns which file and the mutex, what *)
(* has been delivered.  Each layer uses the ones before it.                *)
(***************************************************************************)
EXTENDS Dht11Driver, TLAPS

(* The length that strnlen finds in a formatted text is the length written, *)
(* whatever an earlier measurement left behind the terminating Nul.         *)
LEMMA StrnlenSnprintf ==
    ASSUME NEW t \in [Cells -> SampleIds \cup {Nul}],
           NEW s \in SampleIds, NEW len \in 1..(TextCap - 1)
    PROVE  /\ Snprintf(t, s, len) \in [Cells -> SampleIds \cup {Nul}]
           /\ Strnlen(Snprintf(t, s, len)) = len
           /\ \A i \in 0..(len - 1) : Snprintf(t, s, len)[i] = s
<1> DEFINE u == Snprintf(t, s, len)
<1>1. len \in Cells /\ s # Nul
  BY TextAssumption DEF Cells, Nul
<1>2. u \in [Cells -> SampleIds \cup {Nul}]
  BY DEF Snprintf, Nul
<1>3. \A i \in Cells : u[i] = IF i < len THEN s ELSE IF i = len THEN Nul ELSE t[i]
  BY DEF Snprintf
<1>4. \A i \in 0..(len - 1) : i \in Cells /\ u[i] = s
  BY <1>1, <1>3, TextAssumption DEF Cells
<1>5. u[len] = Nul /\ \A j \in 0..(len - 1) : u[j] # Nul
  BY <1>1, <1>3, <1>4
<1>6. ASSUME NEW n \in Cells, u[n] = Nul, \A j \in 0..(n - 1) : u[j] # Nul
      PROVE  n = len
  BY <1>1, <1>5, <1>6, TextAssumption DEF Cells
<1>7. Strnlen(u) = len
  <2>1. Strnlen(u) = CHOOSE n \in Cells : u[n] = Nul /\ \A j \in 0..(n - 1) : u[j] # Nul
    BY <1>1, <1>5 DEF Strnlen
  <2> HIDE DEF u
  <2> QED BY <1>1, <1>5, <1>6, <2>1
<1> QED BY <1>2, <1>4, <1>7

(* The same for the fixed text that strncpy stores when the measurement failed. *)
LEMMA StrnlenStrncpy ==
    ASSUME NEW s \in SampleIds, NEW len \in 1..(TextCap - 1)
    PROVE  /\ Strncpy(s, len) \in [Cells -> SampleIds \cup {Nul}]
           /\ Strnlen(Strncpy(s, len)) = len
           /\ \A i \in 0..(len - 1) : Strncpy(s, len)[i] = s
<1> DEFINE z == [i \in Cells |-> Nul]
<1>1. z \in [Cells -> SampleIds \cup {Nul}]
  OBVIOUS
<1>2. Strncpy(s, len) = Snprintf(z, s, len)
  BY DEF Strncpy, Snprintf
<1> QED BY <1>1, <1>2, StrnlenSnprintf

-----------------------------------------------------------------------------

(* Every step keeps every variable in its type. *)
LEMMA TypeStep ==
    TypeOK /\ WorksOnFile /\ [Next]_vars
        => TypeOK'
<1> SUFFICES ASSUME TypeOK, WorksOnFile, [Next]_vars
             PROVE  TypeOK'
  OBVIOUS
<1> USE TextAssumption, NameAssumption
     DEF TypeOK, ModStates, LoadSteps, TaskSteps, modVars, devVars, taskVars, fileVars
<1>1. ASSUME NEW p \in Procs, NEW f \in Files, ChrdevOpen(p, f)
      PROVE  TypeOK'
  BY <1>1 DEF ChrdevOpen, ModuleGet
<1>2. ASSUME NEW p \in Procs, NEW f \in Files, ReadBegin(p, f)
      PROVE  TypeOK'
  BY <1>2 DEF ReadBegin
<1>3. ASSUME NEW p \in Procs, NEW f \in Files, CloseShared(p, f)
      PROVE  TypeOK'
  BY <1>3 DEF CloseShared
<1>4. ASSUME NEW p \in Procs, NEW f \in Files, Release(p, f)
      PROVE  TypeOK'
  BY <1>4 DEF Release, Unlock
<1>5. ASSUME NEW p \in Procs, NEW q \in Procs, NEW f \in Files, Share(p, q, f)
      PROVE  TypeOK'
  BY <1>5 DEF Share
<1>6. ASSUME NEW p \in Procs, OpenBusy(p)
      PROVE  TypeOK'
  BY <1>6 DEF OpenBusy
<1>7. ASSUME NEW p \in Procs, OpenTrylock(p)
      PROVE  TypeOK'
  BY <1>7 DEF OpenTrylock, WorksOnFile, InFlight, Trylock
<1>8. ASSUME NEW p \in Procs, OpenFault(p)
      PROVE  TypeOK'
  BY <1>8 DEF OpenFault
<1>9. ASSUME NEW p \in Procs, OpenSampled(p)
      PROVE  TypeOK'
  <2>1. PICK s \in SampleIds, len \in TextLens :
            OpenReturn(p, s, Snprintf(text, s, len))
    BY <1>9 DEF OpenSampled
  <2>2. Strnlen(Snprintf(text, s, len)) = len
        /\ Snprintf(text, s, len) \in [Cells -> SampleIds \cup {Nul}]
    BY StrnlenSnprintf
  <2> QED BY <1>9, <2>1, <2>2 DEF OpenSampled, OpenReturn, WorksOnFile, InFlight, StoreText
<1>10. ASSUME NEW p \in Procs, OpenInconsistent(p)
      PROVE  TypeOK'
  <2>1. PICK s \in SampleIds : OpenReturn(p, s, Strncpy(s, BadLen))
    BY <1>10 DEF OpenInconsistent
  <2>2. Strnlen(Strncpy(s, BadLen)) = BadLen
        /\ Strncpy(s, BadLen) \in [Cells -> SampleIds \cup {Nul}]
    BY StrnlenStrncpy
  <2> QED BY <1>10, <2>1, <2>2 DEF OpenInconsistent, OpenReturn, WorksOnFile, InFlight, StoreText
<1>11. ASSUME NEW p \in Procs, ReadEof(p)
      PROVE  TypeOK'
  BY <1>11 DEF ReadEof, ReadReturn, WorksOnFile, InFlight, AdvancePos
<1>12. ASSUME NEW p \in Procs, ReadCopy(p)
      PROVE  TypeOK'
  <2>1. PICK count \in ReadCounts :
            /\ got' = [got EXCEPT ![cur[p]] = @ \cup
                 {<<i, text[i]>> : i \in rpos[p]..(rpos[p] + Clamped(rpos[p], count) - 1)}]
            /\ pos' = [pos EXCEPT ![cur[p]] = rpos[p] + Clamped(rpos[p], count)]
    BY <1>12 DEF ReadCopy, AdvancePos
  <2>2. rpos[p] \in Nat /\ rpos[p] < textSize /\ cur[p] \in Files
    BY <1>12 DEF ReadCopy, WorksOnFile, InFlight, AdvancePos
  <2>3. Clamped(rpos[p], count) \in 0..(textSize - rpos[p])
    BY <2>2 DEF Clamped
  <2>4. {<<i, text[i]>> : i \in rpos[p]..(rpos[p] + Clamped(rpos[p], count) - 1)}
          \in SUBSET (Cells \X (SampleIds \cup {Nul}))
    BY <2>2, <2>3 DEF Cells
  <2>5. pos' \in [Files -> 0..TextCap]
    BY <2>1, <2>2, <2>3
  <2>6. got' \in [Files -> SUBSET (Cells \X (SampleIds \cup {Nul}))]
    BY <2>1, <2>2, <2>4
  <2> QED BY <1>12, <2>5, <2>6 DEF ReadCopy, ReadReturn, AdvancePos
<1>13. ASSUME NEW p \in Procs, ReadFault(p)
      PROVE  TypeOK'
  BY <1>13 DEF ReadFault, ReadReturn
<1>14. ASSUME NEW p \in Procs, ModulePut(p)
      PROVE  TypeOK'
  BY <1>14 DEF ModulePut
<1>15. CASE Modprobe
  BY <1>15 DEF Modprobe
<1>16. CASE InitAllocFail
  BY <1>16 DEF InitAllocFail
<1>17. CASE InitAlloc
  BY <1>17 DEF InitAlloc
<1>18. CASE InitSetup
  <2>1. cdev' \in BOOLEAN /\ mpc' \in LoadSteps
    BY <1>18, Zenon DEF InitSetup
  <2> QED BY <1>18, <2>1 DEF InitSetup
<1>19. CASE InitBcm
  BY <1>19 DEF InitBcm, Bcm2835Init
<1>20. CASE InitBcmFail
  BY <1>20 DEF InitBcmFail, CdevDel
<1>21. CASE InitUnwind
  BY <1>21 DEF InitUnwind
<1>22. CASE MkNode
  BY <1>22 DEF MkNode
<1>23. CASE StartAgain
  BY <1>23 DEF StartAgain
<1>24. CASE Rmmod
  BY <1>24 DEF Rmmod
<1>25. CASE CleanupLock
  BY <1>25 DEF CleanupLock
<1>26. CASE CleanupClose
  BY <1>26 DEF CleanupClose, Bcm2835Close
<1>27. CASE CleanupDel
  BY <1>27 DEF CleanupDel, CdevDel
<1>28. CASE CleanupUnlock
  BY <1>28 DEF CleanupUnlock, Unlock
<1>29. CASE RmNode
  BY <1>29 DEF RmNode, RemoveNode
<1>30. CASE SkipNode
  BY <1>30 DEF SkipNode
<1>31. CASE UNCHANGED vars
  BY <1>31 DEF vars
<1> QED BY <1>1, <1>2, <1>3, <1>4, <1>5, <1>6, <1>7, <1>8, <1>9, <1>10, <1>11,
   <1>12, <1>13, <1>14, <1>15, <1>16, <1>17, <1>18, <1>19, <1>20, <1>21, <1>22,
   <1>23, <1>24, <1>25, <1>26, <1>27, <1>28, <1>29, <1>30, <1>31 DEF Next, InKernel,
   SysCall, LoadStep

(* A task inside a system call keeps the file it works on. *)
LEMMA WorksOnFileStep ==
    TypeOK /\ WorksOnFile /\ [Next]_vars
        => WorksOnFile'
<1> SUFFICES ASSUME TypeOK, WorksOnFile, [Next]_vars
             PROVE  WorksOnFile'
  OBVIOUS
<1> USE NameAssumption
     DEF TypeOK, TaskSteps, InFlight, WorksOnFile, modVars, devVars, taskVars, fileVars
<1>1. ASSUME NEW p \in Procs, NEW f \in Files, ChrdevOpen(p, f)
      PROVE  WorksOnFile'
  BY <1>1 DEF ChrdevOpen, ModuleGet
<1>2. ASSUME NEW p \in Procs, NEW f \in Files, ReadBegin(p, f)
      PROVE  WorksOnFile'
  BY <1>2 DEF ReadBegin
<1>3. ASSUME NEW p \in Procs, NEW f \in Files, CloseShared(p, f)
      PROVE  WorksOnFile'
  BY <1>3 DEF CloseShared
<1>4. ASSUME NEW p \in Procs, NEW f \in Files, Release(p, f)
      PROVE  WorksOnFile'
  BY <1>4 DEF Release, Unlock
<1>5. ASSUME NEW p \in Procs, NEW q \in Procs, NEW f \in Files, Share(p, q, f)
      PROVE  WorksOnFile'
  BY <1>5 DEF Share
<1>6. ASSUME NEW p \in Procs, OpenBusy(p)
      PROVE  WorksOnFile'
  BY <1>6 DEF OpenBusy
<1>7. ASSUME NEW p \in Procs, OpenTrylock(p)
      PROVE  WorksOnFile'
  BY <1>7 DEF OpenTrylock, Trylock
<1>8. ASSUME NEW p \in Procs, OpenFault(p)
      PROVE  WorksOnFile'
  BY <1>8 DEF OpenFault
<1>9. ASSUME NEW p \in Procs, OpenSampled(p)
      PROVE  WorksOnFile'
  BY <1>9 DEF OpenSampled, OpenReturn, StoreText
<1>10. ASSUME NEW p \in Procs, OpenInconsistent(p)
      PROVE  WorksOnFile'
  BY <1>10 DEF OpenInconsistent, OpenReturn, StoreText
<1>11. ASSUME NEW p \in Procs, ReadEof(p)
      PROVE  WorksOnFile'
  BY <1>11 DEF ReadEof, ReadReturn, AdvancePos
<1>12. ASSUME NEW p \in Procs, ReadCopy(p)
      PROVE  WorksOnFile'
  BY <1>12 DEF ReadCopy, ReadReturn, Clamped, AdvancePos
<1>13. ASSUME NEW p \in Procs, ReadFault(p)
      PROVE  WorksOnFile'
  BY <1>13 DEF ReadFault, ReadReturn
<1>14. ASSUME NEW p \in Procs, ModulePut(p)
      PROVE  WorksOnFile'
  BY <1>14 DEF ModulePut
<1>15. CASE InitUnwind
  BY <1>15 DEF InitUnwind
<1>16. CASE Modprobe \/ InitAllocFail \/ InitAlloc \/ InitSetup \/ InitBcm \/
   InitBcmFail \/ MkNode \/ StartAgain \/ Rmmod \/ CleanupLock \/ CleanupClose \/
   CleanupDel \/ CleanupUnlock \/ RmNode \/ SkipNode
  BY <1>16 DEF Modprobe, InitAllocFail, InitAlloc, InitSetup, InitBcm, Bcm2835Init, InitBcmFail,
        MkNode, StartAgain, Rmmod, CleanupLock, CleanupClose, CleanupDel,
        CleanupUnlock, RmNode, SkipNode, CdevDel, Bcm2835Close, Unlock, RemoveNode
<1>17. CASE UNCHANGED vars
  BY <1>17 DEF vars
<1> QED BY <1>1, <1>2, <1>3, <1>4, <1>5, <1>6, <1>7, <1>8, <1>9, <1>10, <1>11,
   <1>12, <1>13, <1>14, <1>15, <1>16, <1>17 DEF Next, InKernel, SysCall, LoadStep

(* What is registered follows the steps of init and cleanup. *)
LEMMA LifeCycleStep ==
    TypeOK /\ LifeCycle /\ [Next]_vars
        => LifeCycle'
<1> SUFFICES ASSUME TypeOK, LifeCycle, [Next]_vars
             PROVE  LifeCycle'
  OBVIOUS
<1> USE NameAssumption
     DEF TypeOK, ModStates, LoadSteps, LifeCycle, modVars, devVars, taskVars, fileVars
<1>1. ASSUME NEW p \in Procs, NEW f \in Files, ChrdevOpen(p, f)
      PROVE  LifeCycle'
  BY <1>1 DEF ChrdevOpen, ModuleGet
<1>2. ASSUME NEW p \in Procs, NEW q \in Procs, NEW f \in Files, ReadBegin(p, f) \/
   CloseShared(p, f) \/ Release(p, f) \/ Share(p, q, f)
      PROVE  LifeCycle'
  BY <1>2 DEF ReadBegin, CloseShared, Release, Share, Unlock
<1>3. ASSUME NEW p \in Procs, OpenBusy(p) \/ OpenTrylock(p) \/ OpenFault(p) \/
   OpenSampled(p) \/ OpenInconsistent(p) \/ ReadEof(p) \/ ReadCopy(p) \/
   ReadFault(p) \/ ModulePut(p)
      PROVE  LifeCycle'
  BY <1>3 DEF OpenBusy, OpenTrylock, OpenFault, OpenSampled, OpenReturn,
        OpenInconsistent, ReadEof, ReadReturn, ReadCopy, Clamped, ReadFault,
        ModulePut, Trylock, StoreText, AdvancePos
<1>4. CASE Modprobe
  BY <1>4 DEF Modprobe
<1>5. CASE InitAllocFail
  BY <1>5 DEF InitAllocFail
<1>6. CASE InitAlloc
  BY <1>6 DEF InitAlloc
<1>7. CASE InitSetup
  BY <1>7 DEF InitSetup
<1>8. CASE InitBcm
  BY <1>8 DEF InitBcm, Bcm2835Init
<1>9. CASE InitBcmFail
  BY <1>9 DEF InitBcmFail, CdevDel
<1>10. CASE InitUnwind
  BY <1>10 DEF InitUnwind
<1>11. CASE MkNode
  BY <1>11 DEF MkNode
<1>12. CASE StartAgain
  BY <1>12 DEF StartAgain
<1>13. CASE Rmmod
  BY <1>13 DEF Rmmod
<1>14. CASE CleanupLock
  BY <1>14 DEF CleanupLock
<1>15. CASE CleanupClose
  BY <1>15 DEF CleanupClose, Bcm2835Close
<1>16. CASE CleanupDel
  BY <1>16 DEF CleanupDel, CdevDel
<1>17. CASE CleanupUnlock
  BY <1>17 DEF CleanupUnlock, Unlock
<1>18. CASE RmNode
  BY <1>18 DEF RmNode, RemoveNode
<1>19. CASE SkipNode
  BY <1>19 DEF SkipNode
<1>20. CASE UNCHANGED vars
  BY <1>20 DEF vars
<1> QED BY <1>1, <1>2, <1>3, <1>4, <1>5, <1>6, <1>7, <1>8, <1>9, <1>10, <1>11,
   <1>12, <1>13, <1>14, <1>15, <1>16, <1>17, <1>18, <1>19, <1>20 DEF Next, InKernel,
   SysCall, LoadStep

(* A successful open turns the file that was being opened into an open one. *)
LEMMA OpenReturnOwnership ==
    ASSUME TypeOK, WorksOnFile, LifeCycle, Ownership,
           NEW p \in Procs, NEW s, NEW t, pc[p] = "sampling", mapped, OpenReturn(p, s, t)
    PROVE  Ownership'
<1> USE NameAssumption
     DEF TypeOK, InFlight, WorksOnFile, LifeCycle, Ownership, MutualExclusion, Inside,
         modVars
<1>1. cur[p] \in Files /\ lock = cur[p] /\ holders[cur[p]] = {} /\ cur[p] \in refs
  OBVIOUS
<1>2. modState = "live"
  BY <1>1
<1>3. \A q \in Procs : q # p => cur[q] # cur[p]
  BY <1>1
<1>4. \A q \in Procs : pc'[q] = IF q = p THEN "user" ELSE pc[q]
  BY DEF OpenReturn, StoreText
<1>5. \A q \in Procs : cur'[q] = IF q = p THEN NoFile ELSE cur[q]
  BY DEF OpenReturn, StoreText
<1>6. \A g \in Files : holders'[g] = IF g = cur[p] THEN {p} ELSE holders[g]
  BY <1>1 DEF OpenReturn, StoreText
<1>7. UNCHANGED <<modState, mpc, lock, refs>>
  BY DEF OpenReturn, StoreText
<1>8. ASSUME NEW g \in Files PROVE Inside(g)' <=> lock' = g
  <2>1. CASE g = cur[p]
    <3> HIDE DEF TypeOK, WorksOnFile, LifeCycle, Ownership, MutualExclusion
    <3>1. holders'[g] # {}
      BY <1>6, <2>1
    <3>2. lock' = g
      BY <1>1, <1>7, <2>1
    <3> QED BY <3>1, <3>2
  <2>2. CASE g # cur[p]
    <3>1. ~Inside(g)
      BY <1>1, <2>2
    <3> QED BY <1>1, <1>4, <1>5, <1>6, <1>7, <2>2, <3>1
  <2> QED BY <2>1, <2>2
<1> QED BY <1>1, <1>2, <1>3, <1>4, <1>5, <1>6, <1>7, <1>8

(* The mutex is held by exactly the file that is inside the driver. *)
LEMMA OwnershipStep ==
    TypeOK /\ WorksOnFile /\ LifeCycle /\ Ownership /\ [Next]_vars
        => Ownership'
<1> SUFFICES ASSUME TypeOK, WorksOnFile, LifeCycle, Ownership, [Next]_vars
             PROVE  Ownership'
  OBVIOUS
<1> USE NameAssumption
     DEF TypeOK, TaskSteps, InFlight, WorksOnFile, LifeCycle, Ownership, MutualExclusion,
         Inside, modVars, devVars, taskVars, fileVars
<1>1. ASSUME NEW p \in Procs, NEW f \in Files, ChrdevOpen(p, f)
      PROVE  Ownership'
  BY <1>1 DEF ChrdevOpen, ModuleGet
<1>2. ASSUME NEW p \in Procs, NEW f \in Files, ReadBegin(p, f)
      PROVE  Ownership'
  BY <1>2 DEF ReadBegin
<1>3. ASSUME NEW p \in Procs, NEW f \in Files, CloseShared(p, f)
      PROVE  Ownership'
  BY <1>3 DEF CloseShared
<1>4. ASSUME NEW p \in Procs, NEW f \in Files, Release(p, f)
      PROVE  Ownership'
  <2> USE <1>4 DEF Release, Unlock
  <2>1. lock = f /\ f \in refs
    OBVIOUS
  <2>2. ASSUME NEW q \in Procs, cur[q] = f PROVE FALSE
    <3>1. f # NoFile /\ pc[q] = "reading" /\ q \in holders[f]
      <4>1. f # NoFile /\ holders[f] # {}
        BY NameAssumption
      <4>2. cur[q] # NoFile /\ pc[q] # "reading" => holders[cur[q]] = {}
        BY Zenon DEF Ownership
      <4>3. pc[q] = "reading" => q \in holders[cur[q]]
        BY Zenon DEF Ownership
      <4> HIDE DEF TypeOK, WorksOnFile, LifeCycle, Ownership, MutualExclusion, Inside, Release
      <4> QED
        BY <2>2, <4>1, <4>2, <4>3
    <3>2. q = p
      BY <3>1
    <3> QED BY <3>1, <3>2
  <2>3. \A q \in Procs : cur'[q] = IF q = p THEN f ELSE cur[q]
    OBVIOUS
  <2>4. \A g \in Files : holders'[g] = IF g = f THEN {} ELSE holders[g]
    OBVIOUS
  <2>5. \A q \in Procs : pc'[q] = IF q = p THEN "putting" ELSE pc[q]
    OBVIOUS
  <2>6. MutualExclusion'
    BY <2>1, <2>2, <2>3, <2>4, <2>5
  <2> QED BY <2>1, <2>2, <2>3, <2>4, <2>5, <2>6
<1>5. ASSUME NEW p \in Procs, NEW q \in Procs, NEW f \in Files, Share(p, q, f)
      PROVE  Ownership'
  BY <1>5 DEF Share
<1>6. ASSUME NEW p \in Procs, OpenBusy(p)
      PROVE  Ownership'
  BY <1>6 DEF OpenBusy
<1>7. ASSUME NEW p \in Procs, OpenTrylock(p)
      PROVE  Ownership'
  BY <1>7 DEF OpenTrylock, Trylock
<1>8. ASSUME NEW p \in Procs, OpenFault(p)
      PROVE  Ownership'
  BY <1>8 DEF OpenFault
<1>9. ASSUME NEW p \in Procs, OpenSampled(p)
      PROVE  Ownership'
  BY <1>9, OpenReturnOwnership, StrnlenSnprintf, TextAssumption DEF OpenSampled
<1>10. ASSUME NEW p \in Procs, OpenInconsistent(p)
      PROVE  Ownership'
  BY <1>10, OpenReturnOwnership DEF OpenInconsistent
<1>11. ASSUME NEW p \in Procs, ReadEof(p)
      PROVE  Ownership'
  BY <1>11 DEF ReadEof, ReadReturn, AdvancePos
<1>12. ASSUME NEW p \in Procs, ReadCopy(p)
      PROVE  Ownership'
  BY <1>12 DEF ReadCopy, ReadReturn, Clamped, AdvancePos
<1>13. ASSUME NEW p \in Procs, ReadFault(p)
      PROVE  Ownership'
  BY <1>13 DEF ReadFault, ReadReturn
<1>14. ASSUME NEW p \in Procs, ModulePut(p)
      PROVE  Ownership'
  BY <1>14 DEF ModulePut
<1>15. CASE Modprobe
  BY <1>15 DEF Modprobe
<1>16. CASE InitAllocFail
  BY <1>16 DEF InitAllocFail
<1>17. CASE InitAlloc
  BY <1>17 DEF InitAlloc
<1>18. CASE InitSetup
  BY <1>18 DEF InitSetup
<1>19. CASE InitBcm
  BY <1>19 DEF InitBcm, Bcm2835Init
<1>20. CASE InitBcmFail
  BY <1>20 DEF InitBcmFail, CdevDel
<1>21. CASE InitUnwind
  BY <1>21 DEF InitUnwind
<1>22. CASE MkNode
  BY <1>22 DEF MkNode
<1>23. CASE StartAgain
  BY <1>23 DEF StartAgain
<1>24. CASE Rmmod
  BY <1>24 DEF Rmmod
<1>25. CASE CleanupLock
  BY <1>25 DEF CleanupLock
<1>26. CASE CleanupClose
  BY <1>26 DEF CleanupClose, Bcm2835Close
<1>27. CASE CleanupDel
  BY <1>27 DEF CleanupDel, CdevDel
<1>28. CASE CleanupUnlock
  BY <1>28 DEF CleanupUnlock, Unlock
<1>29. CASE RmNode
  BY <1>29 DEF RmNode, RemoveNode
<1>30. CASE SkipNode
  BY <1>30 DEF SkipNode
<1>31. CASE UNCHANGED vars
  BY <1>31 DEF vars
<1> QED BY <1>1, <1>2, <1>3, <1>4, <1>5, <1>6, <1>7, <1>8, <1>9, <1>10, <1>11,
   <1>12, <1>13, <1>14, <1>15, <1>16, <1>17, <1>18, <1>19, <1>20, <1>21, <1>22,
   <1>23, <1>24, <1>25, <1>26, <1>27, <1>28, <1>29, <1>30, <1>31 DEF Next, InKernel,
   SysCall, LoadStep

(* A successful open finds no other open file, so the new text belongs to the only one. *)
LEMMA OpenReturnDelivery ==
    ASSUME TypeOK, WorksOnFile, LifeCycle, Ownership, Delivery,
           NEW p \in Procs, NEW s \in SampleIds, NEW len \in 1..(TextCap - 1),
           NEW t \in [Cells -> SampleIds \cup {Nul}], Strnlen(t) = len,
           \A i \in 0..(len - 1) : t[i] = s,
           pc[p] = "sampling", OpenReturn(p, s, t)
    PROVE  Delivery'
<1> USE NameAssumption
<1>1. /\ cur[p] \in Files /\ holders[cur[p]] = {}
      /\ \A g \in Files : g # cur[p] => holders[g] = {}
  BY DEF TypeOK, WorksOnFile, InFlight, Ownership, MutualExclusion, Inside
<1>2. \A q \in Procs : pc[q] # "reading"
  BY <1>1 DEF TypeOK, WorksOnFile, InFlight, Ownership
<1>3. \A q \in Procs : pc'[q] # "reading"
  BY <1>2 DEF OpenReturn, TypeOK, StoreText
<1>4. \A g \in Files : holders'[g] = IF g = cur[p] THEN {p} ELSE {}
  BY <1>1 DEF OpenReturn, TypeOK, StoreText
<1>5. \A g \in Files : sampleOf'[g] = IF g = cur[p] THEN s ELSE Nul
  BY <1>1 DEF OpenReturn, TypeOK, Delivery, StoreText
<1>6. \A g \in Files : pos'[g] = 0 /\ got'[g] = {} /\ g \notin eof'
  BY <1>1 DEF OpenReturn, Delivery, StoreText
<1>7. \A i \in 0..(textSize' - 1) : text'[i] = s
  BY DEF OpenReturn, StoreText
<1>8. s # Nul /\ 0 <= textSize' /\ eof' = {}
  BY <1>6, TextAssumption DEF OpenReturn, TypeOK, Nul, StoreText
<1> QED BY <1>3, <1>4, <1>5, <1>6, <1>7, <1>8 DEF Delivery, ReadsOwnSample, WholeTextAtEof

(* What was handed out stays a gap-free piece of the text of the only open file. *)
LEMMA DeliveryStep ==
    TypeOK /\ WorksOnFile /\ LifeCycle /\ Ownership /\ Delivery /\ [Next]_vars
        => Delivery'
<1> SUFFICES ASSUME TypeOK, WorksOnFile, LifeCycle, Ownership, Delivery, [Next]_vars
             PROVE  Delivery'
  OBVIOUS
<1> USE NameAssumption, TextAssumption
     DEF TypeOK, TaskSteps, InFlight, WorksOnFile, Delivery, ReadsOwnSample, WholeTextAtEof,
         modVars, devVars, taskVars, fileVars
<1>1. ASSUME NEW p \in Procs, NEW f \in Files, ChrdevOpen(p, f)
      PROVE  Delivery'
  BY <1>1 DEF ChrdevOpen, ModuleGet
<1>2. ASSUME NEW p \in Procs, OpenBusy(p) \/ OpenTrylock(p) \/ OpenFault(p) \/
   ModulePut(p)
      PROVE  Delivery'
  BY <1>2 DEF OpenBusy, OpenTrylock, OpenFault, ModulePut, Trylock
<1>3. ASSUME NEW p \in Procs, OpenSampled(p)
      PROVE  Delivery'
  <2>1. PICK s \in SampleIds, len \in TextLens :
            OpenReturn(p, s, Snprintf(text, s, len))
    BY <1>3 DEF OpenSampled
  <2> DEFINE t == Snprintf(text, s, len)
  <2>2. /\ t \in [Cells -> SampleIds \cup {Nul}] /\ Strnlen(t) = len
        /\ \A i \in 0..(len - 1) : t[i] = s
    BY StrnlenSnprintf
  <2>3. pc[p] = "sampling" /\ OpenReturn(p, s, t)
    BY <1>3, <2>1 DEF OpenSampled
  <2> HIDE DEF t, TypeOK, WorksOnFile, Delivery
  <2> QED BY <2>2, <2>3, OpenReturnDelivery
<1>4. ASSUME NEW p \in Procs, OpenInconsistent(p)
      PROVE  Delivery'
  <2>1. PICK s \in SampleIds : OpenReturn(p, s, Strncpy(s, BadLen))
    BY <1>4 DEF OpenInconsistent
  <2> DEFINE t == Strncpy(s, BadLen)
  <2>2. /\ t \in [Cells -> SampleIds \cup {Nul}] /\ Strnlen(t) = BadLen
        /\ \A i \in 0..(BadLen - 1) : t[i] = s
    BY StrnlenStrncpy
  <2>3. pc[p] = "sampling" /\ OpenReturn(p, s, t)
    BY <1>4, <2>1 DEF OpenInconsistent
  <2> HIDE DEF t, TypeOK, WorksOnFile, Delivery
  <2> QED BY <2>2, <2>3, OpenReturnDelivery
<1>5. ASSUME NEW p \in Procs, NEW f \in Files, ReadBegin(p, f)
      PROVE  Delivery'
  BY <1>5 DEF ReadBegin
<1>6. ASSUME NEW p \in Procs, ReadEof(p)
      PROVE  Delivery'
  <2> DEFINE f == cur[p]
  <2>1. f \in Files /\ p \in holders[f] /\ rpos[p] = textSize
    BY <1>6 DEF ReadEof, Ownership, AdvancePos
  <2>2. \A i \in 0..(textSize - 1) : <<i, sampleOf[f]>> \in got[f]
    BY <1>6, <2>1 DEF ReadEof, AdvancePos
  <2>3. \A g \in Files : pos'[g] = IF g = f THEN textSize ELSE pos[g]
    BY <1>6, <2>1 DEF ReadEof, AdvancePos
  <2>4. \A q \in Procs : pc'[q] = "reading" =>
            pc[q] = "reading" /\ cur'[q] = cur[q] /\ rpos'[q] = rpos[q]
    BY <1>6 DEF ReadEof, ReadReturn, AdvancePos
  <2>5. UNCHANGED <<text, textSize, holders, sampleOf, got>> /\ eof' = eof \cup {f}
    BY <1>6 DEF ReadEof, ReadReturn, AdvancePos
  <2> QED BY <2>1, <2>2, <2>3, <2>4, <2>5
<1>7. ASSUME NEW p \in Procs, ReadCopy(p)
      PROVE  Delivery'
  <2> DEFINE f == cur[p]
  <2>1. /\ f \in Files /\ p \in holders[f]
        /\ rpos[p] \in Nat /\ textSize \in Nat /\ rpos[p] < textSize
    BY <1>7 DEF ReadCopy, Ownership, AdvancePos
  <2>2. PICK count \in ReadCounts :
            /\ got' = [got EXCEPT ![f] = @ \cup
                 {<<i, text[i]>> : i \in rpos[p]..(rpos[p] + Clamped(rpos[p], count) - 1)}]
            /\ pos' = [pos EXCEPT ![f] = rpos[p] + Clamped(rpos[p], count)]
    BY <1>7 DEF ReadCopy, AdvancePos
  <2> DEFINE n == Clamped(rpos[p], count)
             new == {<<i, text[i]>> : i \in rpos[p]..(rpos[p] + n - 1)}
  <2>3. n \in Nat /\ rpos[p] + n <= textSize
    BY <2>1 DEF Clamped
  <2>4. \A i \in 0..(textSize - 1) : text[i] = sampleOf[f]
    BY <2>1
  <2>5. \A b \in new : b[2] = sampleOf[f]
    BY <2>1, <2>3, <2>4
  <2>6. \A i \in rpos[p]..(rpos[p] + n - 1) : <<i, sampleOf[f]>> \in new
    BY <2>1, <2>3, <2>4
  <2>7. \A g \in Files : got'[g] = IF g = f THEN got[f] \cup new ELSE got[g]
    BY <2>1, <2>2
  <2>8. \A g \in Files : pos'[g] = IF g = f THEN rpos[p] + n ELSE pos[g]
    BY <2>1, <2>2
  <2>9. \A q \in Procs : pc'[q] = "reading" =>
            pc[q] = "reading" /\ cur'[q] = cur[q] /\ rpos'[q] = rpos[q]
    BY <1>7 DEF ReadCopy, ReadReturn, AdvancePos
  <2>10. UNCHANGED <<text, textSize, holders, sampleOf, eof>>
    BY <1>7 DEF ReadCopy, ReadReturn, AdvancePos
  <2>11. \A i \in 0..(rpos[p] - 1) : <<i, sampleOf[f]>> \in got[f]
    BY <1>7 DEF ReadCopy, AdvancePos
  <2> HIDE DEF n, new
  <2>12. \A i \in 0..(rpos[p] + n - 1) : <<i, sampleOf[f]>> \in got[f] \cup new
    BY <2>1, <2>3, <2>6, <2>11
  <2>13. ASSUME NEW g \in Files, holders[g] # {}
         PROVE  \A i \in 0..(pos'[g] - 1) : <<i, sampleOf[g]>> \in got'[g]
    <3>1. CASE g = f
      <4>1. pos'[g] = rpos[p] + n /\ got'[g] = got[f] \cup new
        BY <2>7, <2>8, <3>1
      <4>2. 0..(pos'[g] - 1) = 0..(rpos[p] + n - 1)
        BY <2>1, <2>3, <4>1
      <4> QED BY <2>12, <3>1, <4>1, <4>2
    <3>2. CASE g # f
      <4>1. pos'[g] = pos[g] /\ got'[g] = got[g]
        BY <2>7, <2>8, <3>2
      <4> QED BY <2>13, <4>1
    <3> QED BY <3>1, <3>2
  <2>14. ReadsOwnSample'
    BY <2>5, <2>7, <2>10
  <2>15. WholeTextAtEof'
    BY <2>7, <2>10
  <2> QED BY <2>1, <2>3, <2>7, <2>8, <2>9, <2>10, <2>13, <2>14, <2>15
<1>8. ASSUME NEW p \in Procs, ReadFault(p)
      PROVE  Delivery'
  BY <1>8 DEF ReadFault, ReadReturn
<1>9. ASSUME NEW p \in Procs, NEW q \in Procs, NEW f \in Files, Share(p, q, f)
      PROVE  Delivery'
  BY <1>9 DEF Share
<1>10. ASSUME NEW p \in Procs, NEW f \in Files, CloseShared(p, f)
      PROVE  Delivery'
  BY <1>10 DEF CloseShared
<1>11. ASSUME NEW p \in Procs, NEW f \in Files, Release(p, f)
      PROVE  Delivery'
  <2>1. lock = f /\ \A g \in Files : g # f => holders[g] = {}
    <3>1. Inside(f)
      BY <1>11 DEF Release, Inside, Unlock
    <3>2. lock = f
      BY <3>1 DEF Ownership, MutualExclusion
    <3>3. \A g \in Files : g # f => ~Inside(g)
      BY <3>2 DEF Ownership, MutualExclusion
    <3> QED BY <3>2, <3>3 DEF Inside
  <2>2. \A q \in Procs : pc[q] # "reading"
    BY <1>11, <2>1 DEF Release, Ownership, Unlock
  <2>3. \A q \in Procs : pc'[q] # "reading"
    BY <1>11, <2>2 DEF Release, Unlock
  <2>4. \A g \in Files : holders'[g] = {}
    BY <1>11, <2>1 DEF Release, Unlock
  <2>5. \A g \in Files : sampleOf'[g] = Nul /\ got'[g] = {} /\ pos'[g] = 0 /\ g \notin eof'
    BY <1>11, <2>1 DEF Release, Unlock
  <2>6. eof' = {}
    BY <1>11, <2>5 DEF Release, Unlock
  <2> QED BY <2>3, <2>4, <2>5, <2>6
<1>12. CASE InitSetup
  BY <1>12 DEF InitSetup, LifeCycle, Ownership
<1>13. CASE InitUnwind
  BY <1>13 DEF InitUnwind
<1>14. CASE Modprobe \/ InitAllocFail \/ InitAlloc \/ InitBcm \/ InitBcmFail \/
   MkNode \/ StartAgain \/ Rmmod \/ CleanupLock \/ CleanupClose \/ CleanupDel \/
   CleanupUnlock \/ RmNode \/ SkipNode
  BY <1>14 DEF Modprobe, InitAllocFail, InitAlloc, InitBcm, Bcm2835Init, InitBcmFail, MkNode,
        StartAgain, Rmmod, CleanupLock, CleanupClose, CleanupDel, CleanupUnlock,
        RmNode, SkipNode, CdevDel, Bcm2835Close, Unlock, RemoveNode
<1>15. CASE UNCHANGED vars
  BY <1>15 DEF vars
<1> QED BY <1>1, <1>2, <1>3, <1>4, <1>5, <1>6, <1>7, <1>8, <1>9, <1>10, <1>11,
   <1>12, <1>13, <1>14, <1>15 DEF Next, InKernel, SysCall, LoadStep

(* With the node kept up to date, nobody is in the driver while it is loading. *)
LEMMA NodeStep ==
    TypeOK /\ WorksOnFile /\ LifeCycle /\ Ownership /\ NodeFollowsModule /\ [Next]_vars
        => NodeFollowsModule'
<1> SUFFICES ASSUME TypeOK, WorksOnFile, LifeCycle, Ownership, NodeFollowsModule, [Next]_vars
             PROVE  NodeFollowsModule'
  OBVIOUS
<1> USE NameAssumption
     DEF TypeOK, WorksOnFile, InFlight, LifeCycle, NodeFollowsModule, NoTaskDies,
         modVars, devVars, taskVars, fileVars
<1>1. ASSUME NEW p \in Procs, NEW f \in Files, ChrdevOpen(p, f)
      PROVE  NodeFollowsModule'
  BY <1>1 DEF ChrdevOpen, ModuleGet
<1>2. ASSUME NEW p \in Procs, NEW q \in Procs, NEW f \in Files, ReadBegin(p, f) \/
   CloseShared(p, f) \/ Release(p, f) \/ Share(p, q, f)
      PROVE  NodeFollowsModule'
  BY <1>2 DEF ReadBegin, CloseShared, Release, Share, Unlock
<1>3. ASSUME NEW p \in Procs, OpenBusy(p) \/ OpenTrylock(p) \/ ReadEof(p) \/
   ReadCopy(p) \/ ReadFault(p) \/ ModulePut(p)
      PROVE  NodeFollowsModule'
  BY <1>3 DEF OpenBusy, OpenTrylock, ReadEof, ReadReturn, ReadCopy, Clamped, ReadFault,
        ModulePut, Trylock, AdvancePos
<1>4. ASSUME NEW p \in Procs, OpenFault(p)
      PROVE  NodeFollowsModule'
  BY <1>4 DEF OpenFault, Ownership
<1>5. ASSUME NEW p \in Procs, OpenSampled(p) \/ OpenInconsistent(p)
      PROVE  NodeFollowsModule'
  BY <1>5 DEF OpenSampled, OpenReturn, OpenInconsistent, StoreText
<1>6. CASE InitUnwind
  BY <1>6 DEF InitUnwind, Ownership
<1>7. CASE Modprobe \/ InitAllocFail \/ InitAlloc \/ InitSetup \/ InitBcm \/
   InitBcmFail \/ MkNode \/ StartAgain \/ Rmmod \/ CleanupLock \/ CleanupClose \/
   CleanupDel \/ CleanupUnlock \/ RmNode \/ SkipNode
  BY <1>7 DEF Modprobe, InitAllocFail, InitAlloc, InitSetup, InitBcm, Bcm2835Init, InitBcmFail,
        MkNode, StartAgain, Rmmod, CleanupLock, CleanupClose, CleanupDel,
        CleanupUnlock, RmNode, SkipNode, CdevDel, Bcm2835Close, Unlock, RemoveNode
<1>8. CASE UNCHANGED vars
  BY <1>8 DEF vars
<1> QED BY <1>1, <1>2, <1>3, <1>4, <1>5, <1>6, <1>7, <1>8 DEF Next, InKernel,
   SysCall, LoadStep

-----------------------------------------------------------------------------

(* IInv holds initially and is kept by every step. *)
THEOREM InductiveInvariant == Spec => []IInv
<1>1. Init => IInv
  <2> SUFFICES ASSUME Init PROVE IInv
    OBVIOUS
  <2> USE TextAssumption, NameAssumption DEF Init
  <2>1. TypeOK
    <3>1. cdev \in BOOLEAN /\ mapped \in BOOLEAN
      OBVIOUS
    <3>2. textSize \in 0..TextCap /\ 0 \in 0..TextCap
      OBVIOUS
    <3> QED BY <3>1, <3>2 DEF TypeOK, ModStates, LoadSteps, TaskSteps
  <2>2. WorksOnFile
    BY DEF WorksOnFile, InFlight
  <2>3. LifeCycle /\ NodeFollowsModule
    BY DEF LifeCycle, NodeFollowsModule, NoTaskDies
  <2>4. Ownership
    BY DEF Ownership, MutualExclusion, Inside
  <2>5. Delivery
    BY DEF Delivery, ReadsOwnSample, WholeTextAtEof
  <2> QED BY <2>1, <2>2, <2>3, <2>4, <2>5 DEF IInv
<1>2. IInv /\ [Next]_vars => IInv'
  BY TypeStep, WorksOnFileStep, LifeCycleStep, OwnershipStep, DeliveryStep, NodeStep DEF IInv
<1> QED BY <1>1, <1>2, PTL DEF Spec

(* Every variable keeps its type; in particular the file position, which read()    *)
(* advances without a lock, and the offset copied from it stay inside text[].       *)
THEOREM TypeCorrect == Spec => []TypeOK
<1>1. IInv => TypeOK
  BY DEF IInv
<1> QED BY <1>1, InductiveInvariant, PTL

(* The mutex taken in open() and given back in the last release() is held by       *)
(* exactly the file inside the driver, for any number of tasks and files.           *)
THEOREM Exclusion == Spec => []MutualExclusion
<1>1. IInv => MutualExclusion
  BY DEF IInv, Ownership
<1> QED BY <1>1, InductiveInvariant, PTL

(* dht11_driver_read never hands out a byte of another measurement, whatever the   *)
(* sizes of the buffer and of the texts, and the tail an earlier text left.         *)
THEOREM NoForeignBytes == Spec => []ReadsOwnSample
<1>1. IInv => ReadsOwnSample
  BY DEF IInv, Delivery
<1> QED BY <1>1, InductiveInvariant, PTL

(* End of file means that the whole text was handed out, although the tasks that   *)
(* share an open file race on its position.                                         *)
THEOREM EofMeansWholeText == Spec => []WholeTextAtEof
<1>1. IInv => WholeTextAtEof
  BY DEF IInv, Delivery
<1> QED BY <1>1, InductiveInvariant, PTL

(* While cleanup runs and after it no task and no open file is in the driver.      *)
THEOREM UnloadIsQuiescent == Spec => []QuiescentUnload
<1>1. IInv => QuiescentUnload
  BY NameAssumption DEF IInv, TypeOK, LifeCycle, Ownership, QuiescentUnload
<1> QED BY <1>1, InductiveInvariant, PTL

(* Whichever step of the init function fails, everything done before it is undone.  *)
THEOREM UnloadLeavesNothing == Spec => []NothingLeft
<1>1. IInv => NothingLeft
  <2> SUFFICES ASSUME IInv, modState = "unloaded"
               PROVE  ~cdev /\ ~mapped /\ region = NoMajor /\ lock = NoOwner
    BY DEF NothingLeft
  <2>1. /\ ~cdev /\ ~mapped /\ region = NoMajor /\ refs = {}
        /\ mpc \notin {"close", "del", "unlock"}
    BY DEF IInv, TypeOK, LifeCycle
  <2>2. \A f \in Files : ~Inside(f)
    BY <2>1, NameAssumption DEF IInv, TypeOK, Ownership, Inside
  <2> QED BY <2>1, <2>2 DEF IInv, TypeOK, Ownership, MutualExclusion
<1> QED BY <1>1, InductiveInvariant, PTL

(* As long as the module is loaded and unloaded with the script only, no task runs   *)
(* the driver with unmapped registers or freed code.                                *)
THEOREM ServiceIsSafe == Spec => []NoTaskDies
<1>1. IInv => NoTaskDies
  BY DEF IInv, NodeFollowsModule, NoTaskDies
<1> QED BY <1>1, InductiveInvariant, PTL

-----------------------------------------------------------------------------
(* The driver implements the sessions of ExclusiveDevice. *)

(* Only a successful trylock, a successful open, a read that copies, the last close *)
(* and the loss of a module that failed to load change what the device's users see. *)
LEMMA SessionStep == IInv /\ [Next]_vars => [Device!Next]_(Device!vars)
<1> SUFFICES ASSUME IInv, [Next]_vars PROVE [Device!Next]_(Device!vars)
  OBVIOUS
<1> DEFINE owner == IF lock \in Files THEN lock ELSE NoOwner
<1> USE NameAssumption
     DEF IInv, TypeOK, modVars, devVars, taskVars, fileVars
<1>1. ASSUME UNCHANGED <<lock, sampleOf, got>> PROVE [Device!Next]_(Device!vars)
  BY <1>1 DEF Device!vars
<1>2. ASSUME NEW p \in Procs, OpenTrylock(p) PROVE Device!Next
  <2>1. cur[p] \in Files
    BY <1>2 DEF OpenTrylock, WorksOnFile, InFlight, Trylock
  <2>2. Device!Acquire(cur[p])
    BY <1>2, <2>1 DEF OpenTrylock, Device!Acquire, Trylock
  <2> QED BY <2>1, <2>2 DEF Device!Next
<1>3. ASSUME NEW p \in Procs, NEW s \in SampleIds, NEW t,
             pc[p] = "sampling", OpenReturn(p, s, t)
      PROVE  Device!Next
  <2>1. cur[p] \in Files /\ lock = cur[p] /\ sampleOf[cur[p]] = Nul
    BY <1>3 DEF WorksOnFile, InFlight, Ownership, MutualExclusion, Inside, Delivery
  <2>2. Device!Measure(cur[p])
    BY <1>3, <2>1 DEF OpenReturn, Device!Measure, StoreText
  <2> QED BY <2>1, <2>2 DEF Device!Next
<1>4. ASSUME NEW p \in Procs, ReadCopy(p) PROVE Device!Next
  <2>1. cur[p] \in Files /\ p \in holders[cur[p]]
    BY <1>4 DEF ReadCopy, WorksOnFile, InFlight, Ownership, AdvancePos
  <2>2. lock = cur[p]
    BY <2>1 DEF Ownership, MutualExclusion, Inside
  <2>3. /\ \A i \in 0..(textSize - 1) : text[i] = sampleOf[cur[p]]
        /\ sampleOf[cur[p]] # Nul
    BY <2>1 DEF Delivery
  <2>4. PICK count \in ReadCounts :
            got' = [got EXCEPT ![cur[p]] = @ \cup
                 {<<i, text[i]>> : i \in rpos[p]..(rpos[p] + Clamped(rpos[p], count) - 1)}]
    BY <1>4 DEF ReadCopy, AdvancePos
  <2> DEFINE I == rpos[p]..(rpos[p] + Clamped(rpos[p], count) - 1)
  <2>5. I \subseteq 0..(textSize - 1) /\ I \subseteq Cells
    BY <1>4, TextAssumption DEF ReadCopy, Clamped, Cells, AdvancePos
  <2>6. {<<i, text[i]>> : i \in I} = I \X {sampleOf[cur[p]]}
    BY <2>3, <2>5
  <2>7. got' = [got EXCEPT ![cur[p]] = @ \cup (I \X {sampleOf[cur[p]]})]
    BY <2>4, <2>6
  <2>8. UNCHANGED <<lock, sampleOf>>
    BY <1>4 DEF ReadCopy, ReadReturn, AdvancePos
  <2> HIDE DEF I
  <2>9. Device!Deliver(cur[p])
    BY <2>1, <2>2, <2>3, <2>5, <2>7, <2>8 DEF Device!Deliver
  <2> QED BY <2>1, <2>9 DEF Device!Next
<1>5. ASSUME NEW p \in Procs, NEW f \in Files, Release(p, f) PROVE Device!Next
  <2>1. lock = f
    BY <1>5 DEF Release, Ownership, MutualExclusion, Inside, Unlock
  <2>2. Device!End(f)
    BY <1>5, <2>1 DEF Release, Device!End, Unlock
  <2> QED BY <2>2 DEF Device!Next
<1>6. CASE InitUnwind
  <2>1. CASE lock \in Files
    <3>1. \A f \in Files : holders[f] = {}
      BY <1>6 DEF InitUnwind, LifeCycle, Ownership
    <3>2. sampleOf[lock] = Nul /\ got[lock] = {}
      BY <2>1, <3>1 DEF Delivery
    <3>3. Device!End(lock)
      BY <1>6, <2>1, <3>2 DEF InitUnwind, Device!End
    <3> QED BY <2>1, <3>3 DEF Device!Next
  <2>2. CASE lock \notin Files
    BY <1>6, <2>2 DEF InitUnwind, Device!vars
  <2> QED BY <2>1, <2>2
<1>7. CASE InitSetup \/ CleanupLock \/ CleanupUnlock
  <2>1. lock \notin Files
    BY <1>7 DEF InitSetup, CleanupLock, CleanupUnlock, LifeCycle, Ownership,
          MutualExclusion, Inside, Unlock
  <2>2. lock' \notin Files /\ UNCHANGED <<sampleOf, got>>
    BY <1>7 DEF InitSetup, CleanupLock, CleanupUnlock, Unlock
  <2> QED BY <2>1, <2>2 DEF Device!vars
<1>8. ASSUME NEW p \in Procs, OpenSampled(p) PROVE Device!Next
  BY <1>3, <1>8 DEF OpenSampled
<1>9. ASSUME NEW p \in Procs, OpenInconsistent(p) PROVE Device!Next
  BY <1>3, <1>9 DEF OpenInconsistent
<1>10. ASSUME NEW p \in Procs,
              \/ OpenBusy(p) \/ OpenFault(p) \/ ReadEof(p) \/ ReadFault(p) \/ ModulePut(p)
              \/ \E f \in Files : \/ ChrdevOpen(p, f) \/ ReadBegin(p, f) \/ CloseShared(p, f)
                                  \/ \E q \in Procs : Share(p, q, f)
       PROVE  UNCHANGED <<lock, sampleOf, got>>
  BY <1>10 DEF OpenBusy, OpenFault, ReadEof, ReadFault, ReadReturn, ModulePut, ChrdevOpen,
        ReadBegin, CloseShared, Share, AdvancePos, ModuleGet
<1>11. CASE Modprobe \/ InitAllocFail \/ InitAlloc \/ InitBcm \/ InitBcmFail \/ MkNode
            \/ StartAgain \/ Rmmod \/ CleanupClose \/ CleanupDel \/ RmNode \/ SkipNode
  BY <1>1, <1>11 DEF Modprobe, InitAllocFail, InitAlloc, InitBcm, Bcm2835Init, InitBcmFail, MkNode,
        StartAgain, Rmmod, CleanupClose, CleanupDel, RmNode, SkipNode, CdevDel,
        Bcm2835Close, RemoveNode
<1>12. CASE UNCHANGED vars
  BY <1>1, <1>12 DEF vars
<1> QED
  BY <1>1, <1>2, <1>4, <1>5, <1>6, <1>7, <1>8, <1>9, <1>10, <1>11, <1>12
  DEF Next, InKernel, SysCall, LoadStep

(* Every behaviour of the driver, with modules failing to load and tasks killed in *)
(* open() included, is a behaviour of a device that serves one session at a time,   *)
(* each with the bytes of its own measurement.                                      *)
THEOREM Implements == Spec => ProvidesSessions
<1>1. Init => Device!Init
  BY NameAssumption DEF Init, Device!Init
<1> QED BY <1>1, SessionStep, InductiveInvariant, PTL DEF Spec, ProvidesSessions, Device!Spec

=============================================================================
