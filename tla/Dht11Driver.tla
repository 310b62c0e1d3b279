------------------------------ MODULE Dht11Driver ------------------------------
(***************************************************************************)
(* The dht11_driver kernel module (termosos/driver/main.c): a character    *)
(* device whose open() takes a measurement under a mutex that stays locked *)
(* until the last close(), whose read() hands out the formatted text, and  *)
(* whose module entry and exit points register and unregister the device.  *)
(*                                                                         *)
(* Actors: user tasks (Procs) inside system calls, and one administrator   *)
(* who loads and unloads the module with the script S98dht11_driver, or    *)
(* by hand with modprobe and rmmod alone, which leave /dev/dht11 as        *)
(* it is.  The kernel's part (major numbers, module reference count, file  *)
(* position, descriptor sharing) is modelled as the driver relies on it.   *)
(*                                                                         *)
(* The text buffer is abstracted to its length and to which measurement    *)
(* each of its bytes came from: byte i holds a sample's identity, or Nul.  *)
(***************************************************************************)
EXTENDS Integers, FiniteSets

CONSTANTS
    Procs,        \* user tasks
    Files,        \* struct file objects: one per successful or pending open
    Majors,       \* device numbers alloc_chrdev_region may pick
    TextCap,      \* sizeof(dev->text), 80 in the driver
    TextLens,     \* lengths the formatted measurement may have
    BadLen,       \* length of "Inconsistent data\n"
    SampleIds,    \* identities of measurements
    ReadCounts,   \* sizes user tasks pass to read()
    NoOwner, Admin, NoFile, NoMajor

ASSUME TextAssumption ==
    /\ TextCap \in Nat
    /\ TextLens \subseteq 1..(TextCap - 1)
    /\ BadLen \in 1..(TextCap - 1)
    /\ SampleIds \subseteq Nat \ {0}
    /\ ReadCounts \subseteq Nat

ASSUME NameAssumption ==
    /\ NoOwner \notin Files /\ Admin \notin Files /\ NoOwner # Admin
    /\ NoFile \notin Files
    /\ NoMajor \notin Majors

VARIABLES
    modState,   \* state of the kernel module
    mpc,        \* next step of the administrator's load or unload
    region,     \* major number registered by alloc_chrdev_region, or NoMajor
    cdev,       \* is dht11_device.cdev live (cdev_add done, cdev_del not)?
    mapped,     \* are the BCM2835 register blocks mapped?
    node,       \* major number in /dev/dht11, or NoMajor when it is absent
    byHand,     \* history: the administrator has left the node out of date
    lock,       \* holder of dht11_device.lock
    text,       \* dht11_device.text
    textSize,   \* dht11_device.text_size
    refs,       \* files that hold a reference on the module
    pc,         \* where each task is
    cur,        \* the file its system call works on
    rpos,       \* its private copy of the file position during read()
    holders,    \* tasks with a descriptor of the file
    pos,        \* filp->f_pos
    sampleOf,   \* the measurement taken when the file was opened
    got,        \* history: <<index, content>> of every byte handed out
    eof         \* history: files on which a read() returned end of file

modVars  == <<modState, mpc, region, cdev, mapped, node, byHand>>
devVars  == <<lock, text, textSize>>
taskVars == <<pc, cur, rpos>>
fileVars == <<holders, pos, sampleOf, got, eof>>
vars == <<modVars, devVars, refs, taskVars, fileVars>>

Nul     == 0
Cells   == 0..(TextCap - 1)
ModStates == {"unloaded", "coming", "live", "going"}
LoadSteps == {"none", "alloc", "setup", "bcm", "unwind", "mknod",
              "lock", "close", "del", "unlock", "rmnode"}
TaskSteps == {"user", "opening", "sampling", "reading", "putting", "dead"}

TypeOK ==
    /\ modState \in ModStates /\ mpc \in LoadSteps
    /\ region \in Majors \cup {NoMajor} /\ node \in Majors \cup {NoMajor}
    /\ cdev \in BOOLEAN /\ mapped \in BOOLEAN /\ byHand \in BOOLEAN
    /\ lock \in Files \cup {NoOwner, Admin}
    /\ text \in [Cells -> SampleIds \cup {Nul}] /\ textSize \in 0..TextCap
    /\ refs \subseteq Files
    /\ pc \in [Procs -> TaskSteps]
    /\ cur \in [Procs -> Files \cup {NoFile}]
    /\ rpos \in [Procs -> 0..TextCap]
    /\ holders \in [Files -> SUBSET Procs]
    /\ pos \in [Files -> 0..TextCap]
    /\ sampleOf \in [Files -> SampleIds \cup {Nul}]
    /\ got \in [Files -> SUBSET (Cells \X (SampleIds \cup {Nul}))]
    /\ eof \subseteq Files

Init ==
    /\ modState = "unloaded" /\ mpc = "none"
    /\ region = NoMajor /\ node = NoMajor
    /\ cdev = FALSE /\ mapped = FALSE /\ byHand = FALSE
    /\ lock = NoOwner
    /\ text = [i \in Cells |-> Nul] /\ textSize = 0
    /\ refs = {}
    /\ pc = [p \in Procs |-> "user"]
    /\ cur = [p \in Procs |-> NoFile]
    /\ rpos = [p \in Procs |-> 0]
    /\ holders = [f \in Files |-> {}]
    /\ pos = [f \in Files |-> 0]
    /\ sampleOf = [f \in Files |-> Nul]
    /\ got = [f \in Files |-> {}]
    /\ eof = {}

-----------------------------------------------------------------------------
(* C string helpers on the text buffer. *)

\* strnlen(t, sizeof t): the index of the first Nul.
Strnlen(t) ==
    IF \A i \in Cells : t[i] # Nul THEN TextCap
    ELSE CHOOSE n \in Cells : t[n] = Nul /\ \A j \in 0..(n - 1) : t[j] # Nul

\* snprintf of len bytes of sample s over the old contents t: the bytes after
\* the terminating Nul keep what an earlier measurement left there.
Snprintf(t, s, len) ==
    [i \in Cells |-> IF i < len THEN s ELSE IF i = len THEN Nul ELSE t[i]]

\* strncpy pads the rest of the buffer with Nul.
Strncpy(s, len) == [i \in Cells |-> IF i < len THEN s ELSE Nul]

\* A measurement gets the smallest identity that no byte of the buffer carries.
NewSample(s) ==
    LET unused == SampleIds \ {text[i] : i \in Cells}
    IN  s \in unused /\ \A r \in unused : s <= r

-----------------------------------------------------------------------------
(* The calls that change the device, one operator each.  The definition that  *)
(* precedes one and is marked Mutant is a mistake the checks must notice.     *)

\* Mutant: the owner fields of the cdev and of the fops are not set.
ModuleGetUnowned(f) == UNCHANGED refs

\* Opening takes a reference on the module that the owner fields name.
ModuleGet(f) == refs' = refs \cup {f}

\* Mutant: the result of mutex_trylock is ignored.
TrylockBlind(f) == lock' = f

Trylock(f) == lock = NoOwner /\ lock' = f

\* Mutant: the mutex is left locked.
UnlockForgotten == UNCHANGED lock

Unlock == lock' = NoOwner

\* Mutant: text_size never shrinks.
StoreTextKeepsSize(t) ==
    text' = t /\ textSize' = IF Strnlen(t) > textSize THEN Strnlen(t) ELSE textSize

StoreText(t) == text' = t /\ textSize' = Strnlen(t)

\* Mutant: count is added to the shared position, not to the copy of it.
AdvancePosShared(f, offset, count) == pos' = [pos EXCEPT ![f] = @ + count]

\* *f_pos += count on the kernel's copy, which is then stored in the file.
AdvancePos(f, offset, count) == pos' = [pos EXCEPT ![f] = offset + count]

\* Mutant: the device stays registered.
CdevDelForgotten == UNCHANGED cdev

CdevDel == cdev' = FALSE

\* bcm2835_init maps the peripherals and computes every pointer into them.
Bcm2835Init == mapped' = TRUE

\* Mutant: the register blocks stay mapped.
Bcm2835CloseForgotten == UNCHANGED mapped

\* bcm2835_close unmaps the registers and resets every pointer to them.
Bcm2835Close == mapped' = FALSE

\* Mutant: "stop" does not remove /dev/dht11.
RemoveNodeForgotten == UNCHANGED node

RemoveNode == node' = NoMajor

-----------------------------------------------------------------------------
(* Tasks: open(). *)

\* The kernel's chrdev_open (external): the node's number is looked up among
\* the live cdevs and a reference is taken on the module unless it is going.
ChrdevOpen(p, f) ==
    /\ pc[p] = "user"
    /\ f \notin refs
    /\ node # NoMajor /\ node = region /\ cdev
    /\ modState # "going"
    /\ ModuleGet(f)
    /\ pc' = [pc EXCEPT ![p] = "opening"]
    /\ cur' = [cur EXCEPT ![p] = f]
    /\ UNCHANGED <<modVars, devVars, rpos, fileVars>>

\* Mutant: mutex_lock in place of mutex_trylock.
OpenBusyWaits(p) == pc[p] = "opening" /\ lock # NoOwner /\ UNCHANGED vars

\* mutex_trylock failed: -EBUSY.  The kernel drops the module reference and
\* does not call release, so the lock is left to its holder.
OpenBusy(p) ==
    /\ pc[p] = "opening"
    /\ lock # NoOwner
    /\ refs' = refs \ {cur[p]}
    /\ pc' = [pc EXCEPT ![p] = "user"]
    /\ cur' = [cur EXCEPT ![p] = NoFile]
    /\ UNCHANGED <<modVars, devVars, rpos, fileVars>>

OpenTrylock(p) ==
    /\ pc[p] = "opening"
    /\ Trylock(cur[p])
    /\ pc' = [pc EXCEPT ![p] = "sampling"]
    /\ UNCHANGED <<modVars, text, textSize, refs, cur, rpos, fileVars>>

\* bcm2835_gpio_fsel through a register block that is not mapped: the task is
\* killed in the kernel and neither its lock nor its reference is given back.
OpenFault(p) ==
    /\ pc[p] = "sampling"
    /\ ~mapped
    /\ pc' = [pc EXCEPT ![p] = "dead"]
    /\ UNCHANGED <<modVars, devVars, refs, cur, rpos, fileVars>>

\* open() returns 0 with the text t of measurement s in the buffer.
OpenReturn(p, s, t) ==
    /\ StoreText(t)
    /\ pc' = [pc EXCEPT ![p] = "user"]
    /\ cur' = [cur EXCEPT ![p] = NoFile]
    /\ holders' = [holders EXCEPT ![cur[p]] = {p}]
    /\ sampleOf' = [sampleOf EXCEPT ![cur[p]] = s]
    /\ UNCHANGED <<modVars, lock, refs, rpos, pos, got, eof>>

\* dht11_get_data returned 0 and the measurement formats to len bytes.
OpenSampled(p) ==
    /\ pc[p] = "sampling"
    /\ mapped
    /\ \E s \in SampleIds, len \in TextLens :
          NewSample(s) /\ OpenReturn(p, s, Snprintf(text, s, len))

\* dht11_get_data returned -1: the open still succeeds, with a fixed text.
OpenInconsistent(p) ==
    /\ pc[p] = "sampling"
    /\ mapped
    /\ \E s \in SampleIds : NewSample(s) /\ OpenReturn(p, s, Strncpy(s, BadLen))

-----------------------------------------------------------------------------
(* Tasks: read().  The kernel does not serialise reads of one open character *)
(* device: it copies f_pos, calls the driver, and stores the copy back.      *)

ReadBegin(p, f) ==
    /\ pc[p] = "user"
    /\ p \in holders[f]
    /\ pc' = [pc EXCEPT ![p] = "reading"]
    /\ cur' = [cur EXCEPT ![p] = f]
    /\ rpos' = [rpos EXCEPT ![p] = pos[f]]
    /\ UNCHANGED <<modVars, devVars, refs, fileVars>>

ReadReturn(p) ==
    /\ pc' = [pc EXCEPT ![p] = "user"]
    /\ cur' = [cur EXCEPT ![p] = NoFile]
    /\ rpos' = [rpos EXCEPT ![p] = 0]
    /\ UNCHANGED <<modVars, devVars, refs, holders, sampleOf>>

\* The bytes of the buffer that the read may return, after clamping count.
Clamped(offset, count) ==
    IF count > textSize - offset THEN textSize - offset ELSE count

ReadEof(p) ==
    /\ pc[p] = "reading"
    /\ rpos[p] >= textSize
    /\ AdvancePos(cur[p], rpos[p], 0)
    /\ eof' = eof \cup {cur[p]}
    /\ UNCHANGED got
    /\ ReadReturn(p)

ReadCopy(p) ==
    /\ pc[p] = "reading"
    /\ rpos[p] < textSize
    /\ \E count \in ReadCounts :
          LET n == Clamped(rpos[p], count) IN
          /\ got' = [got EXCEPT ![cur[p]] =
                       @ \cup {<<i, text[i]>> : i \in rpos[p]..(rpos[p] + n - 1)}]
          /\ AdvancePos(cur[p], rpos[p], n)
    /\ UNCHANGED eof
    /\ ReadReturn(p)

\* copy_to_user failed: -EFAULT, and the file position stays.
ReadFault(p) ==
    /\ pc[p] = "reading"
    /\ rpos[p] < textSize
    /\ UNCHANGED <<pos, got, eof>>
    /\ ReadReturn(p)

-----------------------------------------------------------------------------
(* Tasks: fork() and close(). *)

\* The open file is shared with another task (external: fork).
Share(p, q, f) ==
    /\ pc[p] = "user" /\ pc[q] = "user"
    /\ p \in holders[f] /\ q \notin holders[f]
    /\ holders' = [holders EXCEPT ![f] = @ \cup {q}]
    /\ UNCHANGED <<modVars, devVars, refs, taskVars, pos, sampleOf, got, eof>>

\* A close that is not the last one never reaches the driver (external).
CloseShared(p, f) ==
    /\ pc[p] = "user"
    /\ p \in holders[f] /\ holders[f] # {p}
    /\ holders' = [holders EXCEPT ![f] = @ \ {p}]
    /\ UNCHANGED <<modVars, devVars, refs, taskVars, pos, sampleOf, got, eof>>

\* The last close: dht11_driver_release unlocks the mutex, whichever task
\* locked it.
Release(p, f) ==
    /\ pc[p] = "user"
    /\ holders[f] = {p}
    /\ Unlock
    /\ holders' = [holders EXCEPT ![f] = {}]
    /\ pos' = [pos EXCEPT ![f] = 0]
    /\ sampleOf' = [sampleOf EXCEPT ![f] = Nul]
    /\ got' = [got EXCEPT ![f] = {}]
    /\ eof' = eof \ {f}
    /\ pc' = [pc EXCEPT ![p] = "putting"]
    /\ cur' = [cur EXCEPT ![p] = f]
    /\ UNCHANGED <<modVars, text, textSize, refs, rpos>>

\* After release the kernel drops the file's module reference (external).
ModulePut(p) ==
    /\ pc[p] = "putting"
    /\ refs' = refs \ {cur[p]}
    /\ pc' = [pc EXCEPT ![p] = "user"]
    /\ cur' = [cur EXCEPT ![p] = NoFile]
    /\ UNCHANGED <<modVars, devVars, rpos, fileVars>>

-----------------------------------------------------------------------------
(* The administrator: loading the module. *)

Modprobe ==
    /\ mpc = "none" /\ modState = "unloaded"
    /\ modState' = "coming" /\ mpc' = "alloc"
    /\ UNCHANGED <<region, cdev, mapped, node, byHand, devVars, refs, taskVars, fileVars>>

InitAllocFail ==
    /\ mpc = "alloc"
    /\ modState' = "unloaded" /\ mpc' = "none"
    /\ UNCHANGED <<region, cdev, mapped, node, byHand, devVars, refs, taskVars, fileVars>>

InitAlloc ==
    /\ mpc = "alloc"
    /\ region' \in Majors
    /\ mpc' = "setup"
    /\ UNCHANGED <<modState, cdev, mapped, node, byHand, devVars, refs, taskVars, fileVars>>

\* memset, mutex_init, then cdev_add, which succeeds or not.  From a
\* successful cdev_add on the device can be opened.
InitSetup ==
    /\ mpc = "setup"
    /\ lock' = NoOwner /\ text' = [i \in Cells |-> Nul] /\ textSize' = 0
    /\ \/ cdev' = TRUE  /\ mpc' = "bcm"
       \/ cdev' = FALSE /\ mpc' = "unwind"
    /\ UNCHANGED <<modState, region, mapped, node, byHand, refs, taskVars, fileVars>>

InitBcm ==
    /\ mpc = "bcm"
    /\ Bcm2835Init
    /\ modState' = "live" /\ mpc' = "mknod"
    /\ UNCHANGED <<region, cdev, node, byHand, devVars, refs, taskVars, fileVars>>

InitBcmFail ==
    /\ mpc = "bcm"
    /\ CdevDel
    /\ mpc' = "unwind"
    /\ UNCHANGED <<modState, region, mapped, node, byHand, devVars, refs, taskVars, fileVars>>

\* The label fail: the kernel frees a module whose init failed without looking
\* at its reference count, so a task inside the driver executes freed memory.
InitUnwind ==
    /\ mpc = "unwind"
    /\ region' = NoMajor
    /\ modState' = "unloaded" /\ mpc' = "none"
    /\ refs' = {} /\ lock' = NoOwner
    /\ pc' = [p \in Procs |-> IF cur[p] # NoFile THEN "dead" ELSE pc[p]]
    /\ cur' = [p \in Procs |-> NoFile]
    /\ UNCHANGED <<cdev, mapped, node, byHand, text, textSize, rpos, fileVars>>

\* The script replaces /dev/dht11 by a node with the number in /proc/devices.
MkNode ==
    /\ mpc = "mknod"
    /\ node' = region
    /\ mpc' = "none"
    /\ UNCHANGED <<modState, region, cdev, mapped, byHand, devVars, refs, taskVars, fileVars>>

\* "start" when the module is loaded already: only the node is made again.
StartAgain ==
    /\ mpc = "none" /\ modState = "live"
    /\ mpc' = "mknod"
    /\ UNCHANGED <<modState, region, cdev, mapped, node, byHand, devVars, refs, taskVars, fileVars>>

-----------------------------------------------------------------------------
(* The administrator: unloading the module. *)

\* rmmod succeeds only when nobody holds a reference (external).
Rmmod ==
    /\ mpc = "none" /\ modState = "live"
    /\ refs = {}
    /\ modState' = "going" /\ mpc' = "lock"
    /\ UNCHANGED <<region, cdev, mapped, node, byHand, devVars, refs, taskVars, fileVars>>

CleanupLock ==
    /\ mpc = "lock"
    /\ lock = NoOwner
    /\ lock' = Admin
    /\ mpc' = "close"
    /\ UNCHANGED <<modState, region, cdev, mapped, node, byHand, text, textSize, refs, taskVars, fileVars>>

CleanupClose ==
    /\ mpc = "close"
    /\ Bcm2835Close
    /\ mpc' = "del"
    /\ UNCHANGED <<modState, region, cdev, node, byHand, devVars, refs, taskVars, fileVars>>

CleanupDel ==
    /\ mpc = "del"
    /\ CdevDel
    /\ region' = NoMajor
    /\ mpc' = "unlock"
    /\ UNCHANGED <<modState, mapped, node, byHand, devVars, refs, taskVars, fileVars>>

CleanupUnlock ==
    /\ mpc = "unlock"
    /\ Unlock
    /\ modState' = "unloaded" /\ mpc' = "rmnode"
    /\ UNCHANGED <<region, cdev, mapped, node, byHand, text, textSize, refs, taskVars, fileVars>>

RmNode ==
    /\ mpc = "rmnode"
    /\ RemoveNode
    /\ mpc' = "none"
    /\ UNCHANGED <<modState, region, cdev, mapped, byHand, devVars, refs, taskVars, fileVars>>

\* modprobe or rmmod typed by hand: the node is not brought up to date.
SkipNode ==
    /\ mpc \in {"mknod", "rmnode"}
    /\ mpc' = "none" /\ byHand' = TRUE
    /\ UNCHANGED <<modState, region, cdev, mapped, node, devVars, refs, taskVars, fileVars>>

-----------------------------------------------------------------------------

\* Steps the kernel takes for a task that is inside a system call.
InKernel(p) ==
    \/ OpenBusy(p) \/ OpenTrylock(p) \/ OpenFault(p)
    \/ OpenSampled(p) \/ OpenInconsistent(p)
    \/ ReadEof(p) \/ ReadCopy(p) \/ ReadFault(p)
    \/ ModulePut(p)

\* System calls a task may choose to make.
SysCall(p) ==
    \E f \in Files :
        \/ ChrdevOpen(p, f) \/ ReadBegin(p, f)
        \/ CloseShared(p, f) \/ Release(p, f)
        \/ \E q \in Procs : Share(p, q, f)

\* Steps that follow once modprobe or rmmod has been started.
LoadStep ==
    \/ InitAllocFail \/ InitAlloc \/ InitSetup \/ InitBcm \/ InitBcmFail \/ InitUnwind
    \/ CleanupLock \/ CleanupClose \/ CleanupDel \/ CleanupUnlock
    \/ MkNode \/ RmNode \/ SkipNode

Next ==
    \/ \E p \in Procs : InKernel(p) \/ SysCall(p)
    \/ LoadStep \/ Modprobe \/ StartAgain \/ Rmmod

\* The kernel finishes a system call and a module's init and exit functions:
\* dht11_get_data polls a bounded number of times and nothing else waits.
\* Nothing makes a task open, read or close, or the administrator act.
Fairness ==
    /\ \A p \in Procs : WF_vars(InKernel(p))
    /\ WF_vars(LoadStep)

Spec == Init /\ [][Next]_vars /\ Fairness
-----------------------------------------------------------------------------
(* Properties. *)

\* A file is inside from a successful trylock to the release, or for ever when
\* the task that was opening it was killed.
Inside(f) ==
    \/ holders[f] # {}
    \/ \E p \in Procs : cur[p] = f /\ pc[p] \in {"sampling", "dead"}

\* The mutex, which open() takes and leaves locked across its return to user
\* space and which the last of several closers releases, is held by exactly the
\* file that is inside: no two opens overlap, and no error path leaves it locked.
MutualExclusion == \A f \in Files : Inside(f) <=> lock = f

\* However reads, forks, failed opens and reloads interleave, dht11_driver_read
\* never returns a byte of another open's measurement, such as the tail of a
\* longer text that snprintf left in the buffer.
ReadsOwnSample == \A f \in Files : \A b \in got[f] : b[2] = sampleOf[f]

\* Once a read() of a file returned end of file, every byte of its text was
\* handed out, although tasks that share the file race on its position.
WholeTextAtEof ==
    \A f \in eof : \A i \in 0..(textSize - 1) : <<i, sampleOf[f]>> \in got[f]

\* As long as the administrator uses the script only, no task is killed inside
\* the driver by a register block that is not mapped or by a module that was
\* freed under it.
NoTaskDies == ~byHand => \A p \in Procs : pc[p] # "dead"

\* bcm2835.h requires bcm2835_init to have succeeded before any other function
\* of the library is called; dht11_driver_open calls them while sampling.
LibraryInitialised == \A p \in Procs : pc[p] = "sampling" => mapped

\* While the module's exit function runs, and after it, no task is in the
\* driver's code and no open file refers to it.
QuiescentUnload ==
    modState \in {"going", "unloaded"} =>
        /\ refs = {}
        /\ \A p \in Procs : cur[p] = NoFile
        /\ \A f \in Files : holders[f] = {}

\* An unloaded module, by cleanup or by any failure of its init function, has
\* taken back everything it registered, and the mutex was not left locked.
NothingLeft ==
    modState = "unloaded" =>
        ~cdev /\ ~mapped /\ region = NoMajor /\ lock = NoOwner

\* A call of open() returns: it may fail with -EBUSY but never waits for the
\* task that has the device open, which need not ever close it.  (A task that is
\* killed there after the node was left stale does not return: NoTaskDies.)
OpenReturns ==
    \A p \in Procs : pc[p] \in {"opening", "sampling"} ~> pc[p] \in {"user", "dead"}

\* Loading and unloading end: mutex_lock in the exit function waits for nobody.
LoadTerminates ==
    modState \in {"coming", "going"} ~> modState \in {"live", "unloaded"}

\* The driver provides the sessions of ExclusiveDevice: the session served is
\* the file that holds the mutex.
Device == INSTANCE ExclusiveDevice WITH
              owner <- IF lock \in Files THEN lock ELSE NoOwner,
              sample <- sampleOf, NoSample <- Nul

ProvidesSessions == Device!Spec
-----------------------------------------------------------------------------
(* The inductive invariant behind the properties, in layers. *)

InFlight == {"opening", "sampling", "reading", "putting"}

\* A task inside a system call works on a file, a task outside on none.
WorksOnFile ==
    \A p \in Procs :
        /\ pc[p] \in InFlight => cur[p] \in Files
        /\ pc[p] = "user" => cur[p] = NoFile

\* What is registered at each step of init and cleanup; no reference on the
\* module exists before cdev_add or after rmmod has found none.
LifeCycle ==
    /\ modState = "coming" <=> mpc \in {"alloc", "setup", "bcm", "unwind"}
    /\ modState = "going" <=> mpc \in {"lock", "close", "del", "unlock"}
    /\ mpc = "mknod" => modState = "live"
    /\ mpc = "rmnode" => modState = "unloaded"
    /\ mapped <=> modState = "live" \/ mpc \in {"lock", "close"}
    /\ cdev <=> modState = "live" \/ mpc \in {"bcm", "lock", "close", "del"}
    /\ region # NoMajor <=>
          modState = "live" \/ mpc \in {"setup", "bcm", "unwind", "lock", "close", "del"}
    /\ refs # {} => modState = "live" \/ mpc \in {"bcm", "unwind"}

\* Who works on which file, and what the mutex says about it.
Ownership ==
    /\ \A p \in Procs :
          /\ cur[p] # NoFile => cur[p] \in refs
          /\ pc[p] = "reading" => p \in holders[cur[p]]
          /\ cur[p] # NoFile /\ pc[p] # "reading" => holders[cur[p]] = {}
    /\ \A p, q \in Procs :
          p # q /\ cur[p] = cur[q] /\ cur[p] # NoFile =>
              pc[p] = "reading" /\ pc[q] = "reading"
    /\ \A f \in Files : holders[f] # {} => f \in refs /\ modState = "live"
    /\ lock = Admin <=> mpc \in {"close", "del", "unlock"}
    /\ MutualExclusion

\* What the file being served has been given, against the text in the buffer.
Delivery ==
    /\ \A f \in Files : holders[f] = {} =>
          sampleOf[f] = Nul /\ got[f] = {} /\ f \notin eof /\ pos[f] = 0
    /\ \A f \in Files : holders[f] # {} =>
          /\ \A i \in 0..(textSize - 1) : text[i] = sampleOf[f]
          /\ sampleOf[f] # Nul
          /\ pos[f] <= textSize
          /\ \A i \in 0..(pos[f] - 1) : <<i, sampleOf[f]>> \in got[f]
    /\ \A p \in Procs : pc[p] = "reading" =>
          /\ rpos[p] <= textSize
          /\ \A i \in 0..(rpos[p] - 1) : <<i, sampleOf[cur[p]]>> \in got[cur[p]]
    /\ ReadsOwnSample
    /\ WholeTextAtEof

\* With the node kept up to date nobody can be in the driver before it is live.
NodeFollowsModule ==
    ~byHand =>
        /\ modState = "coming" => node = NoMajor /\ refs = {}
        /\ node # NoMajor => modState \in {"live", "going"} \/ mpc = "rmnode"
        /\ NoTaskDies

IInv == TypeOK /\ WorksOnFile /\ LifeCycle /\ Ownership /\ Delivery /\ NodeFollowsModule
=============================================================================
