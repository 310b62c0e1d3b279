# TLA+ models of the TERMOSOS sensor stack

Models, model-checking runs and proofs for the programs in this repository that
read a DHT11 sensor on a Raspberry Pi: the kernel driver behind `/dev/dht11`
(`yyk99_extra/package/termosos/driver`) with the bcm2835 library it is built with,
the UDP server on top of it (`yyk99_extra/package/termosos/udpserver`), and the
user-space session server of `iot_in_c`. `PROJECT.json` lists components,
runs, mutants, the source lines behind every definition, findings, hazards and
theorems.

## 1. Inventory

| component | state | operations | interacts with |
|---|---|---|---|
| `dht11_driver` (`main.c`) | one `dht11_dev`: mutex, `text`, `text_size`, cdev; major number | `open` (trylock, measure, format), `read`, `release`, module init and exit | the kernel (VFS, module reference count), `dht11_get_data`, `bcm2835_*`, user tasks |
| DHT11 decoder (`dht11.c`) | pulse lengths, 41 bits, 5 bytes, humidity and temperature | `dht11_get_data`, `dht11_get_byte` | the data line through `bcm2835_gpio_*`, the system timer |
| `bcm2835.c` | mapped register pointers, I2C and PWM settings | init/close, GPIO, timer, SPI, AUX SPI, I2C, SMI, PWM | hardware registers |
| load scripts (`S98dht11_driver`, `driver_load`, `driver_unload`) | the node `/dev/dht11` | start, stop | module loader |
| `udpserver` (`main.c`, `server.c`) | socket, one request at a time, `buff[]` | receive, log, dispatch, read the device, reply; signal handler | clients, `/dev/dht11`, syslog |
| `udpclient` | one outstanding question | send, wait, print | the server |
| `S99udpserver` | - | start, stop, restart | the server process |
| `iot_in_c` | per program | exercises; `page195_dht11_srv` is a user-space session server | GPIO, UDP |

What is hard here, and what correctness means:

* **Driver.** A mutex that is taken in one system call and released in another,
  possibly by another task after `fork()`; reads of a shared file that race on
  its position; a text buffer reused by texts of different length; init and exit
  functions that run beside system calls, and can fail half way. Correct: one
  open file at a time, `read()` returns that open's measurement and all of it,
  nobody waits for ever, and an unloaded module leaves nothing behind.
* **Decoder.** Bit-banging by polling with interrupts enabled. Correct: the
  value is exact when the scheduler is kind, and turned down - never wrong - when
  one bit is disturbed; the call always returns.
* **UDP service.** Datagrams get lost, repeated and reordered, the device is busy
  when somebody else reads it, the server is stopped at any point. Correct: an
  answer belongs to its question and contains a reading taken after it, every
  queued request is answered, the device is always given back.
* **Register library.** Polling loops, with and without a limit, against a
  controller that works at its own pace; status bits left over by an earlier call;
  read-modify-write without a lock; 64-bit values read in halves. Correct: a call
  that reports success has moved exactly the bytes asked for, a configuration call
  sets its own fields and no others, a timer read is a moment of the call.
* **Session server** (`page195_dht11_srv`). A receive buffer and a record that
  nothing resets, calls whose failure nobody looks at, and a sensor that may not answer.
  Correct: a record holds the last consistent frame the data line showed, the lamp
  tells whether somebody is served, and the stream goes on.

## 2. Modules

| module | models | state and actions |
|---|---|---|
| `ExclusiveDevice` | what the device promises: one session at a time, one measurement per session, every byte handed out is of that measurement | `owner`, `sample`, `got`; `Acquire`, `Measure`, `Deliver`, `End` |
| `Dht11Driver` | `driver/main.c` with the load scripts and the kernel's part around them | below |
| `Dht11DriverProofs` | theorems about `Dht11Driver` | |
| `Dht11Sampler` | `dht11.c` and the numbers `open` prints | below |
| `UdpServer` | `udpserver/main.c`, `server.c`, `udpclient.c`, `S99udpserver`, the network, a competing reader | below; uses `ExclusiveDevice` as the device |
| `I2cTransfer` | the four I2C transfer functions of `bcm2835.c` | below |
| `SpiTransfer` | the ten transfer functions of SPI0 and the auxiliary SPI | below |
| `PeripheralRegisters` | every configuration call: GPIO, pads, pulls, events, set-up of SPI, I2C and PWM, and the SMI bus | below |
| `SystemTimer` | `bcm2835_st_read` | below |
| `SystemTimerProofs` | the theorem about it | |
| `Page195Server` | `page195_dht11_srv.c`; EXTENDS `SystemTimer`, whose steps its measurement takes | below |
| `Dht11SamplerProofs`, `UdpServerProofs`, `I2cTransferProofs`, `SpiTransferProofs`, `PeripheralRegistersProofs`, `Page195ServerProofs` | theorems about the modules of these names; the last EXTENDS `SystemTimerProofs` too and reuses its steps | |
| `MCDht11Driver`, `MCDht11Sampler` | values of constants for TLC | |

### Dht11Driver

A task is in user space or at a step of a system call (`pc`). `open()` is
`ChrdevOpen` (the kernel looks the node's number up among the live cdevs and takes
a module reference), then `OpenBusy` or `OpenTrylock`, then `OpenSampled`,
`OpenInconsistent`, or `OpenFault` when the registers are not mapped. `read()` is
`ReadBegin` (the kernel copies `f_pos`) and one of `ReadEof`, `ReadCopy`,
`ReadFault`, after which the copy is stored back: the kernel does not serialise
these. `close()` is `CloseShared`, or `Release` and `ModulePut` for the last
descriptor. The administrator's load and unload go step by step through
`dht11_driver_init_module` and `dht11_driver_cleanup_module` (`mpc`), with every
call that can fail failing or not.

The text buffer is abstracted to which measurement each byte came from. `Snprintf`
keeps the bytes behind the terminating Nul, `Strncpy` pads them, `Strnlen` finds
the first Nul, as the C functions do. A measurement gets the smallest identity no
byte of the buffer carries, so a byte of an older measurement is always told apart.

The administrator may also use `modprobe` and `rmmod` without the script
(`SkipNode`), which leaves the node out of date; the history variable `byHand`
records that this has happened. When init fails the kernel frees
the module without looking at its reference count: `InitUnwind` kills the tasks
that are inside it.

### Dht11Sampler

Time is a number of microseconds. The sensor is a schedule of 84 alternating
levels (`PulseEnd` counts the zeros and ones sent so far, so the schedule needs no
recursion); `Poll` moves time to the first moment the line has the level wanted, or by
the length of 1999 polls. Between an edge and the timer read passes one of
`Jitters`; once per measurement the task is preempted, either while it polls (it
then sees the line as it is later) or between an edge and the timer read.

### UdpServer

The server is a sequential process with a program counter per system call; the
socket's receive queue is a FIFO of bounded length; the network reorders, and
loses and repeats datagrams when told to. A measurement is identified by the set
of questions that had been asked when it was taken. The variable `faults` is chosen
once: which of loss, repetition, failing system calls, an unsafe moment in the
signal handler and stops can happen in this behaviour. A task inside the driver's
`open()` does not take a signal before it returns, so a pending SIGTERM lets the
server go on only there. `text` is `buff[]` on the stack, which is never cleared.

### I2cTransfer

A call's prelude (clear the FIFO, clear the status, set the length, fill the FIFO,
start) is one action, because clearing the FIFO aborts whatever the controller was
doing and nothing happens on the bus until it is started again. From there every
read of the status register and every access to the FIFO is an action, and the
controller moves bytes, ends the transfer or aborts it between any two. The three
functions that read share their loops in the source by copy, and in the model by
name. Assumed of the controller: DONE stays set until 1 is written to it; a start
during a transfer is a repeated start; RXD announces received bytes only. A byte is
named by the call, its direction and its index in that call, so that one left in
the FIFO, or one the call itself wrote, never passes for a received one. The delay before the read loops is 0, as the code computes it.

### SpiTransfer

Each function is an action with a disjunct per step of its loops (`pc`); a loop
that only polls a flag is a step that waits for it. The two controllers move words
from the transmit FIFO (`txf`) through the shift register (`sh`) to the receive
FIFO (`rxf`) between any two steps. SPI0 stalls while its receive FIFO is full and
is cleared at the beginning of each call; the auxiliary SPI does neither, so what a
call leaves behind meets the next one. `byte_reverse_table` is the table of the
source; the slave answers a byte with its complement, so that every stored byte
tells which byte it answers.

### PeripheralRegisters

A call is a program: a sequence of register accesses computed from the arguments
(`gpio_fsel`, `spi_begin`, `smi_write`, ...), of which `Step` performs one at a
time. `peri_set_bits` is a read and a later write-back, and the calls of two
callers interleave between any two accesses. Registers are sets of bits, at the
offsets of `bcm2835.h`; they start all 0 or all 1, so that a field that is
disturbed shows. The chip's side (`HwWrite`, `HwRead`: set and clear registers,
write-1-to-clear events, passwords, the SMI transfer, the PWM clock that stops
later) is external. `want` is what each field was last set to, `lost` the fields
that a write-back has put back to an older value. `bcm2835_init` sets
`pud_type_rpi4` unconditionally, so only that branch of the pull functions exists in
the model.

### SystemTimer and Page195Server

The counter is a pair of halves; between two accesses of `bcm2835_st_read` it may
advance to any later moment. In `Page195Server` time passes inside the two timer
reads of a pulse (`Tick`, at most `MaxJitter` each) and by the length of the pulse
between them, with a low half so short that it carries inside every pulse of a 1.
`loop()` has an action per system call. Datagrams are told apart by what they do to
the two `strncmp`s; an `EMPTY` one leaves the buffer as it was, and a failing `recvfrom`
(`SocketFails`, then `Receive`) leaves the buffer and `dest`, both of which are then
interpreted again. A reply with no `dest` fails, and `assert` ends the program.

A measurement follows `GetDHT22data` loop by loop: `WaitAnswer`, and for each bit
`WaitRise`, the timer read, `WaitFall`, the timer read. `Poll` says how long one of the
loops of 1999 polls lasts: until the level comes, at once if it is there, or `PollUs` ticks
if it never comes, after which the code goes on all the same. The line is the sensor's, or
it is dead - `"low"` or `"high"` - for the whole measurement (no answer to the start
signal) or from any bit on. `frame` is what the line showed: the sensor's bits, and the
level of a dead line for the rest. A line that dies inside a pulse is one that dies before
or behind it, because the shortened pulse is decoded as a 0 or as a 1. The frame has a sign,
a magnitude and a check bit, so that, as with the real five bytes, all zeros pass the
checksum and all ones do not; the pulse of the answer, which goes into `buf[0]` and
is never looked at, is left out, and the decoding of 40 bits is the subject of
`Dht11Sampler`. The conversion of a negative `float` to `uint32_t` is undefined in C;
both outcomes that compilers produce are possible in the model.

## 3. Runs

| run | shows | size |
|---|---|---|
| `driver` | 2 tasks, 3 files, 2 major numbers, the script or commands by hand: all safety properties, `OpenReturns`, `LoadTerminates`, and `ProvidesSessions`: the driver implements `ExclusiveDevice` | 118 000 states |
| `driver_unmapped` | expected violation: `LibraryInitialised` | |
| `sampler` | 5 frames, jitter at all 82 edges, one preemption, stuck lines | 1.3 million states |
| `sampler_sign` | expected violation: `ShowsTemperature` | |
| `udp` | 2 clients, 2 questions each, a competing reader; without faults `ClientAnswered`; with loss, a repetition, failing calls, one stop or restart and a handler that may hang: `FreshReading`, `PairsUp`, `DeviceReleased`, `ServerAnswers` | 242 000 states |
| `udp_restart` | expected violation: `RestartServes` | |
| `i2c` | two calls in a row, FIFO of 2 for transfers of up to 3 bytes, five kinds of device | 12 000 states |
| `i2c_arbitrary` | expected violation: `ArbitraryCommand` | |
| `registers` | two callers, every pair of calls: `ConfigExact` (no call disturbs a field that is not its own, except by the read-modify-write race), `SingleWritesSafe` (which fields that race can reach), `ResultsExact`, `SpeedKept` | 227 000 states with symmetry |
| `spi` | two calls in a row, FIFOs of 2 words: `WireExact`, `ReadExact`, `CallReturns` | 33 000 states |
| `spi_aux_any` | expected violation: `AnyNumber` | |
| `page195` | 2 clients, 2 datagrams of any kind or socket errors, a line that goes dead anywhere: `StReadExact`, `RecordsTrue`, `LampMeansStream`, `KeepsServing` | 927 000 states |

Bounds. A text buffer of four bytes holds a text shorter and one longer than the
error text, so a stale tail exists; four identities suffice for four bytes. Three
files are one open, one being refused and one being closed at a time. Two majors
make a node with a wrong number. In the sampler the pulse lengths are those of the
recording in `dht11.c`; the jitter of 20 us is the most a 71 us pulse can lose
with a threshold of 50 us, a preemption of 23 us just fails to hide a 24 us pulse
and one of 150 us hides more than a bit. `PollUs` is 200: longer than every phase,
as 1999 register reads are. One client with two questions is enough for an
answer to be taken for another one's, and two for one to be sent to the wrong
address. In the I2C run a transfer of three bytes does not fit into the FIFO, and
the second call finds what a first one, successful or timed out, has left behind;
three polls per byte let a write time out and let it succeed. The lengths of the
SPI run fill one word, the FIFO, and more than the FIFO of the auxiliary SPI (1, 2
and 3 words). The pins of the register run are the last field of a function-select
register, the last bit of a bank and a pin of the second bank; its speeds are the
lowest that SPI0 and the auxiliary SPI can do and one whose quotient is odd.
Programs that set up or leave a bus overlap every other call but not each other;
events occur while a call looks at the event register; at most two calls are made,
one on each side of every race. `page195` has a timer whose low half has three
values, so that it carries inside every pulse of a 1, pulses of 2 and 5 ticks around a
threshold of 3, one tick of delay in each timer read, and loops that give up after 7
ticks, longer than any phase of the sensor, as 1999 reads of a register are; two datagrams
suffice for a stale command, and a datagram with a socket error for one that is executed again.

Symmetry (callers in `registers`) is used only where no temporal property is
checked. `CHECK_DEADLOCK FALSE` stands in the
sampler's runs, where a measurement ends, in the UDP runs, where the clients have
asked all their questions, in `page195`, where the program may exit, and in the
I2C, SPI and register runs, where all calls are made.

Fairness. Driver: a task inside a system call and a started load or unload keep
going - nothing in them sleeps except `mutex_lock` of the exit function, whose
guard the property is about. Nothing makes a task open, read or close. Sampler:
the task keeps running. UDP: the server and its signals, the script, the clients'
`recvfrom` and the network's delivery make progress; a network that loses datagrams
may lose one before it must deliver it. I2C and SPI: the caller runs and the
controller moves what it can move; a device that is stuck stays so. Session server:
the program runs with real-time priority and `select` has a timeout, so it keeps
going; nothing makes datagrams arrive.

### Findings

* `cdev_add` precedes `bcm2835_init` (`main.c:147,152`) although `bcm2835.h:1393`
  requires the library to be initialised first. With a node left over from an
  earlier load a task can be inside `open()` with unmapped registers, and dies;
  the mutex then stays locked. With the script alone this cannot happen
  (`ServiceIsSafe`).
* `main.c:62-66` prints a temperature between -0.99 and -0.01 without its sign.
* `bcm2835_i2c_write_read_rs` never returns when it is given more command bytes than
  the FIFO holds (`bcm2835.c:1538`), although `bcm2835.h:2018` allows any number.
* `S99udpserver restart` does not wait for the old server to end.
* `bcm2835_aux_spi_transfernb` stores bytes that were never received when a transfer has
  more words than the FIFO holds: its last loop (`bcm2835.c:1088`) takes words while the
  controller is not busy, without looking whether there are any or whether all have been
  sent, although `bcm2835.h:1924` promises "any number of bytes to and from the AUX SPI
  slave". `spi_aux_any` shows four words of which two have been sent when the caller is held up;
  it then fills the rest of the buffer from an empty FIFO.

Not contradicting any text, but worth knowing: a data line stuck low passes the
checksum as 0 C and 0 % (`SilentLine` in the driver), and the session server sends such
a record too, in the middle of a stream of good ones (`RecordsTrue` says so); when the
line is stuck high, or a frame fails the checksum, it sends the last record again;
`udpserver -p` is parsed and ignored (`main.c:63`), although its README lists the
option; a client on a network that repeats a datagram stays one answer behind, and one
that loses a datagram leaves it waiting for ever; `bcm2835_aux_spi_write` leaves an
answer in the receive FIFO that the next auxiliary transfer takes for its own; a short
datagram makes the session server execute the command before it again, and any datagram
redirects the stream to its sender.

## 4. Proofs

`Dht11DriverProofs` proves for every set of tasks, files and major numbers, every
buffer size, every set of text lengths below it and every set of read sizes (the
assumptions `TextAssumption` and `NameAssumption` of `Dht11Driver`) that the
following are invariants of `Spec`: `TypeOK`, `MutualExclusion`,
`ReadsOwnSample`, `WholeTextAtEof`, `QuiescentUnload`, `NothingLeft` and
`NoTaskDies` (no task is killed as long as only the script is used); and that `Spec` implies
`ExclusiveDevice`'s specification under the mapping in `Dht11Driver`.

The inductive invariant `IInv` is built in layers, each of which uses only those
before it:

1. `TypeOK` and `WorksOnFile`: a task in a system call works on a file.
2. `LifeCycle`: what is registered at each step of init and exit, and when module
   references can exist. `MutualExclusion` alone is not inductive: `InitSetup`
   resets the mutex, which is sound only because nobody can be inside yet.
3. `Ownership`: a file has at most one opener or closer, readers hold it, the
   mutex is the administrator's only inside the exit function.
4. `Delivery`: every byte below a file's position, and below each reader's copy of
   it, has been handed out, and the first `text_size` bytes of the buffer are of
   the measurement of the file that is open. This is what survives when positions
   go backwards.
5. `NodeFollowsModule`: without stale nodes nobody is inside before the module is
   live.

Two lemmas say what `Strnlen` finds after `Snprintf` and after `Strncpy`. The
refinement follows step by step from `IInv` (`SessionStep`).

`SystemTimerProofs` proves `StReadExact` for `TimerSpec`, with a low half of any
width and a counter that advances by any amount between two accesses, so also when
the caller is preempted for longer than the low half takes to wrap. `TimerInv`
keeps, per step of the call: the first high half is that of the beginning; while
the counter still has that high half, the low half read after it is not ahead of
it and not before the beginning; and if the high half read again differs, it is
larger, so every moment that has it is after the beginning - therefore the low
half read then need not match the first one. `StReadExact` alone is not inductive
because it says nothing before the return.

`Dht11SamplerProofs` proves `TypeOK`, `ExactDecode`, `NeverWrong` and `SilentLine` for
every frame, every preemption and all pulse lengths, delays and polling times within
`TimingAssumption`: a delay at an edge is shorter than the pulse of a 0 and leaves the
pulses of 0 and 1 on their sides of `DHT11_BIT_THRESHOLD_US`, and 1999 polls outlast
every phase of the answer. This is what the decoder takes for granted of the sensor
and the machine; the recording in `dht11.c` and the values of the runs satisfy it. None
of the four is inductive, because they speak of the end of a measurement only. The
invariant says where the decoder is with respect to the sensor: `OnTime` gives for each
place of the loops between which two edges it is, and `Late` how far a preemption
shorter than a pulse can have thrown it back - far enough to spoil the pulse at hand
but back in the low phase before the next one (`Timed`). So at most one of the bits
decided is wrong, and none before the preemption or without one (`Bits`). At the end,
a wrong bit changes one byte at most (`DecodedBytes`), and the checksum tells apart any
two frames that differ in one byte (`OneByteOff`). The lemmas on the way: dht11_get_byte
weighs its bits (`ByteWeighs`), a byte is the sum of its bits (`PlaceValues`, decided
by SMT over the 256 values), the edges are in order and the phase at a time is the
number of edges passed (`EdgeOrder`, `PhaseIs`).

`UdpServerProofs` proves `TypeOK`, `DeviceReleased`, `FreshReading` and `PairsUp`
for any clients, commands, bounds and faults (`UdpAssumption`). The invariant has
three layers. The first has the types, the shape of what is in the socket's queue,
the network and the replies, and `DeviceReleased`. The second ties the server's
program counter to what its local variables may be trusted for: once the read has
succeeded, `text` is a reading taken after the request at hand was asked;
`FreshReading` speaks of replies only and is not inductive without it, since `buff[]`
keeps an older text. The third holds while no datagram was repeated: a question that
is out is the current one of its client and is in one place at most - on the way
there, in the queue, in the server, or on the way back - so that an answer that
arrives can only be its own. It is what a client without sequence numbers relies on.

`I2cTransferProofs` proves `TypeOK`, `WriteDelivers`, `ReadIsWhole`, `NoOverrun` and
`NoFalseAlarm` for every FIFO size, all lengths, any limit and width of the failsafe
counter (`I2cAssumption`). The invariant says for each place in the loops how many
bytes have been taken from the buffer, sit in the FIFO and are on the wire
(`Counts`: the three always add up), that each of these is a contiguous piece of
the call's bytes in order (`Contents`), and what DONE means at each place
(`DoneMeans`: for a read, that every byte is in the FIFO or stored). `ShortCommand`
says that the command phase of `write_read_rs` ends only when its bytes fitted into
the FIFO; `I2cLongCommandFails` follows, which is the finding of `i2c_arbitrary` for
every length rather than for three bytes.

`SpiTransferProofs` proves `TypeOK`, `ReadExact` and `WireExact` for every depth and every set of
calls (`SpiAssumption`; lengths up to 15 and 7 calls are what a byte can name, see
`Given`). `TypeOK` needs `Progress`, how far a call is at each place of its loops,
and `Spi0Quiet`: SPI0 stands still between calls, which is why clearing its FIFOs is
enough to begin. `ReadExact` says nothing before the return; its strengthening
`Flight` accounts for every word between the two buffers: receive FIFO, shift
register and transmit FIFO hold, in this order, the bytes that follow those already
stored, cut into words of one byte or of three, the transmit buffer is untouched
behind what was received (which is what makes `spi_transfern` right although it
receives into the buffer it sends from), and `nt` is where they end. On the auxiliary SPI the
words in flight then never exceed the depth where all of them fit (`AuxFits`), so no
answer is dropped and the last loop never reads an empty FIFO. The lemma `Table`
checks all 256 entries of `byte_reverse_table`: putting the answer back in order
gives the answer to the byte given. `WireExact` needs a third layer, because at the
return of an auxiliary call words may still be under way, behind words that earlier
calls left there: `Line` says that transmit FIFO, shift register and wire hold, behind
`o` words of earlier calls, the words of this call from the first on, each with its own
bytes in the order asked for and with the right chip select, and that they end where
`nt` says. `Load` and `Emit` move words along the line (`LineLoad`, `LineOld`,
`LineOut`), a send appends the next word (`LinePush`, `NextWord`), and the functions
send only where there is room: by a flag, by `AuxFits` in `aux_spi_transfer`, and in the
second half of `spi_write`, which does not look, because one byte at most is before it
(`LineRoom`). That the answers never overwrite what is still to be sent comes from
`Flight` (`Unsent`); that each call is over in time, from `Ends`. `MirrorTable` shows the
256 entries to be the mirrored bytes, and mirroring to undo itself.

`PeripheralRegistersProofs` proves `TypeOK`, `SingleWritesSafe`, `ConfigExact`,
`SpeedKept` and `ResultsExact` for any callers, pins, speeds and number of calls, where
the programs that set up or leave a bus overlap every other call but not each other
(a bound of `Call`, see `Setups`; `RegistersAssumption`: the pins exist and no speed is 0). `ConfigExact` speaks of
registers only and is not inductive: the value of a field depends on what the callers
are about to write. The invariant therefore also speaks of the rest of every caller's
program (`CallersOK`): each access is in order (`Access`), which means that a plain write
gives every field of its word the value the call sets (in the set, clear and event
registers, exactly the outputs or events whose bits are written), and that a `set_bits`
names the bits of its own fields only, in a register where fields share a word. A write-back in flight, which is always the first
access of what is left, will write the other fields as they were read (`Kept`), so that
a field which has changed since is put into `lost` and no other is disturbed. Every one of
the library's programs is `Fresh` - in order and without a write-back - whatever its
arguments: this is one lemma per call, and rests on the places of all fields being
disjoint. From `InvAlways` follow `TypeOK`, `ConfigExact`, and `SingleWritesSafe`, since
only sharable registers are ever written back. `SpeedsHold` keeps in the invariant
that each bus has the divider computed for the speed last asked for; `SpeedKept` then is
arithmetic about `EvenDivider` and `aux_spi_CalcClockDivider`. For `ResultsExact`,
`ResultsHold` follows an SMI transfer that has the bus to itself through its seven
accesses (`Writing` and `Reading`, by how many are done): a done bit left by an earlier
transfer is gone before the start, so the bit that ends the wait is this transfer's.
All other programs keep off the three registers of direct transfers (`Plain`).

`Page195ServerProofs` proves `StReadExact`, `RecordsTrue` and `LampMeansStream` for
any clients, any width of the timer's low half and any pulse lengths, jitter and limits of
the polling loops that keep a 0 at or below the threshold and a 1 above it and let no
loop give up on a sensor that works (`PulseAssumption`; `DestAssumption`: no client is
the absence of one). It reuses the timer's invariant for each of the two reads of a pulse
and adds: the ticks between the two returns are those of the pulse give or take the
jitter (`SensorPulse`), or, on a dead line, at most the jitter of two reads if it is low and
at least the limit of a loop if it is high (`DeadPulse`), which the threshold tells
apart as well; hence the bits decoded so far are those the line showed (`Bits`); and
the record, once measured, is that of the last consistent frame (`Record`). The
tick lemmas say that the order of moments is that of their tick counts, across a carry.

Only model-checked:

* the liveness properties `OpenReturns`, `LoadTerminates`, `Terminates`,
  `ServerAnswers`, `ClientAnswered`, `CallReturns`, `KeepsServing`: fairness is
  beyond the prover;
* the properties of the runs that expect a violation.

Every safety invariant that a passing run checks is also a theorem.

## 5. Not modelled

* The wording of texts and logs; option parsing.
* A datagram whose source port is 0 (`DestAssumption`). The session server would take it
  for nobody at line 103 of `page195_dht11_srv.c` and stop the stream with the lamp on, so
  `LampMeansStream` holds for datagrams that can be answered only.
* In the session server: a sensor that works but answers later than a loop waits, and a
  line that comes back to life within a measurement. The bits decoded are then of no frame,
  and the checksum is all there is.
* A `read()` of the device that fails in `server.c:54`: the driver's `read()` fails only
  for a bad buffer, and `buff` is a good one.
* `bcm2835_regbase` (whose answer for `BCM2835_REGBASE_BSC1` is the timer's block, a missing
  `return`), `bcm2835_st_delay` and the legacy pull-up/down clock: nothing
  in the repository reaches them. `bcm2835_delay` and `bcm2835_delayMicroseconds`
  only call the kernel. Memory barriers: accesses take effect in program order.
* Null buffers and empty transfers of the auxiliary SPI, DMA and interrupts, which
  the library does not use.
* `page195.c` and `page195_dht11.c`, which take one measurement with a copy of the
  session server's function and print it; the other exercises of `iot_in_c`, which
  toggle a pin or convert a number; packaging.

The kernel (VFS, modules, scheduler), the sensor, the bus controllers, the chip's
registers, the network and `start-stop-daemon` are modelled only as the code relies
on them and are marked external.

## 6. Plan

Done: all modules above, and the proofs of the safety properties of the driver, the
decoder, the timer, the UDP service, the I2C and SPI transfers, the registers and the
session server. What is left for later:

1. Longer transfers in `SpiTransfer`: a byte names its call and its place, which limits
   lengths to 15 and calls to 7; pairs instead of bytes would lift the limit, at the price
   of the table's part in `WireExact`.
2. The hazard without a property: a preemption that hides a whole pulse.
