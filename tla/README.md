# Verification of the ACQ200 firmware and host driver

TLA+ models of the parts of this repository that run concurrently: the Linux
driver of the D-TACQ ACQ32/ACQ200 cards (`dt100/Linux/Drivers`), the control
program on the card (`dt100/ARM/d-bug`) and the protocols between them. Paths
are relative to `src/project/BASE/DTACQ/SRC/` (`acq32busprot.h` is under
`include/`). Files without a path are in one of the two directories above.

Run, in this directory:

    tlasany M.tla                    parse module M
    tlc -config X.cfg MCModule       model-check one configuration
    tlapm MProofs.tla                check the proofs of a module

## The system

A host computer drives capture cards over PCI. Each card has four mailbox
registers, a doorbell, two I2O message queues and a window of the host's memory
(or the host a window of the card's). User programs talk to the driver through
device files; the driver talks to a control program on the card, a Linux process
with a thread for the mailbox and messages (`mboxSlaveLoop`) and a main thread
for local command sockets (`pgm_monitor`).

| Component | State | Operations | Interacts through |
|---|---|---|---|
| PCI mailbox, host side (`acq32_core.c` 682-969) | `mbox_mutex`, COMMAND, A3, A4 | send command, send with arguments, send query, query with an I2O answer; poll for ACK with a limit | mailbox registers, auxiliary I2O replies |
| PCI mailbox, card side (`mbox-slave.c`) | the loaded word, the driver state | `processMboxCommand`: short and long commands and queries; `ack`, `nack` | registers; the acquisition driver; the local server's setArm |
| Local command server (`local-slave.c`, `main.c`, `usc.c`) | sockets, line buffers | text commands, some of which call mailbox handlers | mailbox registers, acquisition driver |
| Capture state machine (`acq32_drv.c`, `acq200_hal.c`) | capture state, STATUS mailbox (state, mode, cycle, heartbeat) | arm, abort, start, stop, post-process; reports | STATUS mailbox and doorbell |
| Ring buffers (`acq32.h` 664-680, 1327-1427) | `iput`, `iget`, `iputback`, slots | put, get, put back | interrupt, bottom half, processes |
| I2O transport (`acq32_core.c` 568-577, 1406-1459, 1578-1725) | `i2o_last_id_out`, handler list, `streambuf`, `downstreambuf`, `aux_mfa` | send, interrupt, bottom half dispatch by type and id | message frames, return handlers, wait queues |
| acq200 bridge (`acq200.c`, `acq200_bigbuf_alloc.c`) | pool of 15 buffers with a handler each, path descriptors | open, read, write, release, return handlers | shared memory, I2O messages |
| Card's file server (`processMessage.c`) | one static `FILE*`, one message buffer | read, write, close a file of the card, run a command | I2O messages, shared memory |
| Streaming read (`acq32_core.c` 2921-3103) | `downstreambuf`, the application's buffer | read rows, put back what does not fit | ring buffers |
| Host arming (`acq32_core.c` 1548-1570, 1833-1962) | `set_arm.busy`, `cos.inhibit`, task queues | GoAll with double tap, watchdog, block till stopped | mailbox, STATUS, timers |
| Clients and change of state (`acq32.c` 1557-1762, 2153-2183) | `nclients`, irq ownership, cos slots, `statusbuf` | open, close, cos task | interrupts, paths |
| Everything else | | text commands, ioctls, mmap, transforms, wave and function generators, simulator, library, GUI, DT100D | |

`PROJECT.json` lists every component with its status, and every hazard found so
far with its line.

### What is hard

* Two processors share registers without a lock: `*mbox(x) |= bit` is a load and
  a store, and the other side may write in between.
* The host gives up after a fixed number of polls, so an answer may come after
  its question was abandoned; the answer does not say which question it was for.
* Some handlers acknowledge before they work, and are acknowledged again after.
* A reply is matched to its handler by an id guessed before the message is sent.
* An interrupt, its bottom half and processes share rings, a pool and a list,
  with different means of protection, some of which do nothing on a uniprocessor.
* The card serves all transfers of all clients from one open file.
* Every wait has a way to miss its wake-up, and some have no timeout.

## Modules

| Module | Models |
|---|---|
| `Mailbox` | command and query transactions, both sides, one step per register access |
| `MCMailbox`, `Mailbox_*.cfg` | its instances |
| `MailboxProofs` | types and order of execution, for every value of the constants |
| `MailboxVerdicts` | what the sender is told is true, of every exchange that no other got in the way of |
| `StreamQueue` | abstract: a bounded queue whose consumer may take its last get back |
| `StreamBuf` | the ring of `acq32.h` |
| `MCStreamBuf`, `StreamBuf.cfg` | its instance, checked to implement `StreamQueue` |
| `StreamBufProofs` | the refinement, for every size |
| `Bridge` | pool, file operations, message ids and handlers, the card's file server, the bottom half |
| `MCBridge`, `Bridge*.cfg` | its instances |
| `BridgeProofs` | types, who has which buffer of the pool, which handler a reply meets, and what a transfer moves to and from its file, for every pool and every range of ids |
| `HostMessages` | interrupt, bottom half, both rings (as two `StreamQueue`s), auxiliary replies, the stream's reader |
| `HostMessagesProofs` | types, frames, the order of the stream and auxiliary replies, for every number of them; the use of the rings as queues |
| `HandlerList` | the return handlers' linked list, one pointer store at a time |
| `HandlerListProofs` | its invariants, for every set of handlers |
| `Clients` | open and close, interrupt ownership, cos slots, delivery of changes of state |
| `ClientsProofs` | the interrupt and the slots, for every set of clients |
| `Capture` | a capture on the card: states, managers, STATUS, commands and local commands |
| `Arming` | extends `Capture`: GoAll, double tap, watchdog, BlockTillStopped |
| `ArmingProofs` | types, flags and STOP, for every number of processes and managers |
| `MCHostMessages`, `MCHandlerList`, `MCClients`, `MCArming` and their `.cfg` | the instances |

### Mailbox and the code

The state is COMMAND as `[id, new, ack]`, A3/A4 as `[id, reply]`, and the program
counters of the clients, the mailbox thread and the main thread. A function code
belongs to a class (`ShortCommand`, `LongCommand`, `ShortQuery`, `LongQuery`,
`Unknown`), which is all the switches of `processShortCommand` and its siblings
distinguish; `EarlyAck` are the codes whose handler calls `ack()` itself (setArm
and the long queries). The number of a send stands for the word and the
arguments it wrote.

| Action | Code |
|---|---|
| `MutexDown`, `SetArgs`, `SetCommand` | `_acq32_devSendCommand`: mutex, A4/A3, COMMAND |
| `PollAck`, `PollTimeout`, `GetArgs` | `acq32_devPollAck` and its limit (`GiveUp`); the argument reads of `acq32_devSendQuery` |
| `AuxTimeout`, `DeliverReply` | `acq32_devSendQueryWaitAuxMessage`; default branch of the bottom half |
| `ReadCommand`, `ClearNew` | `processMboxCommand`: load, test, store without the new bit |
| `Dispatch`, `Nack` | the switches; refused when unknown, or long in ARM or RUN |
| `RunHandler`, `Load`/`StoreFlag`/`StoreAck` | the handler, `\|= BP_CI_A3`, `ack()` |
| `LocalAckLoad`, `LocalAckStore` | `doSetArm` on the main thread |

The acquisition driver's state is free at each dispatch. A client's two argument
stores are one step: the thread reads them only after COMMAND. `DeliverReply`
gives a reply to whoever waits and discards it otherwise; the frames that the
bottom half leaves behind and a stale `aux_mfa` are for `HostMessages`. A long
query's wait is not matched with its mailbox acknowledgement, as in the code. The
polled path is modelled; the interrupt path (`acq32_devAckInt`) polls the same
register after an interruptible sleep. `acq32_setArmSpin`, which writes COMMAND
without the mutex to put the card in an endless loop, and
`BP_FC_SET_MODE_LLC`, which zeroes the registers and runs its own protocol, are
left out.

The host may give up at any poll that finds no ACK. The verdict says whether the
card had settled by then (`timedout`) or could still have answered (`early`), which
the host cannot see and the properties need to know.

`crossed` records, for the properties, the sends that met something still under
way: the thread at work on an earlier send or that send's word still there to take
when the arguments or the word are written, a local setArm between its load and
its store of COMMAND (or one that stores while the host polls), the late reply to
another long query. The second acknowledgement of setArm and an early timeout are
what lead there. Of a crossed send the code promises little, which is what
`mailbox_forged` shows; the properties say that of all others, with early
acknowledgements, early timeouts and local arms about, the host is told the truth.

### StreamBuf and the code

A put runs in an interrupt (`streambuf`, `statusbuf`) or in the bottom half
(`downstreambuf`) and is one step for the consumer. A get tests for emptiness
with interrupts on and moves the indices between `cli()` and `sti()`: two steps,
with puts in between. There is one consumer. `IsQueue` maps the slots between
`iget` and `iput` to the abstract queue and the slot between `iputback` and
`iget` to the entry that can be put back; the ring's one unused slot makes the
capacity `NBUF - 1`, of which the kept entry takes a share. `TypeOK` says besides
that a get that has seen an entry takes a slot in use.

### Bridge and the code

| Action | Code |
|---|---|
| `Open`, `Close`, `Call` | `acq200_bridge_open`, `_release_generic` without a transfer, entering read, write or release |
| `Alloc`, `Nap`, `Rescan`, `NapTimeout` | `acq200_bb_pool_alloc` and its sleep; `Woken` is in `_free` |
| `FillNothing` | the `-ENOMEM` return of a write of no bytes |
| `BuildRch` | user copy, `buildRch` (the predicted id), `rchAppend` |
| `Send` | `acq32_sendI2O_kbuf`, whose failure the callers ignore |
| `Sleep`, `ReadAnswered`, `Copy`, `ReleaseAnswered` | `wait_event_interruptible` and what follows |
| `SendText` | `acq32_sendI2O`: messages of other programs, which take ids and frames |
| `ProcessText`, `ProcessFile` | `mboxProcessI2OIncoming`, `doFileIO` with its static `FILE*`, PIO reply |
| `Handle` | the command branch of the bottom half with the three handlers |

A transfer unit is one block; the data of a block is the number of the operation
that wrote it. `active` and `tangled` record, for the properties, which transfers
the card is in the middle of and which overlapped; `lost` and `reused` record the
two events after which the code promises nothing. Files exist beforehand: the card does
not test what `fopen` returns (`processMessage.c:273`), and what `fread` does with a
null pointer is not for a model to say.

Where processes may be interrupted: the drivers are built for a uniprocessor
whose kernel is not preemptive (they use the global `cli()`, and spin locks that
leave interrupts on), so that a process keeps the processor until it sleeps.
`Alone` says so. The user copy may fault and sleep, therefore a process can lose
the processor between allocation and `BuildRch`, and between `ReadAnswered` and
`Copy`; it cannot between `BuildRch` and `Send`, which is what makes the
predicted id right. Interrupts, the bottom half and the card go on at any time.

Not in this model: signals (`wait_event_interruptible`'s result is ignored, so a
signal turns the buffer's address into a byte count and frees a handler still on
the list), the ACQCMD and BATCH messages, DMA replies, replies dropped when
`streambuf` is full, pointer-level races of the handler list, and
`acq200_fetchDataToLocalBuffer`, which `PGMCOMOUT` leaves out of the build.

### HostMessages and the code

| Action | Code |
|---|---|
| `PostStream`, `PostReply` | the card (external): stream data while it streams, one reply per question |
| `IncomingIsr` | `acq32_incoming_i2o_isr`: put in `streambuf`, or back to the card when that is full |
| `BhStart`, `BhGet`, `BhDispatch`, `BhDone` | `acq32_streaming_isr_bh`, one frame at a time; `PassOn`, `CallHandler`, `KeepAux` are its branches |
| `SendStream`, `StreamAcked`, `StreamFailed` | `do_streaming`, `acq32_OnRelease`, `acq32_devSetStreaming` |
| `Query`, `Dump`, `DumpWait`, `Interrupted`, `Expired`, `Woken`, `PrintAuxReply` | `acq32_devSendQueryWaitAuxMessage`, `acq32_DoBigdump`, `acq32_waitAuxMessage`, `acq32_printAuxReply` |
| `Command` | any sender of a command message with a handler (in detail: `Bridge`) |
| `StartRead` ... `ReadCopy` | `streaming_rowdev_read` and its work function |

The rings are instances of `StreamQueue`, the specification `StreamBuf` is proved
to implement. A frame is identified with its message, and the card's free frames
are counted. The bottom half runs to its end before a process goes on (`Runs`),
with interrupts in between. `stranded`, `refused`, `cutShort` and `upset` record
the events after which less is promised, each one a place in the code: a full
`downstreambuf` (1658), a full `streambuf` (1699), the early returns (1661, 1679),
and timeouts, signals and overlapping waits. A reader's buffer may have no room for
even one message, which is then put back and the read returns nothing.

### HandlerList and the code

`rchAppend`, `rchInsert` and `rchRemove` are four, four and two stores; the bottom
half may run between any two, and walks the list as it is. `saw` is a pointer the
compiler may have kept in a register, so that both ways of compiling the third
store are there. `order` is what the list should be. `torn` records that the
bottom half removed an entry whose pointers the interrupted process was about to
use. That is a real fault (a spin lock does not hold the bottom half off); the
properties say that nothing else goes wrong.

### Clients and the code

| Action | Code |
|---|---|
| `OpenOther`, `OpenStatus`, `OpenRefused` | `acq32_open`, `acq32_status_open` |
| `RequestIrq`, `OpenDone` | `acq32_request_irq`, for the first client `OnOpen` within it |
| `CloseOther`, `CloseStatus` | `acq32_release`, `acq32_status_release` |
| `FreeNothing`, `FreeIrq`, `FreeDone` | `acq32_free_irq`, `OnRelease` within it |
| `CardStore`, `CardRing` | `_mbox_reportState` on the card: STATUS, then the doorbell |
| `IsrRead`, `IsrEnd` | `acq200_isr` reads STATUS, then clears the doorbell; `acq32_doorbell_isr` |
| `CosStart` ... `CosWake` | `cos_task` |
| `StartRead`, `ReadReturns`, `ReadSleeps`, `Signal` | `acq32_status_read` |

A state is its number. `owed` is the newest state a client is entitled to, and
drops to 0 where the code gives up on it: a full buffer, an inhibited delivery, a
slot that another took. `shuffled` records a close that is not in the reverse
order of the opens. Only the first client counts itself out (`acq32.c:1607`), so
that `nclients` never comes back to 0 after a second one: `IrqHeld` says that the
interrupt then stays with the clients rather than vanishes under them.

### Capture, Arming and the code

| Action | Code |
|---|---|
| `Sample`, `Load`, `Store` | `_mbox_reportState`: read the driver's state, load STATUS, store it |
| `NoCommand`, `TakeAbort`, `RefuseLong`, `TakeArm`, `AckAgain` | `processMboxCommand` in `mboxSlaveOnce` |
| `TakeMode`, `ModeLoad`, `ModeStore` | `mbox_setMode`, `mbox_reportMode` on the same thread |
| `BeatLoad`, `BeatStore` | `mbox_reportMsecs` |
| `MboxFork`, `LocalFork`, `NoChild` | `acq200_setArm`'s forks, which may fail |
| `OpenOneshot`, `CaptureDone`; `Trigger` | the child in the board driver; the driver (external) |
| `Postamble`, `SpawnPp`, `JobEnds`, `OnStop` | `goPostamble`, `spawnPp`, `stop_cb`, `onStop` in the manager process |
| `LocalGetState`, `LocalSetArm`, `LocalAck`, `LocalSetAbort` | the local command thread |
| `GoAll` ... `Launch`, `SignOff` | `acq32_GoAll`, `set_arm_wdt` |
| `Abort`, `SetMode`, `IoctlDone` | `acq32_SetAbortAll`, `acq32_SetModeAll` |
| `Send`, `FirstArmed` and the like; `TimesOut` | `_acq32_devSendCommand` as one exchange (in detail: `Mailbox`); it was refused, or the poll limit came before the answer |
| `QueueTask`, `Sleep`, `PollStopped`, `AckIsr`, `Signal`, `Woken` | `BlockTillStopped` and its timer task; the acknowledgement's `wake_up` on the same queue |

STATUS has no lock, and four kinds of process store it. `hasStopped()` does
nothing in the mailbox thread: `pp_pid` is only ever set in the spawned manager
(`acq32_drv.c:732`), so that the thread never ends a postprocessing that is under
way; a new arm overlaps it (`overlapped`).

What the model showed besides its properties: CYCLE can go up twice in one
capture. The mailbox thread samples ARM; the capture goes on and another process
reports RUN or later; the thread then stores ARM, with CYCLE one up, over a state
that was not ARM (`mbox-slave.c:499-523`), although `acq32busprot.h` says that
"CYCLE is bumped on every setArm". `acq32_GoAll` then counts a capture that never
began. `DoubleTapTrue` excepts this by name (`late`). And the proof of
`DoubleTapTrue` found a second way: a process gives up its double tap and the flag
while its last arm is still to be reported; the next `acq32_GoAll` reads CYCLE before
that report, which then passes for its own first cycle, while its own first arm is
lost to the second acknowledgement of the old one. One capture satisfies the double
tap.
This is excepted as `unseen`; TLC shows that the exception is needed, and the first
of the plans of `MCArming` is there so that it happens. A third way is a SET_MODE,
whose report sets CYCLE to nought (`mbox-slave.c:553`): with 14 read before the
first arm and 15 after it, a mode set by another process between the abort and the
second arm, and the second arm acknowledged before it is reported, the third
reading is 0, which is the cycle after 15, and one capture passes for two. This is
excepted as `moded`, which also covers a word loaded before the double tap began
with the CYCLE from before such a report; the plan of `MCArming` in which the card
was armed 14 times before shows the rest.

A mode set by the local command thread (`doSetMode`) is left out: the properties
about CYCLE except local commands anyway (`locally`), and to the rest it is a stale
store of STATUS like those of the other reporters.

## Properties and runs

| Run | Module, configuration | Shows |
|---|---|---|
| mailbox_verdicts | `MCMailbox`, `Mailbox_verdicts.cfg` | `AckMeansDone`, `ReplyIsMine`, `RunsAsSent`, `TimeoutMeansUndone`: two clients, three sends, early acknowledgement, an early timeout, a local setArm |
| mailbox_full | `MCMailbox`, `Mailbox_full.cfg` | `TypeOK`, `InOrderOnce`, `EveryCallReturns`: the same with one client, and unknown codes |
| mailbox_forged | `MCMailbox`, `Mailbox_forged.cfg` | violates `AckIsEarned` |
| streambuf | `MCStreamBuf`, `StreamBuf.cfg` | `TypeOK`, `IsQueue`: four slots, three entries |
| bridge | `MCBridge`, `Bridge.cfg` | `TypeOK`, `RepliesMatch`, `PoolSound`, `FileHoldsWrites`, `ReadsTheFile`: two clients, files, buffers and frames, four operations |
| bridge_live | `MCBridge`, `Bridge_live.cfg` | `EveryCallReturns`: two clients, one file, one frame, three operations |
| bridge_reuse | `MCBridge`, `Bridge_reuse.cfg` | violates `ReadIsMine` |
| bridge_leak | `MCBridge`, `Bridge_leak.cfg` | violates `EveryBufferRecycled` |
| transport | `MCHostMessages`, `HostMessages.cfg` | `TypeOK`, `FramesConserved`, `AuxNeverOverwritten`, `AnswersMine`, `BottomHalfFollows`, `StreamInOrder`, `CommandAnswered`, `EveryReadReturns`: three frames, rings of two, two askers, one caller, one reader |
| handlerlist | `MCHandlerList`, `HandlerList.cfg` | `TypeOK`, `ListSound`, `NoNullStore`, `RepliesFound`: two appended handlers, two inserted |
| clients | `MCClients`, `Clients.cfg` | `TypeOK`, `IrqHeld`, `SlotsSound`, `OwnSlot`, `Told`: three status clients for two slots, one other client |
| arming | `MCArming`, `Arming.cfg` | `TypeOK`, `StopMeansStopped`, `OneArmer`, `DoubleTapTrue`, `TaskHasWaiter`, `FlagsOwned`, `StatusFollows`: two processes, two managers |

The three violations, and where the source talks about them:

* `mailbox_forged`: setArm is acknowledged twice (`mbox-slave.c:646` and 1209).
  The host polls the first, sends its next command, and the second
  acknowledgement marks that one done. The firmware skips a word with ACK set,
  so the command is lost and reported as a success, against
  `acq32busprot.h:367`, "cleared by M, set by S on completion".
* `bridge_reuse`: `acq200.c:417` asks "is this wise (free before data consumed =>
  bad idea)". It is not: the buffer can be given out again and refilled before
  the reader copies it. The pool has 15 buffers given out in turn, so all the
  others have to go first; the model has two.
* `bridge_leak`: "need to recycle kbuf" (`acq200.c:690`). The handler does it,
  except for a write of no bytes, which has reserved its buffer and sends nothing.

### Bounds, and why they are enough

* `MaxSends = 3`: a forged or late acknowledgement needs the send it was for and
  the one it hits; the third shows what happens after. One client is enough where
  the mutex is not the question (`mailbox_full`), two where it is.
* `MaxEarlyTimeouts = MaxLocalArms = 1`, but for `mailbox_forged`: with three sends, one
  abandoned or acknowledged early leaves one to be crossed by it and one after.
  That an early timeout tells the sender nothing is a statement about the code:
  the sender of an abandoned command is told that it failed while it is still
  carried out. A timeout on a settled card is not bounded.
* `NBUF = 4`: the smallest ring in which the kept, the queued and the free part
  can all be present at once and wrap. The proof is for every size.
* `NData = 2`, `Frames` 1, 2 or 4, `IdSpan = 3`, `MaxOps = 4`: buffers are
  exhausted, frames run out and ids wrap within four operations (128 ids, 15
  buffers in the code). The `MaxOps` bound stops the system, so deadlock is not
  checked there.
* `SYMMETRY` over clients and files in `Bridge.cfg` and over handlers in
  `HandlerList.cfg` only: nothing in those modules names one, and the runs check no
  liveness.
* `Plans` (`HostMessages`, `Clients`, `Capture`): a behaviour follows one plan, which
  says how often each outside event may happen: a message, a timeout, a signal, an
  arm, a trigger, a local command, a fork that fails, a command given up. `tap`,
  `job` and `armed` in `Capture` are settings: `acq32_double_tap`, a postprocessing
  job, and how often the card was armed before, which puts CYCLE next to its wrap.
  Everything the code does about them is free. The
  product of all bounds is out of reach; the plans are chosen so that each hazard's
  events meet, and between them every action and every branch happens. A plan that
  is used up stops the system, so deadlock is not checked there.
* `UpRoom = DownRoom = 2`, `Frames = 3`: either ring can be full with a frame left,
  or empty with none. `MinRead = MaxRoom = 2`: a read may end because it has enough,
  because the next message does not fit, or with room for none. `StatusRoom = 2` and `PathRoom = 1`: both buffers overflow.
  `MaxCosPaths = 2` with three clients: slots are refused, and shared after a close
  out of order. The code has rings of 128 and 16 and four slots.
* `Managers = 2`: two captures can overlap on the card. A third arm waits for a
  manager, and `StatusFollows` excepts a card that the bound has stopped (`Starved`).

### Fairness

`Mailbox`: weak fairness of the mailbox thread, which loops for ever
(`main.c:521-529`); of each client inside the driver, whose poll is a bounded
loop that calls `schedule()`; of the bottom half. Nothing is assumed of the
clients' calls or of the main thread. `Bridge`: weak fairness of a process in the
driver, of the card's thread and of the bottom half. The pool's sleep may time out
at any moment, but need not: it has a timeout of 1000 ticks, and a wake-up may come
first. `EveryCallReturns` in `Bridge` holds while no bridge message is dropped for
want of a frame and no buffer is reused early. Both are real: the caller of a lost
read or release sleeps without a timeout, and a reused buffer's handler is
overwritten while its first owner still waits on it.

`HostMessages`: weak fairness of the card's replies, the interrupt and the bottom
half, strong fairness of processes inside the driver, because bottom halves
disable them again and again but never for good: a frame each. A wait for a reply
ends because it has a timeout. `CommandAnswered` needs no more, and names where
an answer can be stuck for good. `Clients`: the card's ring and the interrupt are
weakly fair, `cos_task` and the readers strongly, for the same reason; nothing is
asked of opens and closes. `Capture` and `Arming`: the card's threads and managers
are scheduled (their loops and forks are unconditional); nothing is asked of the
host, of local clients, or of a trigger, which may never come.

## Proofs

Checked by TLAPS for every value of the constants that satisfies the modules'
assumptions.

* `MailboxProofs`: `TypeCorrect` (`TypeOK`, with "no handler runs twice") and
  `OrderTheorem` (`InOrderOnce`). The property is not inductive: nothing in it
  says why an old word cannot come back. `OrderInv` adds that no register, local
  copy or handler holds a word newer than the last send (`KnownInv`), that before
  the sender has written its word nobody has it (`FreshInv`), that nothing newer
  than the thread's current word has run (`RunInv`), and that a word that can
  still be taken is newer than the current one (`LiveInv`): a stale store brings
  back an old word only with its new bit off or its ACK on.
* `MailboxVerdicts`: `AckTheorem`, `ReplyTheorem`, `ArgsTheorem` and
  `TimeoutTheorem`, for any early acknowledgements, early timeouts and local arms,
  by `VerdictInv`. While a send that was not crossed waits, every word there is, in
  the register, in the thread's or the main thread's copy, is its own (`OwnWords`);
  an ACK then appears only after the handler ran or, for the codes that acknowledge
  early, just before (`EarnedInv`, `AckedInv`), the argument registers hold its
  arguments and then its answer (`ArgsInv`), and a reply on its way is its own
  (`RepliesInv`). A handler that has run leaves its mark (`MarkInv`), which is why a
  timeout on a settled card means that it has not run. A word that can no longer
  be taken stays so (`GoneInv`), crossed or not.
* `StreamBufProofs`: `RingTypeCorrect` and `RingIsQueue`, the refinement of
  `StreamQueue`. `RingInv` adds that at most one slot is kept, that the kept and
  the queued slots together leave one free, and that a consumer that saw an entry
  still has it when it takes it. The work is in the lemmas on spans of the ring:
  a put extends one, a take moves its head, a put back returns it.

* `HandlerListProofs`: `TypeCorrect`, `ListOrder` (`ListSound`), `StoresSafe`
  (`NoNullStore`) and `RepliesAreFound` (`RepliesFound`). `ListSound` speaks only of the list between updates, and says
  nothing of the half-made links the bottom half walks over. The invariant adds,
  for each store of each update, which links are already made: the new entry
  points into the ring before the ring points to it, backwards before forwards. A
  removal in the middle of an update keeps this for every neighbour except those
  that `torn` names; the work is in the lemmas that a removal closes the gap in the
  numbering of the list. The bottom half's walk is a recursive function.
  `WalkUnfolds` shows that there is such a function and that it satisfies its own
  definition, and `WalkAlong` that its first steps are the list; both argue by a
  least counterexample (`LeastOf`), since induction over an operator is out of reach.

* `HostMessagesProofs`: `FramesAreConserved`, `ReplyIsKept`, `FramesAreFollowed`,
  `TypeCorrect`, `StreamIsInOrder`, `AnswersAreMine` and `RingsAreQueues`.
  `FramesConserved` excepts runs that a signal or an overlap has
  disturbed, and an exception cannot be carried through a step. `Balance` holds in
  every run: the frames there are and the frames made up (`bogus`) add up. `AskInv`
  says that whoever is about to print a reply prints `aux_mfa`, one at a time;
  `QuietInv` that nothing is made up while nothing has been disturbed. The frames in the host are a sum over places; the
  lemmas `Counts` and `HostSum` take it apart. `FollowInv` adds to
  `BottomHalfFollows` what a bottom half that has just found the ring empty knows.
  `Pipeline` lines up the seven places a message passes, from the card's queue to the
  user, and `Piped` says that no message has another before it that should come
  after, and that no reply is in two places. Every step of the driver moves the first
  message of one place to the end of the one before (`Moving`), takes it out
  (`Dropping`), adds one at the card's end (`Adding`) or puts back the reader's
  (`PuttingBack`); the four lemmas are proved for any pipeline, and each action is
  shown to be one of them. `StreamInOrder` follows, and because a reply that leaves is
  nowhere else, so does `AnswerInv`: undisturbed, the only reply on its way or kept is
  that to the last question, and its asker is there for it. The proof of `Numbered`,
  that a command's reply in flight is that of a caller on the list that was not
  refused, found that an earlier form of `IncomingIsr` took the number of a refused
  stream message for a caller when the two sets overlap; `RefusedBy` is the repair.
  `RingsAreQueues` joins this module to `StreamBufProofs`: the driver uses its rings
  as the queues the ring implements.
* `ClientsProofs`: `TypeCorrect`, `IrqIsHeld`, `SlotsAreSound` and `SlotsAreOwn`.
  `IrqInv` bounds `nclients` from below by the number of clients that are counted (it
  is not equal to it, since only the first counts itself out), and says that the
  mutex is held from a count to the request or release that follows from it.
  `SlotInv` says that until clients have closed out of order the slots are the first
  ones, in the order of the opens.
* `ArmingProofs`: `TypeCorrect`, `SetArmExclusive`, `FlagsGivenBack`, `PollHasWaiter`,
  `StopIsStopped` and `DoubleTapIsTwo`. `TypeInv` adds, for each place in `acq32_GoAll`, what the
  process has there (`Sound`). `Owned` is `OneArmer` and `FlagsOwned` together,
  because each rests on the other: `set_arm.busy` is what keeps the second process
  out, and whoever is past the test owns it. `StopInv` says that as long as captures
  do not overlap one manager at most is about and agrees with the driver's state
  (`OneCapture`), and that a report of a manager ends where its code began it
  (`ReportsFit`). `DoubleTapIsTwo` needs to know where a CYCLE can come from:
  `CycleInv` says that while captures are in order (`Orderly`) every word that is
  loaded and not stored yet has the CYCLE that STATUS has (`WordsFresh`), that
  nothing written before a capture begins says ARM (`ForkQuiet`, `LongQuiet`), and
  that once STATUS shows a capture as armed nobody holds another state for it
  (`ShownStays`, `NotTwice`). So CYCLE goes up once a capture, and until a SET_MODE
  sets it to nought (`moded`, which `WordsFresh` excepts too) `TallyInv` counts:
  with no capture begun since `c0` was read CYCLE is `c0`, with one it is at most one
  up, and not again for that one.
* `BridgeProofs`: `PoolIsSound`, `TypeCorrect`, `RepliesMeetHandlers`,
  `FileIsWritten` and `FileIsRead`. `PoolSound` counts the buffers that are left
  behind against the empty writes, and a count alone is not inductive. `BufInv` says who
  holds what: a buffer belongs to one handler or to one process that fills it
  (`OneHolder`), and the reserved ones without a holder (`Left`) are no more than the
  writes of no bytes. The bottom half takes out the first handler of a number, from
  the middle of the list; the lemmas `MinIn` and `Removed` say which and what stays.
  `TypeInv` adds what a process brings to each place in a call. `MatchInv` is
  `RepliesMatch` made inductive: one process at most has filed a handler and not sent
  its message (`OneSender`, which is what a kernel without preemption gives); under
  every number there are at least as many handlers as messages in flight (`Enough`,
  which survives a lost message, since its handler stays); and until one is lost the
  two are in the same order (`InOrder`), so that the first handler of a number is the
  first of all. The lemmas `WhereAppend`, `WhereRemoved` and `WhereTail` count the
  entries of a queue that satisfy a condition when an entry comes or goes.

  The two action properties compare the end of a transfer with everything done in
  it, by way of queues in which messages and replies of several processes mix. Each
  needs an invariant that says where every block is meanwhile. `Transfers` serves
  both: a number belongs to one call, to one handler and to one message or reply of
  it (`Numbered`); a process is as far in its call as its handler and its message
  say (`Staged`), and a reader has no count before its reply (`Unanswered`); and
  until a message is lost, a message says what its process's call wanted and a
  buffer being written keeps its block until it is served (`Letters`), the card is at
  the transfer whose turn it is (`Turns`), and the file followed by the writes on
  their way to it is what was written (`WriteInv`). `ReadTransfers` adds, as long as
  no buffer was handed out early, that the buffer of a reader is nobody else's until
  it has been copied (`Guarded`) and that the file's position is as far as the reader
  has got, plus the block on its way to it (`ReadInv`). `Guarded` fails once a buffer
  is given back before its reader has copied it, which is what the run
  `bridge_reuse` shows of the code: hence the exception `reused` in `ReadsTheFile`,
  and none of it in `FileHoldsWrites`.

Only model-checked: every liveness property (fairness is out of the prover's reach). `AckIsEarned`, `ReadIsMine` and `EveryBufferRecycled` are
false.

## Not modelled, and why

* ACQCMD and BATCH messages of the card's file server, DMA replies: more of what
  `doFileIO` shows (static dialogue state, one buffer), with sample formats.
* The fetch path of acq32 cards beyond its use of the handler list: the acq200
  firmware does not serve its messages.
* Signals in the bridge (`acq200.c:494`): the byte count that a signalled read
  returns is an address, and nothing can be promised after it.
* Low-latency control: a lock-step exchange between one host program and one loop
  on the card, with no third party.
* The DT100D daemon: a process per client that reaches the card only through the
  driver's device files.

The map covers a small part of the lines in the repository, and more modelling
would not change that much: the bulk is vendored code (two copies of libtommath),
text command parsing and its tables, FPGA and clock registers, user interfaces,
and header files of constants. What runs concurrently and keeps state is the core
driver, the bridge and the control program, and those are the modules here.

Left out for good: text command parsing and formatting, ioctl dispatch, mmap,
board-specific registers, wave and function generators, the simulator, sample
transforms, the user-space library and programs, the Java interfaces, the DT100D
daemon, vendored code, and `stream.c`, the I2O rings that the acq200 firmware no
longer links.
