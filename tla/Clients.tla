-------------------------------- MODULE Clients --------------------------------
(***************************************************************************)
(* The clients of a card's device nodes in the host driver: the count of   *)
(* them that decides when the interrupt is requested and freed, the four   *)
(* slots of the processes that read the status node, and the way a change  *)
(* of the card's state takes to them: the card stores STATUS and rings the *)
(* doorbell, the interrupt reads the one and clears the other and queues   *)
(* the state in statusbuf, and cos_task copies it to the buffer of every   *)
(* path in a slot and wakes its reader.                                    *)
(*                                                                         *)
(* The host is a uniprocessor whose kernel is not preempted: a process, or *)
(* the kernel thread that runs cos_task, runs until it sleeps, and the     *)
(* interrupt interrupts it.  The card moves at any time.                   *)
(***************************************************************************)
EXTENDS Integers, Sequences, FiniteSets

CONSTANTS
  StatusClients, \* processes that open the status node
  OtherClients,  \* processes that open another node of the card
  Nobody,        \* a null pointer: a free slot, a free mutex
  MaxCosPaths,   \* MAX_COS_PATHS
  StatusRoom,    \* room of statusbuf: NSTATBUF less one
  PathRoom,      \* changes that fit a path's read buffer
  Plans          \* bound: how often each client opens the node, the card's
                 \* state changes and a double tap is armed, one per behaviour

Clients == StatusClients \cup OtherClients

ASSUME ClientsAssumption ==
  /\ Nobody \notin Clients /\ StatusClients \cap OtherClients = {}
  /\ MaxCosPaths \in Nat \ {0} /\ StatusRoom \in Nat \ {0} /\ PathRoom \in Nat \ {0}
  /\ Plans \subseteq [Clients \cup {"change", "inhibit"} -> Nat]

VARIABLES
  pc,            \* where each client is
  usesIrq,       \* path->uses_irq
  irqMutex,      \* holder of irq_req_mutex
  nclients,
  useInterrupts, \* device->use_interrupts
  installed,     \* request_irq has given the driver the interrupt
  slot,          \* path->my_cos_index
  enable,        \* cos.enable: index of the next slot
  files,         \* cos.files
  inhibit,       \* cos.inhibit
  status,        \* STATUS: the number of the last change
  ringing,       \* the card is between storing STATUS and the doorbell
  rings,         \* the card's host interrupts are on
  doorbell,      \* BP_INT_STATUS_CHANGE is up
  isr, isrStatus,
  statusbuf,
  taskQueued, cosPc,
  buf,           \* changes in each path's read buffer
  reader,
  left,          \* how often each thing may still happen
  (* what happened *)
  failed,        \* the last request_irq failed
  shuffled,      \* a status client closed before one that opened later
  owed           \* the last change each client is still to be told, 0 if none

irq    == <<usesIrq, irqMutex, nclients, useInterrupts, installed, failed>>
slots  == <<slot, enable, files, shuffled>>
card   == <<status, ringing, rings, doorbell>>
host   == <<inhibit, isr, isrStatus, statusbuf, taskQueued, cosPc>>
paths  == <<buf, reader>>
vars   == <<pc, irq, slots, card, host, paths, left, owed>>

Slots  == 0 .. MaxCosPaths - 1
NoSlot == -1

Init ==
  /\ pc = [c \in Clients |-> "closed"]
  /\ usesIrq = [c \in Clients |-> FALSE]
  /\ irqMutex = Nobody /\ nclients = 0
  /\ useInterrupts = FALSE /\ installed = FALSE /\ failed = FALSE
  /\ slot = [c \in Clients |-> NoSlot]
  /\ enable = 0 /\ files = [i \in Slots |-> Nobody] /\ shuffled = FALSE
  /\ status = 0 /\ ringing = FALSE /\ rings = FALSE /\ doorbell = FALSE
  /\ inhibit = FALSE
  /\ isr = "idle" /\ isrStatus = 0
  /\ statusbuf = << >> /\ taskQueued = FALSE /\ cosPc = "idle"
  /\ buf = [c \in Clients |-> << >>]
  /\ reader = [c \in Clients |-> "out"]
  /\ left \in Plans
  /\ owed = [c \in Clients |-> 0]

-----------------------------------------------------------------------------
\* A process runs: neither the interrupt nor cos_task does.
Runs == isr = "idle" /\ cosPc = "idle"

Goto(c, where) == pc' = [pc EXCEPT ![c] = where]

\* The path of c is where cos_task finds it, through its own slot.
InSlot(c) == slot[c] \in Slots /\ files[slot[c]] = c

\* A client whose slot is taken or cleared is owed nothing any more.
StillOwed == owed' = [c \in Clients |-> IF InSlot(c)' THEN owed[c] ELSE 0]

\* Happens once more.
Spend(what) ==
  /\ left[what] > 0
  /\ left' = [left EXCEPT ![what] = @ - 1]

(* Open. *)
OpenOther(c) ==
  /\ Runs
  /\ c \in OtherClients
  /\ pc[c] = "closed"
  /\ Spend(c)
  /\ Goto(c, "opening")
  /\ UNCHANGED <<irq, slots, card, host, paths, owed>>

\* A path is made, the way a release leaves it here.
NewPath(c) ==
  /\ Spend(c)
  /\ UNCHANGED <<irq, shuffled, card, host, paths>>

\* Variant: the index is not advanced.
OpenStatusSameIndex(c) ==
  /\ Runs
  /\ c \in StatusClients /\ pc[c] = "closed"
  /\ enable < MaxCosPaths
  /\ slot' = [slot EXCEPT ![c] = enable]
  /\ files' = [files EXCEPT ![enable] = c]
  /\ Goto(c, "opening")
  /\ NewPath(c) /\ StillOwed /\ UNCHANGED enable

\* acq32_status_open: the next index, whoever has that slot.
OpenStatus(c) ==
  /\ Runs
  /\ c \in StatusClients /\ pc[c] = "closed"
  /\ enable < MaxCosPaths
  /\ slot' = [slot EXCEPT ![c] = enable]
  /\ files' = [files EXCEPT ![enable] = c]
  /\ enable' = enable + 1
  /\ Goto(c, "opening")
  /\ NewPath(c) /\ StillOwed

\* Variant: the refused open keeps its index.
OpenRefusedKeeps(c) ==
  /\ Runs
  /\ c \in StatusClients /\ pc[c] = "closed"
  /\ enable >= MaxCosPaths
  /\ enable' = enable + 1
  /\ NewPath(c) /\ UNCHANGED <<pc, slot, files, owed>>

\* EBUSY: the index is given back.
OpenRefused(c) ==
  /\ Runs
  /\ c \in StatusClients /\ pc[c] = "closed"
  /\ enable >= MaxCosPaths
  /\ NewPath(c) /\ UNCHANGED <<pc, slot, enable, files, owed>>

\* The first client requests the interrupt, which may be refused.
RequestIrq(c) ==
  /\ Runs
  /\ pc[c] = "opening"
  /\ irqMutex = Nobody
  /\ irqMutex' = c
  /\ nclients' = nclients + 1
  /\ \/ /\ nclients' = 1
        /\ usesIrq' = [usesIrq EXCEPT ![c] = TRUE]
        /\ \E granted \in BOOLEAN :
             /\ useInterrupts' = granted /\ installed' = granted
             /\ failed' = ~ granted
             /\ owed' = IF granted THEN owed ELSE [d \in Clients |-> 0]
     \/ /\ nclients' # 1
        /\ UNCHANGED <<usesIrq, useInterrupts, installed, failed, owed>>
  /\ Goto(c, "irq")
  /\ UNCHANGED <<slots, card, host, paths, left>>

\* OnOpen: the first client has the card's interrupts turned on.
OpenDone(c) ==
  /\ Runs
  /\ pc[c] = "irq"
  /\ rings' = (rings \/ (nclients = 1 /\ useInterrupts))
  /\ irqMutex' = Nobody
  /\ Goto(c, "open")
  /\ UNCHANGED <<usesIrq, nclients, useInterrupts, installed, failed, slots,
                 status, ringing, doorbell, host, paths, left, owed>>

(* Release. *)
CloseOther(c) ==
  /\ Runs
  /\ c \in OtherClients
  /\ pc[c] = "open"
  /\ Goto(c, "closing")
  /\ UNCHANGED <<irq, slots, card, host, paths, left, owed>>

\* A client that opened after c is still there.
LaterSlot(c) == \E d \in Clients \ {c} : slot[d] > slot[c]

Release(c) ==
  /\ Runs
  /\ c \in StatusClients
  /\ pc[c] = "open" /\ reader[c] = "out"
  /\ slot' = [slot EXCEPT ![c] = NoSlot]
  /\ enable' = enable - 1
  /\ shuffled' = (shuffled \/ LaterSlot(c))
  /\ Goto(c, "closing")
  /\ UNCHANGED <<irq, card, host, paths, left>>

\* Variant: the last slot is cleared.
CloseStatusLast(c) ==
  /\ Release(c)
  /\ files' = [files EXCEPT ![enable - 1] = Nobody]
  /\ StillOwed

\* acq32_status_release: the client's slot is cleared, whoever is in it.
CloseStatus(c) ==
  /\ Release(c)
  /\ files' = [files EXCEPT ![slot[c]] = Nobody]
  /\ StillOwed

\* The release ends, and the path is freed.
FreePath(c) ==
  /\ Goto(c, "closed")
  /\ buf' = [buf EXCEPT ![c] = << >>]
  /\ UNCHANGED <<nclients, useInterrupts, failed, slots, card, host, reader,
                 left, owed>>

\* A client that did not request the interrupt is not counted out.
FreeNothing(c) ==
  /\ Runs
  /\ pc[c] = "closing"
  /\ ~ usesIrq[c]
  /\ FreePath(c)
  /\ UNCHANGED <<usesIrq, irqMutex, installed>>

\* Variant: the client that requested the interrupt frees it.
FreeIrqRegardless(c) ==
  /\ Runs
  /\ pc[c] = "closing"
  /\ usesIrq[c]
  /\ irqMutex = Nobody /\ irqMutex' = c
  /\ nclients' = nclients - 1
  /\ rings' = (rings /\ ~ useInterrupts)
  /\ useInterrupts' = FALSE
  /\ Goto(c, IF useInterrupts THEN "freeing" ELSE "freed")
  /\ UNCHANGED <<usesIrq, installed, failed, slots, status, ringing, doorbell,
                 host, paths, left, owed>>

\* The last one has OnRelease turn the card's interrupts off, and sleeps for it.
FreeIrq(c) ==
  /\ Runs
  /\ pc[c] = "closing"
  /\ usesIrq[c]
  /\ irqMutex = Nobody /\ irqMutex' = c
  /\ nclients' = nclients - 1
  /\ \/ /\ nclients' = 0
        /\ rings' = (rings /\ ~ useInterrupts)
        /\ useInterrupts' = FALSE
        /\ Goto(c, IF useInterrupts THEN "freeing" ELSE "freed")
     \/ /\ nclients' # 0
        /\ Goto(c, "freed")
        /\ UNCHANGED <<rings, useInterrupts>>
  /\ UNCHANGED <<usesIrq, installed, failed, slots, status, ringing, doorbell,
                 host, paths, left, owed>>

FreeDone(c) ==
  /\ Runs
  /\ pc[c] \in {"freeing", "freed"}
  /\ installed' = (installed /\ pc[c] # "freeing")
  /\ irqMutex' = Nobody
  /\ usesIrq' = [usesIrq EXCEPT ![c] = FALSE]
  /\ FreePath(c)

(* Arming with a double tap inhibits the delivery for a while. *)
Inhibit ==
  /\ Runs
  /\ ~ inhibit
  /\ Spend("inhibit")
  /\ inhibit' = TRUE
  /\ UNCHANGED <<pc, irq, slots, card, isr, isrStatus, statusbuf, taskQueued,
                 cosPc, paths, owed>>

Allow ==
  /\ Runs
  /\ inhibit
  /\ inhibit' = FALSE
  /\ UNCHANGED <<pc, irq, slots, card, isr, isrStatus, statusbuf,
                 taskQueued, cosPc, paths, left, owed>>

-----------------------------------------------------------------------------
(* The card reports a change of state. *)
CardStore ==
  /\ ~ ringing
  /\ Spend("change")
  /\ status' = status + 1
  /\ ringing' = rings
  /\ UNCHANGED <<pc, irq, slots, rings, doorbell, host, paths, owed>>

\* Every client in a slot is owed the new state, unless the interrupt has read
\* the old one and is about to clear the doorbell.
CardRing ==
  /\ ringing
  /\ ringing' = FALSE
  /\ doorbell' = TRUE
  /\ owed' = [c \in Clients |->
                IF InSlot(c) /\ installed /\ (isr = "read" => isrStatus = status)
                THEN status ELSE owed[c]]
  /\ UNCHANGED <<pc, irq, slots, status, rings, host, paths, left>>

\* acq200_isr reads STATUS ...
IsrRead ==
  /\ installed /\ doorbell
  /\ isr = "idle"
  /\ isr' = "read"
  /\ isrStatus' = status
  /\ UNCHANGED <<pc, irq, slots, card, inhibit, statusbuf,
                 taskQueued, cosPc, paths, left, owed>>

\* ... then clears the doorbell, and acq32_doorbell_isr queues the state.
IsrEnd ==
  /\ isr = "read"
  /\ isr' = "idle" /\ isrStatus' = 0
  /\ doorbell' = FALSE
  /\ \/ /\ enable # 0 /\ ~ inhibit
        /\ taskQueued' = TRUE
        /\ \/ /\ Len(statusbuf) < StatusRoom
              /\ statusbuf' = Append(statusbuf, isrStatus)
              /\ UNCHANGED owed
           \/ /\ Len(statusbuf) = StatusRoom
              /\ owed' = [c \in Clients |-> 0]
              /\ UNCHANGED statusbuf
     \/ /\ enable = 0 \/ inhibit
        /\ owed' = [c \in Clients |-> 0]
        /\ UNCHANGED <<taskQueued, statusbuf>>
  /\ UNCHANGED <<pc, irq, slots, status, ringing, rings, inhibit,
                 cosPc, paths, left>>

CosOnly == UNCHANGED <<pc, irq, slots, card, inhibit, isr, isrStatus,
                       left>>

CosStart ==
  /\ Runs
  /\ taskQueued
  /\ taskQueued' = FALSE
  /\ cosPc' = "run"
  /\ CosOnly /\ UNCHANGED <<statusbuf, paths, owed>>

InFiles(c) == \E i \in Slots : files[i] = c

\* The first state of statusbuf goes to every path in a slot that has room.
Deliver ==
  /\ statusbuf' = Tail(statusbuf)
  /\ buf' = [c \in Clients |->
               IF InFiles(c) /\ Len(buf[c]) < PathRoom
               THEN Append(buf[c], Head(statusbuf)) ELSE buf[c]]
  /\ owed' = [c \in Clients |->
                IF InFiles(c) /\ Len(buf[c]) = PathRoom THEN 0 ELSE owed[c]]

\* Variant: one state is taken for each time the task runs.
CosGetOne ==
  /\ isr = "idle" /\ cosPc = "run"
  /\ statusbuf # << >>
  /\ Deliver
  /\ cosPc' = "wake"
  /\ CosOnly /\ UNCHANGED <<taskQueued, reader>>

CosGet ==
  /\ isr = "idle" /\ cosPc = "run"
  /\ statusbuf # << >>
  /\ Deliver
  /\ CosOnly /\ UNCHANGED <<taskQueued, cosPc, reader>>

CosEmpty ==
  /\ isr = "idle" /\ cosPc = "run"
  /\ statusbuf = << >>
  /\ cosPc' = "wake"
  /\ CosOnly /\ UNCHANGED <<statusbuf, taskQueued, paths, owed>>

CosWake ==
  /\ isr = "idle" /\ cosPc = "wake"
  /\ cosPc' = "idle"
  /\ reader' = [c \in Clients |->
                  IF InFiles(c) /\ reader[c] = "asleep" THEN "read" ELSE reader[c]]
  /\ CosOnly /\ UNCHANGED <<statusbuf, taskQueued, buf, owed>>

-----------------------------------------------------------------------------
(* Reading the status node. *)
ReadOnly == UNCHANGED <<pc, irq, slots, card, host, left>>

StartRead(c) ==
  /\ Runs
  /\ c \in StatusClients
  /\ pc[c] = "open" /\ reader[c] = "out"
  /\ reader' = [reader EXCEPT ![c] = "read"]
  /\ ReadOnly /\ UNCHANGED <<buf, owed>>

\* All there is goes to the user.
ReadReturns(c) ==
  /\ Runs
  /\ reader[c] = "read"
  /\ buf[c] # << >>
  /\ buf' = [buf EXCEPT ![c] = << >>]
  /\ reader' = [reader EXCEPT ![c] = "out"]
  /\ owed' = [owed EXCEPT ![c] = IF buf[c][Len(buf[c])] >= @ THEN 0 ELSE @]
  /\ ReadOnly

ReadSleeps(c) ==
  /\ Runs
  /\ reader[c] = "read"
  /\ buf[c] = << >>
  /\ reader' = [reader EXCEPT ![c] = "asleep"]
  /\ ReadOnly /\ UNCHANGED <<buf, owed>>

\* -EINTR; what the buffer holds is left for the next read.
Signal(c) ==
  /\ Runs
  /\ reader[c] = "asleep"
  /\ reader' = [reader EXCEPT ![c] = "out"]
  /\ ReadOnly /\ UNCHANGED <<buf, owed>>

-----------------------------------------------------------------------------
Card    == CardStore \/ CardRing
Isr     == IsrRead \/ IsrEnd
CosTask == CosStart \/ CosGet \/ CosEmpty \/ CosWake

Open(c)  == OpenOther(c) \/ OpenStatus(c) \/ OpenRefused(c)
Close(c) == CloseOther(c) \/ CloseStatus(c)

\* What a client does inside the driver once it is in an open or a release.
InCall(c) ==
  RequestIrq(c) \/ OpenDone(c) \/ FreeNothing(c) \/ FreeIrq(c) \/ FreeDone(c)

InRead(c) == ReadReturns(c) \/ ReadSleeps(c)

Next ==
  \/ Card \/ Isr \/ CosTask
  \/ Inhibit \/ Allow
  \/ \E c \in Clients :
       Open(c) \/ Close(c) \/ InCall(c) \/ StartRead(c) \/ InRead(c) \/ Signal(c)

Spec == Init /\ [][Next]_vars

\* The card rings, interrupts are taken and return, the kernel thread is
\* scheduled, and so is a process that is in a read, however often interrupts
\* run before them.
Fairness ==
  /\ WF_vars(CardRing) /\ WF_vars(Isr) /\ SF_vars(CosTask)
  /\ \A c \in StatusClients : SF_vars(InRead(c))

FairSpec == Spec /\ Fairness

-----------------------------------------------------------------------------
Pcs == {"closed", "opening", "irq", "open", "closing", "freeing", "freed"}

\* Counts and indices are in their ranges: the index of the next slot never
\* passes the last one, however many opens are refused.
TypeOK ==
  /\ pc \in [Clients -> Pcs]
  /\ usesIrq \in [Clients -> BOOLEAN]
  /\ irqMutex \in Clients \cup {Nobody} /\ nclients \in Nat
  /\ useInterrupts \in BOOLEAN /\ installed \in BOOLEAN /\ failed \in BOOLEAN
  /\ slot \in [Clients -> Slots \cup {NoSlot}]
  /\ enable \in 0 .. MaxCosPaths
  /\ files \in [Slots -> Clients \cup {Nobody}] /\ shuffled \in BOOLEAN
  /\ status \in Nat /\ ringing \in BOOLEAN /\ rings \in BOOLEAN
  /\ doorbell \in BOOLEAN /\ inhibit \in BOOLEAN
  /\ isr \in {"idle", "read"} /\ isrStatus \in Nat
  /\ statusbuf \in Seq(Nat) /\ Len(statusbuf) <= StatusRoom
  /\ taskQueued \in BOOLEAN /\ cosPc \in {"idle", "run", "wake"}
  /\ buf \in [Clients -> Seq(Nat)] /\ \A c \in Clients : Len(buf[c]) <= PathRoom
  /\ reader \in [Clients -> {"out", "read", "asleep"}]
  /\ owed \in [Clients -> Nat]

\* A client inside a release that has counted it out, or not yet counted in.
Uncounted == {"closed", "opening", "freeing", "freed"}

\* The interrupt is there for as long as anyone needs it: whatever the order of
\* opens and closes, an open client has the interrupt unless the request for it
\* was refused, and it is not requested twice nor freed under a client, although
\* a client that did not request it is never counted out.
IrqHeld ==
  /\ \A c \in Clients : pc[c] \notin Uncounted /\ ~ (pc[c] = "closing" /\ ~ usesIrq[c])
                          => nclients > 0 /\ (installed \/ failed)
  /\ nclients = 0 /\ irqMutex = Nobody => ~ installed
  /\ useInterrupts => installed

\* Status clients that are open or opening.
Listening == {c \in StatusClients : pc[c] \in {"opening", "irq", "open"}}

\* A slot never holds the file of a client that has closed, which cos_task
\* would write to after it is freed, and enable counts the clients, in whatever
\* order they come and go.
SlotsSound ==
  /\ \A i \in Slots : files[i] # Nobody => files[i] \in Listening /\ slot[files[i]] = i
  /\ \A c \in Clients : slot[c] # NoSlot <=> c \in Listening
  /\ enable = Cardinality(Listening)

\* Every status client keeps its slot as long as clients close in the reverse
\* of the order they opened in.  (Otherwise the next to open takes the slot of
\* one that is there, and the one that closes first clears it for both.)
OwnSlot == shuffled \/ \A c \in Listening : InSlot(c)

\* A client that sleeps in a read while it is owed a change of state is woken
\* and gets it.  A change is owed to those in a slot when the doorbell rings,
\* unless the interrupt has read the state before and clears the doorbell
\* after, and no longer when the delivery was inhibited, statusbuf or the
\* client's own buffer was full, its slot was taken or cleared, or the
\* interrupt is not to be had any more.
Told ==
  \A c \in StatusClients :
    reader[c] = "asleep" /\ owed[c] > 0 ~> reader[c] # "asleep" \/ owed[c] = 0
=============================================================================
