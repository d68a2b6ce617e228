------------------------------- MODULE Bridge -------------------------------
(***************************************************************************)
(* The acq200 bridge: files of the card, read and written by host          *)
(* processes through shared memory.  A read or write takes a buffer from a *)
(* pool (acq200_bigbuf_alloc.c), files a return handler under the id the   *)
(* message is expected to get, and sends a message (acq200.c).  The card's *)
(* mailbox thread serves the messages one by one from a single FILE        *)
(* (processMessage.c, PIO) and posts each back; the host's bottom half     *)
(* finds the handler by id, which frees the buffer and wakes the caller.   *)
(*                                                                         *)
(* The host is a uniprocessor whose kernel is not preempted: one process   *)
(* keeps the processor until it sleeps, while interrupts and the card go   *)
(* on.  Text messages of other programs share the inbound queue.           *)
(***************************************************************************)
EXTENDS Naturals, Sequences, FiniteSets, SequencesExt

CONSTANTS
  Clients,        \* host processes, one open file each
  Files,          \* files of the card
  NoClient,       \* the sender of a text message
  NoFile,         \* what a closed descriptor refers to
  NData,          \* NDATAMAPPING: buffers in the pool
  Frames,         \* inbound I2O frames of the card
  IdSpan,         \* message ids wrap: 128
  MaxOps,         \* bound: bridge operations and text messages
  MaxEmptyWrites  \* bound: writes of no bytes

Bufs  == 0 .. NData - 1
NoBuf == NData
Ops   == 1 .. MaxOps
Kinds == {"read", "write", "empty", "release"}

ASSUME BridgeAssumption ==
  /\ NData \in Nat /\ NData > 0
  /\ Frames \in Nat
  /\ IdSpan \in Nat /\ IdSpan > 0
  /\ MaxOps \in Nat /\ MaxEmptyWrites \in Nat
  /\ NoFile \notin Files /\ NoClient \notin Clients

VARIABLES
  (* host processes *)
  cl,          \* each process: pc, the locals of its call and, for the
               \* properties, how its transfer began and what it moved
  (* driver *)
  reserved,    \* the pool's reserved[]
  ibuf,        \* the pool's round-robin index
  clidata,     \* each pool handler's clidata: Kbuf, or units transferred
  rchs,        \* the list of return handlers, oldest first
  lastId,      \* i2o_last_id_out
  (* shared memory and queues *)
  content,     \* each buffer: the operation that filled it, and the block
  inbound,     \* messages to the card
  outbound,    \* messages it posted back
  (* card *)
  file,        \* doFileIO's static FILE
  disk,        \* the blocks of each file
  (* what happened *)
  nops,        \* operations begun, by number
  emptied,     \* writes of no bytes that returned
  lost,        \* a bridge message found no inbound frame
  reused,      \* a buffer was handed out before its last reader copied it
  active,      \* clients whose transfer the card has begun and not ended
  tangled      \* clients whose transfer overlapped another

driver == <<reserved, ibuf, clidata, rchs, lastId>>
card   == <<file, disk>>
ghosts == <<nops, emptied, lost, reused, active, tangled>>
vars   == <<cl, driver, content, inbound, outbound, card, ghosts>>

Kbuf   == 2          \* clidata is still the buffer's address, not a count
Blank  == [op |-> 0, data |-> 0]
Old    == <<MaxOps + 1, MaxOps + 2>>     \* what a file holds at first
Closed == [chan |-> NoFile, write |-> FALSE, at |-> 0]
Fresh  == [pc |-> "closed", chan |-> NoFile, pos |-> 0, dir |-> "none",
           kind |-> "none", op |-> 0, buf |-> NoBuf, stop |-> 0, count |-> 0,
           awake |-> FALSE, eofdone |-> FALSE,
           begun |-> "none", wrote |-> << >>, got |-> << >>]

Init ==
  /\ cl = [c \in Clients |-> Fresh]
  /\ reserved = [b \in Bufs |-> FALSE]
  /\ ibuf = NData - 1
  /\ clidata = [b \in Bufs |-> Kbuf]
  /\ rchs = << >>
  /\ lastId = 0
  /\ content = [b \in Bufs |-> Blank]
  /\ inbound = << >>
  /\ outbound = << >>
  /\ file = Closed
  /\ disk = [f \in Files |-> Old]
  /\ nops = 0
  /\ emptied = 0
  /\ lost = FALSE
  /\ reused = FALSE
  /\ active = {}
  /\ tangled = {}

-----------------------------------------------------------------------------
\* Back to the caller.
Return(c) ==
  [cl[c] EXCEPT !.pc = "user", !.kind = "none", !.op = 0, !.buf = NoBuf,
                !.stop = 0, !.count = 0]

(* The pool. *)

\* Nobody else is between two points where it may sleep.
Alone(c) == \A d \in Clients \ {c} : cl[d].pc \notin {"full", "built"}

Inc(b) == IF b = NData - 1 THEN 0 ELSE b + 1

\* The buffer's last user has its answer but has not copied it yet.
AwaitsCopy(b) ==
  \E c \in Clients :
    /\ cl[c].buf = b
    /\ \/ cl[c].pc = "copy"
       \/ cl[c].pc = "wait" /\ \A i \in 1 .. Len(rchs) : rchs[i].op # cl[c].op

\* Variant: the buffer is not marked.
TakeUnmarked(c, b) ==
  /\ UNCHANGED reserved
  /\ ibuf' = b
  /\ reused' = (reused \/ AwaitsCopy(b))
  /\ cl' = [cl EXCEPT ![c].pc = "fill", ![c].buf = b]

Take(c, b) ==
  /\ reserved' = [reserved EXCEPT ![b] = TRUE]
  /\ ibuf' = b
  /\ reused' = (reused \/ AwaitsCopy(b))
  /\ cl' = [cl EXCEPT ![c].pc = "fill", ![c].buf = b]

\* First try of acq200_bb_pool_alloc: only the next buffer in turn is looked
\* at before going to sleep.
Alloc(c) ==
  /\ cl[c].pc = "alloc" /\ Alone(c)
  /\ LET b == Inc(ibuf) IN
       IF ~ reserved[b]
         THEN Take(c, b)
         ELSE /\ ibuf' = b
              /\ cl' = [cl EXCEPT ![c].pc = "full", ![c].stop = b]
              /\ UNCHANGED <<reserved, reused>>
  /\ UNCHANGED <<clidata, rchs, lastId, content, inbound, outbound, card,
                 nops, emptied, lost, active, tangled>>

\* On the way into interruptible_sleep_on_timeout: a free now wakes nobody.
Nap(c) ==
  /\ cl[c].pc = "full"
  /\ cl' = [cl EXCEPT ![c].pc = "nap"]
  /\ UNCHANGED <<driver, content, inbound, outbound, card, ghosts>>

\* Woken: on round the pool, as far as the buffer it went to sleep on.
Rescan(c) ==
  /\ cl[c].pc = "rescan" /\ Alone(c)
  /\ LET far  == (cl[c].stop + NData - ibuf - 1) % NData
         At(k) == (ibuf + 1 + k) % NData
         free == {k \in 0 .. far : ~ reserved[At(k)]} IN
       IF free # {}
         THEN Take(c, At(Min(free)))
         ELSE /\ ibuf' = cl[c].stop
              /\ cl' = [cl EXCEPT ![c].pc = "full"]
              /\ UNCHANGED <<reserved, reused>>
  /\ UNCHANGED <<clidata, rchs, lastId, content, inbound, outbound, card,
                 nops, emptied, lost, active, tangled>>

\* The sleep ran out: the call returns -ETIMEDOUT.
NapTimeout(c) ==
  /\ cl[c].pc = "nap" /\ Alone(c)
  /\ cl' = [cl EXCEPT ![c] = Return(c)]
  /\ UNCHANGED <<driver, content, inbound, outbound, card, ghosts>>

\* acq200_bb_pool_free wakes whoever is asleep on the pool.
Woken(state) ==
  [c \in Clients |->
     IF state[c].pc = "nap" THEN [state[c] EXCEPT !.pc = "rescan"]
                            ELSE state[c]]

-----------------------------------------------------------------------------
(* File operations: acq200_bridge_open, _read, _write and _release. *)

Open(c, f) ==
  /\ cl[c].pc = "closed" /\ Alone(c)
  /\ cl' = [cl EXCEPT ![c] = [Fresh EXCEPT !.pc = "user", !.chan = f]]
  /\ tangled' = tangled \ {c}
  /\ UNCHANGED <<driver, content, inbound, outbound, card, nops, emptied,
                 lost, reused, active>>

\* A release without a transfer sends nothing and closes at once.
Close(c) ==
  /\ cl[c].pc = "user" /\ Alone(c)
  /\ cl[c].dir = "none"
  /\ cl' = [cl EXCEPT ![c] = Fresh]
  /\ UNCHANGED <<driver, content, inbound, outbound, card, ghosts>>

Call(c, kind) ==
  /\ cl[c].pc = "user" /\ Alone(c)
  /\ nops < MaxOps
  /\ kind = "empty" =>
       emptied + Cardinality({d \in Clients : cl[d].kind = "empty"})
         < MaxEmptyWrites
  /\ kind = "release" => cl[c].dir # "none"
  /\ nops' = nops + 1
  /\ cl' = [cl EXCEPT ![c].kind = kind,
                      ![c].op = nops',
                      ![c].pc = IF kind = "release" THEN "fill" ELSE "alloc"]
  /\ UNCHANGED <<driver, content, inbound, outbound, card, emptied, lost,
                 reused, active, tangled>>

\* A write of no bytes returns -ENOMEM with its buffer.
FillNothing(c) ==
  /\ cl[c].pc = "fill" /\ Alone(c)
  /\ cl[c].kind = "empty"
  /\ cl' = [cl EXCEPT ![c] = Return(c)]
  /\ emptied' = emptied + 1
  /\ UNCHANGED <<driver, content, inbound, outbound, card, nops, lost, reused,
                 active, tangled>>

\* Variant: the handler is filed under the id of the last message sent.
BuildRchLastId(c) ==
  /\ cl[c].pc = "fill" /\ Alone(c)
  /\ cl[c].kind # "empty"
  /\ content' = IF cl[c].kind = "write"
                  THEN [content EXCEPT ![cl[c].buf] =
                          [op |-> cl[c].op, data |-> cl[c].op]]
                  ELSE content
  /\ rchs' = Append(rchs, [id     |-> lastId,
                           op     |-> cl[c].op,
                           kind   |-> cl[c].kind,
                           client |-> c,
                           buf    |-> cl[c].buf])
  /\ clidata' = [b \in Bufs |-> IF b = cl[c].buf THEN Kbuf ELSE clidata[b]]
  /\ cl' = [cl EXCEPT ![c].pc = "built",
                      ![c].dir = CASE cl[c].kind = "write" -> "out"
                                   [] cl[c].kind = "read"  -> "in"
                                   [] OTHER                -> @]
  /\ UNCHANGED <<reserved, ibuf, lastId, inbound, outbound, card, ghosts>>

\* A write copies its block in, and may sleep before it has; then buildRch
\* predicts the id of the message and rchAppend files the handler.
BuildRch(c) ==
  /\ cl[c].pc = "fill" /\ Alone(c)
  /\ cl[c].kind # "empty"
  /\ content' = IF cl[c].kind = "write"
                  THEN [content EXCEPT ![cl[c].buf] =
                          [op |-> cl[c].op, data |-> cl[c].op]]
                  ELSE content
  /\ rchs' = Append(rchs, [id     |-> (lastId + 1) % IdSpan,
                           op     |-> cl[c].op,
                           kind   |-> cl[c].kind,
                           client |-> c,
                           buf    |-> cl[c].buf])
  /\ clidata' = [b \in Bufs |-> IF b = cl[c].buf THEN Kbuf ELSE clidata[b]]
  /\ cl' = [cl EXCEPT ![c].pc = "built",
                      ![c].dir = CASE cl[c].kind = "write" -> "out"
                                   [] cl[c].kind = "read"  -> "in"
                                   [] OTHER                -> @]
  /\ UNCHANGED <<reserved, ibuf, lastId, inbound, outbound, card, ghosts>>

\* Variant: the frame is not looked at.
PostAnyway(m) ==
  /\ lastId' = (lastId + 1) % IdSpan
  /\ inbound' = Append(inbound, [m EXCEPT !.id = lastId'])
  /\ UNCHANGED lost

\* acq32_sendI2O_kbuf: the id is bumped only when there is a frame to send in.
Post(m) ==
  IF Len(inbound) < Frames
    THEN /\ lastId' = (lastId + 1) % IdSpan
         /\ inbound' = Append(inbound, [m EXCEPT !.id = lastId'])
         /\ UNCHANGED lost
    ELSE /\ lost' = (lost \/ m.client # NoClient)
         /\ UNCHANGED <<lastId, inbound>>

\* The caller ignores whether the message went.  A write is done, a read or a
\* release goes on to wait.
Send(c) ==
  /\ cl[c].pc = "built"
  /\ LET eof == cl[c].kind = "release" IN
       Post([id     |-> 0,
             op     |-> cl[c].op,
             client |-> c,
             chan   |-> cl[c].chan,
             write  |-> cl[c].dir = "out",
             first  |-> cl[c].pos = 0 /\ ~ eof,
             eof    |-> eof,
             buf    |-> cl[c].buf])
  /\ LET begun == IF cl[c].begun = "none" THEN cl[c].dir ELSE cl[c].begun IN
       cl' = IF cl[c].kind = "write"
               THEN [cl EXCEPT ![c] = [Return(c) EXCEPT
                                         !.pos = @ + 1,
                                         !.begun = begun,
                                         !.wrote = Append(@, cl[c].op)]]
               ELSE [cl EXCEPT ![c].pc = "wait", ![c].awake = TRUE,
                               ![c].begun = begun]
  /\ UNCHANGED <<reserved, ibuf, clidata, rchs, content, outbound, card, nops,
                 emptied, reused, active, tangled>>

\* Variant: nobody waits for the reply.
AnsweredAtOnce(c) == TRUE

\* The condition of wait_event_interruptible.
Answered(c) == IF cl[c].kind = "release" THEN cl[c].eofdone
                                      ELSE clidata[cl[c].buf] # Kbuf

Sleep(c) ==
  /\ cl[c].pc = "wait" /\ Alone(c)
  /\ cl[c].awake /\ ~ Answered(c)
  /\ cl' = [cl EXCEPT ![c].awake = FALSE]
  /\ UNCHANGED <<driver, content, inbound, outbound, card, ghosts>>

\* The count is taken from the handler, the data is copied out later.
ReadAnswered(c) ==
  /\ cl[c].pc = "wait" /\ Alone(c)
  /\ cl[c].awake /\ Answered(c)
  /\ cl[c].kind = "read"
  /\ cl' = [cl EXCEPT ![c].pc = "copy", ![c].count = clidata[cl[c].buf]]
  /\ UNCHANGED <<driver, content, inbound, outbound, card, ghosts>>

Copy(c) ==
  /\ cl[c].pc = "copy" /\ Alone(c)
  /\ cl' = [cl EXCEPT ![c] = [Return(c) EXCEPT
              !.pos = @ + cl[c].count,
              !.got = IF cl[c].count = 0 THEN @ ELSE
                        Append(@, [wanted |-> cl[c].op,
                                   block  |-> content[cl[c].buf]])]]
  /\ UNCHANGED <<driver, content, inbound, outbound, card, ghosts>>

ReleaseAnswered(c) ==
  /\ cl[c].pc = "wait" /\ Alone(c)
  /\ cl[c].awake /\ Answered(c)
  /\ cl[c].kind = "release"
  /\ cl' = [cl EXCEPT ![c] = Fresh]
  /\ UNCHANGED <<driver, content, inbound, outbound, card, ghosts>>

Text == [id |-> 0, op |-> 0, client |-> NoClient, chan |-> NoFile,
         write |-> TRUE, first |-> FALSE, eof |-> FALSE, buf |-> NoBuf]

\* acq32_sendI2O of another program: a message that gets no reply.
SendText(c) ==
  /\ cl[c].pc \in {"closed", "user"} /\ Alone(c)
  /\ nops < MaxOps
  /\ nops' = nops + 1
  /\ Post(Text)
  /\ UNCHANGED <<cl, reserved, ibuf, clidata, rchs, content, outbound, card,
                 emptied, reused, active, tangled>>

-----------------------------------------------------------------------------
(* The card: mboxProcessI2OIncoming, then doFileIO and the reply. *)

ProcessText ==
  /\ inbound # << >>
  /\ Head(inbound).client = NoClient
  /\ inbound' = Tail(inbound)
  /\ UNCHANGED <<cl, driver, content, outbound, card, ghosts>>

\* Variant: every message opens its file anew.
Reopens(m) == FALSE

\* The open file serves the message, unless the message starts a transfer.
StaysOpen(m) == file # Closed /\ ~ m.first

Served(m) == IF StaysOpen(m)
               THEN file
               ELSE [chan |-> m.chan, write |-> m.write, at |-> 0]

\* fopen for writing empties the file.
Opened(m) == IF ~ StaysOpen(m) /\ m.write
               THEN [disk EXCEPT ![m.chan] = << >>]
               ELSE disk

\* Read or write one block, in the mode the file was opened in, or none.
Moves(m) ==
  LET s == Served(m) IN
    /\ ~ m.eof
    /\ m.write = s.write
    /\ ~ m.write => s.at < Len(Opened(m)[s.chan])

ProcessFile ==
  /\ inbound # << >>
  /\ LET m == Head(inbound)
         s == Served(m)
         c == m.client
         n == IF Moves(m) THEN 1 ELSE 0
         busy == active \cup {c} IN
       /\ m.client # NoClient
       /\ disk' = IF m.write /\ n = 1
                    THEN [Opened(m) EXCEPT ![s.chan] =
                            Append(@, content[m.buf].data)]
                    ELSE Opened(m)
       /\ content' = IF ~ m.write /\ n = 1
                       THEN [content EXCEPT ![m.buf] =
                               [op   |-> m.op,
                                data |-> disk[s.chan][s.at + 1]]]
                       ELSE content
       /\ file' = IF m.eof THEN Closed
                  ELSE [s EXCEPT !.at = @ + (IF m.write THEN 0 ELSE n)]
       /\ outbound' = Append(outbound, [id |-> m.id, op |-> m.op, count |-> n])
       /\ active' = IF m.eof THEN active \ {c} ELSE busy
       /\ tangled' = IF Cardinality(busy) > 1 THEN tangled \cup busy
                                              ELSE tangled
  /\ inbound' = Tail(inbound)
  /\ UNCHANGED <<cl, driver, nops, emptied, lost, reused>>

-----------------------------------------------------------------------------
(* The bottom half: acq32_processCommandMessageReturn and the handlers.    *)
(* Its last branch, a reply without a handler, is not modelled:            *)
(* RepliesMatch says that it is not reached.                               *)

Matches(id) == {i \in 1 .. Len(rchs) : rchs[i].id = id}

\* Variant: the wake-up is forgotten.
WokeNobody(state, c) == state

Woke(state, c) == [state EXCEPT ![c].awake = TRUE]

\* i2o_recycleMessage, i2o_handleReadMessageFile or i2o_handleLastMessage, for
\* the first handler filed under the id.
Handle ==
  /\ outbound # << >>
  /\ LET m == Head(outbound) IN
       /\ Matches(m.id) # {}
       /\ LET i == Min(Matches(m.id))
              h == rchs[i] IN
            /\ rchs' = RemoveAt(rchs, i)
            /\ IF h.kind = "release"
                 THEN /\ cl' = [cl EXCEPT ![h.client].eofdone = TRUE,
                                          ![h.client].awake = TRUE]
                      /\ UNCHANGED <<reserved, clidata>>
                 ELSE /\ reserved' = [reserved EXCEPT ![h.buf] = FALSE]
                      /\ clidata' = IF h.kind = "read"
                                      THEN [clidata EXCEPT ![h.buf] = m.count]
                                      ELSE clidata
                      /\ cl' = IF h.kind = "read"
                                 THEN Woke(Woken(cl), h.client)
                                 ELSE Woken(cl)
  /\ outbound' = Tail(outbound)
  /\ UNCHANGED <<ibuf, lastId, content, inbound, card, ghosts>>

-----------------------------------------------------------------------------
Client(c) ==
  \/ Alloc(c) \/ Nap(c) \/ Rescan(c) \/ NapTimeout(c)
  \/ FillNothing(c) \/ BuildRch(c) \/ Send(c)
  \/ Sleep(c) \/ ReadAnswered(c) \/ Copy(c) \/ ReleaseAnswered(c)

Card == ProcessText \/ ProcessFile

Next ==
  \/ \E c \in Clients, f \in Files : Open(c, f)
  \/ \E c \in Clients : Close(c) \/ SendText(c)
  \/ \E c \in Clients, k \in Kinds : Call(c, k)
  \/ \E c \in Clients : Client(c)
  \/ Card
  \/ Handle

Spec == Init /\ [][Next]_vars

\* A process inside the driver is scheduled, the card's mailbox thread serves
\* its queue, and bottom halves run.
Fairness ==
  /\ \A c \in Clients : WF_vars(Client(c))
  /\ WF_vars(Card)
  /\ WF_vars(Handle)

FairSpec == Spec /\ Fairness

-----------------------------------------------------------------------------
ClientPcs == {"closed", "user", "alloc", "full", "nap", "rescan", "fill",
              "built", "wait", "copy"}
Ids       == 0 .. IdSpan - 1
Blocks    == 0 .. MaxOps + 2
Handlers  == [id : Ids, op : Ops, kind : Kinds, client : Clients,
              buf : Bufs \cup {NoBuf}]
Messages  == [id : Ids, op : 0 .. MaxOps, client : Clients \cup {NoClient},
              chan : Files \cup {NoFile}, write : BOOLEAN, first : BOOLEAN,
              eof : BOOLEAN, buf : Bufs \cup {NoBuf}]
Replies   == [id : Ids, op : Ops, count : {0, 1}]

\* Every process, the pool, the handler list, the queues and the card's file
\* keep their kinds; a reply's count is that of one buffer.
TypeOK ==
  /\ \A c \in Clients :
       /\ cl[c].pc \in ClientPcs
       /\ cl[c].chan \in Files \cup {NoFile}
       /\ cl[c].buf \in Bufs \cup {NoBuf} /\ cl[c].stop \in Bufs
       /\ cl[c].op \in 0 .. nops /\ cl[c].count \in {0, 1}
  /\ reserved \in [Bufs -> BOOLEAN] /\ ibuf \in Bufs
  /\ clidata \in [Bufs -> {0, 1, Kbuf}]
  /\ rchs \in Seq(Handlers)
  /\ lastId \in Ids
  /\ content \in [Bufs -> [op : 0 .. MaxOps, data : Blocks]]
  /\ inbound \in Seq(Messages) /\ Len(inbound) <= Frames
  /\ outbound \in Seq(Replies)
  /\ file \in [chan : Files \cup {NoFile}, write : BOOLEAN, at : Nat]
  /\ disk \in [Files -> Seq(Blocks)]
  /\ nops \in 0 .. MaxOps /\ emptied \in 0 .. MaxEmptyWrites

Tag(m)   == <<m.id, m.op>>
ToBeSent == {c \in Clients : cl[c].pc = "built"}

\* Where the card's queue has messages with handlers, and the place of each one
\* among the messages in flight: those posted back come first.
Awaited  == {i \in 1 .. Len(inbound) : inbound[i].client # NoClient}
Place(i) == Len(outbound) + Cardinality({j \in Awaited : j <= i})

\* While every message found a frame, the handlers on the list are those of
\* the messages in flight, in their order and under their ids, so that every
\* reply meets its own handler even when ids wrap; lost messages or not, there
\* is a handler for every reply.
RepliesMatch ==
  /\ ~ lost =>
       /\ Len(rchs) = Len(outbound) + Cardinality(Awaited) + Cardinality(ToBeSent)
       /\ \A i \in 1 .. Len(outbound) : Tag(rchs[i]) = Tag(outbound[i])
       /\ \A i \in Awaited : Tag(rchs[Place(i)]) = Tag(inbound[i])
       /\ \A c \in ToBeSent :
            Tag(rchs[Len(rchs)]) = <<(lastId + 1) % IdSpan, cl[c].op>>
  /\ outbound # << >> => Matches(Head(outbound).id) # {}

Filling   == {c \in Clients : cl[c].pc = "fill" /\ cl[c].buf # NoBuf}
Listed(b) == {i \in 1 .. Len(rchs) : rchs[i].buf = b}
Holders(b) == Cardinality(Listed(b)) + Cardinality({c \in Filling : cl[c].buf = b})
Orphans   == {b \in Bufs : reserved[b] /\ Holders(b) = 0}

\* A buffer has one holder at a time, a process filling it or a handler, and
\* is reserved while it has; only writes of no bytes leave one behind.
PoolSound ==
  /\ \A b \in Bufs : Holders(b) <= 1 /\ (Holders(b) = 1 => reserved[b])
  /\ Cardinality(Orphans) <= emptied

\* The promise of the WORKTODO in the write path: every buffer is recycled.
EveryBufferRecycled == Orphans = {}

\* What a read returns is what the card put in the buffer for that read.
ReadIsMine ==
  \A c \in Clients : \A i \in 1 .. Len(cl[c].got) :
    cl[c].got[i].block.op = cl[c].got[i].wanted

\* At the card's last message of a transfer that began with a write and that no
\* other transfer overlapped, the file holds what was written, in order.
FileHoldsWrites ==
  [][\A c \in Clients :
       /\ c \in active /\ c \notin active' /\ c \notin tangled'
       /\ ~ lost /\ cl[c].begun = "out"
       => disk'[cl[c].chan] = cl[c].wrote]_vars

\* A transfer that began with a read, that no other overlapped and whose
\* buffers were not handed out early, reads the file from its beginning.
ReadsTheFile ==
  [][\A c \in Clients :
       /\ cl'[c].got # cl[c].got /\ cl[c].pc = "copy"
       /\ ~ lost /\ ~ reused /\ c \notin tangled /\ cl[c].begun = "in"
       => IsPrefix([i \in 1 .. Len(cl'[c].got) |-> cl'[c].got[i].block.data],
                   disk[cl[c].chan])]_vars

\* Every call returns, unless a message was dropped for want of a frame or a
\* buffer was handed out before its reader was done with it.
EveryCallReturns ==
  \A c \in Clients :
    cl[c].pc \notin {"closed", "user"} ~>
      cl[c].pc \in {"closed", "user"} \/ lost \/ reused
=============================================================================
