----------------------------- MODULE HostMessages -----------------------------
(***************************************************************************)
(* How I2O messages of a card travel through the host driver.  The         *)
(* interrupt moves one message frame at a time from the card's outbound    *)
(* FIFO to streambuf; the bottom half takes frames from there and passes   *)
(* stream data on to downstreambuf for a reading process, command replies  *)
(* to the handler that waits for them, and any other reply to the process  *)
(* that sleeps for it (aux_mfa).  Every frame must go back to the card.    *)
(*                                                                         *)
(* The two rings are StreamQueues, which is what StreamBuf is proved to    *)
(* implement.  The host is a uniprocessor: the bottom half interrupts the  *)
(* processes and runs to its end before they go on, the interrupt          *)
(* interrupts both, and one process runs until it sleeps.  A frame is      *)
(* identified with the message in it; the card's free frames are counted.  *)
(***************************************************************************)
EXTENDS Naturals, Sequences, FiniteSets

CONSTANTS
  Askers,      \* processes that query the card or have it dump its memory
  Callers,     \* processes that send a command message with a handler
  NoProcess,   \* nobody holds mbox_mutex
  NoFrame,     \* no message: aux_mfa = 0, STREAM_MFA_INVALID
  Frames,      \* outbound message frames of the card
  UpRoom,      \* room of streambuf: one less than its slots
  DownRoom,    \* room of downstreambuf
  MinRead,     \* a read returns no sooner than it has this much (4096 bytes)
  MaxRoom,     \* largest buffer a reader passes, in messages
  MaxNaps,     \* naps of a reader before it has waited MAXTIME_NO_DATA
  Plans        \* bound: how often each thing may happen, one plan per behaviour

Message(kind, n) == [kind |-> kind, n |-> n]
Streams  == [kind : {"stream", "garbled"}, n : Nat]
Replies  == [kind : {"aux"}, n : Nat]
Returns  == [kind : {"command"}, n : Callers]
Messages == Streams \cup Replies \cup Returns

ASSUME HostMessagesAssumption ==
  /\ Frames \in Nat /\ UpRoom \in Nat \ {0} /\ DownRoom \in Nat \ {0}
  /\ MinRead \in Nat \ {0} /\ MaxRoom \in Nat /\ MaxNaps \in Nat
  /\ NoProcess \notin Askers /\ NoFrame \notin Messages
  /\ Plans \subseteq [{"stream", "garbled", "ask", "dump", "command", "switch",
                     "timeout", "signal", "read"} -> Nat]

VARIABLES
  (* card *)
  cardStreams, \* the card is streaming
  todo,        \* replies it owes, in order
  nposted,     \* stream messages posted
  free,        \* frames it may post in
  outbound,    \* the outbound FIFO
  (* rings: the variables of two StreamQueues *)
  upq, upkept, upgot, upput,
  downq, downkept, downgot, downput,
  (* bottom half *)
  bhqueued,    \* isr_bh is on tq_immediate
  bhpc,
  (* streaming control *)
  streaming, streamingEnabled, ctl,
  (* auxiliary replies *)
  mutex, auxMfa, auxWaiting,
  asker,       \* each asker: pc, the number of its query, the mfa it prints
  nasked,
  (* commands with a handler *)
  rchs,        \* callers whose handler is on the list
  (* the reading process *)
  reader,      \* pc, ibuf, room, naps
  (* bounds *)
  left,        \* how often each thing may still happen
  (* what happened *)
  delivered,   \* stream messages copied to the user, in order
  stranded,    \* frames the bottom half neither queued nor returned
  bogus,       \* "frames" returned that the host did not hold
  refused,     \* callers whose reply the interrupt discarded
  cutShort,    \* the last bottom half returned with frames left
  upset,       \* what disturbed the askers so far
  wrong        \* a query printed another's reply

up      == <<upq, upkept, upgot, upput>>
down    == <<downq, downkept, downgot, downput>>
card    == <<cardStreams, todo, nposted>>
control == <<streaming, streamingEnabled, ctl>>
aux     == <<mutex, auxMfa, auxWaiting, asker, nasked>>
reading == <<reader, delivered>>
ghosts  == <<stranded, bogus, refused, cutShort, upset, wrong>>
vars    == <<card, free, outbound, up, down, bhqueued, bhpc, control, aux,
             rchs, reading, left, ghosts>>

Streambuf == INSTANCE StreamQueue WITH
  Data <- Messages, Invalid <- NoFrame, Capacity <- UpRoom,
  q <- upq, kept <- upkept, got <- upgot, put <- upput

Downstreambuf == INSTANCE StreamQueue WITH
  Data <- Streams, Invalid <- NoFrame, Capacity <- DownRoom,
  q <- downq, kept <- downkept, got <- downgot, put <- downput

Init ==
  /\ cardStreams = FALSE /\ todo = << >> /\ nposted = 0
  /\ free = Frames
  /\ outbound = << >>
  /\ Streambuf!Init /\ Downstreambuf!Init
  /\ bhqueued = FALSE /\ bhpc = "idle"
  /\ streaming = FALSE /\ streamingEnabled = FALSE /\ ctl = "idle"
  /\ mutex = NoProcess /\ auxMfa = NoFrame /\ auxWaiting = FALSE
  /\ asker = [a \in Askers |-> [pc |-> "idle", n |-> 0, mfa |-> NoFrame]]
  /\ nasked = 0
  /\ rchs = {}
  /\ reader = [pc |-> "idle", ibuf |-> 0, room |-> 0, naps |-> 0]
  /\ left \in Plans
  /\ delivered = << >>
  /\ stranded = 0 /\ bogus = 0 /\ refused = {}
  /\ cutShort = FALSE /\ upset = {} /\ wrong = FALSE

-----------------------------------------------------------------------------
\* Happens once more.
Spend(what) ==
  /\ left[what] > 0
  /\ left' = [left EXCEPT ![what] = @ - 1]

(* The card. *)

Post(m) ==
  /\ free > 0
  /\ free' = free - 1
  /\ outbound' = Append(outbound, m)

PostStream(k) ==
  /\ cardStreams
  /\ Spend(k)
  /\ nposted' = nposted + 1
  /\ Post(Message(k, nposted + 1))
  /\ UNCHANGED <<cardStreams, todo, up, down, bhqueued, bhpc, control, aux,
                 rchs, reading, ghosts>>

PostReply ==
  /\ todo # << >>
  /\ Post(Head(todo))
  /\ todo' = Tail(todo)
  /\ UNCHANGED <<left, cardStreams, nposted, up, down, bhqueued, bhpc, control, aux,
                 rchs, reading, ghosts>>

-----------------------------------------------------------------------------
(* The interrupt. *)

\* The caller whose reply goes back unread, if it is one.
RefusedBy(m) == {c \in Callers : m = Message("command", c)}

\* Variant: the bottom half is not marked while it is running.
IncomingIsrMarksOnce ==
  /\ outbound # << >>
  /\ outbound' = Tail(outbound)
  /\ Streambuf!Put(Head(outbound))
  /\ IF upput' = "full"
       THEN /\ free' = free + 1
            /\ refused' = refused \cup RefusedBy(Head(outbound))
            /\ UNCHANGED <<bhqueued, cutShort>>
       ELSE /\ bhqueued' = (bhqueued \/ bhpc = "idle")
            /\ cutShort' = FALSE
            /\ UNCHANGED <<free, refused>>
  /\ UNCHANGED <<left, card, down, bhpc, control, aux, rchs, reading, stranded,
                 bogus, upset, wrong>>

\* Variant: the full ring is not noticed, and the frame not returned.
IncomingIsrIgnoresFull ==
  /\ outbound # << >>
  /\ outbound' = Tail(outbound)
  /\ Streambuf!Put(Head(outbound))
  /\ bhqueued' = TRUE
  /\ cutShort' = FALSE
  /\ UNCHANGED <<left, card, free, down, bhpc, control, aux, rchs, reading, stranded,
                 bogus, refused, upset, wrong>>

\* With streambuf full the frame goes back unread.
IncomingIsr ==
  /\ outbound # << >>
  /\ outbound' = Tail(outbound)
  /\ Streambuf!Put(Head(outbound))
  /\ IF upput' = "full"
       THEN /\ free' = free + 1
            /\ refused' = refused \cup RefusedBy(Head(outbound))
            /\ UNCHANGED <<bhqueued, cutShort>>
       ELSE /\ bhqueued' = TRUE
            /\ cutShort' = FALSE
            /\ UNCHANGED <<free, refused>>
  /\ UNCHANGED <<left, card, down, bhpc, control, aux, rchs, reading, stranded,
                 bogus, upset, wrong>>

-----------------------------------------------------------------------------
(* The bottom half. *)

BhStart ==
  /\ bhqueued
  /\ bhpc = "idle"
  /\ bhqueued' = FALSE
  /\ bhpc' = "loop"
  /\ UNCHANGED <<left, card, free, outbound, up, down, control, aux, rchs, reading,
                 ghosts>>

BhGet ==
  /\ bhpc = "loop"
  /\ Streambuf!Get
  /\ bhpc' = IF upq = << >> THEN "done" ELSE "dispatch"
  /\ UNCHANGED <<left, card, free, outbound, down, bhqueued, control, aux, rchs,
                 reading, ghosts>>

BhDone ==
  /\ bhpc = "done"
  /\ bhpc' = "idle"
  /\ UNCHANGED <<left, card, free, outbound, up, down, bhqueued, control, aux,
                 rchs, reading, ghosts>>

\* Stream data: on to the reader, if streaming, and no further frame this time.
PassOn(m) ==
  /\ m \in Streams
  /\ IF streamingEnabled
       THEN /\ Downstreambuf!Put(m)
            /\ stranded' = stranded + (IF downput' = "full" THEN 1 ELSE 0)
            /\ bhpc' = "idle"
            /\ cutShort' = (upq # << >>)
            /\ UNCHANGED free
       ELSE /\ free' = free + 1
            /\ bhpc' = "loop"
            /\ UNCHANGED <<down, stranded, cutShort>>
  /\ UNCHANGED <<aux, rchs, upset>>

\* Variant: the walk along the list misses the handler.
CallHandlerMissed(m) ==
  /\ m \in Returns
  /\ free' = free + 1
  /\ bhpc' = "loop"
  /\ UNCHANGED <<down, aux, rchs, stranded, cutShort, upset>>

\* A command's reply: its handler takes itself off the list and wakes its caller.
CallHandler(m) ==
  /\ m \in Returns
  /\ rchs' = rchs \ {m.n}
  /\ free' = free + 1
  /\ bhpc' = "loop"
  /\ UNCHANGED <<down, aux, stranded, cutShort, upset>>

Awaken ==
  [a \in Askers |-> IF asker[a].pc = "wait" THEN [asker[a] EXCEPT !.pc = "woken"]
                                            ELSE asker[a]]

\* Variant: aux_task_waiting stays set.
KeepAuxWaiting(m) ==
  /\ m \in Replies
  /\ IF auxWaiting
       THEN /\ auxMfa' = m
            /\ asker' = Awaken
            /\ bhpc' = "idle"
            /\ cutShort' = (upq # << >>)
            /\ UNCHANGED <<auxWaiting, free>>
       ELSE /\ free' = free + 1
            /\ bhpc' = "loop"
            /\ UNCHANGED <<auxMfa, auxWaiting, asker, cutShort>>
  /\ UNCHANGED <<down, mutex, nasked, rchs, stranded, upset>>

\* Any other reply: for the process that waits for one, or back to the card.
KeepAux(m) ==
  /\ m \in Replies
  /\ IF auxWaiting
       THEN /\ auxMfa' = m
            /\ auxWaiting' = FALSE
            /\ asker' = Awaken
            /\ bhpc' = "idle"
            /\ cutShort' = (upq # << >>)
            /\ UNCHANGED free
       ELSE /\ free' = free + 1
            /\ bhpc' = "loop"
            /\ UNCHANGED <<auxMfa, auxWaiting, asker, cutShort>>
  /\ UNCHANGED <<down, mutex, nasked, rchs, stranded, upset>>

BhDispatch ==
  /\ bhpc = "dispatch"
  /\ PassOn(upgot) \/ CallHandler(upgot) \/ KeepAux(upgot)
  /\ UNCHANGED <<left, card, outbound, up, bhqueued, control, reading, bogus, refused,
                 wrong>>

-----------------------------------------------------------------------------
(* Processes. *)

\* The process that runs is not interrupted by the bottom half, and no other
\* is between two points where it may sleep.
Runs ==
  /\ bhpc = "idle"
  /\ \A a \in Askers : asker[a].pc # "print"

(* Streaming control: do_streaming and acq32_OnRelease. *)

\* mbox_mutex is down for nobody.
MailboxFree == mutex = NoProcess /\ ctl = "idle"

\* The flag changes first; the card takes the command, unless it refuses it.
SendStream(on) ==
  /\ Runs
  /\ Spend("switch")
  /\ MailboxFree
  /\ streaming' = on
  /\ ctl' = "sent"
  /\ cardStreams' \in {on, cardStreams}
  /\ UNCHANGED <<todo, nposted, free, outbound, up, down, bhqueued, bhpc,
                 streamingEnabled, aux, rchs, reading, ghosts>>

StreamAcked ==
  /\ Runs
  /\ ctl = "sent"
  /\ cardStreams = streaming
  /\ streamingEnabled' = streaming
  /\ ctl' = "idle"
  /\ UNCHANGED <<left, card, free, outbound, up, down, bhqueued, bhpc, streaming, aux,
                 rchs, reading, ghosts>>

StreamFailed ==
  /\ Runs
  /\ ctl = "sent"
  /\ ctl' = "idle"
  /\ UNCHANGED <<left, card, free, outbound, up, down, bhqueued, bhpc, streaming,
                 streamingEnabled, aux, rchs, reading, ghosts>>

(* Commands with a handler. *)

Command(c) ==
  /\ Runs
  /\ c \notin rchs
  /\ Spend("command")
  /\ rchs' = rchs \cup {c}
  /\ todo' = Append(todo, Message("command", c))
  /\ UNCHANGED <<cardStreams, nposted, free, outbound, up, down, bhqueued, bhpc,
                 control, aux, reading, ghosts>>

(* Queries answered by an auxiliary reply, and dumps. *)

\* acq32_waitAuxMessage: a reply that is there already is taken for the answer.
WaitAux(a, n) ==
  IF auxMfa # NoFrame
    THEN /\ asker' = [asker EXCEPT ![a] = [pc |-> "print", n |-> n, mfa |-> auxMfa]]
         /\ UNCHANGED auxWaiting
    ELSE /\ asker' = [asker EXCEPT ![a] = [pc |-> "wait", n |-> n, mfa |-> NoFrame]]
         /\ auxWaiting' = TRUE

\* Another process is between its question and its answer.
Mixes(a) == IF \E b \in Askers \ {a} : asker[b].pc # "idle" THEN {"mixed"} ELSE {}

\* The query is written and waited for with interrupts off.
Query(a) ==
  /\ Runs
  /\ asker[a].pc = "idle"
  /\ Spend("ask")
  /\ MailboxFree
  /\ nasked' = nasked + 1
  /\ todo' = Append(todo, Message("aux", nasked + 1))
  /\ WaitAux(a, nasked + 1)
  /\ mutex' = IF auxMfa # NoFrame THEN NoProcess ELSE a
  /\ upset' = upset \cup Mixes(a)
  /\ UNCHANGED <<cardStreams, nposted, free, outbound, up, down, bhqueued, bhpc,
                 control, auxMfa, rchs, reading, stranded, bogus, refused,
                 cutShort, wrong>>

\* A dump is a command of its own; its end is waited for without the mutex.
Dump(a) ==
  /\ Runs
  /\ asker[a].pc = "idle"
  /\ Spend("dump")
  /\ MailboxFree
  /\ nasked' = nasked + 1
  /\ todo' = Append(todo, Message("aux", nasked + 1))
  /\ asker' = [asker EXCEPT ![a].pc = "dump", ![a].n = nasked + 1]
  /\ upset' = upset \cup Mixes(a)
  /\ UNCHANGED <<cardStreams, nposted, free, outbound, up, down, bhqueued, bhpc,
                 control, mutex, auxMfa, auxWaiting, rchs, reading, stranded,
                 bogus, refused, cutShort, wrong>>

DumpWait(a) ==
  /\ Runs
  /\ asker[a].pc = "dump"
  /\ WaitAux(a, asker[a].n)
  /\ upset' = upset \cup Mixes(a)
  /\ UNCHANGED <<left, card, free, outbound, up, down, bhqueued, bhpc, control, mutex,
                 auxMfa, nasked, rchs, reading, stranded, bogus, refused,
                 cutShort, wrong>>

\* The sleep ends before anything came: its time is up, or a signal came.
Interrupted(a, why) ==
  /\ asker[a].pc = "wait"
  /\ Spend(why)
  /\ asker' = [asker EXCEPT ![a].pc = IF why = "timeout" THEN "expired" ELSE "woken"]
  /\ upset' = upset \cup {why}
  /\ UNCHANGED <<card, free, outbound, up, down, bhqueued, bhpc, control, mutex,
                 auxMfa, auxWaiting, nasked, rchs, reading, stranded, bogus,
                 refused, cutShort, wrong>>

\* mbox_mutex up, if this process has it.
MutexUp(a) == mutex' = IF mutex = a THEN NoProcess ELSE mutex

\* A timeout is reported, even if the reply came before the process ran.
Expired(a) ==
  /\ Runs
  /\ asker[a].pc = "expired"
  /\ auxWaiting' = FALSE
  /\ MutexUp(a)
  /\ asker' = [asker EXCEPT ![a].pc = "idle"]
  /\ UNCHANGED <<left, card, free, outbound, up, down, bhqueued, bhpc, control, auxMfa,
                 nasked, rchs, reading, ghosts>>

Woken(a) ==
  /\ Runs
  /\ asker[a].pc = "woken"
  /\ auxWaiting' = FALSE
  /\ MutexUp(a)
  /\ asker' = [asker EXCEPT ![a].pc = "print", ![a].mfa = auxMfa]
  /\ UNCHANGED <<left, card, free, outbound, up, down, bhqueued, bhpc, control, auxMfa,
                 nasked, rchs, reading, ghosts>>

\* Variant: the frame is returned, and aux_mfa still refers to it.
PrintAuxReplyKeeps(a) ==
  /\ bhpc = "idle"
  /\ asker[a].pc = "print"
  /\ free' = free + 1
  /\ bogus' = bogus + (IF asker[a].mfa = NoFrame THEN 1 ELSE 0)
  /\ wrong' = (wrong \/ asker[a].mfa # Message("aux", asker[a].n))
  /\ asker' = [asker EXCEPT ![a].pc = "idle", ![a].mfa = NoFrame]
  /\ UNCHANGED <<left, card, outbound, up, down, bhqueued, bhpc, control, mutex,
                 auxMfa, auxWaiting, nasked, rchs, reading, stranded, refused,
                 cutShort, upset>>

\* The reply is copied out, its frame returned and aux_mfa cleared.
PrintAuxReply(a) ==
  /\ bhpc = "idle"
  /\ asker[a].pc = "print"
  /\ free' = free + 1
  /\ bogus' = bogus + (IF asker[a].mfa = NoFrame THEN 1 ELSE 0)
  /\ wrong' = (wrong \/ asker[a].mfa # Message("aux", asker[a].n))
  /\ auxMfa' = NoFrame
  /\ asker' = [asker EXCEPT ![a].pc = "idle", ![a].mfa = NoFrame]
  /\ UNCHANGED <<left, card, outbound, up, down, bhqueued, bhpc, control, mutex,
                 auxWaiting, nasked, rchs, reading, stranded, refused, cutShort,
                 upset>>

(* The stream's reader. *)

\* A buffer has room for some messages, or for not even one.
StartRead(room) ==
  /\ Runs
  /\ reader.pc = "idle"
  /\ streaming
  /\ Spend("read")
  /\ reader' = [pc |-> "loop", ibuf |-> 0, room |-> room, naps |-> 0]
  /\ UNCHANGED <<card, free, outbound, up, down, bhqueued, bhpc, control, aux,
                 rchs, delivered, ghosts>>

ReadGoto(pc) == reader' = [reader EXCEPT !.pc = pc]

ReadOnly ==
  UNCHANGED <<left, card, outbound, up, bhqueued, bhpc, control, aux, rchs,
              ghosts>>

ReadGet ==
  /\ Runs
  /\ reader.pc = "loop"
  /\ reader.ibuf < MinRead
  /\ downq # << >>
  /\ Downstreambuf!Get
  /\ ReadGoto("have")
  /\ ReadOnly /\ UNCHANGED <<free, delivered>>

\* Variant: time spent asleep is not counted.
ReadNapUncounted ==
  /\ Runs
  /\ reader.pc = "loop"
  /\ reader.ibuf < MinRead
  /\ downq = << >>
  /\ reader.naps < MaxNaps
  /\ ReadGoto("nap")
  /\ ReadOnly /\ UNCHANGED <<free, down, delivered>>

ReadNap ==
  /\ Runs
  /\ reader.pc = "loop"
  /\ reader.ibuf < MinRead
  /\ downq = << >>
  /\ reader.naps < MaxNaps
  /\ reader' = [reader EXCEPT !.pc = "nap", !.naps = @ + 1]
  /\ ReadOnly /\ UNCHANGED <<free, down, delivered>>

\* Woken by the bottom half, or after a hundred ticks.
ReadWake ==
  /\ Runs
  /\ reader.pc = "nap"
  /\ ReadGoto("loop")
  /\ ReadOnly /\ UNCHANGED <<free, down, delivered>>

\* Enough read, or some and the data comes slowly, or none for too long.
ReadEnd ==
  /\ Runs
  /\ reader.pc = "loop"
  /\ \/ reader.ibuf >= MinRead
     \/ downq = << >> /\ (reader.ibuf > 0 \/ reader.naps = MaxNaps)
  /\ ReadGoto("idle")
  /\ ReadOnly /\ UNCHANGED <<free, down, delivered>>

ReadGarbled ==
  /\ Runs
  /\ reader.pc = "have"
  /\ downgot.kind = "garbled"
  /\ free' = free + 1
  /\ ReadGoto("loop")
  /\ ReadOnly /\ UNCHANGED <<down, delivered>>

\* Variant: the message that does not fit is returned, and put back as well.
ReadPutBackReturned ==
  /\ Runs
  /\ reader.pc = "have"
  /\ downgot.kind = "stream"
  /\ reader.ibuf + 1 > reader.room
  /\ Downstreambuf!PutBack
  /\ free' = free + 1
  /\ ReadGoto("idle")
  /\ ReadOnly /\ UNCHANGED delivered

\* What does not fit the user's buffer is left for the next read.
ReadPutBack ==
  /\ Runs
  /\ reader.pc = "have"
  /\ downgot.kind = "stream"
  /\ reader.ibuf + 1 > reader.room
  /\ Downstreambuf!PutBack
  /\ ReadGoto("idle")
  /\ ReadOnly /\ UNCHANGED <<free, delivered>>

\* Variant: the message is copied and stays first in line.
ReadCopyKeeps ==
  /\ Runs
  /\ reader.pc = "have"
  /\ downgot.kind = "stream"
  /\ reader.ibuf + 1 <= reader.room
  /\ Downstreambuf!PutBack
  /\ delivered' = Append(delivered, downgot)
  /\ reader' = [reader EXCEPT !.pc = "loop", !.ibuf = @ + 1]
  /\ ReadOnly /\ UNCHANGED free

ReadCopy ==
  /\ Runs
  /\ reader.pc = "have"
  /\ downgot.kind = "stream"
  /\ reader.ibuf + 1 <= reader.room
  /\ delivered' = Append(delivered, downgot)
  /\ free' = free + 1
  /\ reader' = [reader EXCEPT !.pc = "loop", !.ibuf = @ + 1]
  /\ ReadOnly /\ UNCHANGED down

-----------------------------------------------------------------------------
Card == (\E k \in {"stream", "garbled"} : PostStream(k)) \/ PostReply

BottomHalf == BhStart \/ BhGet \/ BhDone \/ BhDispatch

Reader ==
  \/ ReadGet \/ ReadNap \/ ReadWake \/ ReadEnd
  \/ ReadGarbled \/ ReadPutBack \/ ReadCopy

Asker(a) == DumpWait(a) \/ Expired(a) \/ Woken(a) \/ PrintAuxReply(a)

Next ==
  \/ Card
  \/ IncomingIsr
  \/ BottomHalf
  \/ \E on \in BOOLEAN : SendStream(on)
  \/ StreamAcked \/ StreamFailed
  \/ \E c \in Callers : Command(c)
  \/ \E a \in Askers : Query(a) \/ Dump(a) \/ Asker(a)
  \/ \E a \in Askers, why \in {"timeout", "signal"} : Interrupted(a, why)
  \/ \E room \in 0 .. MaxRoom : StartRead(room)
  \/ Reader

Spec == Init /\ [][Next]_vars

\* The card answers what it was asked, interrupts are taken, bottom halves run,
\* and a process inside the driver is scheduled and its sleep ends, however
\* often bottom halves interrupt it.
Fairness ==
  /\ WF_vars(PostReply) /\ WF_vars(IncomingIsr) /\ WF_vars(BottomHalf)
  /\ SF_vars(StreamAcked \/ StreamFailed) /\ SF_vars(Reader)
  /\ \A a \in Askers :
       SF_vars(Asker(a)) /\ WF_vars(Interrupted(a, "timeout"))

FairSpec == Spec /\ Fairness

-----------------------------------------------------------------------------
AskerPcs == {"idle", "dump", "wait", "woken", "expired", "print"}
Slot     == Messages \cup {NoFrame}

\* The rings hold messages, the bottom half and every process are somewhere in
\* their code, and nothing is counted beyond the card's frames.
TypeOK ==
  /\ cardStreams \in BOOLEAN /\ streaming \in BOOLEAN /\ streamingEnabled \in BOOLEAN
  /\ todo \in Seq(Replies \cup Returns) /\ outbound \in Seq(Messages)
  /\ nposted \in Nat /\ nasked \in Nat
  /\ free \in 0 .. Frames + bogus /\ stranded \in 0 .. Frames + bogus /\ bogus \in Nat
  /\ upq \in Seq(Messages) /\ Len(upkept) + Len(upq) <= UpRoom
  /\ downq \in Seq(Streams) /\ Len(downkept) + Len(downq) <= DownRoom
  /\ upgot \in Slot /\ downgot \in Streams \cup {NoFrame}
  /\ bhqueued \in BOOLEAN /\ bhpc \in {"idle", "loop", "dispatch", "done"}
  /\ ctl \in {"idle", "sent"}
  /\ mutex \in Askers \cup {NoProcess}
  /\ auxMfa \in Replies \cup {NoFrame} /\ auxWaiting \in BOOLEAN
  /\ asker \in [Askers -> [pc : AskerPcs, n : Nat, mfa : Replies \cup {NoFrame}]]
  /\ rchs \subseteq Callers /\ refused \subseteq rchs
  /\ reader \in [pc : {"idle", "loop", "nap", "have"}, ibuf : 0 .. MinRead,
                 room : 0 .. MaxRoom, naps : 0 .. MaxNaps]
  /\ delivered \in Seq(Streams)

One(b) == IF b THEN 1 ELSE 0

\* Where a frame is while the host has it.
HostFrames ==
  Len(upq) + One(bhpc = "dispatch") + Len(downq) + One(reader.pc = "have")
    + One(auxMfa # NoFrame)

Undisturbed(kinds) == upset \cap kinds = {}

\* Every frame is in one place: free, in the FIFO, in a ring, in the hands of
\* the bottom half or the reader, or kept as aux_mfa.  The only frames that go
\* missing are those the bottom half finds no room for in downstreambuf; a
\* timeout loses none, nor does a reply that comes too late or unasked, nor
\* turning the stream off.  A signal to a process that waits for a reply, and a
\* wait that overlaps another, do have frames returned that are not there.
FramesConserved ==
  Undisturbed({"signal", "mixed"}) =>
    /\ free + Len(outbound) + HostFrames + stranded = Frames
    /\ bogus = 0

\* While a process waits for a reply none is kept, so that the bottom half never
\* overwrites one, not even after timeouts, signals and overlapping waits.
AuxNeverOverwritten == auxWaiting => auxMfa = NoFrame

\* A query returns its own reply until one times out: after that a late reply
\* may answer a later query.
AnswersMine == Undisturbed({"timeout", "signal", "mixed"}) => ~ wrong

\* A bottom half that is neither running nor due left frames in streambuf only
\* if it returned early, after a stream message or a reply it kept.
BottomHalfFollows ==
  upq # << >> /\ bhpc = "idle" /\ ~ bhqueued => cutShort

If(b, m) == IF b THEN <<m>> ELSE << >>

\* Where messages are, from the user back to what the card has yet to post.
Pipeline ==
  <<delivered, If(reader.pc = "have", downgot), downq,
    If(bhpc = "dispatch", upgot), upq, outbound, todo>>

InOrder(m, n) == m \in Streams /\ n \in Streams => m.n < n.n

\* The reader gets the stream in order and nothing twice, across the two rings,
\* the frame in the bottom half's hands and a message put back.
StreamInOrder ==
  \A x \in 1 .. Len(Pipeline) :
    /\ \A i, j \in 1 .. Len(Pipeline[x]) :
         i < j => InOrder(Pipeline[x][i], Pipeline[x][j])
    /\ \A y \in x + 1 .. Len(Pipeline) :
         \A i \in 1 .. Len(Pipeline[x]), j \in 1 .. Len(Pipeline[y]) :
           InOrder(Pipeline[x][i], Pipeline[y][j])

\* Where a reply may stay for ever.
Stuck(c) ==
  \/ c \in refused
  \/ upq # << >> /\ bhpc = "idle" /\ ~ bhqueued
  \/ free = 0

\* The caller of a command is answered, or the system stays for good in one of
\* three states: its reply was discarded with streambuf full, it lies in
\* streambuf behind a message after which the bottom half returned, or the card
\* has no frame left to post it in.
CommandAnswered ==
  \A c \in Callers : c \in rchs ~> (c \notin rchs \/ []Stuck(c))

\* A read of the stream ends, with data or without.
EveryReadReturns == reader.pc # "idle" ~> reader.pc = "idle"
=============================================================================
