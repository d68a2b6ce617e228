------------------------------- MODULE Mailbox -------------------------------
(***************************************************************************)
(* The PCI mailbox protocol between the host driver (acq32_core.c) and the *)
(* firmware control program (mbox-slave.c).  Two registers matter: COMMAND *)
(* and the argument pair A3/A4, kept here as one register.  The host       *)
(* writes a command word with ACK clear and polls for ACK; the firmware's  *)
(* mailbox thread clears the COMMAND/QUERY bit, runs the handler, and      *)
(* ORs ACK into whatever word the register then holds.                     *)
(*                                                                         *)
(* Every register access is a step of its own: the two sides run on        *)
(* different processors and `*mbox(x) |= bit` is a load and a store.       *)
(*                                                                         *)
(* A command word is identified by the number of the send that wrote it.   *)
(***************************************************************************)
EXTENDS Naturals, Sequences

CONSTANTS
  Clients,          \* host processes that share the driver's mailbox
  NoClient,         \* nobody holds mbox_mutex
  ShortCommand,     \* commands the firmware takes even during a capture
  LongCommand,      \* commands it takes only outside ARM and RUN
  ShortQuery,       \* queries answered in A3/A4, taken at any time
  LongQuery,        \* queries answered by an I2O message
  Unknown,          \* command codes no case of the firmware's switch accepts
  EarlyAck,         \* codes whose handler calls ack() itself before working
  WithArgs,         \* commands sent with A3/A4
  MaxSends,         \* bound: command words the host writes
  MaxEarlyTimeouts, \* bound: host timeouts while the firmware is still busy
  MaxLocalArms      \* bound: setArm commands from the local command socket

Commands  == ShortCommand \cup LongCommand \cup Unknown
Queries   == ShortQuery \cup LongQuery
Funcodes  == Commands \cup Queries
Ids       == 1 .. MaxSends

\* The classes of function codes are disjoint, long queries always acknowledge
\* early, and only commands carry arguments.
ASSUME MailboxAssumption ==
  /\ NoClient \notin Clients
  /\ Commands \cap Queries = {}
  /\ ShortCommand \cap LongCommand = {}
  /\ Unknown \cap (ShortCommand \cup LongCommand) = {}
  /\ ShortQuery \cap LongQuery = {}
  /\ LongQuery \subseteq EarlyAck
  /\ EarlyAck \subseteq LongQuery \cup LongCommand
  /\ WithArgs \subseteq Commands
  /\ MaxSends \in Nat
  /\ MaxEarlyTimeouts \in Nat
  /\ MaxLocalArms \in Nat

VARIABLES
  (* host *)
  mutex,          \* holder of m_dpd.mbox_mutex
  pc,             \* where each client is in its send
  sent,           \* function codes sent so far: sent[i] is send i
  outcome,        \* what the sender of i was told
  answer,         \* what the sender of query i read in A3/A4
  earlyTimeouts,
  (* the mailbox registers *)
  command,        \* [id, new, ack]: BP_MB_COMMAND
  args,           \* [id, reply]: BP_MB_A3 and BP_MB_A4
  replies,        \* I2O replies on their way to the host, by send
  (* firmware *)
  fpc,            \* where the mailbox thread is
  reg,            \* the word the mailbox thread last loaded
  cur,            \* the send it is working on
  runs,           \* how often the handler ran for each send
  used,           \* the command word and arguments that handler saw
  lpc, lreg,      \* the main thread inside a local setArm, and its load
  localArms,
  (* history *)
  crossed         \* sends whose exchange another one got in the way of

host     == <<mutex, pc, sent, outcome, answer, earlyTimeouts>>
firmware == <<fpc, reg, cur, runs, used>>
local    == <<lpc, lreg, localArms>>
vars     == <<host, command, args, replies, firmware, local, crossed>>

Word     == [id : 0 .. MaxSends, new : BOOLEAN, ack : BOOLEAN]
Args     == [id : 0 .. MaxSends, reply : BOOLEAN]
NoWord   == [id |-> 0, new |-> FALSE, ack |-> FALSE]
NoArgs   == [id |-> 0, reply |-> FALSE]
FwStates == {"read", "clear", "dispatch", "earlyload", "earlystore",
             "run", "flagload", "flagstore", "ackload", "ackstore"}
Outcomes == {"open", "ok", "timedout", "early"}
HostStates == {"idle", "args", "command", "poll", "fetch", "aux"}

Init ==
  /\ mutex = NoClient
  /\ pc = [c \in Clients |-> "idle"]
  /\ sent = << >>
  /\ outcome = [i \in Ids |-> "open"]
  /\ answer = [i \in Ids |-> NoArgs]
  /\ earlyTimeouts = 0
  /\ command = NoWord
  /\ args = NoArgs
  /\ replies = << >>
  /\ fpc = "read"
  /\ reg = NoWord
  /\ cur = 0
  /\ runs = [i \in Ids |-> 0]
  /\ used = [i \in Ids |-> [id |-> 0, args |-> NoArgs]]
  /\ lpc = "idle"
  /\ lreg = NoWord
  /\ localArms = 0
  /\ crossed = {}

-----------------------------------------------------------------------------
(* Host: _acq32_devSendCommand, acq32_devSendQuery and                     *)
(* acq32_devSendQueryWaitAuxMessage.  Each holds mbox_mutex throughout, so *)
(* the send in progress is the last one.                                   *)

Last == Len(sent)

Goto(c, from, to) ==
  /\ pc[c] = from
  /\ pc' = [pc EXCEPT ![c] = to]

\* Release mbox_mutex and tell the caller how the transaction ended.
Finish(c, from, verdict) ==
  /\ Goto(c, from, "idle")
  /\ outcome' = [outcome EXCEPT ![Last] = verdict]
  /\ mutex' = NoClient

\* A word the mailbox thread would take.
Live(w) == w.new /\ ~ w.ack

\* The mailbox thread is at work on a send.
Busy == fpc # "read"

\* History: something else was under way that the send in progress now meets.
Cross(met) == crossed' = IF met THEN crossed \cup {Last} ELSE crossed

\* Variant: A3/A4 are not written.
MutexDownNoArgs(c, f) ==
  /\ mutex = NoClient
  /\ Last < MaxSends
  /\ Goto(c, "idle", "command")
  /\ mutex' = c
  /\ sent' = Append(sent, f)
  /\ UNCHANGED <<outcome, answer, earlyTimeouts, command, args, replies,
                 firmware, local, crossed>>

MutexDown(c, f) ==
  /\ mutex = NoClient
  /\ Last < MaxSends
  /\ Goto(c, "idle", IF f \in WithArgs THEN "args" ELSE "command")
  /\ mutex' = c
  /\ sent' = Append(sent, f)
  /\ UNCHANGED <<outcome, answer, earlyTimeouts, command, args, replies,
                 firmware, local, crossed>>

SetArgs(c) ==
  /\ Goto(c, "args", "command")
  /\ args' = [id |-> Last, reply |-> FALSE]
  /\ Cross(Busy \/ Live(command))
  /\ UNCHANGED <<mutex, sent, outcome, answer, earlyTimeouts, command,
                 replies, firmware, local>>

\* What the word about to be written meets: the thread still at work on an
\* earlier send, a local setArm between its load and its store, or, for a long
\* query, the late reply to another.
InTheWay ==
  \/ Busy
  \/ lpc = "store"
  \/ sent[Last] \in LongQuery /\ replies # << >>

\* Variant: the command is ORed into the register, so an old ACK stays.
SetCommandKeepsAck(c) ==
  /\ Goto(c, "command", IF sent[Last] \in LongQuery THEN "aux" ELSE "poll")
  /\ command' = [id |-> Last, new |-> TRUE, ack |-> command.ack]
  /\ Cross(InTheWay)
  /\ UNCHANGED <<mutex, sent, outcome, answer, earlyTimeouts, args, replies,
                 firmware, local>>

\* The new word replaces the old one, its ACK bit included.
SetCommand(c) ==
  /\ Goto(c, "command", IF sent[Last] \in LongQuery THEN "aux" ELSE "poll")
  /\ command' = [id |-> Last, new |-> TRUE, ack |-> FALSE]
  /\ Cross(InTheWay)
  /\ UNCHANGED <<mutex, sent, outcome, answer, earlyTimeouts, args, replies,
                 firmware, local>>

\* acq32_devPollAck found the ACK bit: a command is finished, a query goes on
\* to read the argument registers.
PollAck(c) ==
  /\ pc[c] = "poll"
  /\ command.ack
  /\ \/ /\ sent[Last] \in Commands
        /\ Finish(c, "poll", "ok")
     \/ /\ sent[Last] \in Queries
        /\ Goto(c, "poll", "fetch")
        /\ UNCHANGED <<mutex, outcome>>
  /\ UNCHANGED <<sent, answer, earlyTimeouts, command, args, replies,
                 firmware, local, crossed>>

GetArgs(c) ==
  /\ Finish(c, "fetch", "ok")
  /\ answer' = [answer EXCEPT ![Last] = args]
  /\ UNCHANGED <<sent, earlyTimeouts, command, args, replies,
                 firmware, local, crossed>>

\* Nothing the firmware is doing or has been asked to do can still answer.
Settled ==
  /\ ~ Live(command)
  /\ ~ Busy
  /\ replies = << >>

\* Variant: the host sleeps for the auxiliary message without a limit.
AuxForever(c) == FALSE

\* The call ends without an answer; whether one could still have come tells
\* the two verdicts apart.
GiveUp(c, from) ==
  \/ /\ Settled
     /\ Finish(c, from, "timedout")
     /\ UNCHANGED earlyTimeouts
  \/ /\ ~ Settled
     /\ earlyTimeouts < MaxEarlyTimeouts
     /\ Finish(c, from, "early")
     /\ earlyTimeouts' = earlyTimeouts + 1

\* MAXTIMEOUT polls, or the wait for the auxiliary message, ran out.
PollTimeout(c) ==
  /\ ~ command.ack
  /\ GiveUp(c, "poll")
  /\ UNCHANGED <<sent, answer, command, args, replies, firmware, local, crossed>>

AuxTimeout(c) ==
  /\ GiveUp(c, "aux")
  /\ UNCHANGED <<sent, answer, command, args, replies, firmware, local, crossed>>

\* The bottom half hands an I2O reply to the waiting task, or discards it when
\* nobody waits.  The reply does not say which query it answers.
DeliverReply ==
  /\ replies # << >>
  /\ replies' = Tail(replies)
  /\ \/ \E c \in Clients :
          /\ Finish(c, "aux", "ok")
          /\ answer' = [answer EXCEPT ![Last] =
                          [id |-> Head(replies), reply |-> TRUE]]
     \/ /\ \A c \in Clients : pc[c] # "aux"
        /\ UNCHANGED <<mutex, pc, outcome, answer>>
  /\ UNCHANGED <<sent, earlyTimeouts, command, args, firmware, local, crossed>>

-----------------------------------------------------------------------------
(* Firmware: one pass of mboxSlaveOnce, then processMboxCommand.           *)

FwGoto(from, to) ==
  /\ fpc = from
  /\ fpc' = to

\* Variant: the ACK bit is not looked at.
ReadAnyCommand ==
  /\ fpc = "read"
  /\ IF command.new
       THEN fpc' = "clear" /\ reg' = command /\ cur' = command.id
       ELSE UNCHANGED <<fpc, reg, cur>>
  /\ UNCHANGED <<host, command, args, replies, runs, used, local, crossed>>

\* processMboxCommand: a word with its COMMAND or QUERY bit set and no ACK is
\* taken, anything else leaves the loop as it was.
ReadCommand ==
  /\ fpc = "read"
  /\ IF Live(command)
       THEN fpc' = "clear" /\ reg' = command /\ cur' = command.id
       ELSE UNCHANGED <<fpc, reg, cur>>
  /\ UNCHANGED <<host, command, args, replies, runs, used, local, crossed>>

\* The word loaded before is stored back without its COMMAND/QUERY bit.
ClearNew ==
  /\ FwGoto("clear", "dispatch")
  /\ command' = [reg EXCEPT !.new = FALSE]
  /\ UNCHANGED <<host, args, replies, reg, cur, runs, used, local,
                 crossed>>

\* longOk is what mboxSlaveOnce passes on: the acquisition driver was neither
\* in ARM nor in RUN.  The driver's state moves on its own, so it is free here.
Accepted(f, longOk) ==
  \/ f \in ShortCommand \cup ShortQuery
  \/ f \in LongCommand \cup LongQuery /\ longOk

Dispatch(longOk) ==
  /\ FwGoto("dispatch", IF sent[cur] \in EarlyAck THEN "earlyload" ELSE "run")
  /\ Accepted(sent[cur], longOk)
  /\ UNCHANGED <<host, command, args, replies, reg, cur, runs, used, local,
                 crossed>>

\* Variant: a refused command is acknowledged.
NackAcks(longOk) ==
  /\ FwGoto("dispatch", "read")
  /\ ~ Accepted(sent[cur], longOk)
  /\ command' = [command EXCEPT !.ack = TRUE]
  /\ UNCHANGED <<host, args, replies, reg, cur, runs, used, local,
                 crossed>>

\* nack(): the interrupt is raised but no bit of the command word changes.
Nack(longOk) ==
  /\ FwGoto("dispatch", "read")
  /\ ~ Accepted(sent[cur], longOk)
  /\ UNCHANGED <<host, command, args, replies, reg, cur, runs, used, local,
                 crossed>>

\* `*mbox(COMMAND) |= bits`: load, then store what was loaded with the bits.
Load(from, to) ==
  /\ FwGoto(from, to)
  /\ reg' = command
  /\ UNCHANGED <<host, command, args, replies, cur, runs, used, local,
                 crossed>>

StoreAck(from, to) ==
  /\ FwGoto(from, to)
  /\ command' = [reg EXCEPT !.ack = TRUE]
  /\ UNCHANGED <<host, args, replies, reg, cur, runs, used, local,
                 crossed>>

\* Variant: a short query handler returns without the acknowledgement.
StoreFlagOnly ==
  /\ FwGoto("flagstore", "read")
  /\ command' = reg
  /\ UNCHANGED <<host, args, replies, reg, cur, runs, used, local,
                 crossed>>

\* `|= BP_CI_A3` in the short query handlers.
StoreFlag ==
  /\ FwGoto("flagstore", "ackload")
  /\ command' = reg
  /\ UNCHANGED <<host, args, replies, reg, cur, runs, used, local,
                 crossed>>

\* The handler proper: it reads A1 again from COMMAND and its arguments from
\* A3/A4, whatever they hold by now.
RunHandler ==
  /\ fpc = "run"
  /\ runs' = [runs EXCEPT ![cur] = @ + 1]
  /\ used' = [used EXCEPT ![cur] = [id |-> command.id, args |-> args]]
  /\ \/ /\ sent[cur] \in Commands
        /\ FwGoto("run", "ackload")
        /\ UNCHANGED <<args, replies>>
     \/ /\ sent[cur] \in ShortQuery
        /\ FwGoto("run", "flagload")
        /\ args' = [id |-> cur, reply |-> TRUE]
        /\ UNCHANGED replies
     \/ /\ sent[cur] \in LongQuery
        /\ FwGoto("run", "ackload")
        /\ replies' = Append(replies, cur)
        /\ UNCHANGED args
  /\ UNCHANGED <<host, command, reg, cur, local, crossed>>

\* The local command socket's setArm runs mbox_setArm, ack() included, on the
\* main thread.
LocalAckLoad ==
  /\ lpc = "idle"
  /\ localArms < MaxLocalArms
  /\ lpc' = "store"
  /\ lreg' = command
  /\ localArms' = localArms + 1
  /\ UNCHANGED <<host, command, args, replies, firmware, crossed>>

LocalAckStore ==
  /\ lpc = "store"
  /\ lpc' = "idle"
  /\ command' = [lreg EXCEPT !.ack = TRUE]
  /\ Cross(\E c \in Clients : pc[c] = "poll")
  /\ UNCHANGED <<host, args, replies, firmware, lreg, localArms>>

-----------------------------------------------------------------------------
HostStep(c) ==
  \/ SetArgs(c) \/ SetCommand(c) \/ PollAck(c) \/ GetArgs(c)
  \/ PollTimeout(c) \/ AuxTimeout(c)

MboxThread ==
  \/ ReadCommand \/ ClearNew
  \/ \E longOk \in BOOLEAN : Dispatch(longOk) \/ Nack(longOk)
  \/ Load("earlyload", "earlystore") \/ StoreAck("earlystore", "run")
  \/ RunHandler
  \/ Load("flagload", "flagstore") \/ StoreFlag
  \/ Load("ackload", "ackstore") \/ StoreAck("ackstore", "read")

MainThread == LocalAckLoad \/ LocalAckStore

Next ==
  \/ \E c \in Clients, f \in Funcodes : MutexDown(c, f)
  \/ \E c \in Clients : HostStep(c)
  \/ DeliverReply
  \/ MboxThread
  \/ MainThread

Spec == Init /\ [][Next]_vars

\* Both sides run: mboxSlaveLoop never stops calling mboxSlaveOnce, a client
\* inside the driver keeps polling or times out, and bottom halves are run.
Fairness ==
  /\ WF_vars(MboxThread)
  /\ \A c \in Clients : WF_vars(HostStep(c))
  /\ WF_vars(DeliverReply)

FairSpec == Spec /\ Fairness

-----------------------------------------------------------------------------
HostTypeOK ==
  /\ mutex \in Clients \cup {NoClient}
  /\ pc \in [Clients -> HostStates]
  /\ sent \in Seq(Funcodes) /\ Len(sent) <= MaxSends
  /\ outcome \in [Ids -> Outcomes]
  /\ answer \in [Ids -> Args]
  /\ earlyTimeouts \in 0 .. MaxEarlyTimeouts

RegisterTypeOK ==
  /\ command \in Word
  /\ args \in Args
  /\ replies \in Seq(Ids)

FirmwareTypeOK ==
  /\ fpc \in FwStates
  /\ reg \in Word
  /\ cur \in 0 .. MaxSends
  /\ runs \in [Ids -> 0 .. 1]
  /\ used \in [Ids -> [id : 0 .. MaxSends, args : Args]]

LocalTypeOK ==
  /\ lpc \in {"idle", "store"}
  /\ lreg \in Word
  /\ localArms \in 0 .. MaxLocalArms

\* Every register, program counter and history variable keeps its kind; a
\* handler is counted at most once for each send.
TypeOK ==
  /\ HostTypeOK
  /\ RegisterTypeOK
  /\ FirmwareTypeOK
  /\ LocalTypeOK
  /\ crossed \subseteq Ids

\* Handlers run in the order of the sends and none runs twice, however the
\* stores of stale words, forged acknowledgements and timeouts fall.
InOrderOnce ==
  [][\A i \in Ids : runs'[i] # runs[i] =>
       \A j \in Ids : j >= i => runs[j] = 0]_vars

\* The verdicts.  Early acknowledgements, early timeouts and local arms do make
\* them wrong, but only for a send that met what an earlier one, or a local
\* setArm, had left under way (crossed).

\* The mailbox holds no word of send i that can still be taken, and the thread
\* is not at work on it.
Gone(i) == /\ ~ (Live(command) /\ command.id = i)
           /\ ~ (Busy /\ cur = i)

\* What the host is told was done has been done, once; a code that
\* acknowledges early may still be at it.
AckMeansDone ==
  \A i \in Ids \ crossed : outcome[i] = "ok" =>
    \/ runs[i] = 1
    \/ sent[i] \in EarlyAck /\ Busy /\ cur = i

\* The claim of the protocol's header, without the exception: what the host is
\* told was done the firmware has at least accepted.
AckIsEarned ==
  \A i \in Ids : outcome[i] = "ok" => runs[i] = 1 \/ (Busy /\ cur = i)

\* A query returns the reply made to that query.
ReplyIsMine ==
  \A i \in (1 .. Len(sent)) \ crossed :
    outcome[i] = "ok" /\ sent[i] \in Queries =>
      answer[i] = [id |-> i, reply |-> TRUE]

\* A handler sees the word and the arguments of the send it serves, unless the
\* sender was let go before it ran: acknowledged early, or gave up early.
RunsAsSent ==
  \A i \in (1 .. Len(sent)) \ crossed :
    runs[i] > 0 /\ sent[i] \notin EarlyAck /\ outcome[i] # "early" =>
      /\ used[i].id = i
      /\ sent[i] \in WithArgs => used[i].args = [id |-> i, reply |-> FALSE]

\* A send that timed out when the card had settled has not been carried out and
\* never will be, crossed or not.  One given up before that may be carried out
\* late, but not after a later send that was not crossed.
TimeoutMeansUndone ==
  \A i \in Ids :
    /\ outcome[i] = "timedout" => runs[i] = 0 /\ Gone(i)
    /\ (\E j \in Ids \ crossed : j > i /\ outcome[j] # "open") => Gone(i)

\* No client is left inside the driver: every send and query ends.
EveryCallReturns ==
  \A c \in Clients : pc[c] # "idle" ~> pc[c] = "idle"
=============================================================================
