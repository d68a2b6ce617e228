--------------------------- MODULE MailboxVerdicts ---------------------------
(***************************************************************************)
(* What the sender is told is true, for any codes, early acknowledgements, *)
(* early timeouts and local arms, of every send that was not crossed.      *)
(*                                                                         *)
(* While such a send waits the card holds no word but its own and the      *)
(* thread works on nothing else, so that ACK appears only after its        *)
(* handler ran, or just before for the codes that acknowledge early.       *)
(* A word that has gone, as one has when the card settled or an uncrossed  *)
(* send was written after it, cannot come back.                            *)
(***************************************************************************)
EXTENDS MailboxProofs

Waiting(c) == pc[c] \in {"poll", "fetch", "aux"}

\* Once the handler has run the thread has these steps left.
AfterRun == {"flagload", "flagstore", "ackload", "ackstore"}

Storing == {"clear", "earlystore", "flagstore", "ackstore"}

\* Every word there is belongs to the send that waits, if it was not crossed.
OwnWords ==
  \A c \in Clients : Waiting(c) /\ Last \notin crossed =>
    /\ command.id = Last
    /\ Busy => cur = Last
    /\ fpc \in Storing => reg.id = Last
    /\ lpc = "store" => lreg.id = Last

\* Short codes are polled for, long queries waited for.
WaitInv ==
  \A c \in Clients :
    /\ pc[c] = "poll" => sent[Last] \notin LongQuery
    /\ pc[c] = "fetch" => sent[Last] \in ShortQuery
    /\ pc[c] = "aux" => sent[Last] \in LongQuery

\* Where the acknowledgement of a send that was not crossed comes from.
EarnedInv ==
  /\ fpc = "clear" => ~ reg.ack
  /\ fpc \in {"earlyload", "earlystore"} => sent[cur] \in EarlyAck
  /\ fpc \in AfterRun => runs[cur] = 1
  /\ \A c \in Clients : Last \notin crossed =>
       /\ pc[c] = "poll" /\ command.ack =>
            runs[Last] = 1 \/ (sent[Last] \in EarlyAck /\ fpc = "run")
       /\ pc[c] = "fetch" => runs[Last] = 1

\* A handler that has run has left its mark: ACK, or a reply.
MarkInv ==
  \A c \in Clients :
    /\ pc[c] = "poll" /\ runs[Last] = 1 /\ ~ Busy => command.ack
    /\ pc[c] = "aux" /\ runs[Last] = 1 => replies # << >>

RepliesInv ==
  /\ \A k \in 1 .. Len(replies) : runs[replies[k]] = 1
  /\ \A c \in Clients : pc[c] = "aux" /\ Last \notin crossed =>
       \A k \in 1 .. Len(replies) : replies[k] = Last

\* The argument registers hold the sender's arguments, and after a query's
\* handler its reply.
ArgsInv ==
  \A c \in Clients : Last \notin crossed =>
    /\ pc[c] = "command" /\ sent[Last] \in WithArgs => ~ Busy /\ ~ Live(command)
    /\ pc[c] \in {"command", "poll"} /\ sent[Last] \in WithArgs =>
         args = [id |-> Last, reply |-> FALSE]
    /\ pc[c] \in {"poll", "fetch"} /\ sent[Last] \in ShortQuery /\ runs[Last] = 1 =>
         args = [id |-> Last, reply |-> TRUE]

\* The send of the client inside the driver is open, and no other is.
OpenInv ==
  /\ \A i \in Ids : i > Len(sent) => outcome[i] = "open"
  /\ \A c \in Clients : pc[c] # "idle" => outcome[Last] = "open"
  /\ \A i \in 1 .. Len(sent) : outcome[i] = "open" =>
       i = Last /\ \E c \in Clients : pc[c] # "idle"

\* No copy of the word of send i can be taken any more, and it is not under way.
NeverAgain(i) ==
  /\ Gone(i)
  /\ ~ (fpc = "flagstore" /\ Live(reg) /\ reg.id = i)

Written(j) == j \in 1 .. Len(sent) /\ \A c \in Clients : Unwritten(c) => j # Last

GoneInv ==
  \A i \in Ids :
    /\ outcome[i] = "timedout" => runs[i] = 0 /\ NeverAgain(i)
    /\ (\E j \in Ids \ crossed : j > i /\ Written(j)) => NeverAgain(i)

AckedInv ==
  \A i \in Ids \ crossed : outcome[i] = "ok" =>
    \/ runs[i] = 1
    \/ sent[i] \in EarlyAck /\ fpc = "run" /\ cur = i

VerdictInv ==
  /\ OwnWords
  /\ WaitInv
  /\ EarnedInv
  /\ MarkInv
  /\ RepliesInv
  /\ ArgsInv
  /\ OpenInv
  /\ GoneInv
  /\ AckedInv
  /\ ReplyIsMine
  /\ RunsAsSent

-----------------------------------------------------------------------------
\* The classes of codes, as the steps below use them.
LEMMA CodeClasses ==
  /\ Commands \cap Queries = {} /\ Funcodes = Commands \cup Queries
  /\ Queries = ShortQuery \cup LongQuery /\ ShortQuery \cap LongQuery = {}
  /\ ShortQuery \cap EarlyAck = {} /\ LongQuery \subseteq EarlyAck
  /\ WithArgs \subseteq Commands
  BY MailboxAssumption DEF MailboxAssumption, Commands, Queries, Funcodes

\* Every send number is that of a function code, and the thread's is one.
LEMMA SentCodes ==
  ASSUME OrderInv
  PROVE  /\ Len(sent) \in 0 .. MaxSends
         /\ \A i \in 1 .. Len(sent) : sent[i] \in Funcodes /\ i \in Ids
         /\ Busy => cur \in 1 .. Len(sent)
         /\ \A c \in Clients : pc[c] # "idle" => Len(sent) \in Ids
  BY MailboxAssumption DEF OrderInv, TypeOK, HostTypeOK, FirmwareTypeOK, Ids,
     KnownInv, RunInv, MutexInv, MailboxAssumption

\* What is left of the replies when the first is delivered.
LEMMA TailElements ==
  ASSUME NEW S, NEW q \in Seq(S), q # << >>
  PROVE  \A k \in 1 .. Len(Tail(q)) : k + 1 \in 1 .. Len(q) /\ Tail(q)[k] = q[k + 1]
  OBVIOUS

\* At most one client is inside the driver.
LEMMA OneInside ==
  ASSUME OrderInv, NEW c \in Clients, NEW d \in Clients,
         pc[c] # "idle", pc[d] # "idle"
  PROVE  c = d
  BY DEF OrderInv, MutexInv

\* Nothing has been sent: the invariant holds at the start.
LEMMA InitVerdictInv == Init => VerdictInv
  <1> SUFFICES ASSUME Init PROVE VerdictInv
    OBVIOUS
  <1> USE DEF Init
  <1>1. OwnWords /\ WaitInv /\ MarkInv /\ RepliesInv /\ ArgsInv
    BY DEF OwnWords, WaitInv, MarkInv, RepliesInv, ArgsInv, Waiting
  <1>2. EarnedInv /\ OpenInv /\ AckedInv
    BY DEF EarnedInv, OpenInv, AckedInv, AfterRun, Ids
  <1>3. GoneInv /\ ReplyIsMine /\ RunsAsSent
    BY DEF GoneInv, Written, NeverAgain, Gone, Busy, Live, NoWord, ReplyIsMine,
           RunsAsSent, Ids
  <1> QED BY <1>1, <1>2, <1>3 DEF VerdictInv

\* A send that can no longer be taken stays so, whatever step is taken, until
\* its sender writes it.
LEMMA NeverAgainStays ==
  ASSUME OrderInv, NEW i \in Ids, NeverAgain(i), Next,
         \A c \in Clients : SetCommand(c) => Last # i
  PROVE  NeverAgain(i)'
  <1> USE DEF NeverAgain, Gone, Busy
  <1>0. /\ command \in [id : 0 .. MaxSends, new : BOOLEAN, ack : BOOLEAN]
        /\ reg \in [id : 0 .. MaxSends, new : BOOLEAN, ack : BOOLEAN]
        /\ lreg \in [id : 0 .. MaxSends, new : BOOLEAN, ack : BOOLEAN]
    BY DEF OrderInv, TypeOK, RegisterTypeOK, FirmwareTypeOK, LocalTypeOK, Word
  <1>1. CASE UNCHANGED <<command, fpc, reg, cur>>
    BY <1>1 DEF Live
  <1>2. ASSUME NEW c \in Clients, SetCommand(c) PROVE NeverAgain(i)'
    BY <1>2 DEF SetCommand, firmware, Live
  <1>3. ASSUME MboxThread PROVE NeverAgain(i)'
    BY <1>0, <1>3
    DEF MboxThread, ReadCommand, ClearNew, Dispatch, Nack, Load, StoreAck,
        RunHandler, StoreFlag, FwGoto, Live
  <1>4. ASSUME LocalAckStore PROVE NeverAgain(i)'
    BY <1>0, <1>4 DEF LocalAckStore, firmware, Live
  <1>5. ASSUME NEW c \in Clients,
               HostStep(c) \/ (\E f \in Funcodes : MutexDown(c, f)),
               ~ SetCommand(c)
        PROVE  UNCHANGED <<command, fpc, reg, cur>>
    BY <1>5 DEF HostStep, MutexDown, SetArgs, PollAck, GetArgs, PollTimeout,
                AuxTimeout, firmware
  <1>6. ASSUME DeliverReply \/ LocalAckLoad
        PROVE  UNCHANGED <<command, fpc, reg, cur>>
    BY <1>6 DEF DeliverReply, LocalAckLoad, firmware
  <1> QED BY <1>1, <1>2, <1>3, <1>4, <1>5, <1>6 DEF Next, MainThread

\* Steps other than the senders' writes keep what is known of the words gone.
LEMMA GoneStays ==
  ASSUME OrderInv, VerdictInv, Next,
         \A i \in Ids : outcome'[i] = "timedout" /\ outcome[i] # "timedout" =>
           runs'[i] = 0 /\ NeverAgain(i)',
         \A i \in Ids : outcome[i] = "timedout" => runs'[i] = runs[i],
         \A c \in Clients : ~ SetCommand(c),
         \A j \in Ids : Written(j)' => Written(j),
         crossed \subseteq crossed'
  PROVE  GoneInv'
  <1>1. \A i \in Ids : NeverAgain(i) => NeverAgain(i)'
    BY NeverAgainStays
  <1> QED BY <1>1 DEF VerdictInv, GoneInv

\* What the verdicts say stays true while nothing is sent, run or answered.
LEMMA VerdictsStay ==
  ASSUME VerdictInv, UNCHANGED <<sent, outcome, answer, runs, used>>,
         crossed \subseteq crossed'
  PROVE  ReplyIsMine' /\ RunsAsSent'
  BY DEF VerdictInv, ReplyIsMine, RunsAsSent

-----------------------------------------------------------------------------
(* Steps of the host.                                                      *)

\* A client taking the mutex keeps the invariant.
LEMMA MutexDownVerdict ==
  ASSUME OrderInv, VerdictInv, NEW c \in Clients, NEW f \in Funcodes,
         MutexDown(c, f)
  PROVE  VerdictInv'
  <1> USE DEF MutexDown, Goto, Last
  <1>1. sent \in Seq(Funcodes) /\ sent' = Append(sent, f) /\ Len(sent) < MaxSends
    BY DEF OrderInv, TypeOK, HostTypeOK
  <1>2. /\ Len(sent') = Len(sent) + 1 /\ Len(sent) \in Nat
        /\ \A i \in 1 .. Len(sent) : sent'[i] = sent[i]
        /\ sent'[Len(sent')] = f
        /\ Len(sent') \in Ids
    BY <1>1, MailboxAssumption DEF Ids, MailboxAssumption
  <1>3. /\ \A d \in Clients : pc[d] = "idle"
        /\ \A d \in Clients : ~ Waiting(d)'
        /\ \A d \in Clients : pc'[d] \notin {"aux", "poll", "fetch"}
        /\ \A d \in Clients : pc'[d] = "command" => f \notin WithArgs
        /\ Unwritten(c)' /\ pc'[c] # "idle"
    BY MailboxAssumption DEF OrderInv, TypeOK, HostTypeOK, MutexInv, Waiting,
                             Unwritten, MailboxAssumption
  <1>4. UNCHANGED <<outcome, answer, command, args, replies, fpc, reg, cur, runs,
                    used, lpc, lreg, crossed>>
    BY DEF firmware, local
  <1>5. \A i \in 1 .. Len(sent) : i \in Ids
    BY SentCodes
  <1>6. OwnWords' /\ WaitInv' /\ MarkInv' /\ RepliesInv'
    BY <1>3, <1>4 DEF VerdictInv, OwnWords, WaitInv, MarkInv, RepliesInv
  <1>7. EarnedInv' /\ ArgsInv'
    BY <1>2, <1>3, <1>4, SentCodes
    DEF VerdictInv, EarnedInv, ArgsInv, AfterRun, Busy
  <1>8. OpenInv'
    <2>1. \A i \in Ids : i > Len(sent) => outcome[i] = "open"
      BY DEF VerdictInv, OpenInv
    <2>2. \A i \in 1 .. Len(sent) : outcome[i] # "open"
      BY <1>3 DEF VerdictInv, OpenInv
    <2> QED BY <2>1, <2>2, <1>2, <1>3, <1>4 DEF OpenInv, Ids
  <1>9. GoneInv'
    <2>1. \A j \in Ids : Written(j)' => Written(j)
      BY <1>2, <1>3 DEF Written, Unwritten
    <2>2. \A d \in Clients : ~ SetCommand(d)
      BY <1>3 DEF SetCommand
    <2> QED BY <1>4, <2>1, <2>2, GoneStays DEF Next
  <1>10. outcome[Len(sent')] = "open" /\ ~ (runs[Len(sent')] > 0)
    BY <1>2 DEF VerdictInv, OpenInv, OrderInv, TypeOK, FirmwareTypeOK, RunInv,
                KnownInv
  <1>11. AckedInv'
    <2>1. \A i \in Ids : outcome[i] = "ok" => i \in 1 .. Len(sent)
      BY <1>2 DEF VerdictInv, OpenInv, Ids
    <2> QED BY <1>2, <1>4, <2>1 DEF VerdictInv, AckedInv
  <1>12. ReplyIsMine' /\ RunsAsSent'
    BY <1>2, <1>4, <1>10 DEF VerdictInv, ReplyIsMine, RunsAsSent
  <1> QED BY <1>6, <1>7, <1>8, <1>9, <1>11, <1>12 DEF VerdictInv

\* The three stores of a send keep the invariant.
LEMMA SetArgsVerdict ==
  ASSUME OrderInv, VerdictInv, NEW c \in Clients, SetArgs(c)
  PROVE  VerdictInv'
  <1> USE DEF SetArgs, Goto, Last
  <1>1. UNCHANGED <<sent, outcome, answer, command, replies, fpc, reg, cur, runs,
                    used, lpc, lreg>>
    BY DEF firmware, local
  <1>2. /\ pc[c] = "args" /\ pc'[c] = "command"
        /\ \A d \in Clients \ {c} : pc[d] = "idle" /\ pc'[d] = "idle"
        /\ \A d \in Clients : ~ Waiting(d)'
    BY OneInside DEF OrderInv, TypeOK, HostTypeOK, Waiting
  <1>3. /\ crossed \subseteq crossed'
        /\ Len(sent) \notin crossed' => ~ Busy /\ ~ Live(command)
    BY DEF Cross
  <1>4. OwnWords' /\ WaitInv' /\ MarkInv' /\ RepliesInv'
    BY <1>1, <1>2 DEF VerdictInv, OwnWords, WaitInv, MarkInv, RepliesInv, Waiting
  <1>5. EarnedInv' /\ AckedInv'
    BY <1>1, <1>2, <1>3 DEF VerdictInv, EarnedInv, AckedInv
  <1>6. ArgsInv'
    BY <1>1, <1>2, <1>3 DEF ArgsInv, Busy
  <1>7. OpenInv'
    BY <1>1, <1>2 DEF VerdictInv, OpenInv
  <1>8. GoneInv'
    <2>1. \A j \in Ids : Written(j)' => Written(j)
      BY <1>1, <1>2 DEF Written, Unwritten
    <2>2. \A d \in Clients : ~ SetCommand(d)
      BY <1>2 DEF SetCommand
    <2> QED BY <1>1, <1>3, <2>1, <2>2, GoneStays DEF Next, HostStep
  <1> QED BY <1>1, <1>3, <1>4, <1>5, <1>6, <1>7, <1>8, VerdictsStay DEF VerdictInv

LEMMA SetCommandVerdict ==
  ASSUME OrderInv, VerdictInv, NEW c \in Clients, SetCommand(c)
  PROVE  VerdictInv'
  <1> USE DEF SetCommand, Goto, Last
  <1>1. /\ UNCHANGED <<sent, outcome, answer, args, replies, fpc, reg, cur, runs,
                       used, lpc, lreg>>
        /\ command' = [id |-> Len(sent), new |-> TRUE, ack |-> FALSE]
    BY DEF firmware, local
  <1>2. /\ pc[c] = "command"
        /\ pc'[c] = IF sent[Len(sent)] \in LongQuery THEN "aux" ELSE "poll"
        /\ \A d \in Clients \ {c} : pc[d] = "idle" /\ pc'[d] = "idle"
    BY OneInside DEF OrderInv, TypeOK, HostTypeOK
  <1>3. /\ crossed \subseteq crossed'
        /\ Len(sent) \notin crossed' =>
             /\ ~ Busy
             /\ lpc # "store"
             /\ sent[Len(sent)] \in LongQuery => replies = << >>
    BY DEF Cross, InTheWay
  <1>4. Len(sent) \in Ids /\ cur < Len(sent) /\ runs[Len(sent)] = 0
    <2>1. Len(sent) \in Ids /\ cur < Len(sent)
      BY <1>2, SentCodes DEF OrderInv, FreshInv, Unwritten
    <2>2. ~ (runs[Len(sent)] > 0) /\ runs[Len(sent)] \in 0 .. 1
      BY <2>1 DEF OrderInv, TypeOK, FirmwareTypeOK, RunInv, Ids
    <2> QED BY <2>1, <2>2
  <1>5. OwnWords' /\ WaitInv'
    BY <1>1, <1>2, <1>3 DEF OwnWords, WaitInv, Waiting, Busy, Storing
  <1>6. EarnedInv' /\ MarkInv' /\ RepliesInv'
    <2>1. \A d \in Clients : pc'[d] \in {"poll", "fetch", "aux"} =>
                               d = c /\ pc'[d] # "fetch"
      BY <1>2
    <2> QED BY <1>1, <1>2, <1>3, <1>4, <2>1
            DEF VerdictInv, EarnedInv, MarkInv, RepliesInv
  <1>7. ArgsInv' /\ OpenInv'
    BY <1>1, <1>2, <1>3, <1>4 DEF VerdictInv, ArgsInv, OpenInv
  <1>8. AckedInv'
    BY <1>1, <1>3 DEF VerdictInv, AckedInv
  <1>9. GoneInv'
    <2>1. \A i \in Ids : i # Len(sent) /\ NeverAgain(i) => NeverAgain(i)'
      BY NeverAgainStays DEF Next, HostStep
    <2>2. outcome[Len(sent)] # "timedout"
      BY <1>2 DEF VerdictInv, OpenInv
    <2>3. \A j \in Ids : Written(j)' => Written(j) \/ j = Len(sent)
      BY <1>1, <1>2 DEF Written
    <2>4. Len(sent) \notin crossed' =>
            \A i \in Ids : i < Len(sent) => NeverAgain(i)'
      BY <1>1, <1>3 DEF NeverAgain, Gone, Busy
    <2>5. \A i, j \in Ids : Written(j)' /\ j > i => i # Len(sent)
      BY <1>1, SentCodes DEF Written, Ids
    <2> QED BY <1>1, <1>3, <2>1, <2>2, <2>3, <2>4, <2>5 DEF VerdictInv, GoneInv
  <1> QED BY <1>1, <1>3, <1>5, <1>6, <1>7, <1>8, <1>9, VerdictsStay DEF VerdictInv

\* A client that returns with a verdict the card's state bears out keeps it.
LEMMA FinishVerdict ==
  ASSUME OrderInv, VerdictInv, Next,
         NEW c \in Clients, NEW from \in {"poll", "fetch", "aux"},
         NEW verdict \in {"ok", "timedout", "early"}, Finish(c, from, verdict),
         UNCHANGED <<sent, command, args, firmware, local, crossed>>,
         replies' = replies \/ (replies # << >> /\ replies' = Tail(replies)),
         \A i \in Ids : i # Len(sent) => answer'[i] = answer[i],
         verdict = "ok" /\ Len(sent) \notin crossed =>
           \/ runs[Len(sent)] = 1
           \/ sent[Len(sent)] \in EarlyAck /\ fpc = "run" /\ cur = Len(sent),
         verdict = "ok" /\ Len(sent) \notin crossed /\ sent[Len(sent)] \in Queries =>
           answer'[Len(sent)] = [id |-> Len(sent), reply |-> TRUE],
         verdict = "timedout" => runs[Len(sent)] = 0 /\ NeverAgain(Len(sent))
  PROVE  VerdictInv'
  <1> USE DEF Finish, Goto, Last
  <1>1. UNCHANGED <<fpc, reg, cur, runs, used, lpc, lreg>>
    BY DEF firmware, local
  <1>2. /\ pc[c] = from
        /\ \A d \in Clients : pc'[d] = "idle" /\ ~ Waiting(d)'
        /\ Len(sent) \in Ids
    BY OneInside, SentCodes DEF OrderInv, TypeOK, HostTypeOK, Waiting
  <1>3. /\ outcome'[Len(sent)] = verdict
        /\ \A i \in Ids : i # Len(sent) => outcome'[i] = outcome[i]
        /\ outcome[Len(sent)] = "open"
    BY <1>2 DEF OrderInv, TypeOK, HostTypeOK, VerdictInv, OpenInv
  <1>4. OwnWords' /\ WaitInv' /\ MarkInv' /\ ArgsInv'
    BY <1>2 DEF OwnWords, WaitInv, MarkInv, ArgsInv
  <1>5. EarnedInv'
    BY <1>1, <1>2 DEF VerdictInv, EarnedInv
  <1>6. RepliesInv'
    <2>1. replies \in Seq(Ids)
      BY DEF OrderInv, TypeOK, RegisterTypeOK
    <2>2. \A k \in 1 .. Len(replies) : runs[replies[k]] = 1
      BY DEF VerdictInv, RepliesInv
    <2>3. CASE replies' = replies
      BY <1>1, <1>2, <2>2, <2>3 DEF RepliesInv
    <2>4. CASE replies # << >> /\ replies' = Tail(replies)
      <3>1. \A k \in 1 .. Len(replies') : runs[replies'[k]] = 1
        BY <2>1, <2>2, <2>4, TailElements
      <3> QED BY <1>1, <1>2, <3>1 DEF RepliesInv
    <2> QED BY <2>3, <2>4
  <1>7. OpenInv'
    BY <1>2, <1>3, SentCodes DEF VerdictInv, OpenInv
  <1>8. GoneInv'
    <2>1. \A j \in Ids : Written(j)' => Written(j)
      BY <1>2 DEF Written, Unwritten
    <2>2. \A d \in Clients : ~ SetCommand(d)
      BY <1>2, OneInside DEF SetCommand
    <2>3. \A i \in Ids : outcome'[i] = "timedout" /\ outcome[i] # "timedout" =>
            i = Len(sent) /\ verdict = "timedout"
      BY <1>3
    <2>4. NeverAgain(Len(sent)) => NeverAgain(Len(sent))'
      BY <1>1 DEF NeverAgain, Gone, Busy
    <2> QED BY <1>1, <1>3, <2>1, <2>2, <2>3, <2>4, GoneStays
  <1>9. AckedInv'
    BY <1>1, <1>3 DEF VerdictInv, AckedInv
  <1>10. ReplyIsMine'
    <2> SUFFICES ASSUME NEW i \in 1 .. Len(sent), i \notin crossed,
                        outcome'[i] = "ok", sent[i] \in Queries
                 PROVE  answer'[i] = [id |-> i, reply |-> TRUE]
      BY DEF ReplyIsMine
    <2>1. i \in Ids
      BY SentCodes
    <2>2. CASE i = Len(sent)
      BY <1>3, <2>2
    <2>3. CASE i # Len(sent)
      BY <1>3, <2>1, <2>3 DEF VerdictInv, ReplyIsMine
    <2> QED BY <2>2, <2>3
  <1>11. RunsAsSent'
    BY <1>1, <1>2, <1>3, SentCodes DEF VerdictInv, RunsAsSent
  <1> QED BY <1>4, <1>5, <1>6, <1>7, <1>8, <1>9, <1>10, <1>11 DEF VerdictInv

\* The poll finds ACK, the reply is read, the caller gives up.
LEMMA WaitingVerdict ==
  ASSUME OrderInv, VerdictInv, NEW c \in Clients,
         PollAck(c) \/ GetArgs(c) \/ PollTimeout(c) \/ AuxTimeout(c)
  PROVE  VerdictInv'
  <1> USE DEF Last
  <1>0. Next /\ UNCHANGED <<sent, replies>>
    BY DEF Next, HostStep, PollAck, GetArgs, PollTimeout, AuxTimeout
  <1>1. /\ \A i \in 1 .. Len(sent) : sent[i] \in Funcodes /\ i \in Ids
        /\ pc[c] # "idle" => Len(sent) \in Ids /\ Len(sent) \in 1 .. Len(sent)
    BY SentCodes DEF OrderInv, MutexInv
  <1>2. ASSUME PollAck(c) PROVE VerdictInv'
    <2> USE <1>2 DEF PollAck
    <2>1. /\ pc[c] = "poll" /\ command.ack
          /\ Len(sent) \notin crossed =>
               \/ runs[Len(sent)] = 1
               \/ sent[Len(sent)] \in EarlyAck /\ fpc = "run" /\ cur = Len(sent)
      <3>1. Len(sent) \notin crossed /\ fpc = "run" => cur = Len(sent)
        BY DEF VerdictInv, OwnWords, Waiting, Busy
      <3> QED BY <3>1 DEF VerdictInv, EarnedInv
    <2>2. CASE sent[Last] \in Commands /\ Finish(c, "poll", "ok")
      <3>1. sent[Len(sent)] \notin Queries
        BY <2>2, CodeClasses
      <3> QED BY <1>0, <2>1, <2>2, <3>1, FinishVerdict
    <2>3. CASE /\ sent[Last] \in Queries
               /\ Goto(c, "poll", "fetch")
               /\ UNCHANGED <<mutex, outcome>>
      <3>1. /\ \A d \in Clients \ {c} : pc[d] = "idle" /\ pc'[d] = "idle"
            /\ pc'[c] = "fetch"
            /\ UNCHANGED <<answer, command, args, fpc, reg, cur, runs, used, lpc,
                           lreg, crossed>>
        BY <2>1, <2>3, OneInside
        DEF Goto, OrderInv, TypeOK, HostTypeOK, firmware, local
      <3>2. /\ sent[Len(sent)] \in ShortQuery
            /\ Len(sent) \notin crossed => runs[Len(sent)] = 1
        BY <2>1, <2>3, CodeClasses DEF VerdictInv, WaitInv
      <3>3. OwnWords' /\ WaitInv' /\ MarkInv' /\ RepliesInv'
        BY <1>0, <2>1, <3>1, <3>2
        DEF VerdictInv, OwnWords, WaitInv, MarkInv, RepliesInv, Waiting, Busy
      <3>4. EarnedInv' /\ AckedInv'
        BY <1>0, <2>3, <3>1, <3>2 DEF VerdictInv, EarnedInv, AckedInv
      <3>5. ArgsInv' /\ OpenInv'
        BY <1>0, <2>1, <2>3, <3>1 DEF VerdictInv, ArgsInv, OpenInv, Busy
      <3>6. GoneInv'
        <4>1. \A j \in Ids : Written(j)' => Written(j)
          BY <1>0, <2>1, <3>1 DEF Written, Unwritten
        <4>2. \A d \in Clients : ~ SetCommand(d)
          BY <2>1, <3>1 DEF SetCommand, Goto
        <4> QED BY <1>0, <2>3, <3>1, <4>1, <4>2, GoneStays
      <3> QED BY <1>0, <2>3, <3>1, <3>3, <3>4, <3>5, <3>6, VerdictsStay
              DEF VerdictInv
    <2> QED BY <2>2, <2>3
  <1>3. ASSUME GetArgs(c) PROVE VerdictInv'
    <2>1. /\ pc[c] = "fetch" /\ Finish(c, "fetch", "ok")
          /\ UNCHANGED <<command, args, firmware, local, crossed>>
          /\ answer' = [answer EXCEPT ![Len(sent)] = args]
      BY <1>3 DEF GetArgs, Finish, Goto
    <2>2. Len(sent) \notin crossed =>
            runs[Len(sent)] = 1 /\ args = [id |-> Len(sent), reply |-> TRUE]
      BY <2>1 DEF VerdictInv, EarnedInv, WaitInv, ArgsInv
    <2>3. /\ answer'[Len(sent)] = args
          /\ \A i \in Ids : i # Len(sent) => answer'[i] = answer[i]
      BY <1>1, <2>1 DEF OrderInv, TypeOK, HostTypeOK
    <2> QED BY <1>0, <2>1, <2>2, <2>3, FinishVerdict
  \* Giving up when the card has settled: its handler would have left a mark.
  <1>4. ASSUME NEW from \in {"poll", "aux"}, GiveUp(c, from),
               from = "poll" => ~ command.ack,
               UNCHANGED <<sent, answer, command, args, replies, firmware, local,
                           crossed>>
        PROVE  VerdictInv'
    <2>1. CASE Settled /\ Finish(c, from, "timedout")
      <3>1. pc[c] = from /\ Len(sent) \in Ids
        BY <1>1, <2>1 DEF Finish, Goto
      <3>2. runs[Len(sent)] \in 0 .. 1 /\ runs[Len(sent)] # 1
        BY <1>4, <2>1, <3>1
        DEF Settled, VerdictInv, MarkInv, OrderInv, TypeOK, FirmwareTypeOK
      <3>3. NeverAgain(Len(sent))
        BY <2>1 DEF Settled, NeverAgain, Gone, Busy
      <3> QED BY <1>0, <1>4, <2>1, <3>2, <3>3, FinishVerdict
    <2>2. CASE Finish(c, from, "early")
      BY <1>0, <1>4, <2>2, FinishVerdict
    <2> QED BY <1>4, <2>1, <2>2 DEF GiveUp
  <1>5. ASSUME PollTimeout(c) PROVE VerdictInv'
    BY <1>4, <1>5 DEF PollTimeout
  <1>6. ASSUME AuxTimeout(c) PROVE VerdictInv'
    BY <1>4, <1>6 DEF AuxTimeout
  <1> QED BY <1>2, <1>3, <1>5, <1>6

\* The bottom half delivering or discarding a reply.
LEMMA DeliverVerdict ==
  ASSUME OrderInv, VerdictInv, DeliverReply
  PROVE  VerdictInv'
  <1> USE DEF DeliverReply, Last
  <1>0. /\ Next /\ replies \in Seq(Ids) /\ replies # << >>
        /\ Head(replies) = replies[1] /\ 1 \in 1 .. Len(replies)
    BY DEF Next, OrderInv, TypeOK, RegisterTypeOK
  <1>1. ASSUME NEW c \in Clients, Finish(c, "aux", "ok"),
               answer' = [answer EXCEPT ![Last] =
                            [id |-> Head(replies), reply |-> TRUE]]
        PROVE  VerdictInv'
    <2>1. pc[c] = "aux" /\ Len(sent) \in Ids
      BY <1>1, SentCodes DEF Finish, Goto
    <2>2. Len(sent) \notin crossed => replies[1] = Len(sent) /\ runs[replies[1]] = 1
      BY <1>0, <2>1 DEF VerdictInv, RepliesInv
    <2>3. /\ answer'[Len(sent)] = [id |-> replies[1], reply |-> TRUE]
          /\ \A i \in Ids : i # Len(sent) => answer'[i] = answer[i]
      BY <1>0, <1>1, <2>1 DEF OrderInv, TypeOK, HostTypeOK
    <2> QED BY <1>0, <1>1, <2>2, <2>3, FinishVerdict
  <1>2. CASE /\ \A c \in Clients : pc[c] # "aux"
             /\ UNCHANGED <<mutex, pc, outcome, answer>>
    <2>1. UNCHANGED <<sent, command, args, fpc, reg, cur, runs, used, lpc, lreg,
                      crossed>>
      BY DEF firmware, local
    <2>2. RepliesInv'
      <3>1. \A k \in 1 .. Len(replies') : runs[replies'[k]] = 1
        BY <1>0, TailElements DEF VerdictInv, RepliesInv
      <3> QED BY <1>2, <2>1, <3>1 DEF RepliesInv
    <2>3. OwnWords' /\ WaitInv' /\ EarnedInv' /\ MarkInv' /\ ArgsInv' /\ OpenInv'
      BY <1>2, <2>1 DEF VerdictInv, OwnWords, WaitInv, EarnedInv, MarkInv, ArgsInv,
                        OpenInv, Waiting, Busy
    <2>4. AckedInv'
      BY <1>2, <2>1 DEF VerdictInv, AckedInv
    <2>5. GoneInv'
      <3>1. \A j \in Ids : Written(j)' => Written(j)
        BY <1>2, <2>1 DEF Written, Unwritten
      <3>2. \A d \in Clients : SetCommand(d) => pc'[d] # pc[d]
        BY DEF SetCommand, Goto, OrderInv, TypeOK, HostTypeOK
      <3> QED BY <1>0, <1>2, <2>1, <3>1, <3>2, GoneStays
    <2> QED BY <1>2, <2>1, <2>2, <2>3, <2>4, <2>5, VerdictsStay DEF VerdictInv
  <1> QED BY <1>1, <1>2

-----------------------------------------------------------------------------
(* Steps of the card.                                                      *)

\* What a step of the card that runs no handler need not be asked about.
LEMMA CardStill ==
  ASSUME OrderInv, VerdictInv, Next,
         UNCHANGED <<pc, sent, outcome, answer, args, replies, runs, used>>,
         crossed \subseteq crossed'
  PROVE  WaitInv' /\ RepliesInv' /\ OpenInv' /\ GoneInv' /\ ReplyIsMine'
         /\ RunsAsSent'
  <1>1. WaitInv' /\ RepliesInv' /\ OpenInv'
    BY DEF VerdictInv, WaitInv, RepliesInv, OpenInv, Last
  <1>2. GoneInv'
    <2>1. \A j \in Ids : Written(j)' => Written(j)
      BY DEF Written, Unwritten, Last
    <2>2. \A d \in Clients : SetCommand(d) => pc'[d] # pc[d]
      BY DEF SetCommand, Goto, OrderInv, TypeOK, HostTypeOK
    <2> QED BY <2>1, <2>2, GoneStays
  <1> QED BY <1>1, <1>2, VerdictsStay

\* A step of the mailbox thread keeps the invariant.
LEMMA ThreadVerdict ==
  ASSUME OrderInv, VerdictInv, MboxThread, ~ RunHandler
  PROVE  VerdictInv'
  <1> USE DEF Last
  <1>1. /\ Next
        /\ UNCHANGED <<pc, sent, outcome, answer, args, replies, runs, used, lpc,
                       lreg, crossed>>
    BY DEF Next, MboxThread, ReadCommand, ClearNew, Dispatch, Nack, Load, StoreAck,
           StoreFlag, host, local
  <1>2. /\ WaitInv' /\ RepliesInv' /\ OpenInv' /\ GoneInv' /\ ReplyIsMine'
        /\ RunsAsSent'
    BY <1>1, CardStill
  <1> SUFFICES OwnWords' /\ EarnedInv' /\ MarkInv' /\ ArgsInv' /\ AckedInv'
    BY <1>2 DEF VerdictInv
  <1>3. /\ command \in [id : 0 .. MaxSends, new : BOOLEAN, ack : BOOLEAN]
        /\ reg \in [id : 0 .. MaxSends, new : BOOLEAN, ack : BOOLEAN]
    BY DEF OrderInv, TypeOK, RegisterTypeOK, FirmwareTypeOK, Word
  <1>4. CASE UNCHANGED <<fpc, reg, cur, command>>
    BY <1>1, <1>4 DEF VerdictInv, OwnWords, EarnedInv, MarkInv, ArgsInv, AckedInv,
                      Waiting, Busy
  <1>5. ASSUME ReadCommand, Live(command)
        PROVE  OwnWords' /\ EarnedInv' /\ MarkInv' /\ ArgsInv' /\ AckedInv'
    <2>1. /\ fpc = "read" /\ fpc' = "clear" /\ reg' = command
          /\ cur' = command.id /\ UNCHANGED command
      BY <1>5 DEF ReadCommand
    <2> QED BY <1>1, <1>5, <2>1
            DEF VerdictInv, OwnWords, EarnedInv, MarkInv, ArgsInv, AckedInv, Waiting,
                Busy, Live, AfterRun, Storing
  <1>6. ASSUME ClearNew
        PROVE  OwnWords' /\ EarnedInv' /\ MarkInv' /\ ArgsInv' /\ AckedInv'
    <2>1. /\ fpc = "clear" /\ fpc' = "dispatch" /\ ~ reg.ack
          /\ command'.id = reg.id /\ command'.ack = reg.ack /\ UNCHANGED <<reg, cur>>
      BY <1>3, <1>6 DEF ClearNew, FwGoto, VerdictInv, EarnedInv
    <2> QED BY <1>1, <2>1
            DEF VerdictInv, OwnWords, EarnedInv, MarkInv, ArgsInv, AckedInv, Waiting,
                Busy, AfterRun, Storing
  <1>7. ASSUME NEW longOk \in BOOLEAN, Dispatch(longOk) \/ Nack(longOk)
        PROVE  OwnWords' /\ EarnedInv' /\ MarkInv' /\ ArgsInv' /\ AckedInv'
    <2>1. /\ fpc = "dispatch" /\ fpc' \in {"earlyload", "run", "read"}
          /\ fpc' = "earlyload" => sent[cur] \in EarlyAck
          /\ UNCHANGED <<command, reg, cur>>
      BY <1>7 DEF Dispatch, Nack, FwGoto
    <2>2. \A c \in Clients : pc[c] # "idle" => runs[Len(sent)] # 1
      BY <2>1, SentCodes DEF OrderInv, KnownInv, RunInv, BeforeRun, Busy, TypeOK,
                             FirmwareTypeOK
    <2> QED BY <1>1, <2>1, <2>2
            DEF VerdictInv, OwnWords, EarnedInv, MarkInv, ArgsInv, AckedInv, Waiting,
                Busy, AfterRun, Storing
  <1>8. ASSUME NEW from, NEW to, Load(from, to),
               <<from, to>> \in {<<"earlyload", "earlystore">>,
                                 <<"flagload", "flagstore">>,
                                 <<"ackload", "ackstore">>}
        PROVE  OwnWords' /\ EarnedInv' /\ MarkInv' /\ ArgsInv' /\ AckedInv'
    <2>1. /\ fpc = from /\ fpc' = to /\ reg' = command /\ UNCHANGED <<command, cur>>
      BY <1>8 DEF Load, FwGoto
    <2> QED BY <1>1, <1>8, <2>1
            DEF VerdictInv, OwnWords, EarnedInv, MarkInv, ArgsInv, AckedInv, Waiting,
                Busy, AfterRun, Storing
  <1>9. ASSUME StoreAck("earlystore", "run")
        PROVE  OwnWords' /\ EarnedInv' /\ MarkInv' /\ ArgsInv' /\ AckedInv'
    <2>1. /\ fpc = "earlystore" /\ fpc' = "run" /\ sent[cur] \in EarlyAck
          /\ command'.id = reg.id /\ UNCHANGED <<reg, cur>>
      BY <1>3, <1>9 DEF StoreAck, FwGoto, VerdictInv, EarnedInv
    <2> QED BY <1>1, <2>1
            DEF VerdictInv, OwnWords, EarnedInv, MarkInv, ArgsInv, AckedInv, Waiting,
                Busy, AfterRun, Storing
  <1>10. ASSUME StoreAck("ackstore", "read")
         PROVE  OwnWords' /\ EarnedInv' /\ MarkInv' /\ ArgsInv' /\ AckedInv'
    <2>1. /\ fpc = "ackstore" /\ fpc' = "read" /\ runs[cur] = 1
          /\ command'.id = reg.id /\ command'.ack /\ UNCHANGED <<reg, cur>>
      BY <1>3, <1>10 DEF StoreAck, FwGoto, VerdictInv, EarnedInv, AfterRun
    <2> QED BY <1>1, <2>1
            DEF VerdictInv, OwnWords, EarnedInv, MarkInv, ArgsInv, AckedInv, Waiting,
                Busy, AfterRun, Storing, Live
  <1>11. ASSUME StoreFlag
         PROVE  OwnWords' /\ EarnedInv' /\ MarkInv' /\ ArgsInv' /\ AckedInv'
    <2>1. /\ fpc = "flagstore" /\ fpc' = "ackload" /\ runs[cur] = 1
          /\ command' = reg /\ UNCHANGED <<reg, cur>>
      BY <1>11 DEF StoreFlag, FwGoto, VerdictInv, EarnedInv, AfterRun
    <2> QED BY <1>1, <2>1
            DEF VerdictInv, OwnWords, EarnedInv, MarkInv, ArgsInv, AckedInv, Waiting,
                Busy, AfterRun, Storing
  <1> QED BY <1>4, <1>5, <1>6, <1>7, <1>8, <1>9, <1>10, <1>11
          DEF MboxThread, ReadCommand

\* The handler: of a send that was not crossed and whose sender still waits, it
\* sees its own word and arguments.
LEMMA RunVerdict ==
  ASSUME OrderInv, VerdictInv, RunHandler
  PROVE  VerdictInv'
  <1> USE DEF Last
  <1>1. /\ Next
        /\ UNCHANGED <<pc, sent, outcome, answer, command, reg, cur, lpc, lreg,
                       crossed>>
        /\ fpc = "run" /\ fpc' \in {"ackload", "flagload"} /\ Busy /\ Busy'
    BY DEF Next, MboxThread, RunHandler, FwGoto, Busy, host, local
  <1>2. /\ cur \in 1 .. Len(sent) /\ cur \in Ids /\ runs[cur] = 0
        /\ \A i \in 1 .. Len(sent) : sent[i] \in Funcodes /\ i \in Ids
    BY <1>1, SentCodes DEF OrderInv, RunInv, BeforeRun
  <1>3. /\ runs'[cur] = 1 /\ used'[cur] = [id |-> command.id, args |-> args]
        /\ \A i \in Ids : i # cur => runs'[i] = runs[i] /\ used'[i] = used[i]
    BY <1>2 DEF RunHandler, OrderInv, TypeOK, FirmwareTypeOK
  <1>4. /\ sent[cur] \in Commands => args' = args /\ replies' = replies
        /\ sent[cur] \in ShortQuery =>
             args' = [id |-> cur, reply |-> TRUE] /\ replies' = replies
        /\ sent[cur] \in LongQuery =>
             args' = args /\ replies' = Append(replies, cur)
        /\ sent[cur] \in Commands \cup ShortQuery \cup LongQuery
    BY <1>2, CodeClasses DEF RunHandler
  <1>5. /\ replies \in Seq(Ids)
        /\ replies' \in {replies, Append(replies, cur)}
    BY <1>4 DEF OrderInv, TypeOK, RegisterTypeOK
  <1>6. \A c \in Clients : pc[c] # "idle" => Len(sent) \in Ids
    BY SentCodes
  <1>7. OwnWords' /\ WaitInv' /\ OpenInv'
    BY <1>1 DEF VerdictInv, OwnWords, WaitInv, OpenInv, Waiting, Storing
  <1>8. EarnedInv' /\ AckedInv'
    BY <1>1, <1>2, <1>3, <1>6
    DEF VerdictInv, EarnedInv, AckedInv, OwnWords, Waiting, AfterRun
  <1>9. MarkInv'
    <2> SUFFICES ASSUME NEW c \in Clients, pc[c] = "aux", runs'[Len(sent)] = 1
                 PROVE  replies' # << >>
      BY <1>1 DEF MarkInv
    <2>1. CASE Len(sent) = cur
      BY <1>4, <1>5, <2>1 DEF VerdictInv, WaitInv
    <2>2. CASE Len(sent) # cur
      BY <1>3, <1>5, <1>6, <2>2 DEF VerdictInv, MarkInv
    <2> QED BY <2>1, <2>2
  <1>10. RepliesInv'
    <2>1. \A k \in 1 .. Len(replies) : runs'[replies[k]] = 1
      BY <1>3, <1>5 DEF VerdictInv, RepliesInv
    <2>2. CASE replies' = replies
      BY <1>1, <2>1, <2>2 DEF VerdictInv, RepliesInv
    <2>3. CASE replies' = Append(replies, cur)
      <3>1. \A k \in 1 .. Len(replies') : \/ replies'[k] = cur
                                           \/ /\ k \in 1 .. Len(replies)
                                              /\ replies'[k] = replies[k]
        BY <1>2, <1>5, <2>3
      <3>2. \A c \in Clients : pc[c] = "aux" /\ Len(sent) \notin crossed =>
                                 cur = Len(sent)
        BY <1>1 DEF VerdictInv, OwnWords, Waiting
      <3> QED BY <1>1, <1>3, <2>1, <3>1, <3>2 DEF VerdictInv, RepliesInv
    <2> QED BY <1>5, <2>2, <2>3
  <1>11. ArgsInv'
    <2>1. \A c \in Clients : Len(sent) \notin crossed =>
            /\ pc[c] = "command" => sent[Len(sent)] \notin WithArgs
            /\ pc[c] = "poll" => cur = Len(sent)
            /\ pc[c] # "fetch"
      BY <1>1, <1>2 DEF VerdictInv, ArgsInv, OwnWords, EarnedInv, Waiting
    <2> QED BY <1>1, <1>2, <1>3, <1>4, <2>1, CodeClasses DEF VerdictInv, ArgsInv
  <1>12. GoneInv'
    <2>1. \A i \in Ids : outcome[i] = "timedout" => runs'[i] = runs[i]
      BY <1>1, <1>3 DEF VerdictInv, GoneInv, NeverAgain, Gone
    <2>2. \A j \in Ids : Written(j)' => Written(j)
      BY <1>1 DEF Written, Unwritten
    <2>3. \A d \in Clients : SetCommand(d) => pc'[d] # pc[d]
      BY DEF SetCommand, Goto, OrderInv, TypeOK, HostTypeOK
    <2> QED BY <1>1, <2>1, <2>2, <2>3, GoneStays
  <1>13. ReplyIsMine'
    BY <1>1 DEF VerdictInv, ReplyIsMine
  <1>14. RunsAsSent'
    <2> SUFFICES ASSUME NEW i \in 1 .. Len(sent), i \notin crossed, runs'[i] > 0,
                        sent[i] \notin EarlyAck, outcome[i] # "early"
                 PROVE  /\ used'[i].id = i
                        /\ sent[i] \in WithArgs =>
                             used'[i].args = [id |-> i, reply |-> FALSE]
      BY <1>1 DEF RunsAsSent
    <2>1. CASE i = cur
      <3>1. outcome[i] = "open"
        <4>1. outcome[i] # "timedout"
          BY <1>1, <1>2, <2>1 DEF VerdictInv, GoneInv, NeverAgain, Gone
        <4>2. outcome[i] # "ok"
          BY <1>2, <2>1 DEF VerdictInv, AckedInv
        <4> QED BY <1>2, <4>1, <4>2 DEF OrderInv, TypeOK, HostTypeOK, Outcomes
      <3>2. PICK c \in Clients : i = Len(sent) /\ pc[c] # "idle"
        BY <3>1 DEF VerdictInv, OpenInv
      <3>3. pc[c] = "poll"
        <4>1. ~ Unwritten(c)
          BY <1>2, <2>1, <3>2 DEF OrderInv, FreshInv
        <4>2. pc[c] # "fetch"
          BY <1>2, <2>1, <3>2 DEF VerdictInv, EarnedInv
        <4>3. pc[c] # "aux"
          BY <3>2, CodeClasses DEF VerdictInv, WaitInv
        <4> QED BY <3>2, <4>1, <4>2, <4>3
                DEF Unwritten, OrderInv, TypeOK, HostTypeOK, HostStates
      <3>4. command.id = i
        BY <3>2, <3>3 DEF VerdictInv, OwnWords, Waiting
      <3>5. sent[i] \in WithArgs => args = [id |-> i, reply |-> FALSE]
        BY <3>2, <3>3 DEF VerdictInv, ArgsInv
      <3>6. used'[i] = [id |-> i, args |-> args]
        BY <1>3, <2>1, <3>4
      <3> QED BY <3>5, <3>6
    <2>2. CASE i # cur
      BY <1>2, <1>3, <2>2 DEF VerdictInv, RunsAsSent
    <2> QED BY <2>1, <2>2
  <1> QED BY <1>7, <1>8, <1>9, <1>10, <1>11, <1>12, <1>13, <1>14 DEF VerdictInv

\* A local setArm's acknowledgement crosses the send it lands on.
LEMMA LocalVerdict ==
  ASSUME OrderInv, VerdictInv, MainThread
  PROVE  VerdictInv'
  <1> USE DEF Last
  <1>1. /\ Next /\ crossed \subseteq crossed'
        /\ UNCHANGED <<pc, sent, outcome, answer, args, replies, fpc, reg, cur, runs,
                       used>>
    BY DEF Next, MainThread, LocalAckLoad, LocalAckStore, Cross, host, firmware
  <1>2. /\ WaitInv' /\ RepliesInv' /\ OpenInv' /\ GoneInv' /\ ReplyIsMine'
        /\ RunsAsSent'
    BY <1>1, CardStill
  <1>3. AckedInv'
    BY <1>1 DEF VerdictInv, AckedInv
  <1>4. CASE LocalAckLoad
    <2>1. OwnWords' /\ EarnedInv' /\ MarkInv' /\ ArgsInv'
      BY <1>1, <1>4 DEF LocalAckLoad, VerdictInv, OwnWords, EarnedInv, MarkInv,
                        ArgsInv, Waiting, Busy
    <2> QED BY <1>2, <1>3, <2>1 DEF VerdictInv
  <1>5. CASE LocalAckStore
    <2>1. /\ lpc = "store" /\ lpc' = "idle" /\ UNCHANGED lreg
          /\ command'.id = lreg.id /\ command'.ack
      BY <1>5 DEF LocalAckStore, OrderInv, TypeOK, LocalTypeOK, Word
    <2>2. \A c \in Clients : pc[c] = "poll" => Len(sent) \in crossed'
      BY <1>5 DEF LocalAckStore, Cross
    <2>3. OwnWords' /\ EarnedInv' /\ MarkInv' /\ ArgsInv'
      BY <1>1, <2>1, <2>2 DEF VerdictInv, OwnWords, EarnedInv, MarkInv, ArgsInv,
                              Waiting, Busy, Live
    <2> QED BY <1>2, <1>3, <2>3 DEF VerdictInv
  <1> QED BY <1>4, <1>5 DEF MainThread

-----------------------------------------------------------------------------
\* Every step keeps the invariant.
LEMMA StepVerdictInv == VerdictInv /\ OrderInv /\ [Next]_vars => VerdictInv'
  <1> SUFFICES ASSUME VerdictInv, OrderInv, [Next]_vars PROVE VerdictInv'
    OBVIOUS
  <1>1. CASE UNCHANGED vars
    <2>1. OwnWords' /\ WaitInv' /\ EarnedInv' /\ MarkInv' /\ RepliesInv' /\ ArgsInv'
      BY <1>1 DEF vars, host, firmware, local, VerdictInv, OwnWords, WaitInv,
           EarnedInv, MarkInv, RepliesInv, ArgsInv, Waiting, Busy, Last
    <2>2. OpenInv' /\ GoneInv' /\ AckedInv'
      BY <1>1 DEF vars, host, firmware, local, VerdictInv, OpenInv, GoneInv,
           NeverAgain, Gone, Written, Unwritten, AckedInv, Busy, Last
    <2>3. ReplyIsMine' /\ RunsAsSent'
      BY <1>1, VerdictsStay DEF vars, host, firmware
    <2> QED BY <2>1, <2>2, <2>3 DEF VerdictInv
  <1>2. ASSUME NEW c \in Clients, HostStep(c) PROVE VerdictInv'
    BY <1>2, SetArgsVerdict, SetCommandVerdict, WaitingVerdict DEF HostStep
  <1> QED BY <1>1, <1>2, MutexDownVerdict, DeliverVerdict, ThreadVerdict, RunVerdict,
             LocalVerdict DEF Next

\* The invariant holds of every reachable state.
THEOREM AlwaysVerdictInv == Spec => []VerdictInv
  BY InitVerdictInv, StepVerdictInv, AlwaysOrderInv, PTL DEF Spec

\* What the sender of an uncrossed send was told was done has been done, or is
\* being done if its code acknowledges early.
THEOREM AckTheorem == Spec => []AckMeansDone
  <1>1. VerdictInv => AckMeansDone
    BY DEF VerdictInv, AckedInv, AckMeansDone, Busy
  <1> QED BY <1>1, AlwaysVerdictInv, PTL

\* A query that was not crossed returns the reply made to that query.
THEOREM ReplyTheorem == Spec => []ReplyIsMine
  <1>1. VerdictInv => ReplyIsMine
    BY DEF VerdictInv
  <1> QED BY <1>1, AlwaysVerdictInv, PTL

\* A handler sees the word and the arguments of its send, if that was not
\* crossed and its sender has not been let go before the handler runs.
THEOREM ArgsTheorem == Spec => []RunsAsSent
  <1>1. VerdictInv => RunsAsSent
    BY DEF VerdictInv
  <1> QED BY <1>1, AlwaysVerdictInv, PTL

\* What timed out when the card had settled was not done and never will be; what
\* was given up earlier is done late only if every later send so far was crossed.
THEOREM TimeoutTheorem == Spec => []TimeoutMeansUndone
  <1>1. OrderInv /\ VerdictInv => TimeoutMeansUndone
    <2> SUFFICES ASSUME OrderInv, VerdictInv PROVE TimeoutMeansUndone
      OBVIOUS
    <2>1. \A i \in Ids : NeverAgain(i) => Gone(i)
      BY DEF NeverAgain
    <2>2. \A j \in Ids : outcome[j] # "open" => Written(j)
      BY MailboxAssumption
      DEF VerdictInv, OpenInv, Written, Unwritten, OrderInv, TypeOK, HostTypeOK, Ids,
          MailboxAssumption, Last
    <2> QED BY <2>1, <2>2 DEF VerdictInv, GoneInv, TimeoutMeansUndone
  <1> QED BY <1>1, AlwaysOrderInv, AlwaysVerdictInv, PTL
=============================================================================
