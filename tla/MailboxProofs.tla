---------------------------- MODULE MailboxProofs ----------------------------
(***************************************************************************)
(* Theorems about Mailbox.                                                 *)
(*                                                                         *)
(* InOrderOnce needs an account of every place a command word can be in:   *)
(* the register, the mailbox thread's load and the main thread's load.     *)
(* A word that could still be taken (live) is newer than the last one      *)
(* taken; while a client is about to write send n no copy of a word n      *)
(* exists yet.                                                             *)
(***************************************************************************)
EXTENDS Mailbox, TLAPS

\* A client is inside the driver exactly while it holds the mutex, and then
\* there is a send it is working on.
MutexInv ==
  \A c \in Clients : /\ pc[c] # "idle" <=> mutex = c
                     /\ pc[c] # "idle" => Len(sent) > 0

\* No word is newer than the last send.
KnownInv ==
  /\ command.id <= Len(sent)
  /\ reg.id <= Len(sent)
  /\ lreg.id <= Len(sent)
  /\ cur <= Len(sent)

Unwritten(c) == pc[c] \in {"args", "command"}

\* Before the sender has written it, its word is nowhere.
FreshInv ==
  \A c \in Clients : Unwritten(c) =>
    /\ command.id < Len(sent)
    /\ reg.id < Len(sent)
    /\ lreg.id < Len(sent)
    /\ cur < Len(sent)

BeforeRun == {"clear", "dispatch", "earlyload", "earlystore", "run"}

\* Nothing newer than cur has run, and cur itself only after "run".
RunInv ==
  /\ \A j \in Ids : runs[j] > 0 => j <= cur
  /\ Busy => cur > 0
  /\ fpc \in BeforeRun => \A j \in Ids : j >= cur => runs[j] = 0

\* A word that can still be taken is newer than cur; between its load and the
\* store that clears its bit it may be cur itself.
LiveInv ==
  /\ Live(command) => IF fpc = "clear" THEN command.id >= cur
                                       ELSE command.id > cur
  /\ fpc = "flagstore" /\ Live(reg) => reg.id > cur

OrderInv ==
  /\ TypeOK
  /\ MutexInv
  /\ KnownInv
  /\ FreshInv
  /\ RunInv
  /\ LiveInv

-----------------------------------------------------------------------------
(* What a step that leaves a group of variables alone leaves true.         *)

\* A step outside the host side keeps the host's types and the mutex.
LEMMA HostStill ==
  ASSUME OrderInv, UNCHANGED host
  PROVE  HostTypeOK' /\ MutexInv'
  BY DEF OrderInv, TypeOK, HostTypeOK, host, MutexInv

\* A step that is not the mailbox thread's keeps its types and what has run.
LEMMA FirmwareStill ==
  ASSUME OrderInv, UNCHANGED firmware
  PROVE  FirmwareTypeOK' /\ RunInv'
  BY DEF OrderInv, TypeOK, FirmwareTypeOK, firmware, RunInv, Busy

\* A step that is not the main thread's keeps the types of its variables.
LEMMA LocalStill ==
  ASSUME OrderInv, UNCHANGED local
  PROVE  LocalTypeOK'
  BY DEF OrderInv, TypeOK, LocalTypeOK, local

\* A send is marked crossed while its sender is inside the driver.
LEMMA CrossKeeps ==
  ASSUME OrderInv, NEW c \in Clients, pc[c] # "idle", NEW met \in BOOLEAN,
         Cross(met)
  PROVE  crossed' \subseteq Ids
  <1>1. Len(sent) \in Ids
    BY MailboxAssumption DEF OrderInv, TypeOK, HostTypeOK, MutexInv, Ids,
                             MailboxAssumption
  <1> QED BY <1>1 DEF Cross, Last, OrderInv, TypeOK

\* A step that moves no word keeps the order of the words.
LEMMA WordsStill ==
  ASSUME OrderInv, UNCHANGED <<sent, command, firmware, local>>
  PROVE  /\ KnownInv'
         /\ LiveInv'
         /\ (\A c \in Clients : Unwritten(c)' => Unwritten(c)) => FreshInv'
  BY DEF OrderInv, firmware, local, KnownInv, LiveInv, FreshInv, Live, Unwritten

\* Returning from the driver keeps the host's types and frees the mutex.
LEMMA FinishHost ==
  ASSUME OrderInv, NEW c \in Clients, NEW from \in {"poll", "fetch", "aux"},
         NEW verdict \in Outcomes, Finish(c, from, verdict),
         UNCHANGED sent
  PROVE  /\ mutex' \in Clients \cup {NoClient}
         /\ pc' \in [Clients -> HostStates]
         /\ outcome' \in [Ids -> Outcomes]
         /\ MutexInv'
         /\ \A d \in Clients : Unwritten(d)' => Unwritten(d)
  <1> USE DEF OrderInv, TypeOK, HostTypeOK, Finish, Goto, HostStates
  <1>1. pc' \in [Clients -> HostStates] /\ mutex' \in Clients \cup {NoClient}
    OBVIOUS
  <1>2. outcome' \in [Ids -> Outcomes]
    OBVIOUS
  <1>3. MutexInv'
    BY MailboxAssumption DEF MutexInv, MailboxAssumption
  <1>4. \A d \in Clients : Unwritten(d)' => Unwritten(d)
    BY DEF Unwritten
  <1> QED BY <1>1, <1>2, <1>3, <1>4

\* Returning from the driver keeps the whole invariant.
LEMMA FinishKeeps ==
  ASSUME OrderInv, NEW c \in Clients, NEW from \in {"poll", "fetch", "aux"},
         NEW verdict \in Outcomes, Finish(c, from, verdict),
         answer' \in [Ids -> Args], earlyTimeouts' \in 0 .. MaxEarlyTimeouts,
         replies' \in Seq(Ids),
         UNCHANGED <<sent, command, args, firmware, local, crossed>>
  PROVE  OrderInv'
  <1>1. HostTypeOK'
    BY FinishHost DEF OrderInv, TypeOK, HostTypeOK
  <1>2. RegisterTypeOK'
    BY DEF OrderInv, TypeOK, RegisterTypeOK
  <1> QED BY <1>1, <1>2, FinishHost, FirmwareStill, LocalStill, WordsStill
          DEF OrderInv, TypeOK

-----------------------------------------------------------------------------
\* The initial state satisfies the invariant.
THEOREM InitOrderInv == Init => OrderInv
  BY MailboxAssumption
  DEF Init, OrderInv, TypeOK, HostTypeOK, RegisterTypeOK, FirmwareTypeOK,
      LocalTypeOK, MutexInv, KnownInv, FreshInv, RunInv, LiveInv, Live, Busy,
      Word, Args, NoWord, NoArgs, FwStates, HostStates, Outcomes, Ids,
      Unwritten, BeforeRun, MailboxAssumption

\* Steps of the host: a client inside the driver, or taking the mutex.
LEMMA HostStepOrderInv ==
  ASSUME OrderInv, NEW c \in Clients,
         (\E f \in Funcodes : MutexDown(c, f)) \/ HostStep(c)
  PROVE  OrderInv'
  <1> USE DEF Last
  <1>1. ASSUME NEW f \in Funcodes, MutexDown(c, f) PROVE OrderInv'
    <2> USE <1>1 DEF MutexDown, Goto
    <2>0. sent \in Seq(Funcodes) /\ sent' = Append(sent, f) /\ Len(sent) < MaxSends
      BY DEF OrderInv, TypeOK, HostTypeOK
    <2>1. sent' \in Seq(Funcodes) /\ Len(sent') <= MaxSends
          /\ Len(sent') = Len(sent) + 1 /\ Len(sent) \in Nat
      <3> QED BY <2>0, MailboxAssumption DEF MailboxAssumption
    <2>2. HostTypeOK'
      <3>1. pc' \in [Clients -> HostStates] /\ mutex' \in Clients \cup {NoClient}
        BY DEF OrderInv, TypeOK, HostTypeOK, HostStates
      <3>2. outcome' = outcome /\ answer' = answer /\ earlyTimeouts' = earlyTimeouts
        OBVIOUS
      <3> QED BY <2>1, <3>1, <3>2 DEF OrderInv, TypeOK, HostTypeOK
    <2>3. RegisterTypeOK' /\ LocalTypeOK'
      BY LocalStill DEF OrderInv, TypeOK, RegisterTypeOK
    <2>4. MutexInv'
      BY <2>1, MailboxAssumption
      DEF OrderInv, TypeOK, HostTypeOK, MutexInv, MailboxAssumption
    <2>5. KnownInv' /\ FreshInv'
      BY <2>1 DEF OrderInv, TypeOK, RegisterTypeOK, FirmwareTypeOK, LocalTypeOK,
                  KnownInv, FreshInv, Word, firmware, local
    <2>6. LiveInv'
      BY DEF OrderInv, LiveInv, Live, firmware
    <2> QED BY <2>2, <2>3, <2>4, <2>5, <2>6, FirmwareStill DEF OrderInv, TypeOK
  <1>2. ASSUME SetArgs(c) PROVE OrderInv'
    <2> USE <1>2 DEF SetArgs, Goto
    <2>1. Len(sent) \in 0 .. MaxSends
      BY DEF OrderInv, TypeOK, HostTypeOK
    <2>2. HostTypeOK' /\ RegisterTypeOK'
      BY <2>1 DEF OrderInv, TypeOK, HostTypeOK, RegisterTypeOK, HostStates, Args
    <2>3. MutexInv'
      BY DEF OrderInv, TypeOK, HostTypeOK, MutexInv
    <2>4. \A d \in Clients : Unwritten(d)' => Unwritten(d)
      BY DEF OrderInv, TypeOK, HostTypeOK, Unwritten
    <2>5. crossed' \subseteq Ids
      BY CrossKeeps
    <2> QED BY <2>2, <2>3, <2>4, <2>5, FirmwareStill, LocalStill, WordsStill
            DEF OrderInv, TypeOK
  <1>3. ASSUME SetCommand(c) PROVE OrderInv'
    <2> USE <1>3 DEF SetCommand, Goto
    <2>1. Len(sent) \in 0 .. MaxSends
      BY DEF OrderInv, TypeOK, HostTypeOK
    <2>2. HostTypeOK' /\ RegisterTypeOK'
      BY <2>1 DEF OrderInv, TypeOK, HostTypeOK, RegisterTypeOK, HostStates, Word
    <2>3. MutexInv'
      BY DEF OrderInv, TypeOK, HostTypeOK, MutexInv
    <2>4. Unwritten(c) /\ \A d \in Clients : ~ Unwritten(d)'
      BY DEF OrderInv, TypeOK, HostTypeOK, MutexInv, Unwritten
    <2>5. KnownInv' /\ FreshInv'
      BY <2>1, <2>4 DEF OrderInv, KnownInv, FreshInv, firmware, local
    <2>6. LiveInv'
      BY <2>1, <2>4 DEF OrderInv, FreshInv, LiveInv, Live, firmware,
                        TypeOK, FirmwareTypeOK
    <2>7. crossed' \subseteq Ids
      BY CrossKeeps DEF InTheWay
    <2> QED BY <2>2, <2>3, <2>5, <2>6, <2>7, FirmwareStill, LocalStill
            DEF OrderInv, TypeOK
  <1>4. ASSUME PollAck(c) PROVE OrderInv'
    <2>1. CASE Finish(c, "poll", "ok")
      BY <1>4, <2>1, FinishKeeps
      DEF PollAck, OrderInv, TypeOK, HostTypeOK, RegisterTypeOK, Outcomes
    <2>2. CASE Goto(c, "poll", "fetch") /\ UNCHANGED <<mutex, outcome>>
      <3> USE <1>4, <2>2 DEF PollAck, Goto
      <3>1. HostTypeOK' /\ RegisterTypeOK'
        BY DEF OrderInv, TypeOK, HostTypeOK, RegisterTypeOK, HostStates
      <3>2. MutexInv'
        BY DEF OrderInv, TypeOK, HostTypeOK, MutexInv
      <3>3. \A d \in Clients : Unwritten(d)' => Unwritten(d)
        BY DEF OrderInv, TypeOK, HostTypeOK, Unwritten
      <3> QED BY <3>1, <3>2, <3>3, FirmwareStill, LocalStill, WordsStill
              DEF OrderInv, TypeOK
    <2> QED BY <1>4, <2>1, <2>2 DEF PollAck
  <1>5. ASSUME GetArgs(c) PROVE OrderInv'
    <2>1. answer' \in [Ids -> Args]
      BY <1>5 DEF GetArgs, OrderInv, TypeOK, HostTypeOK, RegisterTypeOK
    <2> QED BY <1>5, <2>1, FinishKeeps
            DEF GetArgs, OrderInv, TypeOK, HostTypeOK, RegisterTypeOK, Outcomes
  <1>6. ASSUME PollTimeout(c) \/ AuxTimeout(c) PROVE OrderInv'
    <2>1. earlyTimeouts' \in 0 .. MaxEarlyTimeouts
      BY <1>6, MailboxAssumption
      DEF PollTimeout, AuxTimeout, GiveUp, OrderInv, TypeOK, HostTypeOK,
          MailboxAssumption
    <2>2. PICK from \in {"poll", "aux"}, verdict \in Outcomes :
            Finish(c, from, verdict)
      BY <1>6 DEF PollTimeout, AuxTimeout, GiveUp, Outcomes
    <2> QED BY <1>6, <2>1, <2>2, FinishKeeps
            DEF PollTimeout, AuxTimeout, OrderInv, TypeOK, HostTypeOK,
                RegisterTypeOK
  <1> QED BY <1>1, <1>2, <1>3, <1>4, <1>5, <1>6 DEF HostStep

\* The bottom half delivering or discarding a reply.
LEMMA DeliverOrderInv ==
  ASSUME OrderInv, DeliverReply
  PROVE  OrderInv'
  <1>1. replies' \in Seq(Ids) /\ Head(replies) \in Ids
    BY DEF DeliverReply, OrderInv, TypeOK, RegisterTypeOK
  <1>2. ASSUME NEW c \in Clients, Finish(c, "aux", "ok"),
               answer' = [answer EXCEPT ![Last] =
                            [id |-> Head(replies), reply |-> TRUE]]
        PROVE  OrderInv'
    <2>1. [id |-> Head(replies), reply |-> TRUE] \in Args
      BY <1>1, MailboxAssumption DEF Args, Ids, MailboxAssumption
    <2>2. answer' \in [Ids -> Args]
      BY <1>2, <2>1 DEF OrderInv, TypeOK, HostTypeOK
    <2> QED BY <1>1, <1>2, <2>2, FinishKeeps
            DEF DeliverReply, OrderInv, TypeOK, HostTypeOK, Outcomes
  <1>3. CASE UNCHANGED <<mutex, pc, outcome, answer>>
    <2>1. UNCHANGED host
      BY <1>3 DEF DeliverReply, host
    <2>2. RegisterTypeOK'
      BY <1>1 DEF DeliverReply, OrderInv, TypeOK, RegisterTypeOK
    <2>3. \A c \in Clients : Unwritten(c)' => Unwritten(c)
      BY <1>3 DEF Unwritten
    <2> QED BY <2>1, <2>2, <2>3, HostStill, FirmwareStill, LocalStill, WordsStill
            DEF DeliverReply, OrderInv, TypeOK, host
  <1> QED BY <1>2, <1>3 DEF DeliverReply

\* Steps of the mailbox thread and of the main thread.
LEMMA FirmwareOrderInv ==
  ASSUME OrderInv, MboxThread \/ MainThread
  PROVE  OrderInv'
  <1> USE DEF FwGoto
  <1>0. UNCHANGED host /\ UNCHANGED sent /\ UNCHANGED pc
    BY DEF MboxThread, MainThread, ReadCommand, ClearNew, Dispatch, Nack, Load,
           StoreAck, RunHandler, StoreFlag, LocalAckLoad, LocalAckStore, host
  <1>h. HostTypeOK' /\ MutexInv'
    BY <1>0, HostStill
  <1>a. /\ fpc \in FwStates /\ reg \in Word /\ cur \in 0 .. MaxSends
        /\ command \in Word /\ lreg \in Word /\ Len(sent) \in 0 .. MaxSends
    BY DEF OrderInv, TypeOK, HostTypeOK, RegisterTypeOK, FirmwareTypeOK, LocalTypeOK
  <1>1. ASSUME ReadCommand PROVE OrderInv'
    <2>1. CASE ~ Live(command)
      <3>1. UNCHANGED firmware
        BY <1>1, <2>1 DEF ReadCommand, Live, firmware
      <3> QED BY <1>1, <1>0, <1>h, <3>1, FirmwareStill, LocalStill, WordsStill
              DEF ReadCommand, OrderInv, TypeOK, RegisterTypeOK, Unwritten
    <2>2. CASE Live(command)
      <3> USE <1>1, <2>2, <1>0, <1>a DEF ReadCommand
      <3>1. /\ fpc' = "clear" /\ reg' = command /\ cur' = command.id
            /\ command.id > cur
        BY DEF OrderInv, LiveInv, Live
      <3>2. FirmwareTypeOK' /\ RegisterTypeOK' /\ LocalTypeOK'
        BY <3>1, LocalStill
        DEF OrderInv, TypeOK, RegisterTypeOK, FirmwareTypeOK, FwStates, Word
      <3>3. KnownInv' /\ FreshInv' /\ LiveInv'
        BY <3>1 DEF OrderInv, KnownInv, FreshInv, LiveInv, Live, Unwritten, Word,
                    local
      <3>4. RunInv'
        BY <3>1 DEF OrderInv, TypeOK, FirmwareTypeOK, RunInv, BeforeRun, Busy,
                    Word, Ids
      <3> QED BY <1>h, <3>2, <3>3, <3>4 DEF OrderInv, TypeOK
    <2> QED BY <2>1, <2>2
  <1>2. ASSUME ClearNew PROVE OrderInv'
    <2> USE <1>2, <1>0, <1>a DEF ClearNew
    <2>1. FirmwareTypeOK' /\ RegisterTypeOK' /\ LocalTypeOK'
      BY LocalStill
      DEF OrderInv, TypeOK, RegisterTypeOK, FirmwareTypeOK, FwStates, Word
    <2>2. KnownInv' /\ FreshInv' /\ LiveInv'
      BY DEF OrderInv, KnownInv, FreshInv, LiveInv, Live, Unwritten, Word, local
    <2>3. RunInv'
      BY DEF OrderInv, RunInv, BeforeRun, Busy
    <2> QED BY <1>h, <2>1, <2>2, <2>3 DEF OrderInv, TypeOK
  <1>3. ASSUME NEW longOk \in BOOLEAN, Dispatch(longOk) \/ Nack(longOk)
        PROVE  OrderInv'
    <2> USE <1>3, <1>0, <1>a DEF Dispatch, Nack
    <2>0. fpc = "dispatch" /\ fpc' \in {"earlyload", "run", "read"}
          /\ UNCHANGED <<command, args, replies, reg, cur, runs, used, local>>
      OBVIOUS
    <2>1. FirmwareTypeOK' /\ RegisterTypeOK' /\ LocalTypeOK'
      BY <2>0, LocalStill
      DEF OrderInv, TypeOK, RegisterTypeOK, FirmwareTypeOK, FwStates
    <2>2. KnownInv' /\ FreshInv' /\ LiveInv'
      BY <2>0 DEF OrderInv, KnownInv, FreshInv, LiveInv, Live, Unwritten, local
    <2>3. RunInv'
      BY <2>0 DEF OrderInv, RunInv, BeforeRun, Busy
    <2> QED BY <1>h, <2>1, <2>2, <2>3 DEF OrderInv, TypeOK
  <1>4. ASSUME NEW from \in FwStates, NEW to \in FwStates, Load(from, to),
               <<from, to>> \in {<<"earlyload", "earlystore">>,
                                 <<"flagload", "flagstore">>,
                                 <<"ackload", "ackstore">>}
        PROVE  OrderInv'
    <2> USE <1>4, <1>0, <1>a DEF Load
    <2>1. FirmwareTypeOK' /\ RegisterTypeOK' /\ LocalTypeOK'
      BY LocalStill
      DEF OrderInv, TypeOK, RegisterTypeOK, FirmwareTypeOK
    <2>2. KnownInv' /\ FreshInv' /\ LiveInv'
      BY DEF OrderInv, KnownInv, FreshInv, LiveInv, Live, Unwritten, local
    <2>3. RunInv'
      BY DEF OrderInv, RunInv, BeforeRun, Busy
    <2> QED BY <1>h, <2>1, <2>2, <2>3 DEF OrderInv, TypeOK
  <1>5. ASSUME NEW from \in FwStates, NEW to \in FwStates, StoreAck(from, to),
               <<from, to>> \in {<<"earlystore", "run">>, <<"ackstore", "read">>}
        PROVE  OrderInv'
    <2> USE <1>5, <1>0, <1>a DEF StoreAck
    <2>1. FirmwareTypeOK' /\ RegisterTypeOK' /\ LocalTypeOK'
      BY LocalStill
      DEF OrderInv, TypeOK, RegisterTypeOK, FirmwareTypeOK, Word
    <2>2. KnownInv' /\ FreshInv' /\ LiveInv'
      BY DEF OrderInv, KnownInv, FreshInv, LiveInv, Live, Unwritten, Word, local
    <2>3. RunInv'
      BY DEF OrderInv, RunInv, BeforeRun, Busy
    <2> QED BY <1>h, <2>1, <2>2, <2>3 DEF OrderInv, TypeOK
  <1>6. ASSUME StoreFlag PROVE OrderInv'
    <2> USE <1>6, <1>0, <1>a DEF StoreFlag
    <2>1. FirmwareTypeOK' /\ RegisterTypeOK' /\ LocalTypeOK'
      BY LocalStill
      DEF OrderInv, TypeOK, RegisterTypeOK, FirmwareTypeOK, FwStates
    <2>2. KnownInv' /\ FreshInv' /\ LiveInv'
      BY DEF OrderInv, KnownInv, FreshInv, LiveInv, Live, Unwritten, local
    <2>3. RunInv'
      BY DEF OrderInv, RunInv, BeforeRun, Busy
    <2> QED BY <1>h, <2>1, <2>2, <2>3 DEF OrderInv, TypeOK
  <1>7. ASSUME RunHandler PROVE OrderInv'
    <2> USE <1>7, <1>0, <1>a DEF RunHandler
    <2>1. cur \in Ids /\ runs[cur] = 0
      BY DEF OrderInv, TypeOK, FirmwareTypeOK, RunInv, BeforeRun, Busy, Ids
    <2>2. fpc' \in {"ackload", "flagload"} /\ cur' = cur /\ reg' = reg
          /\ command' = command
      OBVIOUS
    <2>3. RegisterTypeOK'
      <3>1. args' \in Args
        <4>1. [id |-> cur, reply |-> TRUE] \in Args
          BY DEF Args
        <4>2. args \in Args
          BY DEF OrderInv, TypeOK, RegisterTypeOK
        <4> QED BY <4>1, <4>2
      <3>2. replies' \in Seq(Ids)
        <4>1. replies \in Seq(Ids) /\ Append(replies, cur) \in Seq(Ids)
          BY <2>1 DEF OrderInv, TypeOK, RegisterTypeOK
        <4> QED BY <4>1
      <3> QED BY <3>1, <3>2, <2>2 DEF RegisterTypeOK
    <2>4. FirmwareTypeOK'
      <3>1. runs' \in [Ids -> 0 .. 1]
        BY <2>1 DEF OrderInv, TypeOK, FirmwareTypeOK
      <3>2. [id |-> command.id, args |-> args]
              \in [id : 0 .. MaxSends, args : Args]
        BY DEF OrderInv, TypeOK, RegisterTypeOK, Word
      <3>3. used' \in [Ids -> [id : 0 .. MaxSends, args : Args]]
        BY <3>2 DEF OrderInv, TypeOK, FirmwareTypeOK
      <3> QED BY <2>2, <3>1, <3>3 DEF FirmwareTypeOK, FwStates
    <2>5. KnownInv' /\ FreshInv' /\ LiveInv'
      BY <2>2 DEF OrderInv, KnownInv, FreshInv, LiveInv, Live, Unwritten, local
    <2>6. RunInv'
      BY <2>1, <2>2 DEF OrderInv, TypeOK, FirmwareTypeOK, RunInv, BeforeRun,
                        Busy, Ids
    <2> QED BY <1>h, <2>3, <2>4, <2>5, <2>6, LocalStill DEF OrderInv, TypeOK
  <1>8. ASSUME LocalAckLoad PROVE OrderInv'
    <2> USE <1>8, <1>0, <1>a DEF LocalAckLoad
    <2>1. RegisterTypeOK' /\ LocalTypeOK'
      BY MailboxAssumption DEF OrderInv, TypeOK, RegisterTypeOK, LocalTypeOK,
                               MailboxAssumption
    <2>2. KnownInv' /\ FreshInv' /\ LiveInv'
      BY DEF OrderInv, KnownInv, FreshInv, LiveInv, Live, Unwritten, firmware
    <2> QED BY <1>h, <2>1, <2>2, FirmwareStill DEF OrderInv, TypeOK
  <1>9. ASSUME LocalAckStore PROVE OrderInv'
    <2> USE <1>9, <1>0, <1>a DEF LocalAckStore
    <2>1. RegisterTypeOK' /\ LocalTypeOK'
      BY DEF OrderInv, TypeOK, RegisterTypeOK, LocalTypeOK, Word
    <2>2. KnownInv' /\ FreshInv' /\ LiveInv'
      BY DEF OrderInv, KnownInv, FreshInv, LiveInv, Live, Unwritten, Word,
             firmware
    <2>3. crossed' \subseteq Ids
      <3>1. CASE \E c \in Clients : pc[c] = "poll"
        BY <3>1, CrossKeeps
      <3>2. CASE ~ \E c \in Clients : pc[c] = "poll"
        BY <3>2 DEF Cross, OrderInv, TypeOK
      <3> QED BY <3>1, <3>2
    <2> QED BY <1>h, <2>1, <2>2, <2>3, FirmwareStill DEF OrderInv, TypeOK
  <1> QED
    BY <1>1, <1>2, <1>3, <1>4, <1>5, <1>6, <1>7, <1>8, <1>9
    DEF MboxThread, MainThread, FwStates

\* Every step keeps the invariant.
THEOREM StepOrderInv == OrderInv /\ [Next]_vars => OrderInv'
  <1> SUFFICES ASSUME OrderInv, [Next]_vars PROVE OrderInv'
    OBVIOUS
  <1>1. CASE UNCHANGED vars
    <2>1. UNCHANGED <<host, command, args, replies, firmware, local>>
          /\ UNCHANGED <<sent, pc, crossed>>
      BY <1>1 DEF vars, host
    <2> QED BY <2>1, HostStill, FirmwareStill, LocalStill, WordsStill
            DEF OrderInv, TypeOK, RegisterTypeOK, Unwritten
  <1> QED BY <1>1, HostStepOrderInv, DeliverOrderInv, FirmwareOrderInv DEF Next

\* The invariant holds of every reachable state.
THEOREM AlwaysOrderInv == Spec => []OrderInv
  BY InitOrderInv, StepOrderInv, PTL DEF Spec

\* Type correctness, for any number of clients, codes and sends.
THEOREM TypeCorrect == Spec => []TypeOK
  <1>1. OrderInv => TypeOK
    BY DEF OrderInv
  <1> QED BY <1>1, AlwaysOrderInv, PTL

\* Handlers run in the order of the sends and none runs twice, whatever the
\* host's timeouts, early acknowledgements and stale stores do.
THEOREM OrderTheorem == Spec => InOrderOnce
  <1>1. OrderInv /\ [Next]_vars =>
          [\A i \in Ids : runs'[i] # runs[i] =>
             \A j \in Ids : j >= i => runs[j] = 0]_vars
    <2> SUFFICES ASSUME OrderInv, Next
                 PROVE  \A i \in Ids : runs'[i] # runs[i] =>
                          \A j \in Ids : j >= i => runs[j] = 0
      OBVIOUS
    <2>1. CASE RunHandler
      BY <2>1 DEF RunHandler, OrderInv, TypeOK, FirmwareTypeOK, RunInv, BeforeRun
    <2>2. CASE ~ RunHandler
      <3>1. UNCHANGED runs
        BY <2>2 DEF Next, HostStep, MboxThread, MainThread, MutexDown, SetArgs,
             SetCommand, PollAck, GetArgs, PollTimeout, AuxTimeout, GiveUp,
             DeliverReply, ReadCommand, ClearNew, Dispatch, Nack, Load, StoreAck, StoreFlag,
             LocalAckLoad, LocalAckStore, firmware
      <3> QED BY <3>1
    <2> QED BY <2>1, <2>2
  <1> QED BY <1>1, AlwaysOrderInv, PTL DEF Spec, InOrderOnce
=============================================================================
