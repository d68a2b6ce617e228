-------------------------- MODULE HostMessagesProofs --------------------------
(***************************************************************************)
(* Theorems about HostMessages: where every message frame is, what becomes *)
(* of an auxiliary reply, what the bottom half leaves behind, in what      *)
(* order the stream comes, whose answer a query prints, and that the rings *)
(* are used as the queues StreamBuf implements.                            *)
(***************************************************************************)
EXTENDS HostMessages, TLAPS

-----------------------------------------------------------------------------
(* The inductive invariant.                                                *)
AskerType  == [pc : AskerPcs, n : Nat, mfa : Replies \cup {NoFrame}]
ReaderType == [pc : {"idle", "loop", "nap", "have"}, ibuf : Nat, room : Nat, naps : Nat]

\* The types the count of frames rests on.  A reader with a message in its hands
\* can put it back.
FrameType ==
  /\ todo \in Seq(Messages) /\ outbound \in Seq(Messages) /\ upq \in Seq(Messages)
  /\ downq \in Seq(Streams) /\ downkept \in Seq(Streams)
  /\ nposted \in Nat /\ free \in Nat /\ stranded \in Nat /\ bogus \in Nat
  /\ bhpc \in {"idle", "loop", "dispatch", "done"}
  /\ reader \in ReaderType
  /\ reader.pc = "have" => Len(downkept) = 1

\* The frames the host has, gives back and loses, with those it makes up.
Balance == free + Len(outbound) + HostFrames + stranded = Frames + bogus

\* Whatever has disturbed them, one asker at a time is about to print, and it
\* prints aux_mfa, for which nobody waits.
AskInv ==
  /\ nasked \in Nat /\ auxMfa \in Replies \cup {NoFrame}
  /\ auxWaiting \in BOOLEAN
  /\ asker \in [Askers -> AskerType]
  /\ AuxNeverOverwritten
  /\ \A a \in Askers : asker[a].pc = "print" => asker[a].mfa = auxMfa /\ ~ auxWaiting
  /\ \A a, b \in Askers : asker[a].pc = "print" /\ asker[b].pc = "print" => a = b

\* There is one asker, and a reply for it to print.
Quiet ==
  /\ bogus = 0
  /\ \A a, b \in Askers : asker[a].pc # "idle" /\ asker[b].pc # "idle" => a = b
  /\ \A a \in Askers : asker[a].pc \in {"woken", "print"} => auxMfa # NoFrame

\* Neither a signal nor an overlap means quiet.
QuietInv == Undisturbed({"signal", "mixed"}) => Quiet

\* A bottom half that has found streambuf empty leaves nothing there.
FollowInv ==
  /\ BottomHalfFollows
  /\ upq # << >> /\ bhpc = "done" /\ ~ bhqueued => cutShort

-----------------------------------------------------------------------------
(* The bottom half follows.                                                *)
LEMMA FollowStep == FollowInv /\ [Next]_vars => FollowInv'
  <1> SUFFICES ASSUME FollowInv, [Next]_vars
               PROVE  FollowInv'
    OBVIOUS
  <1> USE DEF FollowInv, BottomHalfFollows, up, ghosts
  <1>1. CASE UNCHANGED <<up, bhqueued, bhpc, cutShort>>
    BY <1>1
  <1>2. CASE IncomingIsr
    BY <1>2 DEF IncomingIsr, Streambuf!Put
  <1>3. CASE BottomHalf
    <2>1. CASE BhStart
      BY <2>1 DEF BhStart
    <2>2. CASE BhGet
      BY <2>2 DEF BhGet, Streambuf!Get
    <2>3. CASE BhDone
      BY <2>3 DEF BhDone
    <2>4. CASE BhDispatch
      <3>1. CASE bhpc' = "loop"
        BY <2>4, <3>1 DEF BhDispatch
      <3>2. CASE bhpc' = "idle"
        <4>1. cutShort' <=> upq # << >>
          BY <2>4, <3>2 DEF BhDispatch, PassOn, CallHandler, KeepAux
        <4> QED BY <2>4, <3>2, <4>1 DEF BhDispatch
      <3>3. bhpc' \in {"loop", "idle"}
        BY <2>4 DEF BhDispatch, PassOn, CallHandler, KeepAux
      <3> QED BY <3>1, <3>2, <3>3
    <2> QED BY <1>3, <2>1, <2>2, <2>3, <2>4 DEF BottomHalf
  <1>4. Card \/ (\E on \in BOOLEAN : SendStream(on)) \/ StreamAcked \/ StreamFailed
          => UNCHANGED <<up, bhqueued, bhpc, cutShort>>
    BY DEF Card, PostStream, PostReply, SendStream, StreamAcked, StreamFailed
  <1>5. \A c \in Callers : Command(c) => UNCHANGED <<up, bhqueued, bhpc, cutShort>>
    BY DEF Command
  <1>6. \A a \in Askers : Query(a) \/ Dump(a) \/ Asker(a)
          => UNCHANGED <<up, bhqueued, bhpc, cutShort>>
    BY DEF Query, Dump, Asker, DumpWait, Expired, Woken, PrintAuxReply
  <1>7. \A a \in Askers, why \in {"timeout", "signal"} :
          Interrupted(a, why) => UNCHANGED <<up, bhqueued, bhpc, cutShort>>
    BY DEF Interrupted
  <1>8. (\E room \in 0 .. MaxRoom : StartRead(room)) \/ Reader
          => UNCHANGED <<up, bhqueued, bhpc, cutShort>>
    BY DEF StartRead, Reader, ReadGet, ReadNap, ReadWake, ReadEnd, ReadGarbled,
       ReadPutBack, ReadCopy, ReadOnly
  <1>9. UNCHANGED vars => UNCHANGED <<up, bhqueued, bhpc, cutShort>>
    BY DEF vars
  <1> QED BY <1>1, <1>2, <1>3, <1>4, <1>5, <1>6, <1>7, <1>8, <1>9 DEF Next

\* A bottom half never stops with frames in streambuf, except after a stream
\* message or a kept reply, whatever the card posts and whenever it interrupts.
THEOREM FramesAreFollowed == Spec => []BottomHalfFollows
  <1>1. Init => FollowInv
    BY DEF Init, FollowInv, BottomHalfFollows, Streambuf!Init
  <1>2. FollowInv => BottomHalfFollows
    BY DEF FollowInv
  <1> QED BY <1>1, <1>2, FollowStep, PTL DEF Spec
-----------------------------------------------------------------------------
(* One asker prints at a time.                                             *)
LEMMA Reply == \A n \in Nat : Message("aux", n) \in Replies /\ Message("aux", n) \in Messages
  BY DEF Message, Replies, Messages

LEMMA WaitAuxKeeps ==
  ASSUME AskInv, NEW a \in Askers, NEW n \in Nat, WaitAux(a, n), Runs, UNCHANGED auxMfa
  PROVE  /\ auxWaiting' \in BOOLEAN
         /\ asker' \in [Askers -> AskerType]
         /\ AuxNeverOverwritten'
         /\ \A b \in Askers : asker'[b].pc = "print" =>
              /\ b = a /\ asker'[b].mfa = auxMfa' /\ auxMfa # NoFrame /\ ~ auxWaiting'
         /\ \A b \in Askers : asker'[b].pc = IF b = a THEN asker'[a].pc ELSE asker[b].pc
         /\ asker'[a].pc \in {"wait", "print"}
  <1> USE DEF AskInv, AskerType, AskerPcs, AuxNeverOverwritten
  <1>1. CASE auxMfa # NoFrame
    <2> DEFINE r == [pc |-> "print", n |-> n, mfa |-> auxMfa]
    <2>1. r \in AskerType /\ r.pc = "print" /\ r.mfa = auxMfa
      BY <1>1
    <2> HIDE DEF r
    <2>2. asker' = [asker EXCEPT ![a] = r] /\ UNCHANGED auxWaiting
      BY <1>1 DEF WaitAux, r
    <2> QED BY <1>1, <2>1, <2>2 DEF Runs
  <1>2. CASE auxMfa = NoFrame
    <2> DEFINE r == [pc |-> "wait", n |-> n, mfa |-> NoFrame]
    <2>1. r \in AskerType /\ r.pc = "wait"
      OBVIOUS
    <2> HIDE DEF r
    <2>2. asker' = [asker EXCEPT ![a] = r] /\ auxWaiting' = TRUE
      BY <1>2 DEF WaitAux, r
    <2> QED BY <1>2, <2>1, <2>2 DEF Runs
  <1> QED BY <1>1, <1>2

LEMMA AskStep == AskInv /\ [Next]_vars => AskInv'
  <1> SUFFICES ASSUME AskInv, [Next]_vars
               PROVE  AskInv'
    OBVIOUS
  <1>1. CASE UNCHANGED aux
    BY <1>1 DEF AskInv, AuxNeverOverwritten, aux
  <1>2. CASE BhDispatch
    <2>1. CASE PassOn(upgot) \/ CallHandler(upgot)
      BY <1>1, <2>1 DEF PassOn, CallHandler
    <2>2. CASE KeepAux(upgot) /\ ~ auxWaiting
      <3>1. UNCHANGED aux
        BY <2>2 DEF KeepAux, aux
      <3> QED BY <1>1, <3>1
    <2>3. CASE KeepAux(upgot) /\ auxWaiting
      <3>1. auxMfa' \in Replies /\ auxWaiting' = FALSE /\ asker' = Awaken /\ UNCHANGED nasked
        BY <2>3 DEF KeepAux
      <3>2. \A a \in Askers : asker[a].pc # "print"
        BY <2>3 DEF AskInv
      <3>3. \A a \in Askers : asker'[a].pc # "print"
        BY <3>1, <3>2 DEF Awaken, AskInv, AskerType
      <3>4. asker' \in [Askers -> AskerType]
        BY <3>1 DEF Awaken, AskInv, AskerType, AskerPcs
      <3> QED BY <3>1, <3>3, <3>4 DEF AskInv, AuxNeverOverwritten
    <2> QED BY <1>2, <2>1, <2>2, <2>3 DEF BhDispatch
  <1>3. ASSUME NEW a \in Askers, Query(a)
        PROVE  AskInv'
    <2>1. nasked + 1 \in Nat /\ nasked' = nasked + 1 /\ WaitAux(a, nasked + 1) /\ Runs
          /\ UNCHANGED auxMfa
      BY <1>3 DEF Query, AskInv
    <2> QED BY <2>1, WaitAuxKeeps DEF AskInv
  <1>4. ASSUME NEW a \in Askers, Dump(a)
        PROVE  AskInv'
    <2>1. asker' = [asker EXCEPT ![a].pc = "dump", ![a].n = nasked + 1]
          /\ nasked' = nasked + 1 /\ UNCHANGED <<auxMfa, auxWaiting>> /\ Runs
      BY <1>4 DEF Dump
    <2> DEFINE r == [asker[a] EXCEPT !.pc = "dump", !.n = nasked + 1]
    <2>2. r \in AskerType /\ r.pc = "dump" /\ asker' = [asker EXCEPT ![a] = r]
      <3>1. nasked + 1 \in Nat /\ asker[a] \in AskerType
        BY DEF AskInv
      <3> QED BY <2>1, <3>1 DEF AskerType, AskerPcs
    <2> HIDE DEF r
    <2>3. asker' \in [Askers -> AskerType] /\ \A b \in Askers : asker'[b].pc # "print"
      BY <2>1, <2>2 DEF AskInv, Runs
    <2>4. nasked' \in Nat
      BY <2>1 DEF AskInv
    <2> QED BY <2>1, <2>3, <2>4 DEF AskInv, AuxNeverOverwritten
  <1>5. ASSUME NEW a \in Askers, DumpWait(a)
        PROVE  AskInv'
    <2>1. asker[a].n \in Nat /\ WaitAux(a, asker[a].n) /\ Runs /\ UNCHANGED <<auxMfa, nasked>>
      BY <1>5 DEF DumpWait, AskInv, AskerType
    <2> QED BY <2>1, WaitAuxKeeps DEF AskInv
  <1>6. ASSUME NEW a \in Askers, NEW why \in {"timeout", "signal"}, Interrupted(a, why)
        PROVE  AskInv'
    <2>1. PICK pc \in {"expired", "woken"} : asker' = [asker EXCEPT ![a].pc = pc]
      BY <1>6 DEF Interrupted
    <2>2. asker' \in [Askers -> AskerType]
      BY <2>1 DEF AskInv, AskerType, AskerPcs
    <2>3. \A b \in Askers : asker'[b].pc = "print" => asker[b].pc = "print" /\ asker'[b].mfa = asker[b].mfa
      BY <2>1 DEF AskInv, AskerType
    <2> QED BY <1>6, <2>2, <2>3 DEF Interrupted, AskInv, AuxNeverOverwritten
  <1>7. ASSUME NEW a \in Askers, Expired(a)
        PROVE  AskInv'
    <2>1. asker' = [asker EXCEPT ![a].pc = "idle"] /\ auxWaiting' = FALSE /\ Runs
          /\ UNCHANGED <<auxMfa, nasked>>
      BY <1>7 DEF Expired
    <2>2. asker' \in [Askers -> AskerType] /\ \A b \in Askers : asker'[b].pc # "print"
      BY <2>1 DEF AskInv, AskerType, AskerPcs, Runs
    <2> QED BY <2>1, <2>2 DEF AskInv, AuxNeverOverwritten
  <1>8. ASSUME NEW a \in Askers, Woken(a)
        PROVE  AskInv'
    <2>1. asker' = [asker EXCEPT ![a].pc = "print", ![a].mfa = auxMfa]
          /\ auxWaiting' = FALSE /\ Runs /\ UNCHANGED <<auxMfa, nasked>>
      BY <1>8 DEF Woken
    <2>2. asker' \in [Askers -> AskerType]
      BY <2>1, ZenonT(40) DEF AskInv, AskerType, AskerPcs
    <2>3. \A b \in Askers : asker'[b].pc = "print" => b = a /\ asker'[b].mfa = auxMfa
      BY <2>1 DEF AskInv, AskerType, Runs
    <2> QED BY <2>1, <2>2, <2>3 DEF AskInv, AuxNeverOverwritten
  <1>9. ASSUME NEW a \in Askers, PrintAuxReply(a)
        PROVE  AskInv'
    <2>1. asker' = [asker EXCEPT ![a].pc = "idle", ![a].mfa = NoFrame]
          /\ auxMfa' = NoFrame /\ UNCHANGED <<auxWaiting, nasked>> /\ asker[a].pc = "print"
      BY <1>9 DEF PrintAuxReply
    <2>2. asker' \in [Askers -> AskerType]
      BY <2>1, ZenonT(40) DEF AskInv, AskerType, AskerPcs
    <2>3. \A b \in Askers : asker'[b].pc # "print"
      BY <2>1 DEF AskInv, AskerType
    <2> QED BY <2>1, <2>2, <2>3 DEF AskInv, AuxNeverOverwritten
  <1>10. Card \/ IncomingIsr \/ BhStart \/ BhGet \/ BhDone \/ (\E on \in BOOLEAN : SendStream(on))
           \/ StreamAcked \/ StreamFailed \/ (\E c \in Callers : Command(c))
           => UNCHANGED aux
    BY DEF Card, PostStream, PostReply, IncomingIsr, BhStart, BhGet, BhDone, SendStream,
       StreamAcked, StreamFailed, Command
  <1>11. (\E room \in 0 .. MaxRoom : StartRead(room)) \/ Reader \/ UNCHANGED vars => UNCHANGED aux
    BY DEF StartRead, Reader, ReadGet, ReadNap, ReadWake, ReadEnd, ReadGarbled,
       ReadPutBack, ReadCopy, ReadOnly, vars
  <1> QED BY <1>1, <1>2, <1>3, <1>4, <1>5, <1>6, <1>7, <1>8, <1>9, <1>10, <1>11
          DEF Next, BottomHalf, Asker

LEMMA AskInit == Init => AskInv
  <1> SUFFICES ASSUME Init
               PROVE  AskInv
    OBVIOUS
  <1> DEFINE r == [pc |-> "idle", n |-> 0, mfa |-> NoFrame]
  <1>1. r \in AskerType /\ r.pc # "print"
    BY DEF AskerType, AskerPcs
  <1>2. asker = [a \in Askers |-> r] /\ nasked = 0 /\ auxMfa = NoFrame /\ auxWaiting = FALSE
    BY DEF Init
  <1> QED BY <1>1, <1>2 DEF AskInv, AuxNeverOverwritten

\* A reply that is kept is never overwritten, for any number of processes,
\* whatever times out, is interrupted by a signal or overlaps.
THEOREM ReplyIsKept == Spec => []AuxNeverOverwritten
  <1>1. AskInv => AuxNeverOverwritten
    BY DEF AskInv
  <1> QED BY <1>1, AskInit, AskStep, PTL DEF Spec
-----------------------------------------------------------------------------
(* Undisturbed, there is one asker, and it returns a frame it has.         *)
LEMMA QuietStep == AskInv /\ AskInv' /\ QuietInv /\ [Next]_vars => QuietInv'
  <1> SUFFICES ASSUME AskInv, AskInv', QuietInv, [Next]_vars, Undisturbed({"signal", "mixed"})'
               PROVE  Quiet'
    BY DEF QuietInv
  <1>1. CASE UNCHANGED <<aux, bogus, upset>>
    BY <1>1 DEF QuietInv, Quiet, Undisturbed, aux
  <1>2. CASE BhDispatch
    <2>1. UNCHANGED <<upset, bogus>>
      BY <1>2 DEF BhDispatch, PassOn, CallHandler, KeepAux
    <2>2. CASE PassOn(upgot) \/ CallHandler(upgot) \/ ~ auxWaiting
      <3>1. UNCHANGED aux
        BY <1>2, <2>2 DEF BhDispatch, PassOn, CallHandler, KeepAux, aux
      <3> QED BY <1>1, <2>1, <3>1
    <2>3. CASE KeepAux(upgot) /\ auxWaiting
      <3>1. auxMfa' \in Replies /\ asker' = Awaken
        BY <2>3 DEF KeepAux
      <3>2. auxMfa' # NoFrame
        BY <3>1, HostMessagesAssumption DEF Messages
      <3>3. \A a \in Askers : asker'[a].pc # "idle" => asker[a].pc # "idle"
        BY <3>1 DEF Awaken, AskInv, AskerType
      <3> QED BY <2>1, <3>2, <3>3 DEF QuietInv, Quiet, Undisturbed
    <2> QED BY <1>2, <2>2, <2>3 DEF BhDispatch
  <1>3. ASSUME NEW a \in Askers, upset' = upset \cup Mixes(a), bogus' = bogus,
               \A b \in Askers : b # a => asker'[b].pc = asker[b].pc,
               asker'[a].pc = "print" => auxMfa' # NoFrame, asker'[a].pc # "woken"
        PROVE  Quiet'
    <2>1. \A b \in Askers \ {a} : asker[b].pc = "idle"
      BY <1>3 DEF Undisturbed, Mixes
    <2>2. Undisturbed({"signal", "mixed"})
      BY <1>3 DEF Undisturbed
    <2> QED BY <1>3, <2>1, <2>2 DEF QuietInv, Quiet
  <1>4. ASSUME NEW a \in Askers, Query(a)
        PROVE  Quiet'
    <2>1. nasked + 1 \in Nat /\ WaitAux(a, nasked + 1) /\ Runs /\ UNCHANGED <<auxMfa, bogus>>
          /\ upset' = upset \cup Mixes(a)
      BY <1>4 DEF Query, AskInv
    <2> QED BY <1>3, <2>1, WaitAuxKeeps
  <1>5. ASSUME NEW a \in Askers, Dump(a)
        PROVE  Quiet'
    <2>1. asker' = [asker EXCEPT ![a].pc = "dump", ![a].n = nasked + 1]
          /\ UNCHANGED bogus /\ upset' = upset \cup Mixes(a)
      BY <1>5 DEF Dump
    <2>2. asker'[a].pc = "dump" /\ \A b \in Askers : b # a => asker'[b].pc = asker[b].pc
      BY <2>1 DEF AskInv, AskerType
    <2> QED BY <1>3, <2>1, <2>2
  <1>6. ASSUME NEW a \in Askers, DumpWait(a)
        PROVE  Quiet'
    <2>1. asker[a].n \in Nat /\ WaitAux(a, asker[a].n) /\ Runs /\ UNCHANGED <<auxMfa, bogus>>
          /\ upset' = upset \cup Mixes(a)
      BY <1>6 DEF DumpWait, AskInv, AskerType
    <2> QED BY <1>3, <2>1, WaitAuxKeeps
  <1>7. ASSUME NEW a \in Askers, NEW why \in {"timeout", "signal"}, Interrupted(a, why)
        PROVE  Quiet'
    <2>1. upset' = upset \cup {why} /\ UNCHANGED <<bogus, auxMfa>> /\ asker[a].pc = "wait"
      BY <1>7 DEF Interrupted
    <2>2. why = "timeout" /\ Undisturbed({"signal", "mixed"})
      BY <2>1 DEF Undisturbed
    <2>3. asker'[a].pc = "expired" /\ \A b \in Askers : b # a => asker'[b].pc = asker[b].pc
      BY <1>7, <2>2 DEF Interrupted, AskInv, AskerType
    <2> QED BY <2>1, <2>2, <2>3 DEF QuietInv, Quiet
  <1>8. ASSUME NEW a \in Askers, Expired(a)
        PROVE  Quiet'
    <2>1. UNCHANGED <<bogus, upset, auxMfa>> /\ asker[a].pc = "expired"
      BY <1>8 DEF Expired, ghosts
    <2>2. asker'[a].pc = "idle" /\ \A b \in Askers : b # a => asker'[b].pc = asker[b].pc
      BY <1>8 DEF Expired, AskInv, AskerType
    <2> QED BY <2>1, <2>2 DEF QuietInv, Quiet, Undisturbed
  <1>9. ASSUME NEW a \in Askers, Woken(a)
        PROVE  Quiet'
    <2>1. UNCHANGED <<bogus, upset, auxMfa>> /\ asker[a].pc = "woken"
      BY <1>9 DEF Woken, ghosts
    <2>2. asker'[a].pc = "print" /\ \A b \in Askers : b # a => asker'[b].pc = asker[b].pc
      BY <1>9 DEF Woken, AskInv, AskerType
    <2> QED BY <2>1, <2>2 DEF QuietInv, Quiet, Undisturbed
  <1>10. ASSUME NEW a \in Askers, PrintAuxReply(a)
         PROVE  Quiet'
    <2>1. UNCHANGED upset /\ asker[a].pc = "print"
      BY <1>10 DEF PrintAuxReply
    <2>2. Quiet
      BY <2>1 DEF QuietInv, Undisturbed
    <2>3. asker[a].mfa # NoFrame
      BY <2>1, <2>2 DEF Quiet, AskInv
    <2>4. bogus' = 0
      BY <1>10, <2>2, <2>3 DEF PrintAuxReply, Quiet
    <2>5. asker'[a].pc = "idle" /\ \A b \in Askers : b # a => asker'[b].pc = asker[b].pc
      BY <1>10 DEF PrintAuxReply, AskInv, AskerType
    <2>6. \A b \in Askers : asker'[b].pc = "idle"
      BY <2>1, <2>2, <2>5 DEF Quiet
    <2> QED BY <2>4, <2>6 DEF Quiet
  <1>11. Card \/ IncomingIsr \/ BhStart \/ BhGet \/ BhDone \/ (\E on \in BOOLEAN : SendStream(on))
           \/ StreamAcked \/ StreamFailed \/ (\E c \in Callers : Command(c))
           => UNCHANGED <<aux, bogus, upset>>
    BY DEF Card, PostStream, PostReply, IncomingIsr, BhStart, BhGet, BhDone, SendStream,
       StreamAcked, StreamFailed, Command, ghosts
  <1>12. (\E room \in 0 .. MaxRoom : StartRead(room)) \/ Reader \/ UNCHANGED vars
           => UNCHANGED <<aux, bogus, upset>>
    BY DEF StartRead, Reader, ReadGet, ReadNap, ReadWake, ReadEnd, ReadGarbled,
       ReadPutBack, ReadCopy, ReadOnly, vars, ghosts
  <1> QED BY <1>1, <1>2, <1>4, <1>5, <1>6, <1>7, <1>8, <1>9, <1>10, <1>11, <1>12
          DEF Next, BottomHalf, Asker
-----------------------------------------------------------------------------
(* Every frame is somewhere.                                               *)
frames == <<todo, nposted, free, outbound, upq, downq, downkept, bhpc, reader, auxMfa,
            stranded, bogus>>

\* Frames in the hands of the bottom half, of the reader, and kept.
Dispatched == One(bhpc = "dispatch")
Held       == One(reader.pc = "have")
Kept       == One(auxMfa # NoFrame)

LEMMA SeqCounts ==
  ASSUME NEW S, NEW s \in Seq(S), NEW e \in S
  PROVE  /\ Len(s) \in Nat
         /\ Append(s, e) \in Seq(S) /\ Len(Append(s, e)) = Len(s) + 1
         /\ s # << >> => Head(s) \in S /\ Tail(s) \in Seq(S) /\ Len(Tail(s)) = Len(s) - 1
  OBVIOUS

LEMMA SeqJoin ==
  ASSUME NEW S, NEW s \in Seq(S), NEW t \in Seq(S)
  PROVE  s \o t \in Seq(S) /\ Len(s \o t) = Len(s) + Len(t) /\ << >> \in Seq(S)
  OBVIOUS

LEMMA Counts ==
  ASSUME FrameType
  PROVE  /\ Len(outbound) \in Nat /\ Len(upq) \in Nat /\ Len(downq) \in Nat
         /\ free \in Nat /\ stranded \in Nat /\ bogus \in Nat
  BY DEF FrameType

LEMMA HostSum ==
  /\ HostFrames = Len(upq) + Dispatched + Len(downq) + Held + Kept
  /\ HostFrames' = Len(upq') + Dispatched' + Len(downq') + Held' + Kept'
  /\ Dispatched \in Nat /\ Held \in Nat /\ Kept \in Nat
  <1>1. HostFrames = Len(upq) + Dispatched + Len(downq) + Held + Kept
    BY DEF HostFrames, Dispatched, Held, Kept
  <1>2. HostFrames' = Len(upq') + Dispatched' + Len(downq') + Held' + Kept'
    BY DEF HostFrames, Dispatched, Held, Kept
  <1>3. Dispatched \in Nat
    BY DEF Dispatched, One
  <1>4. Held \in Nat
    BY DEF Held, One
  <1>5. Kept \in Nat
    BY DEF Kept, One
  <1> QED BY <1>1, <1>2, <1>3, <1>4, <1>5

LEMMA FramesUntouched == FrameType /\ Balance /\ UNCHANGED frames => FrameType' /\ Balance'
  BY DEF FrameType, Balance, HostFrames, One, frames

LEMMA OnlyTodo ==
  ASSUME FrameType, Balance, todo' \in Seq(Messages),
         UNCHANGED <<nposted, free, outbound, upq, downq, downkept, bhpc, reader, auxMfa,
                     stranded, bogus>>
  PROVE  FrameType' /\ Balance'
  <1>1. FrameType'
    BY DEF FrameType
  <1>2. UNCHANGED <<Dispatched, Held, Kept>>
    BY DEF Dispatched, Held, Kept
  <1>3. Balance'
    BY <1>2, HostSum DEF Balance
  <1> QED BY <1>1, <1>3

LEMMA CardFrames == FrameType /\ Balance /\ Card => FrameType' /\ Balance'
  <1> SUFFICES ASSUME FrameType, Balance, Card
               PROVE  FrameType' /\ Balance'
    OBVIOUS
  <1>1. ASSUME NEW m \in Messages, Post(m), todo' \in Seq(Messages), nposted' \in Nat,
               UNCHANGED <<upq, downq, downkept, bhpc, reader, auxMfa, stranded, bogus>>
        PROVE  FrameType' /\ Balance'
    <2>1. outbound' \in Seq(Messages) /\ Len(outbound') = Len(outbound) + 1 /\ Len(outbound) \in Nat
      BY <1>1, SeqCounts DEF Post, FrameType
    <2>2. free > 0 /\ free' = free - 1
      BY <1>1 DEF Post
    <2>3. FrameType'
      BY <1>1, <2>1, <2>2 DEF FrameType
    <2>4. UNCHANGED <<Dispatched, Held, Kept>>
      BY <1>1 DEF Dispatched, Held, Kept
    <2>5. Balance'
      BY <1>1, <2>1, <2>2, <2>4, Counts, HostSum DEF Balance
    <2> QED BY <2>3, <2>5
  <1>2. ASSUME NEW k \in {"stream", "garbled"}, PostStream(k)
        PROVE  FrameType' /\ Balance'
    <2>1. Message(k, nposted + 1) \in Messages
      BY DEF Message, Streams, Messages, FrameType
    <2> QED BY <1>1, <1>2, <2>1
            DEF PostStream, FrameType, down, up, reading, aux, ghosts
  <1>3. CASE PostReply
    <2>1. Head(todo) \in Messages /\ Tail(todo) \in Seq(Messages)
      BY <1>3, SeqCounts DEF PostReply, FrameType
    <2> QED BY <1>1, <1>3, <2>1
            DEF PostReply, FrameType, down, up, reading, aux, ghosts
  <1> QED BY <1>2, <1>3 DEF Card

LEMMA IsrFrames == FrameType /\ Balance /\ IncomingIsr => FrameType' /\ Balance'
  <1> SUFFICES ASSUME FrameType, Balance, IncomingIsr
               PROVE  FrameType' /\ Balance'
    OBVIOUS
  <1>1. outbound' \in Seq(Messages) /\ Len(outbound') = Len(outbound) - 1
        /\ Len(outbound) \in Nat /\ Head(outbound) \in Messages
    BY SeqCounts DEF IncomingIsr, FrameType
  <1>2. UNCHANGED <<todo, nposted, downq, downkept, bhpc, reader, auxMfa, stranded, bogus>>
    BY DEF IncomingIsr, card, down, aux, reading
  <1>3. UNCHANGED <<Dispatched, Held, Kept>>
    BY <1>2 DEF Dispatched, Held, Kept
  <1>4. CASE upput' = "full"
    <2>1. UNCHANGED upq /\ free' = free + 1
      BY <1>4 DEF IncomingIsr, Streambuf!Put
    <2>2. FrameType'
      BY <1>1, <1>2, <2>1 DEF FrameType
    <2>3. Balance'
      BY <1>1, <1>2, <1>3, <2>1, Counts, HostSum DEF Balance
    <2> QED BY <2>2, <2>3
  <1>5. CASE upput' # "full"
    <2>1. upq' = Append(upq, Head(outbound)) /\ UNCHANGED free
      BY <1>5 DEF IncomingIsr, Streambuf!Put
    <2>2. upq' \in Seq(Messages) /\ Len(upq') = Len(upq) + 1 /\ Len(upq) \in Nat
      BY <1>1, <2>1, SeqCounts DEF FrameType
    <2>3. FrameType'
      BY <1>1, <1>2, <2>1, <2>2 DEF FrameType
    <2>4. Balance'
      BY <1>1, <1>2, <1>3, <2>1, <2>2, Counts, HostSum DEF Balance
    <2> QED BY <2>3, <2>4
  <1> QED BY <1>4, <1>5

LEMMA BottomHalfFrames ==
  FrameType /\ Balance /\ AskInv /\ BottomHalf => FrameType' /\ Balance'
  <1> SUFFICES ASSUME FrameType, Balance, AskInv, BottomHalf
               PROVE  FrameType' /\ Balance'
    OBVIOUS
  <1>1. ASSUME UNCHANGED <<todo, nposted, free, outbound, upq, downq, downkept, reader,
                           auxMfa, stranded, bogus>>,
               bhpc # "dispatch", bhpc' \in {"idle", "loop", "done"}
        PROVE  FrameType' /\ Balance'
    <2>1. FrameType'
      BY <1>1 DEF FrameType
    <2>2. Dispatched = 0 /\ Dispatched' = 0 /\ UNCHANGED <<Held, Kept>>
      BY <1>1 DEF Dispatched, Held, Kept, One
    <2> QED BY <1>1, <2>1, <2>2, HostSum DEF Balance
  <1>2. CASE BhStart
    BY <1>1, <1>2 DEF BhStart, card, up, down, aux, reading, ghosts
  <1>3. CASE BhDone
    BY <1>1, <1>3 DEF BhDone, card, up, down, aux, reading, ghosts
  <1>4. CASE BhGet
    <2>1. UNCHANGED <<todo, nposted, free, outbound, downq, downkept, reader, auxMfa,
                      stranded, bogus>>
          /\ bhpc = "loop"
      BY <1>4 DEF BhGet, card, down, aux, reading, ghosts
    <2>2. CASE upq = << >>
      <3>1. UNCHANGED upq /\ bhpc' = "done"
        BY <1>4, <2>2 DEF BhGet, Streambuf!Get
      <3> QED BY <1>1, <2>1, <3>1
    <2>3. CASE upq # << >>
      <3>1. upq' = Tail(upq) /\ bhpc' = "dispatch"
        BY <1>4, <2>3 DEF BhGet, Streambuf!Get
      <3>2. upq' \in Seq(Messages) /\ Len(upq') = Len(upq) - 1
        BY <2>3, <3>1, SeqCounts DEF FrameType
      <3>3. Dispatched = 0 /\ Dispatched' = 1 /\ UNCHANGED <<Held, Kept>>
        BY <2>1, <3>1 DEF Dispatched, Held, Kept, One
      <3>4. FrameType'
        BY <2>1, <3>1, <3>2 DEF FrameType
      <3>5. Balance'
        BY <2>1, <3>2, <3>3, Counts, HostSum DEF Balance
      <3> QED BY <3>4, <3>5
    <2> QED BY <2>2, <2>3
  <1>5. CASE BhDispatch
    <2>1. UNCHANGED <<todo, nposted, outbound, upq, reader, bogus>> /\ bhpc = "dispatch"
      BY <1>5 DEF BhDispatch, card, up, reading
    <2>2. Dispatched = 1 /\ UNCHANGED Held
      BY <2>1 DEF Dispatched, Held, One
    <2>3. bhpc' \in {"idle", "loop"} => Dispatched' = 0
      BY DEF Dispatched, One
    <2>4. CASE /\ free' = free + 1 /\ bhpc' = "loop"
               /\ UNCHANGED <<downq, downkept, auxMfa, stranded>>
      <3>1. FrameType'
        BY <2>1, <2>4 DEF FrameType
      <3>2. UNCHANGED Kept
        BY <2>4 DEF Kept
      <3>3. Balance'
        BY <2>1, <2>2, <2>3, <2>4, <3>2, Counts, HostSum, SMTT(30) DEF Balance
      <3> QED BY <3>1, <3>3
    <2>5. CASE PassOn(upgot) /\ streamingEnabled
      <3>1. UNCHANGED <<free, auxMfa, downkept>> /\ bhpc' = "idle"
        BY <2>5 DEF PassOn, aux, Downstreambuf!Put
      <3>2. UNCHANGED Kept
        BY <3>1 DEF Kept
      <3>3. CASE downput' = "full"
        <4>1. UNCHANGED downq /\ stranded' = stranded + 1
          BY <2>5, <3>3 DEF PassOn, Downstreambuf!Put
        <4>2. FrameType'
          BY <2>1, <3>1, <4>1 DEF FrameType
        <4>3. Balance'
          BY <2>1, <2>2, <2>3, <3>1, <3>2, <4>1, Counts, HostSum DEF Balance
        <4> QED BY <4>2, <4>3
      <3>4. CASE downput' # "full"
        <4>1. downq' = Append(downq, upgot) /\ upgot \in Streams
          BY <2>5, <3>4 DEF PassOn, Downstreambuf!Put
        <4>2. downq' \in Seq(Streams) /\ Len(downq') = Len(downq) + 1
          BY <4>1, SeqCounts DEF FrameType
        <4>3. stranded' = stranded
          BY <2>5, <3>4, Counts DEF PassOn
        <4>4. FrameType'
          BY <2>1, <3>1, <4>2, <4>3 DEF FrameType
        <4>5. Balance'
          BY <2>1, <2>2, <2>3, <3>1, <3>2, <4>2, <4>3, Counts, HostSum DEF Balance
        <4> QED BY <4>4, <4>5
      <3> QED BY <3>3, <3>4
    <2>6. CASE KeepAux(upgot) /\ auxWaiting
      <3>1. auxMfa' \in Replies /\ bhpc' = "idle" /\ UNCHANGED <<free, downq, downkept, stranded>>
        BY <2>6 DEF KeepAux, down
      <3>2. auxMfa = NoFrame /\ auxMfa' # NoFrame
        BY <2>6, <3>1, HostMessagesAssumption DEF AskInv, AuxNeverOverwritten, Messages
      <3>3. Kept = 0 /\ Kept' = 1
        BY <3>2 DEF Kept, One
      <3>4. FrameType'
        BY <2>1, <3>1 DEF FrameType
      <3>5. Balance'
        BY <2>1, <2>2, <2>3, <3>1, <3>3, Counts, HostSum DEF Balance
      <3> QED BY <3>4, <3>5
    <2>7. CASE \/ PassOn(upgot) /\ ~ streamingEnabled
               \/ CallHandler(upgot)
               \/ KeepAux(upgot) /\ ~ auxWaiting
      BY <2>4, <2>7 DEF PassOn, CallHandler, KeepAux, down, aux
    <2> QED BY <1>5, <2>4, <2>5, <2>6, <2>7 DEF BhDispatch
  <1> QED BY <1>2, <1>3, <1>4, <1>5 DEF BottomHalf

LEMMA AskerFrames ==
  ASSUME FrameType, Balance, AskInv, NEW a \in Askers, Query(a) \/ Dump(a) \/ Asker(a)
  PROVE  FrameType' /\ Balance'
  <1>1. CASE Query(a) \/ Dump(a)
    <2>1. PICK n \in Nat : todo' = Append(todo, Message("aux", n))
      BY <1>1 DEF Query, Dump, AskInv
    <2>2. todo' \in Seq(Messages)
      BY <2>1, Reply, SeqCounts DEF FrameType
    <2>3. UNCHANGED <<nposted, free, outbound, upq, downq, downkept, bhpc, reader, auxMfa,
                      stranded, bogus>>
      BY <1>1 DEF Query, Dump, up, down, reading
    <2> QED BY <2>2, <2>3, OnlyTodo
  <1>2. CASE DumpWait(a) \/ Expired(a) \/ Woken(a)
    <2>1. UNCHANGED frames
      BY <1>2 DEF DumpWait, Expired, Woken, frames, card, up, down, reading, ghosts
    <2> QED BY <2>1, FramesUntouched
  <1>3. CASE PrintAuxReply(a)
    <2>1. UNCHANGED <<todo, nposted, outbound, upq, downq, downkept, bhpc, reader, stranded>>
          /\ free' = free + 1 /\ auxMfa' = NoFrame
      BY <1>3 DEF PrintAuxReply, card, up, down, reading
    <2>2. asker[a].mfa = auxMfa
      BY <1>3 DEF PrintAuxReply, AskInv
    <2>3. bogus' = bogus + 1 - Kept
      BY <1>3, <2>2, Counts DEF PrintAuxReply, Kept, One
    <2>4. Kept' = 0 /\ Kept \in {0, 1} /\ UNCHANGED <<Dispatched, Held>>
      BY <2>1 DEF Kept, One, Dispatched, Held
    <2>5. FrameType'
      BY <2>1, <2>3, <2>4 DEF FrameType
    <2>6. HostFrames' = HostFrames - Kept
      BY <2>1, <2>4, Counts, HostSum
    <2>7. Balance'
      <3>1. Frames \in Nat
        BY HostMessagesAssumption
      <3>2. CASE Kept = 0
        <4>1. bogus' = bogus + 1 /\ HostFrames' = HostFrames /\ HostFrames \in Nat
          BY <2>3, <2>6, <3>2, Counts, HostSum
        <4>2. UNCHANGED <<outbound, stranded>> /\ free' = free + 1
          BY <2>1
        <4>3. Len(outbound) \in Nat /\ free \in Nat /\ stranded \in Nat /\ bogus \in Nat
          BY Counts
        <4>4. free + Len(outbound) + HostFrames + stranded = Frames + bogus
          BY DEF Balance
        <4>5. Len(outbound') = Len(outbound)
          BY <4>2
        <4> QED BY <3>1, <4>1, <4>2, <4>3, <4>4, <4>5 DEF Balance
      <3>3. CASE Kept = 1
        BY <2>1, <2>3, <2>6, <3>3, Counts, HostSum, SMTT(30) DEF Balance
      <3> QED BY <2>4, <3>2, <3>3
    <2> QED BY <2>5, <2>7
  <1> QED BY <1>1, <1>2, <1>3 DEF Asker

LEMMA ReaderFrames == FrameType /\ Balance /\ Reader => FrameType' /\ Balance'
  <1> SUFFICES ASSUME FrameType, Balance, Reader
               PROVE  FrameType' /\ Balance'
    OBVIOUS
  <1>1. UNCHANGED <<todo, nposted, outbound, upq, bhpc, auxMfa, stranded, bogus, Dispatched, Kept>>
    BY DEF Reader, ReadGet, ReadNap, ReadWake, ReadEnd, ReadGarbled, ReadPutBack, ReadCopy,
       ReadOnly, card, up, aux, ghosts, Dispatched, Kept
  <1>2. CASE ReadNap \/ ReadWake \/ ReadEnd
    <2>1. UNCHANGED <<free, downq, downkept>> /\ reader.pc \in {"loop", "nap"}
      BY <1>2 DEF ReadNap, ReadWake, ReadEnd, ReadGoto, down
    <2>2. reader' \in ReaderType /\ reader'.pc \in {"idle", "loop", "nap"}
      <3>1. reader \in ReaderType
        BY DEF FrameType
      <3>2. CASE ReadNap
        <4> DEFINE r == [reader EXCEPT !.pc = "nap", !.naps = @ + 1]
        <4>1. reader.naps + 1 \in Nat
          BY <3>1 DEF ReaderType
        <4>2. r \in ReaderType /\ r.pc = "nap"
          BY <3>1, <4>1 DEF ReaderType
        <4> QED BY <3>2, <4>2 DEF ReadNap
      <3>3. CASE ReadWake \/ ReadEnd
        BY <3>1, <3>3 DEF ReadWake, ReadEnd, ReadGoto, ReaderType
      <3> QED BY <1>2, <3>2, <3>3
    <2>3. Held = 0 /\ Held' = 0
      BY <2>1, <2>2 DEF Held, One
    <2>4. FrameType'
      BY <1>1, <2>1, <2>2 DEF FrameType
    <2>5. Balance'
      BY <1>1, <2>1, <2>3, HostSum DEF Balance
    <2> QED BY <2>4, <2>5
  <1>3. CASE ReadGet
    <2>1. downq # << >> /\ downq' = Tail(downq) /\ downkept' = <<Head(downq)>>
          /\ UNCHANGED free /\ reader.pc = "loop"
      BY <1>3 DEF ReadGet, Downstreambuf!Get
    <2>2. reader' \in ReaderType /\ reader'.pc = "have"
      BY <1>3 DEF ReadGet, ReadGoto, FrameType, ReaderType
    <2>3. downq' \in Seq(Streams) /\ Len(downq') = Len(downq) - 1 /\ Head(downq) \in Streams
      BY <2>1, SeqCounts DEF FrameType
    <2>4. downkept' \in Seq(Streams) /\ Len(downkept') = 1
      BY <2>1, <2>3
    <2>5. Held = 0 /\ Held' = 1
      BY <2>1, <2>2 DEF Held, One
    <2>6. FrameType'
      BY <1>1, <2>1, <2>2, <2>3, <2>4 DEF FrameType
    <2>7. Balance'
      BY <1>1, <2>1, <2>3, <2>5, Counts, HostSum DEF Balance
    <2> QED BY <2>6, <2>7
  <1>4. CASE ReadGarbled \/ ReadCopy
    <2>1. UNCHANGED <<downq, downkept>> /\ free' = free + 1 /\ reader.pc = "have"
      BY <1>4 DEF ReadGarbled, ReadCopy, ReadGoto, down
    <2>2. reader' \in ReaderType /\ reader'.pc = "loop"
      <3>1. reader \in ReaderType
        BY DEF FrameType
      <3>2. CASE ReadCopy
        <4> DEFINE r == [reader EXCEPT !.pc = "loop", !.ibuf = @ + 1]
        <4>1. reader.ibuf + 1 \in Nat
          BY <3>1 DEF ReaderType
        <4>2. r \in ReaderType /\ r.pc = "loop"
          BY <3>1, <4>1 DEF ReaderType
        <4> QED BY <3>2, <4>2 DEF ReadCopy
      <3>3. CASE ReadGarbled
        BY <3>1, <3>3 DEF ReadGarbled, ReadGoto, ReaderType
      <3> QED BY <1>4, <3>2, <3>3
    <2>3. Held = 1 /\ Held' = 0
      BY <2>1, <2>2 DEF Held, One
    <2>4. FrameType'
      BY <1>1, <2>1, <2>2 DEF FrameType
    <2>5. Balance'
      BY <1>1, <2>1, <2>3, Counts, HostSum, SMTT(30) DEF Balance
    <2> QED BY <2>4, <2>5
  <1>5. CASE ReadPutBack
    <2>1. downq' = downkept \o downq /\ downkept' = << >> /\ UNCHANGED free /\ reader.pc = "have"
      BY <1>5 DEF ReadPutBack, Downstreambuf!PutBack
    <2>2. reader' \in ReaderType /\ reader'.pc = "idle"
      BY <1>5 DEF ReadPutBack, ReadGoto, FrameType, ReaderType
    <2>3. Len(downkept) = 1 /\ downkept \in Seq(Streams) /\ downq \in Seq(Streams)
      BY <2>1 DEF FrameType
    <2>4. downq' \in Seq(Streams) /\ Len(downq') = Len(downkept) + Len(downq)
          /\ downkept' \in Seq(Streams)
      BY <2>1, <2>3, SeqJoin
    <2>5. Held = 1 /\ Held' = 0
      BY <2>1, <2>2 DEF Held, One
    <2>6. FrameType'
      BY <1>1, <2>1, <2>2, <2>4 DEF FrameType
    <2>7. Balance'
      BY <1>1, <2>1, <2>3, <2>4, <2>5, Counts, HostSum DEF Balance
    <2> QED BY <2>6, <2>7
  <1> QED BY <1>2, <1>3, <1>4, <1>5 DEF Reader

LEMMA FrameStep == FrameType /\ Balance /\ AskInv /\ [Next]_vars => FrameType' /\ Balance'
  <1> SUFFICES ASSUME FrameType, Balance, AskInv, [Next]_vars
               PROVE  FrameType' /\ Balance'
    OBVIOUS
  <1>1. ASSUME NEW c \in Callers, Command(c)
        PROVE  FrameType' /\ Balance'
    <2>1. Message("command", c) \in Messages
      BY DEF Message, Returns, Messages
    <2>2. todo' \in Seq(Messages)
      BY <1>1, <2>1, SeqCounts DEF Command, FrameType
    <2>3. UNCHANGED <<nposted, free, outbound, upq, downq, downkept, bhpc, reader, auxMfa,
                      stranded, bogus>>
      BY <1>1 DEF Command, up, down, aux, reading, ghosts
    <2> QED BY <2>2, <2>3, OnlyTodo
  <1>2. ASSUME NEW room \in 0 .. MaxRoom, StartRead(room)
        PROVE  FrameType' /\ Balance'
    <2>1. reader.pc = "idle" /\ reader' \in ReaderType /\ reader'.pc = "loop"
      BY <1>2, HostMessagesAssumption DEF StartRead, ReaderType
    <2>2. UNCHANGED <<todo, nposted, free, outbound, upq, downq, downkept, bhpc, auxMfa,
                      stranded, bogus>>
      BY <1>2 DEF StartRead, card, up, down, aux, ghosts
    <2> QED BY <2>1, <2>2 DEF FrameType, Balance, HostFrames, One
  <1>3. (\E on \in BOOLEAN : SendStream(on)) \/ StreamAcked \/ StreamFailed \/ UNCHANGED vars
          => UNCHANGED frames
    BY DEF SendStream, StreamAcked, StreamFailed, vars, frames, card, up, down, aux, reading,
       ghosts
  <1>4. \A a \in Askers, why \in {"timeout", "signal"} : Interrupted(a, why) => UNCHANGED frames
    BY DEF Interrupted, frames, card, up, down, reading
  <1> QED BY <1>1, <1>2, <1>3, <1>4, CardFrames, IsrFrames, BottomHalfFrames, AskerFrames,
             ReaderFrames, FramesUntouched DEF Next

\* Unless a signal ends a wait or two waits overlap, every frame is free, in the
\* FIFO, in the host's hands or stranded with downstreambuf full, for any number
\* of frames, slots and processes.
THEOREM FramesAreConserved == Spec => []FramesConserved
  <1>1. Init => FrameType /\ Balance /\ QuietInv
    <2> SUFFICES ASSUME Init
                 PROVE  FrameType /\ Balance /\ QuietInv
      OBVIOUS
    <2>1. FrameType /\ Balance
      BY HostMessagesAssumption
         DEF Init, Streambuf!Init, Downstreambuf!Init, FrameType, ReaderType, Balance,
             HostFrames, One
    <2>2. QuietInv
      BY DEF Init, QuietInv, Quiet
    <2> QED BY <2>1, <2>2
  <1>2. AskInv /\ FrameType /\ Balance /\ QuietInv => FramesConserved
    <2> SUFFICES ASSUME FrameType, Balance, Quiet
                 PROVE  free + Len(outbound) + HostFrames + stranded = Frames /\ bogus = 0
      BY DEF QuietInv, FramesConserved
    <2> QED BY HostMessagesAssumption DEF Balance, Quiet
  <1> QED BY <1>1, <1>2, AskInit, AskStep, FrameStep, QuietStep, PTL DEF Spec
-----------------------------------------------------------------------------
(* Messages on their way: none overtakes another, and no reply is in two   *)
(* places.                                                                 *)
Answers == Replies \cup Returns

Before(m, n) == InOrder(m, n) /\ (m \in Answers /\ n \in Answers => m # n)

Elems(s)     == {s[i] : i \in 1 .. Len(s)}
Linked(S, T) == \A m \in S, n \in T : Before(m, n)
Chained(s)   == \A i, j \in 1 .. Len(s) : i < j => Before(s[i], s[j])

Stages == 1 .. 7
Flows  == [Stages -> Seq(Messages)]

\* Message m is at some stage of P.
On(P, m) == \E x \in Stages : m \in Elems(P[x])

Piped(P) ==
  /\ \A x \in Stages : Chained(P[x])
  /\ \A x, y \in Stages : x < y => Linked(Elems(P[x]), Elems(P[y]))

LEMMA TailElems ==
  ASSUME NEW s \in Seq(Messages), s # << >>
  PROVE  /\ Head(s) \in Messages /\ Tail(s) \in Seq(Messages)
         /\ Elems(s) = Elems(Tail(s)) \cup {Head(s)}
         /\ Chained(s) => Chained(Tail(s)) /\ Linked({Head(s)}, Elems(Tail(s)))
  <1> DEFINE t == Tail(s)
  <1>1. /\ Head(s) \in Messages /\ t \in Seq(Messages) /\ Head(s) = s[1] /\ Len(s) \in Nat
        /\ Len(s) > 0 /\ Len(t) = Len(s) - 1 /\ \A i \in 1 .. Len(t) : t[i] = s[i + 1]
    OBVIOUS
  <1> HIDE DEF t
  <1>2. Elems(s) = Elems(t) \cup {Head(s)}
    <2>1. ASSUME NEW m \in Elems(s)
          PROVE  m \in Elems(t) \cup {Head(s)}
      <3>1. PICK i \in 1 .. Len(s) : m = s[i]
        BY DEF Elems
      <3>2. CASE i = 1
        BY <1>1, <3>1, <3>2
      <3>3. CASE i # 1
        <4>1. i - 1 \in 1 .. Len(t) /\ t[i - 1] = s[i]
          BY <1>1, <3>3
        <4> QED BY <3>1, <4>1 DEF Elems
      <3> QED BY <3>2, <3>3
    <2>2. ASSUME NEW m \in Elems(t) \cup {Head(s)}
          PROVE  m \in Elems(s)
      <3>1. CASE m = Head(s)
        BY <1>1, <3>1 DEF Elems
      <3>2. CASE m \in Elems(t)
        <4>1. PICK i \in 1 .. Len(t) : m = t[i]
          BY <3>2 DEF Elems
        <4>2. i + 1 \in 1 .. Len(s) /\ m = s[i + 1]
          BY <1>1, <4>1
        <4> QED BY <4>2 DEF Elems
      <3> QED BY <2>2, <3>1, <3>2
    <2> QED BY <2>1, <2>2
  <1>3. ASSUME Chained(s)
        PROVE  Chained(t) /\ Linked({Head(s)}, Elems(t))
    <2>1. ASSUME NEW i \in 1 .. Len(t), NEW j \in 1 .. Len(t), i < j
          PROVE  Before(t[i], t[j])
      <3>1. i + 1 \in 1 .. Len(s) /\ j + 1 \in 1 .. Len(s) /\ i + 1 < j + 1
        BY <1>1, <2>1
      <3> QED BY <1>1, <1>3, <3>1 DEF Chained
    <2>2. ASSUME NEW i \in 1 .. Len(t)
          PROVE  Before(Head(s), t[i])
      <3>1. 1 \in 1 .. Len(s) /\ i + 1 \in 1 .. Len(s) /\ 1 < i + 1
        BY <1>1
      <3> QED BY <1>1, <1>3, <3>1 DEF Chained
    <2> QED BY <2>1, <2>2 DEF Chained, Linked, Elems
  <1> QED BY <1>1, <1>2, <1>3 DEF t

LEMMA AppendElems ==
  ASSUME NEW s \in Seq(Messages), NEW m \in Messages
  PROVE  /\ Append(s, m) \in Seq(Messages)
         /\ Elems(Append(s, m)) = Elems(s) \cup {m}
         /\ Chained(s) /\ Linked(Elems(s), {m}) => Chained(Append(s, m))
  <1> DEFINE t == Append(s, m)
  <1>1. /\ t \in Seq(Messages) /\ Len(s) \in Nat /\ Len(t) = Len(s) + 1
        /\ t[Len(s) + 1] = m /\ \A i \in 1 .. Len(s) : t[i] = s[i]
    OBVIOUS
  <1> HIDE DEF t
  <1>2. \A i : i \in 1 .. Len(t) <=> i \in 1 .. Len(s) \/ i = Len(s) + 1
    BY <1>1
  <1>3. Elems(t) = Elems(s) \cup {m}
    BY <1>1, <1>2 DEF Elems
  <1>4. ASSUME Chained(s), Linked(Elems(s), {m})
        PROVE  Chained(t)
    <2> SUFFICES ASSUME NEW i \in 1 .. Len(t), NEW j \in 1 .. Len(t), i < j
                 PROVE  Before(t[i], t[j])
      BY DEF Chained
    <2>1. CASE j \in 1 .. Len(s)
      <3>1. i \in 1 .. Len(s)
        BY <2>1
      <3> QED BY <1>1, <1>4, <2>1, <3>1 DEF Chained
    <2>2. CASE j = Len(s) + 1
      <3>1. i \in 1 .. Len(s)
        BY <1>1, <2>2
      <3>2. t[i] \in Elems(s) /\ t[j] = m
        BY <1>1, <2>2, <3>1 DEF Elems
      <3> QED BY <1>4, <3>2 DEF Linked
    <2> QED BY <1>2, <2>1, <2>2
  <1> QED BY <1>1, <1>3, <1>4 DEF t

LEMMA FrontElems ==
  ASSUME NEW s \in Seq(Messages), NEW m \in Messages
  PROVE  /\ <<m>> \o s \in Seq(Messages)
         /\ Elems(<<m>> \o s) = Elems(s) \cup {m}
         /\ Chained(s) /\ Linked({m}, Elems(s)) => Chained(<<m>> \o s)
  <1> DEFINE t == <<m>> \o s
  <1>1. t \in Seq(Messages) /\ t # << >> /\ Head(t) = m /\ Tail(t) = s
    OBVIOUS
  <1>2. /\ t[1] = m /\ Len(t) = Len(s) + 1 /\ Len(s) \in Nat
        /\ \A i \in 2 .. Len(t) : i - 1 \in 1 .. Len(s) /\ t[i] = s[i - 1]
    OBVIOUS
  <1> HIDE DEF t
  <1>3. ASSUME Chained(s), Linked({m}, Elems(s))
        PROVE  Chained(t)
    <2> SUFFICES ASSUME NEW i \in 1 .. Len(t), NEW j \in 1 .. Len(t), i < j
                 PROVE  Before(t[i], t[j])
      BY DEF Chained
    <2>1. j \in 2 .. Len(t)
      BY <1>2
    <2>2. CASE i = 1
      <3>1. t[i] = m /\ t[j] \in Elems(s)
        BY <1>2, <2>1, <2>2 DEF Elems
      <3> QED BY <1>3, <3>1 DEF Linked
    <2>3. CASE i # 1
      <3>1. i \in 2 .. Len(t) /\ i - 1 < j - 1
        BY <1>2, <2>3
      <3> QED BY <1>2, <1>3, <2>1, <3>1 DEF Chained
    <2> QED BY <2>2, <2>3
  <1> QED BY <1>1, <1>3, TailElems DEF t

\* The first message of stage y goes to the end of stage x, with nothing between.
LEMMA Moving ==
  ASSUME NEW P \in Flows, NEW Q, NEW x \in Stages, NEW y \in Stages, x < y,
         \A z \in Stages : x < z /\ z < y => P[z] = << >>,
         P[y] # << >>, Q[x] = Append(P[x], Head(P[y])), Q[y] = Tail(P[y]),
         \A z \in Stages \ {x, y} : Q[z] = P[z],
         Piped(P)
  PROVE  Piped(Q) /\ \A m : On(Q, m) => On(P, m)
  <1> DEFINE h == Head(P[y])
  <1>1. P[x] \in Seq(Messages) /\ P[y] \in Seq(Messages)
    BY DEF Flows
  <1>2. /\ h \in Messages /\ Elems(P[y]) = Elems(Q[y]) \cup {h}
        /\ Chained(Q[y]) /\ Linked({h}, Elems(Q[y]))
    BY <1>1, TailElems DEF Piped
  <1>3. /\ Elems(Q[x]) = Elems(P[x]) \cup {h}
        /\ Linked(Elems(P[x]), {h}) => Chained(Q[x])
    BY <1>1, <1>2, AppendElems DEF Piped
  <1> HIDE DEF h
  <1>4. \A z \in Stages : z < y => Linked(Elems(P[z]), {h})
    BY <1>2 DEF Piped, Linked
  <1>5. \A z \in Stages : y < z => Linked({h}, Elems(P[z]))
    BY <1>2 DEF Piped, Linked
  <1>6. \A z \in Stages : Chained(Q[z])
    BY <1>2, <1>3, <1>4 DEF Piped
  <1>7. ASSUME NEW v \in Stages, NEW w \in Stages, v < w
        PROVE  Linked(Elems(Q[v]), Elems(Q[w]))
    <2>1. Linked(Elems(P[v]), Elems(P[w]))
      BY <1>7 DEF Piped
    <2>2. CASE v = x /\ w = y
      BY <1>2, <1>3, <2>1, <2>2 DEF Linked
    <2>3. CASE v = x /\ w # y
      <3>1. Q[w] = P[w]
        BY <1>7, <2>3 DEF Stages
      <3>2. CASE w < y
        <4>1. Elems(Q[w]) = {}
          BY <1>7, <2>3, <3>1, <3>2 DEF Elems
        <4> QED BY <4>1 DEF Linked
      <3>3. CASE y < w
        BY <1>3, <1>5, <2>1, <2>3, <3>1, <3>3 DEF Linked
      <3> QED BY <2>3, <3>2, <3>3 DEF Stages
    <2>4. CASE v # x /\ w = x
      <3>1. Q[v] = P[v] /\ v < y
        BY <1>7, <2>4 DEF Stages
      <3> QED BY <1>3, <1>4, <2>1, <2>4, <3>1 DEF Linked
    <2>5. CASE v # x /\ w # x
      <3>1. Elems(Q[v]) \subseteq Elems(P[v]) /\ Elems(Q[w]) \subseteq Elems(P[w])
        BY <1>2, <2>5
      <3> QED BY <2>1, <3>1 DEF Linked
    <2> QED BY <2>2, <2>3, <2>4, <2>5
  <1>8. ASSUME NEW m, On(Q, m)
        PROVE  On(P, m)
    <2>1. PICK z \in Stages : m \in Elems(Q[z])
      BY <1>8 DEF On
    <2>2. m \in Elems(P[z]) \/ m = h
      BY <1>2, <1>3, <2>1
    <2> QED BY <1>2, <2>2 DEF On
  <1> QED BY <1>6, <1>7, <1>8 DEF Piped

\* The first message of stage x is taken out of the host.
LEMMA Dropping ==
  ASSUME NEW P \in Flows, NEW Q, NEW x \in Stages, P[x] # << >>, Q[x] = Tail(P[x]),
         \A z \in Stages \ {x} : Q[z] = P[z], Piped(P)
  PROVE  /\ Piped(Q) /\ On(P, Head(P[x])) /\ \A m : On(Q, m) => On(P, m)
         /\ Head(P[x]) \in Answers => \A m : On(Q, m) => m # Head(P[x])
  <1> DEFINE h == Head(P[x])
  <1>1. P[x] \in Seq(Messages)
    BY DEF Flows
  <1>2. /\ h \in Messages /\ Elems(P[x]) = Elems(Q[x]) \cup {h}
        /\ Chained(Q[x]) /\ Linked({h}, Elems(Q[x]))
    BY <1>1, TailElems DEF Piped
  <1> HIDE DEF h
  <1>3. \A z \in Stages : Elems(Q[z]) \subseteq Elems(P[z]) /\ Chained(Q[z])
    BY <1>2 DEF Piped
  <1>4. Piped(Q)
    BY <1>3 DEF Piped, Linked
  <1>5. \A m : On(Q, m) => On(P, m)
    BY <1>3 DEF On
  <1>6. ASSUME h \in Answers, NEW m, On(Q, m)
        PROVE  m # h
    <2>1. PICK z \in Stages : m \in Elems(Q[z])
      BY <1>6 DEF On
    <2>2. z < x \/ z = x \/ x < z
      BY DEF Stages
    <2>3. Before(m, h) \/ Before(h, m)
      BY <1>2, <1>3, <2>1, <2>2 DEF Piped, Linked
    <2> QED BY <1>6, <2>3 DEF Before
  <1> QED BY <1>2, <1>4, <1>5, <1>6 DEF On, h

Behind(P, x, m) == \A z \in Stages : z <= x => Linked(Elems(P[z]), {m})
Ahead(P, x, m)  == \A z \in Stages : x < z => Linked({m}, Elems(P[z]))

\* A message that is behind all that is before it, and before all behind it,
\* comes to the end of stage x.
LEMMA Adding ==
  ASSUME NEW P \in Flows, NEW Q, NEW x \in Stages, NEW m \in Messages,
         Q[x] = Append(P[x], m), \A z \in Stages \ {x} : Q[z] = P[z], Piped(P),
         Behind(P, x, m), Ahead(P, x, m)
  PROVE  Piped(Q) /\ \A n : On(Q, n) <=> On(P, n) \/ n = m
  <1>1. P[x] \in Seq(Messages) /\ x <= x
    <2>1. P[x] \in Seq(Messages)
      BY DEF Flows
    <2>2. x <= x
      BY DEF Stages
    <2> QED BY <2>1, <2>2
  <1>2. Elems(Q[x]) = Elems(P[x]) \cup {m} /\ Chained(Q[x])
    BY <1>1, AppendElems DEF Piped, Behind
  <1>3. \A z \in Stages : Chained(Q[z])
    BY <1>2 DEF Piped
  <1>4. ASSUME NEW v \in Stages, NEW w \in Stages, v < w
        PROVE  Linked(Elems(Q[v]), Elems(Q[w]))
    <2>1. Linked(Elems(P[v]), Elems(P[w]))
      BY <1>4 DEF Piped
    <2>2. CASE v = x
      <3>1. Q[w] = P[w] /\ Linked({m}, Elems(P[w]))
        BY <1>4, <2>2 DEF Stages, Ahead
      <3> QED BY <1>2, <2>1, <2>2, <3>1 DEF Linked
    <2>3. CASE w = x
      <3>1. Q[v] = P[v] /\ Linked(Elems(P[v]), {m})
        BY <1>4, <2>3 DEF Stages, Behind
      <3> QED BY <1>2, <2>1, <2>3, <3>1 DEF Linked
    <2> QED BY <2>1, <2>2, <2>3
  <1>5. \A n : On(Q, n) <=> On(P, n) \/ n = m
    BY <1>2 DEF On
  <1> QED BY <1>3, <1>4, <1>5 DEF Piped

\* The message in the reader's hands goes back to the front of its queue.
LEMMA PuttingBack ==
  ASSUME NEW P \in Flows, NEW Q, NEW m \in Messages, P[2] = <<m>>,
         Q[2] = << >>, Q[3] = <<m>> \o P[3],
         \A z \in Stages \ {2, 3} : Q[z] = P[z], Piped(P)
  PROVE  Piped(Q) /\ \A n : On(Q, n) => On(P, n)
  <1>1. P[3] \in Seq(Messages) /\ 2 \in Stages /\ 3 \in Stages
    BY DEF Flows, Stages
  <1>2. Elems(P[2]) = {m} /\ Elems(Q[2]) = {} /\ Chained(Q[2])
    BY DEF Elems, Chained
  <1>3. Linked({m}, Elems(P[3]))
    <2>1. Linked(Elems(P[2]), Elems(P[3]))
      BY <1>1 DEF Piped
    <2> QED BY <1>2, <2>1
  <1>4. Elems(Q[3]) = Elems(P[3]) \cup {m} /\ Chained(Q[3])
    BY <1>1, <1>3, FrontElems DEF Piped
  <1>5. \A z \in Stages : Chained(Q[z])
    BY <1>2, <1>4 DEF Piped
  <1>6. ASSUME NEW v \in Stages, NEW w \in Stages, v < w
        PROVE  Linked(Elems(Q[v]), Elems(Q[w]))
    <2>1. Linked(Elems(P[v]), Elems(P[w])) /\ (v < 2 => Linked(Elems(P[v]), {m}))
          /\ (2 < w => Linked({m}, Elems(P[w])))
      BY <1>1, <1>2, <1>6 DEF Piped
    <2>2. CASE v = 2 \/ w = 2
      BY <1>2, <2>2 DEF Linked
    <2>3. CASE v = 3
      <3>1. Q[w] = P[w] /\ 2 < w
        BY <1>6, <2>3 DEF Stages
      <3> QED BY <1>4, <2>1, <2>3, <3>1 DEF Linked
    <2>4. CASE w = 3 /\ v # 2
      <3>1. Q[v] = P[v] /\ v < 2
        BY <1>6, <2>4 DEF Stages
      <3> QED BY <1>4, <2>1, <2>4, <3>1 DEF Linked
    <2>5. CASE v \notin {2, 3} /\ w \notin {2, 3}
      BY <2>1, <2>5
    <2> QED BY <2>2, <2>3, <2>4, <2>5
  <1>7. \A n : On(Q, n) => On(P, n)
    BY <1>1, <1>2, <1>4 DEF On
  <1> QED BY <1>5, <1>6, <1>7 DEF Piped
-----------------------------------------------------------------------------
(* Types.  What is in the rings, and in the hands of the bottom half and   *)
(* of the reader.                                                          *)
ControlType ==
  /\ cardStreams \in BOOLEAN /\ streaming \in BOOLEAN /\ streamingEnabled \in BOOLEAN
  /\ bhqueued \in BOOLEAN /\ ctl \in {"idle", "sent"}
  /\ mutex \in Askers \cup {NoProcess}

RingType ==
  /\ todo \in Seq(Answers) /\ delivered \in Seq(Streams)
  /\ upkept \in Seq(Messages) /\ Len(upkept) + Len(upq) <= UpRoom
  /\ Len(downkept) + Len(downq) <= DownRoom
  /\ upgot \in Slot /\ (bhpc = "dispatch" => upgot \in Messages)
  /\ downgot \in Streams \cup {NoFrame}
  /\ reader.pc = "have" => downgot \in Streams /\ downkept = <<downgot>>

ReaderBound ==
  /\ reader.ibuf <= MinRead /\ reader.room <= MaxRoom /\ reader.naps <= MaxNaps
  /\ reader.pc = "have" => reader.ibuf < MinRead

rings   == <<todo, delivered, upq, upkept, downq, downkept, upgot, downgot, bhpc, reader>>
controlVars == <<cardStreams, control, bhqueued, mutex>>

LEMMA Kinds ==
  /\ Answers \subseteq Messages /\ Streams \subseteq Messages /\ NoFrame \notin Messages
  /\ \A n : Message("command", n) \notin Replies /\ Message("aux", n) \notin Returns
  /\ \A c \in Callers : Message("command", c) \in Answers
  /\ \A n \in Nat : Message("aux", n) \in Answers
  /\ \A m \in Answers : m \notin Streams
  /\ Replies \cap Returns = {}
  BY HostMessagesAssumption DEF Answers, Messages, Streams, Replies, Returns, Message

LEMMA ControlStep == ControlType /\ [Next]_vars => ControlType'
  <1> SUFFICES ASSUME ControlType, [Next]_vars
               PROVE  ControlType'
    OBVIOUS
  <1> USE DEF ControlType
  <1>1. CASE UNCHANGED controlVars
    BY <1>1 DEF controlVars, control
  <1>2. CASE IncomingIsr \/ BhStart
    BY <1>2 DEF IncomingIsr, BhStart, card, control, aux
  <1>3. CASE (\E on \in BOOLEAN : SendStream(on)) \/ StreamAcked \/ StreamFailed
    BY <1>3 DEF SendStream, StreamAcked, StreamFailed, card, control, aux
  <1>4. ASSUME NEW a \in Askers, Query(a) \/ Expired(a) \/ Woken(a)
        PROVE  ControlType'
    BY <1>4 DEF Query, Expired, Woken, MutexUp, card, control
  <1>5. Card \/ BhGet \/ BhDone \/ BhDispatch \/ (\E c \in Callers : Command(c))
          => UNCHANGED controlVars
    BY DEF Card, PostStream, PostReply, BhGet, BhDone, BhDispatch, PassOn, CallHandler, KeepAux,
       Command, card, control, aux, controlVars
  <1>6. \A a \in Askers : Dump(a) \/ DumpWait(a) \/ PrintAuxReply(a) => UNCHANGED controlVars
    BY DEF Dump, DumpWait, PrintAuxReply, card, control, controlVars
  <1>7. (\E a \in Askers, why \in {"timeout", "signal"} : Interrupted(a, why)) \/ UNCHANGED vars
          => UNCHANGED controlVars
    BY DEF Interrupted, vars, card, control, aux, controlVars
  <1>8. (\E room \in 0 .. MaxRoom : StartRead(room)) \/ Reader => UNCHANGED controlVars
    BY DEF StartRead, Reader, ReadGet, ReadNap, ReadWake, ReadEnd, ReadGarbled, ReadPutBack,
       ReadCopy, ReadOnly, card, control, aux, controlVars
  <1> QED BY <1>1, <1>2, <1>3, <1>4, <1>5, <1>6, <1>7, <1>8 DEF Next, BottomHalf, Asker

\* What a step of anything but the rings' users leaves alone.
LEMMA RingsUntouched ==
  ASSUME [Next]_vars,
         \/ \E k \in {"stream", "garbled"} : PostStream(k)
         \/ (\E on \in BOOLEAN : SendStream(on)) \/ StreamAcked \/ StreamFailed
         \/ \E a \in Askers : Asker(a)
         \/ \E a \in Askers, why \in {"timeout", "signal"} : Interrupted(a, why)
         \/ UNCHANGED vars
  PROVE  UNCHANGED rings
  BY DEF PostStream, SendStream, StreamAcked, StreamFailed, Asker, DumpWait, Expired, Woken,
         PrintAuxReply, Interrupted, vars, rings, card, up, down, reading

LEMMA RingStep == RingType /\ FrameType /\ AskInv /\ [Next]_vars => RingType'
  <1> SUFFICES ASSUME RingType, FrameType, AskInv, [Next]_vars
               PROVE  RingType'
    OBVIOUS
  <1> USE DEF RingType
  <1>1. CASE UNCHANGED rings
    BY <1>1 DEF rings
  <1>2. CASE PostReply
    <2>1. Tail(todo) \in Seq(Answers)
      BY <1>2, SeqCounts DEF PostReply
    <2> QED BY <1>2, <2>1 DEF PostReply, card, up, down, reading
  <1>3. CASE IncomingIsr
    <2>1. UNCHANGED <<todo, delivered, down, upkept, upgot, bhpc, reader>>
      BY <1>3 DEF IncomingIsr, Streambuf!Put, card, reading
    <2>2. Head(outbound) \in Messages /\ Len(upq) \in Nat /\ Len(upkept) \in Nat /\ UpRoom \in Nat
      BY <1>3, SeqCounts, HostMessagesAssumption DEF IncomingIsr, FrameType
    <2>3. Len(upkept') + Len(upq') <= UpRoom
      <3>1. CASE Len(upkept) + Len(upq) < UpRoom
        <4>1. upq' = Append(upq, Head(outbound))
          BY <1>3, <3>1 DEF IncomingIsr, Streambuf!Put
        <4>2. Len(upq') = Len(upq) + 1
          BY <2>2, <4>1, SeqCounts DEF FrameType
        <4> QED BY <2>1, <2>2, <3>1, <4>2
      <3>2. CASE ~ (Len(upkept) + Len(upq) < UpRoom)
        BY <1>3, <2>1, <3>2 DEF IncomingIsr, Streambuf!Put
      <3> QED BY <3>1, <3>2
    <2> QED BY <2>1, <2>3 DEF down
  <1>4. CASE BhStart \/ BhDone
    BY <1>4 DEF BhStart, BhDone, card, up, down, reading
  <1>5. CASE BhGet
    <2>1. UNCHANGED <<todo, delivered, down, reader>>
      BY <1>5 DEF BhGet, card, reading
    <2>2. CASE upq = << >>
      BY <1>5, <2>1, <2>2 DEF BhGet, Streambuf!Get, Slot, down
    <2>3. CASE upq # << >>
      <3>1. upgot' = Head(upq) /\ upq' = Tail(upq) /\ upkept' = <<Head(upq)>>
        BY <1>5, <2>3 DEF BhGet, Streambuf!Get
      <3>2. Head(upq) \in Messages /\ Len(Tail(upq)) = Len(upq) - 1 /\ Len(upq) \in Nat
        BY <2>3, SeqCounts DEF FrameType
      <3>3. <<Head(upq)>> \in Seq(Messages) /\ Len(<<Head(upq)>>) = 1
        BY <3>2
      <3>4. Len(upkept) \in Nat /\ UpRoom \in Nat
        BY HostMessagesAssumption
      <3> HIDE HostMessagesAssumption
      <3>5. Len(upkept') + Len(upq') <= UpRoom
        BY <3>1, <3>2, <3>3, <3>4
      <3>6. upkept' \in Seq(Messages) /\ upgot' \in Messages /\ upgot' \in Slot
        BY <3>1, <3>2, <3>3 DEF Slot
      <3> QED BY <2>1, <3>5, <3>6 DEF down
    <2> QED BY <2>2, <2>3
  <1>6. CASE BhDispatch
    <2>1. UNCHANGED <<todo, delivered, up, reader>> /\ bhpc' # "dispatch"
      BY <1>6 DEF BhDispatch, PassOn, CallHandler, KeepAux, card, reading
    <2>2. UNCHANGED <<downkept, downgot>>
      BY <1>6 DEF BhDispatch, PassOn, CallHandler, KeepAux, Downstreambuf!Put, down
    <2>3. Len(downkept') + Len(downq') <= DownRoom
      <3>1. CASE UNCHANGED downq
        BY <2>2, <3>1
      <3>2. CASE downq' # downq
        <4>1. PassOn(upgot) /\ Downstreambuf!Put(upgot) /\ upgot \in Streams
          BY <1>6, <3>2 DEF BhDispatch, PassOn, CallHandler, KeepAux, down
        <4>2. downq' = Append(downq, upgot) /\ Len(downkept) + Len(downq) < DownRoom
          BY <3>2, <4>1 DEF Downstreambuf!Put
        <4>3. Len(downq') = Len(downq) + 1 /\ Len(downq) \in Nat /\ Len(downkept) \in Nat
              /\ DownRoom \in Nat
          BY <4>1, <4>2, SeqCounts, HostMessagesAssumption DEF FrameType
        <4> QED BY <2>2, <4>2, <4>3
      <3> QED BY <3>1, <3>2
    <2> QED BY <2>1, <2>2, <2>3 DEF up
  <1>7. ASSUME NEW m \in Answers, todo' = Append(todo, m),
               UNCHANGED <<delivered, up, down, bhpc, reader>>
        PROVE  RingType'
    <2>1. todo' \in Seq(Answers)
      BY <1>7, SeqCounts
    <2> QED BY <1>7, <2>1 DEF up, down
  <1>8. ASSUME NEW c \in Callers, Command(c)
        PROVE  RingType'
    BY <1>7, <1>8, Kinds DEF Command, reading
  <1>9. ASSUME NEW a \in Askers, Query(a) \/ Dump(a)
        PROVE  RingType'
    <2>1. nasked + 1 \in Nat
      BY DEF AskInv
    <2> QED BY <1>7, <1>9, <2>1, Kinds DEF Query, Dump, reading
  <1>10. ASSUME NEW room \in 0 .. MaxRoom, StartRead(room)
         PROVE  RingType'
    <2>1. UNCHANGED <<todo, delivered, up, down, bhpc>> /\ reader'.pc = "loop"
      BY <1>10 DEF StartRead, card
    <2> QED BY <2>1 DEF up, down
  <1>11. CASE Reader
    <2>1. UNCHANGED <<todo, up, bhpc>>
      BY <1>11 DEF Reader, ReadGet, ReadNap, ReadWake, ReadEnd, ReadGarbled, ReadPutBack,
         ReadCopy, ReadOnly, card
    <2>2. reader \in ReaderType
      BY DEF FrameType
    <2>3. CASE ReadNap \/ ReadWake \/ ReadEnd \/ ReadGarbled
      <3>1. UNCHANGED <<down, delivered>> /\ reader'.pc # "have"
        BY <2>2, <2>3 DEF ReadNap, ReadWake, ReadEnd, ReadGarbled, ReadGoto, ReaderType
      <3> QED BY <2>1, <3>1 DEF up, down
    <2>4. CASE ReadGet
      <3>1. downgot' = Head(downq) /\ downq' = Tail(downq) /\ downkept' = <<Head(downq)>>
            /\ downq # << >> /\ UNCHANGED delivered
        BY <2>4 DEF ReadGet, Downstreambuf!Get
      <3>2. Head(downq) \in Streams /\ Len(Tail(downq)) = Len(downq) - 1 /\ Len(downq) \in Nat
        BY <3>1, SeqCounts DEF FrameType
      <3>3. Len(downkept) \in Nat /\ DownRoom \in Nat
        BY HostMessagesAssumption DEF FrameType
      <3>4. Len(<<Head(downq)>>) = 1
        OBVIOUS
      <3>5. Len(downkept') + Len(downq') <= DownRoom
        BY <3>1, <3>2, <3>3, <3>4
      <3> QED BY <2>1, <3>1, <3>2, <3>5 DEF up
    <2>5. CASE ReadPutBack
      <3>1. downq' = downkept \o downq /\ downkept' = << >> /\ UNCHANGED <<downgot, delivered>>
            /\ reader'.pc # "have"
        BY <2>2, <2>5 DEF ReadPutBack, ReadGoto, Downstreambuf!PutBack, ReaderType
      <3>2. Len(downq') = Len(downkept) + Len(downq) /\ Len(downkept') = 0
            /\ Len(downkept) \in Nat /\ Len(downq) \in Nat
        BY <3>1, SeqJoin DEF FrameType
      <3>3. Len(downkept') + Len(downq') <= DownRoom
        BY <3>2, HostMessagesAssumption
      <3> QED BY <2>1, <3>1, <3>3 DEF up
    <2>6. CASE ReadCopy
      <3>1. UNCHANGED down /\ delivered' = Append(delivered, downgot) /\ reader.pc = "have"
            /\ reader'.pc # "have"
        BY <2>2, <2>6 DEF ReadCopy, ReaderType
      <3>2. delivered' \in Seq(Streams)
        BY <3>1, SeqCounts
      <3> QED BY <2>1, <3>1, <3>2 DEF up, down
    <2> QED BY <1>11, <2>3, <2>4, <2>5, <2>6 DEF Reader
  <1> QED BY <1>1, <1>2, <1>3, <1>4, <1>5, <1>6, <1>8, <1>9, <1>10, <1>11, RingsUntouched
          DEF Next, Card, BottomHalf, Asker

LEMMA ReaderStep == ReaderBound /\ FrameType /\ [Next]_vars => ReaderBound'
  <1> SUFFICES ASSUME ReaderBound, FrameType, [Next]_vars
               PROVE  ReaderBound'
    OBVIOUS
  <1> USE DEF ReaderBound
  <1>1. reader \in ReaderType /\ MinRead \in Nat /\ MaxRoom \in Nat /\ MaxNaps \in Nat
    BY HostMessagesAssumption DEF FrameType
  <1>2. CASE UNCHANGED reader
    BY <1>2
  <1>3. ASSUME NEW room \in 0 .. MaxRoom, StartRead(room)
        PROVE  ReaderBound'
    BY <1>1, <1>3 DEF StartRead
  <1>4. CASE ReadGet \/ ReadWake \/ ReadEnd \/ ReadGarbled \/ ReadPutBack
    BY <1>1, <1>4 DEF ReadGet, ReadWake, ReadEnd, ReadGarbled, ReadPutBack, ReadGoto, ReaderType
  <1>5. CASE ReadNap
    BY <1>1, <1>5 DEF ReadNap, ReaderType
  <1>6. CASE ReadCopy
    BY <1>1, <1>6 DEF ReadCopy, ReaderType
  <1>7. Card \/ IncomingIsr \/ BottomHalf \/ (\E c \in Callers : Command(c)) => UNCHANGED reader
    BY DEF Card, PostStream, PostReply, IncomingIsr, BottomHalf, BhStart, BhGet, BhDone,
       BhDispatch, Command, reading
  <1>8. \A a \in Askers : Query(a) \/ Dump(a) => UNCHANGED reader
    BY DEF Query, Dump, reading
  <1> QED BY <1>2, <1>3, <1>4, <1>5, <1>6, <1>7, <1>8, RingsUntouched DEF Next, Reader, rings
-----------------------------------------------------------------------------
(* The pipeline of the host.                                               *)
LEMMA PipelineStages ==
  /\ Pipeline[1] = delivered /\ Pipeline[2] = If(reader.pc = "have", downgot)
  /\ Pipeline[3] = downq /\ Pipeline[4] = If(bhpc = "dispatch", upgot)
  /\ Pipeline[5] = upq /\ Pipeline[6] = outbound /\ Pipeline[7] = todo
  BY DEF Pipeline

LEMMA PipelineStagesNext ==
  /\ Pipeline'[1] = delivered' /\ Pipeline'[2] = If(reader'.pc = "have", downgot')
  /\ Pipeline'[3] = downq' /\ Pipeline'[4] = If(bhpc' = "dispatch", upgot')
  /\ Pipeline'[5] = upq' /\ Pipeline'[6] = outbound' /\ Pipeline'[7] = todo'
  BY DEF Pipeline, If

LEMMA StageNames ==
  /\ \A z : z \in Stages <=> z \in {1, 2, 3, 4, 5, 6, 7}
  /\ \A z \in Stages : z \in Nat
  BY DEF Stages

\* Stage x comes right before stage y.
Follows(x, y) ==
  x \in Stages /\ y \in Stages /\ x < y /\ \A z \in Stages : ~ (x < z /\ z < y)

LEMMA StagesFollow ==
  Follows(1, 2) /\ Follows(2, 3) /\ Follows(3, 4) /\ Follows(4, 5) /\ Follows(5, 6) /\ Follows(6, 7)
  BY DEF Follows, Stages

LEMMA PipelineFlows == ASSUME RingType, FrameType PROVE Pipeline \in Flows
  <1>1. \A s \in Seq(Streams) : s \in Seq(Messages)
    BY Kinds
  <1>2. \A s \in Seq(Answers) : s \in Seq(Messages)
    BY Kinds
  <1>3. If(reader.pc = "have", downgot) \in Seq(Messages)
    BY Kinds DEF RingType, If
  <1>4. If(bhpc = "dispatch", upgot) \in Seq(Messages)
    BY DEF RingType, If
  <1>5. Pipeline \in [1 .. 7 -> Seq(Messages)]
    BY <1>1, <1>2, <1>3, <1>4 DEF Pipeline, RingType, FrameType
  <1> QED BY <1>5 DEF Flows, Stages

\* Taken off the card's queue, posted, put into a ring, taken out, and copied to
\* the user: a message never passes another.
Onward == Piped(Pipeline') /\ \A m : On(Pipeline', m) => On(Pipeline, m)

LEMMA Standing ==
  ASSUME Piped(Pipeline), \A z \in Stages : Pipeline'[z] = Pipeline[z]
  PROVE  Onward
  BY DEF Onward, Piped, On

LEMMA Forward ==
  ASSUME RingType, FrameType, Piped(Pipeline), NEW x, NEW y, Follows(x, y),
         Pipeline[y] # << >>,
         Pipeline'[x] = Append(Pipeline[x], Head(Pipeline[y])),
         Pipeline'[y] = Tail(Pipeline[y]),
         \A z \in Stages \ {x, y} : Pipeline'[z] = Pipeline[z]
  PROVE  Onward
  <1> DEFINE P == Pipeline
             Q == Pipeline'
  <1>1. P \in Flows
    BY PipelineFlows
  <1>2. /\ x \in Stages /\ y \in Stages /\ x < y
        /\ \A z \in Stages : x < z /\ z < y => P[z] = << >>
    BY DEF Follows
  <1>3. P[y] # << >> /\ Q[x] = Append(P[x], Head(P[y])) /\ Q[y] = Tail(P[y]) /\ Piped(P)
        /\ \A z \in Stages \ {x, y} : Q[z] = P[z]
    OBVIOUS
  <1> HIDE DEF P, Q
  <1>4. Piped(Q) /\ \A m : On(Q, m) => On(P, m)
    BY <1>1, <1>2, <1>3, Moving
  <1> QED BY <1>4 DEF Onward, P, Q

LEMMA Outward ==
  ASSUME RingType, FrameType, Piped(Pipeline), NEW x \in Stages, Pipeline[x] # << >>,
         Pipeline'[x] = Tail(Pipeline[x]),
         \A z \in Stages \ {x} : Pipeline'[z] = Pipeline[z]
  PROVE  /\ Onward /\ On(Pipeline, Head(Pipeline[x]))
         /\ Head(Pipeline[x]) \in Answers => \A m : On(Pipeline', m) => m # Head(Pipeline[x])
  <1> DEFINE P == Pipeline
             Q == Pipeline'
  <1>1. P \in Flows
    BY PipelineFlows
  <1>2. P[x] # << >> /\ Q[x] = Tail(P[x]) /\ Piped(P) /\ \A z \in Stages \ {x} : Q[z] = P[z]
    OBVIOUS
  <1> HIDE DEF P, Q
  <1>3. /\ Piped(Q) /\ On(P, Head(P[x])) /\ \A m : On(Q, m) => On(P, m)
        /\ Head(P[x]) \in Answers => \A m : On(Q, m) => m # Head(P[x])
    BY <1>1, <1>2, Dropping
  <1> QED BY <1>3 DEF Onward, P, Q

LEMMA CardOnward ==
  ASSUME RingType, FrameType, Piped(Pipeline), PostReply
  PROVE  Onward
  <1>1. /\ todo # << >> /\ outbound' = Append(outbound, Head(todo)) /\ todo' = Tail(todo)
        /\ UNCHANGED <<delivered, reader, downgot, downq, bhpc, upgot, upq>>
    BY DEF PostReply, Post, up, down, reading
  <1>3. UNCHANGED <<delivered, reader, downgot, downq, bhpc, upgot, upq>>
    BY <1>1
  <1>4. \A z \in Stages \ {6, 7} : Pipeline'[z] = Pipeline[z]
    BY <1>3, StageNames, PipelineStages, PipelineStagesNext, SMTT(30)
  <1>5. /\ Pipeline[7] # << >> /\ Pipeline'[7] = Tail(Pipeline[7])
        /\ Pipeline'[6] = Append(Pipeline[6], Head(Pipeline[7]))
    BY <1>1, PipelineStages, PipelineStagesNext
  <1> QED BY <1>4, <1>5, StagesFollow, Forward

LEMMA IsrOnward ==
  ASSUME RingType, FrameType, Piped(Pipeline), IncomingIsr
  PROVE  /\ Onward /\ On(Pipeline, Head(outbound))
         /\ upput' = "full" /\ Head(outbound) \in Answers =>
              \A m : On(Pipeline', m) => m # Head(outbound)
  <1>1. /\ outbound # << >> /\ outbound' = Tail(outbound) /\ Streambuf!Put(Head(outbound))
        /\ UNCHANGED <<delivered, reader, downgot, downq, bhpc, upgot, todo>>
    BY DEF IncomingIsr, Streambuf!Put, down, reading, card
  <1>2. 5 \in Stages /\ 6 \in Stages
    BY DEF Stages
  <1>3. On(Pipeline, Head(outbound))
    <2>1. Head(outbound) \in Elems(outbound)
      BY <1>1, TailElems DEF FrameType
    <2> QED BY <1>2, <2>1, PipelineStages DEF On
  <1>4. CASE upput' = "full"
    <2>1. upq' = upq
      BY <1>1, <1>4 DEF Streambuf!Put
    <2>2. \A z \in Stages \ {6} : Pipeline'[z] = Pipeline[z]
      BY <1>1, <2>1, StageNames, PipelineStages, PipelineStagesNext, SMTT(30)
    <2> QED BY <1>1, <1>2, <1>3, <2>2, PipelineStages, PipelineStagesNext, Outward
  <1>5. CASE upput' # "full"
    <2>1. upq' = Append(upq, Head(outbound))
      BY <1>1, <1>5 DEF Streambuf!Put
    <2>2. \A z \in Stages \ {5, 6} : Pipeline'[z] = Pipeline[z]
      BY <1>1, StageNames, PipelineStages, PipelineStagesNext, SMTT(30)
    <2>3. /\ Pipeline[6] # << >> /\ Pipeline'[6] = Tail(Pipeline[6])
          /\ Pipeline'[5] = Append(Pipeline[5], Head(Pipeline[6]))
      BY <1>1, <2>1, PipelineStages, PipelineStagesNext
    <2> QED BY <1>3, <1>5, <2>2, <2>3, StagesFollow, Forward
  <1> QED BY <1>4, <1>5

LEMMA DispatchOnward ==
  ASSUME RingType, FrameType, Piped(Pipeline), BhDispatch
  PROVE  /\ Onward /\ On(Pipeline, upgot)
         /\ upgot \in Answers => \A m : On(Pipeline', m) => m # upgot
  <1>1. /\ bhpc = "dispatch" /\ bhpc' # "dispatch" /\ upgot \in Messages
        /\ UNCHANGED <<delivered, reader, upgot, upq, outbound, todo>>
    BY DEF BhDispatch, PassOn, CallHandler, KeepAux, RingType, card, up, reading
  <1>2. UNCHANGED downgot
    BY DEF BhDispatch, PassOn, CallHandler, KeepAux, Downstreambuf!Put, down
  <1>3. Pipeline[4] = <<upgot>> /\ Pipeline'[4] = << >>
    BY <1>1, PipelineStages, PipelineStagesNext DEF If
  <1>4. /\ Pipeline[4] # << >> /\ Head(Pipeline[4]) = upgot /\ Pipeline'[4] = Tail(Pipeline[4])
    BY <1>3
  <1>5. 3 \in Stages /\ 4 \in Stages
    BY DEF Stages
  <1>6. On(Pipeline, upgot)
    <2>1. upgot \in Elems(<<upgot>>)
      BY DEF Elems
    <2> QED BY <1>3, <1>5, <2>1 DEF On
  <1>7. CASE downq' = downq
    <2>1. \A z \in Stages \ {4} : Pipeline'[z] = Pipeline[z]
      BY <1>1, <1>2, <1>7, StageNames, PipelineStages, PipelineStagesNext, SMTT(30)
    <2> QED BY <1>4, <1>5, <1>6, <2>1, Outward
  <1>8. CASE downq' # downq
    <2>1. PassOn(upgot) /\ Downstreambuf!Put(upgot) /\ upgot \in Streams
      BY <1>8 DEF BhDispatch, PassOn, CallHandler, KeepAux, down
    <2>2. downq' = Append(downq, upgot) /\ upgot \notin Answers
      BY <1>8, <2>1, Kinds DEF Downstreambuf!Put
    <2>3. \A z \in Stages \ {3, 4} : Pipeline'[z] = Pipeline[z]
      BY <1>1, <1>2, StageNames, PipelineStages, PipelineStagesNext, SMTT(30)
    <2>4. /\ Pipeline[4] # << >> /\ Pipeline'[4] = Tail(Pipeline[4])
          /\ Pipeline'[3] = Append(Pipeline[3], Head(Pipeline[4]))
      BY <1>4, <2>2, PipelineStages, PipelineStagesNext
    <2> QED BY <1>6, <2>2, <2>3, <2>4, StagesFollow, Forward
  <1> QED BY <1>7, <1>8

LEMMA BottomHalfOnward ==
  ASSUME RingType, FrameType, Piped(Pipeline), BottomHalf
  PROVE  Onward
  <1>1. CASE BhStart \/ BhDone
    <2>1. /\ bhpc # "dispatch" /\ bhpc' # "dispatch"
          /\ UNCHANGED <<delivered, reader, downgot, downq, upq, outbound, todo>>
      BY <1>1 DEF BhStart, BhDone, up, down, reading, card
    <2>2. \A z \in Stages : Pipeline'[z] = Pipeline[z]
      BY <2>1, StageNames, PipelineStages, PipelineStagesNext DEF If
    <2> QED BY <2>2, Standing
  <1>2. CASE BhGet
    <2>1. bhpc = "loop" /\ UNCHANGED <<delivered, reader, downgot, downq, outbound, todo>>
      BY <1>2 DEF BhGet, down, reading, card
    <2>2. CASE upq = << >>
      <3>1. UNCHANGED upq /\ bhpc' = "done"
        BY <1>2, <2>2 DEF BhGet, Streambuf!Get
      <3>2. \A z \in Stages : Pipeline'[z] = Pipeline[z]
        BY <2>1, <3>1, StageNames, PipelineStages, PipelineStagesNext DEF If
      <3> QED BY <3>2, Standing
    <2>3. CASE upq # << >>
      <3>1. upq' = Tail(upq) /\ upgot' = Head(upq) /\ bhpc' = "dispatch"
        BY <1>2, <2>3 DEF BhGet, Streambuf!Get
      <3>2. Pipeline[4] = << >> /\ Pipeline'[4] = <<Head(upq)>>
        BY <2>1, <3>1, PipelineStages, PipelineStagesNext DEF If
      <3>3. Pipeline'[4] = Append(Pipeline[4], Head(upq))
        BY <3>2
      <3>4. 4 \in Stages /\ 5 \in Stages
        BY DEF Stages
      <3>5. \A z \in Stages \ {4, 5} : Pipeline'[z] = Pipeline[z]
        BY <2>1, StageNames, PipelineStages, PipelineStagesNext, SMTT(30)
      <3>6. /\ Pipeline[5] # << >> /\ Pipeline'[5] = Tail(Pipeline[5])
            /\ Pipeline'[4] = Append(Pipeline[4], Head(Pipeline[5]))
        BY <2>3, <3>1, <3>3, PipelineStages, PipelineStagesNext
      <3> QED BY <3>5, <3>6, StagesFollow, Forward
    <2> QED BY <2>2, <2>3
  <1> QED BY <1>1, <1>2, DispatchOnward DEF BottomHalf

LEMMA ReaderOnward ==
  ASSUME RingType, FrameType, Piped(Pipeline), Reader
  PROVE  Onward
  <1>1. UNCHANGED <<bhpc, upgot, upq, outbound, todo>> /\ reader \in ReaderType
    BY DEF Reader, ReadGet, ReadNap, ReadWake, ReadEnd, ReadGarbled, ReadPutBack, ReadCopy,
       ReadOnly, card, up, FrameType
  <1>2. 1 \in Stages /\ 2 \in Stages /\ 3 \in Stages
    BY DEF Stages
  <1>3. CASE ReadNap \/ ReadWake \/ ReadEnd
    <2>1. UNCHANGED <<delivered, downq>> /\ reader.pc # "have" /\ reader'.pc # "have"
      BY <1>1, <1>3 DEF ReadNap, ReadWake, ReadEnd, ReadGoto, ReaderType, down
    <2>2. \A z \in Stages : Pipeline'[z] = Pipeline[z]
      BY <1>1, <2>1, StageNames, PipelineStages, PipelineStagesNext DEF If
    <2> QED BY <2>2, Standing
  <1>4. CASE ReadGet
    <2>1. /\ downq # << >> /\ downq' = Tail(downq) /\ downgot' = Head(downq) /\ UNCHANGED delivered
          /\ reader.pc = "loop" /\ reader'.pc = "have"
      BY <1>1, <1>4 DEF ReadGet, ReadGoto, Downstreambuf!Get, ReaderType
    <2>2. Pipeline[2] = << >> /\ Pipeline'[2] = <<Head(downq)>>
      BY <2>1, PipelineStages, PipelineStagesNext DEF If
    <2>3. Pipeline'[2] = Append(Pipeline[2], Head(downq))
      BY <2>2
    <2>4. \A z \in Stages \ {2, 3} : Pipeline'[z] = Pipeline[z]
      BY <1>1, <2>1, StageNames, PipelineStages, PipelineStagesNext, SMTT(30)
    <2>5. /\ Pipeline[3] # << >> /\ Pipeline'[3] = Tail(Pipeline[3])
          /\ Pipeline'[2] = Append(Pipeline[2], Head(Pipeline[3]))
      BY <2>1, <2>3, PipelineStages, PipelineStagesNext
    <2> QED BY <2>4, <2>5, StagesFollow, Forward
  <1>5. CASE ReadGarbled \/ ReadPutBack \/ ReadCopy
    <2>1. reader.pc = "have" /\ reader'.pc # "have" /\ downgot \in Streams /\ downgot \in Messages
      BY <1>1, <1>5, Kinds
         DEF ReadGarbled, ReadPutBack, ReadCopy, ReadGoto, ReaderType, RingType
    <2>2. Pipeline[2] = <<downgot>> /\ Pipeline'[2] = << >>
      BY <2>1, PipelineStages, PipelineStagesNext DEF If
    <2>3. Pipeline[2] # << >> /\ Head(Pipeline[2]) = downgot /\ Pipeline'[2] = Tail(Pipeline[2])
      BY <2>2
    <2>4. CASE ReadGarbled
      <3>1. UNCHANGED <<delivered, downq>>
        BY <2>4 DEF ReadGarbled, down
      <3>2. \A z \in Stages \ {2} : Pipeline'[z] = Pipeline[z]
        BY <1>1, <3>1, StageNames, PipelineStages, PipelineStagesNext, SMTT(30)
      <3> QED BY <1>2, <2>3, <3>2, Outward
    <2>5. CASE ReadPutBack
      <3>1. UNCHANGED delivered /\ downq' = <<downgot>> \o downq
        BY <2>1, <2>5 DEF ReadPutBack, Downstreambuf!PutBack, RingType
      <3>2. \A z \in Stages \ {2, 3} : Pipeline'[z] = Pipeline[z]
        <4>1. UNCHANGED <<delivered, bhpc, upgot, upq, outbound, todo>>
          BY <1>1, <3>1
        <4> QED BY <4>1, StageNames, PipelineStages, PipelineStagesNext, SMTT(30)
      <3>3. Pipeline'[3] = <<downgot>> \o Pipeline[3] /\ Pipeline \in Flows
        BY <3>1, PipelineFlows, PipelineStages, PipelineStagesNext
      <3>4. Piped(Pipeline') /\ \A n : On(Pipeline', n) => On(Pipeline, n)
        BY <2>1, <2>2, <3>2, <3>3, PuttingBack
      <3> QED BY <3>4 DEF Onward
    <2>6. CASE ReadCopy
      <3>1. UNCHANGED downq /\ delivered' = Append(delivered, downgot)
        BY <2>6 DEF ReadCopy, down
      <3>2. \A z \in Stages \ {1, 2} : Pipeline'[z] = Pipeline[z]
        BY <1>1, <3>1, StageNames, PipelineStages, PipelineStagesNext, SMTT(30)
      <3>3. /\ Pipeline[2] # << >> /\ Pipeline'[2] = Tail(Pipeline[2])
            /\ Pipeline'[1] = Append(Pipeline[1], Head(Pipeline[2]))
        BY <2>3, <3>1, PipelineStages, PipelineStagesNext
      <3> QED BY <3>2, <3>3, StagesFollow, Forward
    <2> QED BY <1>5, <2>4, <2>5, <2>6
  <1> QED BY <1>3, <1>4, <1>5 DEF Reader
-----------------------------------------------------------------------------
(* Numbers.  Stream messages and queries are numbered as they are made, and *)
(* a command's reply is that of a caller that waits for it.                *)
Numbered ==
  \A m : On(Pipeline, m) =>
    /\ m \in Streams => m.n <= nposted
    /\ m \in Replies => m.n <= nasked
    /\ m \in Returns => m.n \in rchs \ refused

FlowInv ==
  /\ Piped(Pipeline)
  /\ Numbered
  /\ rchs \subseteq Callers /\ refused \subseteq rchs

LEMMA OnMessages ==
  ASSUME RingType, FrameType, NEW m, On(Pipeline, m)
  PROVE  m \in Messages
  BY PipelineFlows DEF On, Flows, Elems

LEMMA FlowOnward ==
  ASSUME FlowInv, Onward, UNCHANGED <<nposted, nasked, rchs, refused>>
  PROVE  FlowInv'
  <1>1. Numbered'
    BY DEF FlowInv, Numbered, Onward
  <1> QED BY <1>1 DEF FlowInv, Onward

\* A new message comes behind those that are there.
LEMMA Entering ==
  ASSUME RingType, FrameType, Piped(Pipeline), NEW x \in Stages, NEW m \in Messages,
         Pipeline'[x] = Append(Pipeline[x], m),
         \A z \in Stages \ {x} : Pipeline'[z] = Pipeline[z],
         \A e : On(Pipeline, e) => Before(e, m) /\ (x # 7 => \A f \in Elems(todo) : Before(m, f)),
         x \in {6, 7}
  PROVE  Piped(Pipeline') /\ \A n : On(Pipeline', n) <=> On(Pipeline, n) \/ n = m
  <1> DEFINE P == Pipeline
             Q == Pipeline'
  <1>1. P \in Flows /\ Piped(P) /\ Q[x] = Append(P[x], m) /\ \A z \in Stages \ {x} : Q[z] = P[z]
    BY PipelineFlows
  <1>2. Behind(P, x, m)
    BY DEF Linked, On, Behind
  <1>3. Ahead(P, x, m)
    <2> SUFFICES ASSUME NEW z \in Stages, x < z, NEW f \in Elems(P[z])
                 PROVE  Before(m, f)
      BY DEF Linked, Ahead
    <2>1. x = 6 /\ z = 7
      BY DEF Stages
    <2>2. f \in Elems(todo) /\ On(Pipeline, f)
      BY <2>1, PipelineStages DEF On
    <2> QED BY <2>1, <2>2
  <1> HIDE DEF P, Q
  <1>4. Piped(Q) /\ \A n : On(Q, n) <=> On(P, n) \/ n = m
    <2>1. /\ x \in Stages /\ m \in Messages /\ P \in Flows /\ Piped(P)
          /\ Q[x] = Append(P[x], m) /\ \A z \in Stages \ {x} : Q[z] = P[z]
      BY <1>1
    <2> QED BY <1>2, <1>3, <2>1, Adding, SMTT(40)
  <1> QED BY <1>4 DEF P, Q

LEMMA PostFlow ==
  ASSUME RingType, FrameType, FlowInv, NEW k \in {"stream", "garbled"}, PostStream(k)
  PROVE  FlowInv' /\ \A n \in Answers : On(Pipeline', n) => On(Pipeline, n)
  <1> DEFINE m == Message(k, nposted + 1)
  <1>1. /\ outbound' = Append(outbound, m) /\ nposted' = nposted + 1
    BY DEF PostStream, Post
  <1>2. UNCHANGED <<nasked, rchs, refused>>
    BY DEF PostStream, aux, ghosts
  <1>3. UNCHANGED <<delivered, reader, downgot, downq, bhpc, upgot, upq, todo>>
    BY DEF PostStream, up, down, reading
  <1>4. nposted \in Nat /\ m \in Streams /\ m.n = nposted + 1 /\ m \in Messages
    <2>1. nposted \in Nat /\ nposted + 1 \in Nat
      BY DEF FrameType
    <2> QED BY <2>1 DEF Message, Streams, Messages
  <1> HIDE DEF m
  <1>5. m \notin Answers
    BY <1>4, Kinds
  <1>6. ASSUME NEW e, On(Pipeline, e)
        PROVE  Before(e, m)
    <2>1. e \in Streams => e.n \in Nat /\ e.n <= nposted
      BY <1>6 DEF FlowInv, Numbered, Streams
    <2> QED BY <1>4, <1>5, <2>1 DEF Before, InOrder
  <1>7. ASSUME NEW f \in Elems(todo)
        PROVE  Before(m, f)
    <2>1. f \in Answers
      BY <1>7 DEF RingType, Elems
    <2> QED BY <1>5, <2>1, Kinds DEF Before, InOrder
  <1>8. \A z \in Stages \ {6} : Pipeline'[z] = Pipeline[z]
    BY <1>3, StageNames, PipelineStages, PipelineStagesNext
  <1>9. Pipeline'[6] = Append(Pipeline[6], m) /\ 6 \in Stages
    BY <1>1, PipelineStages, PipelineStagesNext, StageNames
  <1>10. Piped(Pipeline') /\ \A n : On(Pipeline', n) <=> On(Pipeline, n) \/ n = m
    BY <1>4, <1>6, <1>7, <1>8, <1>9, Entering DEF FlowInv
  <1>11. Numbered'
    <2> SUFFICES ASSUME NEW n, On(Pipeline', n)
                 PROVE  /\ n \in Streams => n.n <= nposted'
                        /\ n \in Replies => n.n <= nasked'
                        /\ n \in Returns => n.n \in rchs' \ refused'
      BY DEF Numbered
    <2>1. CASE n = m
      BY <1>1, <1>4, <1>5, <2>1 DEF Answers
    <2>2. CASE On(Pipeline, n)
      <3>1. n \in Streams => n.n \in Nat
        BY DEF Streams
      <3> QED BY <1>1, <1>2, <1>4, <2>2, <3>1 DEF FlowInv, Numbered
    <2> QED BY <1>10, <2>1, <2>2
  <1> QED BY <1>2, <1>5, <1>10, <1>11 DEF FlowInv

LEMMA AskFlow ==
  ASSUME RingType, FrameType, AskInv, FlowInv, NEW a \in Askers, Query(a) \/ Dump(a)
  PROVE  /\ FlowInv'
         /\ \A n : On(Pipeline', n) <=> On(Pipeline, n) \/ n = Message("aux", nasked')
  <1> DEFINE m == Message("aux", nasked + 1)
  <1>1. todo' = Append(todo, m) /\ nasked' = nasked + 1
    BY DEF Query, Dump
  <1>2. UNCHANGED <<nposted, rchs, refused>>
    BY DEF Query, Dump
  <1>3. UNCHANGED <<delivered, reader, downgot, downq, bhpc, upgot, upq, outbound>>
    BY DEF Query, Dump, up, down, reading
  <1>4. nasked \in Nat /\ m \in Replies /\ m.n = nasked + 1 /\ m \in Messages /\ m \in Answers
        /\ m \notin Streams /\ m \notin Returns
    BY Kinds DEF AskInv, Message, Replies, Messages
  <1>5. m = Message("aux", nasked')
    BY <1>1
  <1> HIDE DEF m
  <1>6. ASSUME NEW e, On(Pipeline, e)
        PROVE  Before(e, m)
    <2>1. e \in Replies => e.n \in Nat /\ e.n <= nasked
      BY <1>6 DEF FlowInv, Numbered, Replies
    <2> QED BY <1>4, <2>1 DEF Before, InOrder
  <1>8. \A z \in Stages \ {7} : Pipeline'[z] = Pipeline[z]
    BY <1>3, StageNames, PipelineStages, PipelineStagesNext
  <1>9. Pipeline'[7] = Append(Pipeline[7], m) /\ 7 \in Stages
    BY <1>1, PipelineStages, PipelineStagesNext, StageNames
  <1>10. Piped(Pipeline') /\ \A n : On(Pipeline', n) <=> On(Pipeline, n) \/ n = m
    BY <1>4, <1>6, <1>8, <1>9, Entering DEF FlowInv
  <1>11. Numbered'
    <2> SUFFICES ASSUME NEW n, On(Pipeline', n)
                 PROVE  /\ n \in Streams => n.n <= nposted'
                        /\ n \in Replies => n.n <= nasked'
                        /\ n \in Returns => n.n \in rchs' \ refused'
      BY DEF Numbered
    <2>1. CASE n = m
      BY <1>1, <1>4, <2>1
    <2>2. CASE On(Pipeline, n)
      <3>1. n \in Replies => n.n \in Nat
        BY DEF Replies
      <3> QED BY <1>1, <1>2, <1>4, <2>2, <3>1 DEF FlowInv, Numbered
    <2> QED BY <1>10, <2>1, <2>2
  <1> QED BY <1>2, <1>5, <1>10, <1>11 DEF FlowInv

LEMMA CommandFlow ==
  ASSUME RingType, FrameType, FlowInv, NEW c \in Callers, Command(c)
  PROVE  /\ FlowInv'
         /\ \A n \in Replies : On(Pipeline', n) => On(Pipeline, n)
  <1> DEFINE m == Message("command", c)
  <1>1. todo' = Append(todo, m) /\ rchs' = rchs \cup {c} /\ c \notin rchs
    BY DEF Command
  <1>2. UNCHANGED <<nposted, nasked, refused>>
    BY DEF Command, aux, ghosts
  <1>3. UNCHANGED <<delivered, reader, downgot, downq, bhpc, upgot, upq, outbound>>
    BY DEF Command, up, down, reading
  <1>4. m \in Returns /\ m.n = c /\ m \in Messages /\ m \in Answers
        /\ m \notin Streams /\ m \notin Replies
    BY Kinds DEF Message, Returns, Messages
  <1> HIDE DEF m
  <1>6. ASSUME NEW e, On(Pipeline, e)
        PROVE  Before(e, m)
    <2>1. e \in Returns => e.n # c
      BY <1>1, <1>6 DEF FlowInv, Numbered
    <2> QED BY <1>4, <2>1 DEF Before, InOrder
  <1>8. \A z \in Stages \ {7} : Pipeline'[z] = Pipeline[z]
    BY <1>3, StageNames, PipelineStages, PipelineStagesNext
  <1>9. Pipeline'[7] = Append(Pipeline[7], m) /\ 7 \in Stages
    BY <1>1, PipelineStages, PipelineStagesNext, StageNames
  <1>10. Piped(Pipeline') /\ \A n : On(Pipeline', n) <=> On(Pipeline, n) \/ n = m
    BY <1>4, <1>6, <1>8, <1>9, Entering DEF FlowInv
  <1>11. Numbered'
    <2> SUFFICES ASSUME NEW n, On(Pipeline', n)
                 PROVE  /\ n \in Streams => n.n <= nposted'
                        /\ n \in Replies => n.n <= nasked'
                        /\ n \in Returns => n.n \in rchs' \ refused'
      BY DEF Numbered
    <2>1. CASE n = m
      BY <1>1, <1>2, <1>4, <2>1 DEF FlowInv
    <2>2. CASE On(Pipeline, n)
      BY <1>1, <1>2, <2>2 DEF FlowInv, Numbered
    <2> QED BY <1>10, <2>1, <2>2
  <1> QED BY <1>1, <1>2, <1>4, <1>10, <1>11 DEF FlowInv

LEMMA IsrFlow ==
  ASSUME RingType, FrameType, FlowInv, IncomingIsr
  PROVE  FlowInv'
  <1> DEFINE h == Head(outbound)
  <1>1. UNCHANGED <<nposted, nasked, rchs>>
    BY DEF IncomingIsr, card, aux
  <1>2. Onward /\ On(Pipeline, h)
    BY IsrOnward DEF FlowInv
  <1>3. CASE upput' = "full"
    <2>1. refused' = refused \cup RefusedBy(h)
      BY <1>3 DEF IncomingIsr
    <2>2. h \in Answers => \A m : On(Pipeline', m) => m # h
      BY <1>3, IsrOnward DEF FlowInv
    <2> HIDE DEF h
    <2>3. \A c \in RefusedBy(h) : h \in Returns /\ h \in Answers /\ h.n = c /\ h = Message("command", c)
      BY DEF RefusedBy, Returns, Answers, Message
    <2>4. RefusedBy(h) \subseteq rchs
      BY <1>2, <2>3 DEF FlowInv, Numbered
    <2>5. Numbered'
      <3> SUFFICES ASSUME NEW n, On(Pipeline', n)
                   PROVE  /\ n \in Streams => n.n <= nposted'
                          /\ n \in Replies => n.n <= nasked'
                          /\ n \in Returns => n.n \in rchs' \ refused'
        BY DEF Numbered
      <3>1. On(Pipeline, n)
        BY <1>2 DEF Onward
      <3>2. n \in Returns => n.n \notin RefusedBy(h)
        <4>1. n \in Returns => n = Message("command", n.n)
          BY DEF Returns, Message
        <4> QED BY <2>2, <2>3, <4>1
      <3> QED BY <1>1, <2>1, <3>1, <3>2 DEF FlowInv, Numbered
    <2> QED BY <1>1, <1>2, <2>1, <2>4, <2>5 DEF FlowInv, Onward
  <1>4. CASE upput' # "full"
    <2>1. refused' = refused
      BY <1>4 DEF IncomingIsr
    <2> QED BY <1>1, <1>2, <2>1, FlowOnward
  <1> QED BY <1>3, <1>4

LEMMA BottomHalfFlow ==
  ASSUME RingType, FrameType, FlowInv, BottomHalf
  PROVE  FlowInv'
  <1>1. UNCHANGED <<nposted, nasked, refused>>
    BY DEF BottomHalf, BhStart, BhGet, BhDone, BhDispatch, PassOn, CallHandler, KeepAux, card, aux,
           ghosts
  <1>2. Onward
    BY BottomHalfOnward DEF FlowInv
  <1>3. CASE rchs' = rchs
    BY <1>1, <1>2, <1>3, FlowOnward
  <1>4. CASE rchs' # rchs
    <2>1. BhDispatch /\ CallHandler(upgot) /\ upgot \in Returns /\ rchs' = rchs \ {upgot.n}
      BY <1>4 DEF BottomHalf, BhStart, BhGet, BhDone, BhDispatch, PassOn, CallHandler, KeepAux
    <2>2. On(Pipeline, upgot) /\ \A m : On(Pipeline', m) => m # upgot
      BY <2>1, DispatchOnward DEF FlowInv, Answers
    <2>3. upgot.n \notin refused
      BY <2>1, <2>2 DEF FlowInv, Numbered
    <2>4. Numbered'
      <3> SUFFICES ASSUME NEW n, On(Pipeline', n)
                   PROVE  /\ n \in Streams => n.n <= nposted'
                          /\ n \in Replies => n.n <= nasked'
                          /\ n \in Returns => n.n \in rchs' \ refused'
        BY DEF Numbered
      <3>1. On(Pipeline, n)
        BY <1>2 DEF Onward
      <3>2. n \in Returns => n.n # upgot.n
        BY <2>1, <2>2 DEF Returns
      <3> QED BY <1>1, <2>1, <3>1, <3>2 DEF FlowInv, Numbered
    <2> QED BY <1>1, <1>2, <2>1, <2>3, <2>4 DEF FlowInv, Onward
  <1> QED BY <1>3, <1>4

flowing == <<delivered, down, up, bhpc, outbound, todo, nposted, nasked, rchs, refused>>

LEMMA Idling ==
  ASSUME FlowInv, UNCHANGED flowing,
         UNCHANGED reader \/ (reader.pc # "have" /\ reader'.pc # "have")
  PROVE  Onward /\ FlowInv'
  <1>1. UNCHANGED <<delivered, downq, downgot, upq, upgot, bhpc, outbound, todo>>
    BY DEF flowing, up, down
  <1>2. Pipeline'[2] = Pipeline[2]
    BY <1>1, PipelineStages, PipelineStagesNext DEF If
  <1>3. \A z \in Stages : Pipeline'[z] = Pipeline[z]
    BY <1>1, <1>2, StageNames, PipelineStages, PipelineStagesNext
  <1>4. Onward
    BY <1>3, Standing DEF FlowInv
  <1> QED BY <1>4, FlowOnward DEF flowing

LEMMA FlowStep == RingType /\ FrameType /\ AskInv /\ FlowInv /\ [Next]_vars => FlowInv'
  <1> SUFFICES ASSUME RingType, FrameType, AskInv, FlowInv, [Next]_vars
               PROVE  FlowInv'
    OBVIOUS
  <1>2. CASE PostReply
    <2>1. UNCHANGED <<nposted, nasked, rchs, refused>>
      BY <1>2 DEF PostReply, aux, ghosts
    <2> QED BY <1>2, <2>1, CardOnward, FlowOnward DEF FlowInv
  <1>3. CASE Reader
    <2>1. UNCHANGED <<nposted, nasked, rchs, refused>>
      BY <1>3 DEF Reader, ReadGet, ReadNap, ReadWake, ReadEnd, ReadGarbled, ReadPutBack, ReadCopy,
         ReadOnly, card, aux, ghosts
    <2> QED BY <1>3, <2>1, ReaderOnward, FlowOnward DEF FlowInv
  <1>5. CASE (\E on \in BOOLEAN : SendStream(on)) \/ StreamAcked \/ StreamFailed
    <2>1. UNCHANGED <<flowing, reader>>
      BY <1>5 DEF flowing, SendStream, StreamAcked, StreamFailed, card, aux, reading, ghosts
    <2> QED BY <2>1, Idling
  <1>6. ASSUME NEW a \in Askers, Asker(a)
        PROVE  FlowInv'
    <2>1. UNCHANGED <<flowing, reader>>
      BY <1>6 DEF flowing, Asker, DumpWait, Expired, Woken, PrintAuxReply, card, reading, ghosts
    <2> QED BY <2>1, Idling
  <1>7. CASE \E a \in Askers, why \in {"timeout", "signal"} : Interrupted(a, why)
    <2>1. UNCHANGED <<flowing, reader>>
      BY <1>7 DEF flowing, Interrupted, card, reading
    <2> QED BY <2>1, Idling
  <1>8. ASSUME NEW room \in 0 .. MaxRoom, StartRead(room)
        PROVE  FlowInv'
    <2>1. UNCHANGED flowing /\ reader.pc # "have" /\ reader'.pc # "have"
      BY <1>8 DEF flowing, StartRead, card, aux, ghosts
    <2> QED BY <2>1, Idling
  <1>9. CASE UNCHANGED vars
    <2>1. UNCHANGED <<flowing, reader>>
      BY <1>9 DEF flowing, vars, card, aux, reading, ghosts
    <2> QED BY <2>1, Idling
  <1> QED BY <1>2, <1>3, <1>5, <1>6, <1>7, <1>8, <1>9, PostFlow, AskFlow, CommandFlow, IsrFlow,
             BottomHalfFlow DEF Next, Card
-----------------------------------------------------------------------------
(* Answers.  Undisturbed, the only reply on its way, or kept, is that to    *)
(* the last question, and the process that asked is there for it.          *)
SomeAsker(pcs) == \E a \in Askers : asker[a].pc \in pcs

Answering ==
  /\ ~ wrong
  /\ \A a \in Askers : asker[a].pc # "idle" => asker[a].n = nasked /\ asker[a].pc # "expired"
  /\ \A m \in Replies : On(Pipeline, m) =>
       m = Message("aux", nasked) /\ SomeAsker({"dump", "wait"})
  /\ auxMfa # NoFrame => auxMfa = Message("aux", nasked) /\ SomeAsker({"woken", "print"})
  /\ auxWaiting => SomeAsker({"wait"})

AnswerInv == Undisturbed({"timeout", "signal", "mixed"}) => Answering

LEMMA AnsweringKept ==
  ASSUME Answering, Onward \/ \A m \in Replies : On(Pipeline', m) => On(Pipeline, m),
         UNCHANGED <<aux, wrong>>
  PROVE  Answering'
  BY DEF Answering, Onward, SomeAsker, aux

\* Nobody else is between a question and its answer.
LEMMA AskAlone ==
  ASSUME AskInv, Answering, NEW a \in Askers,
         asker[a].pc \in {"idle", "dump"}, Mixes(a) \cap {"mixed"} = {}
  PROVE  /\ auxMfa = NoFrame /\ \A b \in Askers \ {a} : asker[b].pc = "idle"
         /\ asker[a].pc = "idle" => \A m \in Replies : ~ On(Pipeline, m)
  <1>1. \A b \in Askers \ {a} : asker[b].pc = "idle"
    BY DEF Mixes
  <1> QED BY <1>1 DEF Answering, SomeAsker

LEMMA AskAnswering ==
  ASSUME RingType, FrameType, AskInv, AskInv', FlowInv, Answering, NEW a \in Askers,
         Query(a) \/ Dump(a), Undisturbed({"mixed"})'
  PROVE  Answering'
  <1>1. /\ asker[a].pc = "idle" /\ nasked' = nasked + 1 /\ upset' = upset \cup Mixes(a)
        /\ UNCHANGED <<auxMfa, wrong>>
    BY DEF Query, Dump
  <1>2. /\ auxMfa = NoFrame /\ \A b \in Askers \ {a} : asker[b].pc = "idle"
        /\ \A m \in Replies : ~ On(Pipeline, m)
    <2>1. Mixes(a) \cap {"mixed"} = {}
      BY <1>1 DEF Undisturbed
    <2> QED BY <1>1, <2>1, AskAlone
  <1>3. /\ asker'[a].pc \in {"wait", "dump"} /\ asker'[a].n = nasked'
        /\ \A b \in Askers \ {a} : asker'[b] = asker[b]
        /\ auxWaiting' => auxWaiting \/ asker'[a].pc = "wait"
    <2>1. CASE Query(a)
      <3>1. WaitAux(a, nasked + 1)
        BY <2>1 DEF Query
      <3> DEFINE r == [pc |-> "wait", n |-> nasked + 1, mfa |-> NoFrame]
      <3>2. r.pc = "wait" /\ r.n = nasked + 1
        OBVIOUS
      <3> HIDE DEF r
      <3>3. asker' = [asker EXCEPT ![a] = r]
        BY <1>2, <3>1 DEF WaitAux, r
      <3> QED BY <1>1, <3>2, <3>3 DEF AskInv
    <2>2. CASE Dump(a)
      <3>1. asker' = [asker EXCEPT ![a].pc = "dump", ![a].n = nasked + 1] /\ UNCHANGED auxWaiting
        BY <2>2 DEF Dump
      <3>2. asker[a] \in AskerType
        BY DEF AskInv
      <3> QED BY <1>1, <3>1, <3>2 DEF AskInv, AskerType
    <2> QED BY <2>1, <2>2
  <1>4. \A m \in Replies : On(Pipeline', m) => m = Message("aux", nasked')
    BY <1>2, AskFlow
  <1>5. ~ auxWaiting
    BY <1>1, <1>2 DEF Answering, SomeAsker
  <1>6. SomeAsker({"dump", "wait"})'
    BY <1>3 DEF SomeAsker
  <1>7. auxWaiting' => SomeAsker({"wait"})'
    BY <1>3, <1>5 DEF SomeAsker
  <1>8. \A b \in Askers : asker'[b].pc # "idle" => asker'[b].n = nasked' /\ asker'[b].pc # "expired"
    BY <1>2, <1>3
  <1> QED BY <1>1, <1>2, <1>4, <1>6, <1>7, <1>8 DEF Answering

LEMMA DumpWaitAnswering ==
  ASSUME AskInv, FlowInv, Answering, NEW a \in Askers, DumpWait(a), Undisturbed({"mixed"})'
  PROVE  Answering'
  <1>1. /\ asker[a].pc = "dump" /\ upset' = upset \cup Mixes(a) /\ WaitAux(a, asker[a].n)
        /\ UNCHANGED <<auxMfa, nasked, wrong>>
    BY DEF DumpWait
  <1>2. auxMfa = NoFrame /\ \A b \in Askers \ {a} : asker[b].pc = "idle"
    <2>1. Mixes(a) \cap {"mixed"} = {}
      BY <1>1 DEF Undisturbed
    <2> QED BY <1>1, <2>1, AskAlone
  <1>3. /\ asker'[a].pc = "wait" /\ asker'[a].n = nasked
        /\ \A b \in Askers \ {a} : asker'[b] = asker[b]
    <2> DEFINE r == [pc |-> "wait", n |-> asker[a].n, mfa |-> NoFrame]
    <2>1. r.pc = "wait" /\ r.n = nasked
      BY <1>1 DEF Answering
    <2> HIDE DEF r
    <2>2. asker' = [asker EXCEPT ![a] = r]
      BY <1>1, <1>2 DEF WaitAux, r
    <2> QED BY <2>1, <2>2 DEF AskInv
  <1>4. UNCHANGED <<flowing, reader>>
    BY DEF DumpWait, flowing, card, reading
  <1>5. Onward
    BY <1>4, Idling
  <1>6. SomeAsker({"dump", "wait"})' /\ SomeAsker({"wait"})'
    BY <1>3 DEF SomeAsker
  <1>7. \A m \in Replies : On(Pipeline', m) => m = Message("aux", nasked)
    BY <1>5 DEF Onward, Answering
  <1> QED BY <1>1, <1>2, <1>3, <1>6, <1>7 DEF Answering

LEMMA TakenAnswering ==
  ASSUME AskInv, Quiet, FlowInv, Answering, NEW a \in Askers, Woken(a) \/ PrintAuxReply(a)
  PROVE  Answering'
  <1>1. /\ asker[a].pc \in {"woken", "print"} /\ asker[a] \in AskerType
        /\ UNCHANGED nasked
    BY DEF Woken, PrintAuxReply, AskInv
  <1>2. \A b \in Askers \ {a} : asker[b].pc = "idle"
    BY <1>1 DEF Quiet
  <1>3. \A m \in Replies : ~ On(Pipeline, m)
    BY <1>1, <1>2 DEF Answering, SomeAsker
  <1>4. UNCHANGED <<flowing, reader>>
    BY DEF Woken, PrintAuxReply, flowing, card, reading, ghosts
  <1>5. \A m \in Replies : ~ On(Pipeline', m)
    <2>1. Onward
      BY <1>4, Idling
    <2> QED BY <1>3, <2>1 DEF Onward
  <1>6. auxMfa = Message("aux", nasked) /\ asker[a].n = nasked /\ ~ wrong
    BY <1>1 DEF Quiet, Answering
  <1>7. CASE Woken(a)
    <2>1. /\ asker' = [asker EXCEPT ![a].pc = "print", ![a].mfa = auxMfa] /\ auxWaiting' = FALSE
          /\ UNCHANGED <<auxMfa, wrong>>
      BY <1>7 DEF Woken, ghosts
    <2>2. /\ asker'[a].pc = "print" /\ asker'[a].n = nasked
          /\ \A b \in Askers \ {a} : asker'[b] = asker[b]
      BY <1>1, <1>6, <2>1 DEF AskInv, AskerType
    <2>3. SomeAsker({"woken", "print"})'
      BY <2>2 DEF SomeAsker
    <2> QED BY <1>1, <1>2, <1>5, <1>6, <2>1, <2>2, <2>3 DEF Answering
  <1>8. CASE PrintAuxReply(a)
    <2>1. /\ asker' = [asker EXCEPT ![a].pc = "idle", ![a].mfa = NoFrame] /\ auxMfa' = NoFrame
          /\ wrong' = (wrong \/ asker[a].mfa # Message("aux", asker[a].n)) /\ UNCHANGED auxWaiting
          /\ asker[a].pc = "print"
      BY <1>8 DEF PrintAuxReply
    <2>2. asker[a].mfa = auxMfa /\ ~ auxWaiting
      BY <2>1 DEF AskInv
    <2>3. ~ wrong'
      BY <1>6, <2>1, <2>2
    <2>4. \A b \in Askers : asker'[b].pc = "idle"
      BY <1>1, <1>2, <2>1 DEF AskInv, AskerType
    <2> QED BY <1>5, <2>1, <2>2, <2>3, <2>4 DEF Answering
  <1> QED BY <1>7, <1>8

LEMMA DispatchAnswering ==
  ASSUME RingType, FrameType, AskInv, FlowInv, Answering, BhDispatch
  PROVE  Answering'
  <1>1. Onward /\ On(Pipeline, upgot) /\ (upgot \in Answers => \A m : On(Pipeline', m) => m # upgot)
    BY DispatchOnward DEF FlowInv
  <1>2. UNCHANGED wrong
    BY DEF BhDispatch
  <1>3. CASE UNCHANGED aux
    BY <1>1, <1>2, <1>3, AnsweringKept
  <1>4. CASE KeepAux(upgot) /\ auxWaiting
    <2>1. /\ upgot \in Replies /\ auxMfa' = upgot /\ auxWaiting' = FALSE /\ asker' = Awaken
          /\ UNCHANGED nasked
      BY <1>4 DEF KeepAux
    <2>2. upgot = Message("aux", nasked)
      BY <1>1, <2>1 DEF Answering
    <2>3. \A m \in Replies : ~ On(Pipeline', m)
      BY <1>1, <2>1, <2>2 DEF Answers, Onward, Answering
    <2>4. \A a \in Askers : /\ asker'[a].n = asker[a].n
                            /\ asker'[a].pc = IF asker[a].pc = "wait" THEN "woken" ELSE asker[a].pc
      BY <2>1 DEF Awaken, AskInv, AskerType
    <2>5. SomeAsker({"woken", "print"})'
      <3>1. PICK a \in Askers : asker[a].pc = "wait"
        BY <1>4 DEF Answering, SomeAsker
      <3>2. asker'[a].pc = "woken"
        BY <2>4, <3>1
      <3> QED BY <3>2 DEF SomeAsker
    <2>6. \A a \in Askers : asker'[a].pc # "idle" => asker'[a].n = nasked' /\ asker'[a].pc # "expired"
      BY <2>1, <2>4 DEF Answering
    <2>7. ~ wrong'
      BY <1>2 DEF Answering
    <2> QED BY <2>1, <2>2, <2>3, <2>5, <2>6, <2>7 DEF Answering
  <1>5. PassOn(upgot) \/ CallHandler(upgot) \/ (KeepAux(upgot) /\ ~ auxWaiting) => UNCHANGED aux
    BY DEF PassOn, CallHandler, KeepAux, aux
  <1> QED BY <1>3, <1>4, <1>5 DEF BhDispatch

LEMMA AnswerStep ==
  RingType /\ FrameType /\ AskInv /\ AskInv' /\ QuietInv /\ FlowInv /\ AnswerInv /\ [Next]_vars
    => AnswerInv'
  <1> SUFFICES ASSUME RingType, FrameType, AskInv, AskInv', QuietInv, FlowInv, AnswerInv,
                      [Next]_vars, Undisturbed({"timeout", "signal", "mixed"})'
               PROVE  Answering'
    BY DEF AnswerInv
  <1>1. upset \subseteq upset'
    <2>1. CASE UNCHANGED upset
      BY <2>1
    <2>2. CASE \E a \in Askers : Query(a) \/ Dump(a) \/ DumpWait(a)
      BY <2>2 DEF Query, Dump, DumpWait
    <2>3. CASE \E a \in Askers, why \in {"timeout", "signal"} : Interrupted(a, why)
      BY <2>3 DEF Interrupted
    <2>4. Card \/ IncomingIsr \/ BottomHalf \/ (\E on \in BOOLEAN : SendStream(on)) \/ StreamAcked
            \/ StreamFailed \/ (\E c \in Callers : Command(c))
            => UNCHANGED upset
      BY DEF Card, PostStream, PostReply, IncomingIsr, BottomHalf, BhStart, BhGet, BhDone,
         BhDispatch, PassOn, CallHandler, KeepAux, SendStream, StreamAcked, StreamFailed, Command,
         ghosts
    <2>5. (\E room \in 0 .. MaxRoom : StartRead(room)) \/ Reader \/ UNCHANGED vars
            \/ (\E a \in Askers : Expired(a) \/ Woken(a) \/ PrintAuxReply(a))
            => UNCHANGED upset
      BY DEF StartRead, Reader, ReadGet, ReadNap, ReadWake, ReadEnd, ReadGarbled, ReadPutBack,
         ReadCopy, ReadOnly, vars, Expired, Woken, PrintAuxReply, ghosts
    <2> QED BY <2>1, <2>2, <2>3, <2>4, <2>5 DEF Next, Asker
  <1>2. Answering /\ Quiet
    <2>1. Undisturbed({"timeout", "signal", "mixed"}) /\ Undisturbed({"signal", "mixed"})
      BY <1>1 DEF Undisturbed
    <2> QED BY <2>1 DEF AnswerInv, QuietInv
  <1>3. Undisturbed({"mixed"})'
    BY DEF Undisturbed
  <1>4. CASE PostReply \/ IncomingIsr \/ BhStart \/ BhGet \/ BhDone \/ Reader
    <2>1. Onward
      BY <1>4, CardOnward, IsrOnward, BottomHalfOnward, ReaderOnward DEF BottomHalf, FlowInv
    <2>2. UNCHANGED <<aux, wrong>>
      BY <1>4 DEF PostReply, IncomingIsr, BhStart, BhGet, BhDone, Reader, ReadGet, ReadNap, ReadWake,
         ReadEnd, ReadGarbled, ReadPutBack, ReadCopy, ReadOnly, ghosts
    <2> QED BY <1>2, <2>1, <2>2, AnsweringKept
  <1>5. ASSUME NEW k \in {"stream", "garbled"}, PostStream(k)
        PROVE  Answering'
    <2>1. \A m \in Replies : On(Pipeline', m) => On(Pipeline, m)
      BY <1>5, PostFlow DEF Answers
    <2>2. UNCHANGED <<aux, wrong>>
      BY <1>5 DEF PostStream, ghosts
    <2> QED BY <1>2, <2>1, <2>2, AnsweringKept
  <1>6. ASSUME NEW c \in Callers, Command(c)
        PROVE  Answering'
    <2>1. UNCHANGED <<aux, wrong>>
      BY <1>6 DEF Command, ghosts
    <2> QED BY <1>2, <1>6, <2>1, CommandFlow, AnsweringKept
  <1>7. CASE \/ (\E on \in BOOLEAN : SendStream(on)) \/ StreamAcked \/ StreamFailed \/ UNCHANGED vars
             \/ \E room \in 0 .. MaxRoom : StartRead(room)
    <2>1. UNCHANGED <<aux, wrong>>
      BY <1>7 DEF SendStream, StreamAcked, StreamFailed, vars, StartRead, ghosts
    <2>2. UNCHANGED flowing
      BY <1>7 DEF SendStream, StreamAcked, StreamFailed, vars, StartRead, flowing, card, aux, reading,
         ghosts
    <2>3. UNCHANGED reader \/ (reader.pc # "have" /\ reader'.pc # "have")
      BY <1>7 DEF SendStream, StreamAcked, StreamFailed, vars, StartRead, reading
    <2>4. Onward
      BY <2>2, <2>3, Idling
    <2> QED BY <1>2, <2>1, <2>4, AnsweringKept
  <1>8. ASSUME NEW a \in Askers, NEW why \in {"timeout", "signal"}, Interrupted(a, why)
        PROVE  FALSE
    BY <1>8 DEF Interrupted, Undisturbed
  <1>9. ASSUME NEW a \in Askers, Expired(a)
        PROVE  FALSE
    BY <1>2, <1>9 DEF Expired, Answering
  <1> QED BY <1>2, <1>3, <1>4, <1>5, <1>6, <1>7, <1>8, <1>9, AskAnswering, DumpWaitAnswering,
             TakenAnswering, DispatchAnswering DEF Next, Card, BottomHalf, Asker
-----------------------------------------------------------------------------
LEMMA StartInv ==
  Init => ControlType /\ RingType /\ ReaderBound /\ FrameType /\ Balance /\ QuietInv /\ FlowInv
            /\ AnswerInv
  <1> SUFFICES ASSUME Init
               PROVE  /\ ControlType /\ RingType /\ ReaderBound /\ FrameType /\ Balance
                      /\ QuietInv /\ FlowInv /\ AnswerInv
    OBVIOUS
  <1>1. FrameType /\ Balance
    BY HostMessagesAssumption
       DEF Init, Streambuf!Init, Downstreambuf!Init, FrameType, ReaderType, Balance, HostFrames, One
  <1>2. ControlType
    BY DEF Init, ControlType
  <1>9. ReaderBound
    <2>1. reader = [pc |-> "idle", ibuf |-> 0, room |-> 0, naps |-> 0]
      BY DEF Init
    <2>2. MinRead \in Nat /\ MaxRoom \in Nat /\ MaxNaps \in Nat
      BY HostMessagesAssumption
    <2> QED BY <2>1, <2>2 DEF ReaderBound
  <1>10. QuietInv
    BY DEF Init, QuietInv, Quiet
  <1>3. RingType
    BY HostMessagesAssumption DEF Init, Streambuf!Init, Downstreambuf!Init, RingType, Slot
  <1>4. \A z \in Stages : Pipeline[z] = << >>
    BY StageNames, PipelineStages DEF Init, Streambuf!Init, Downstreambuf!Init, If
  <1>5. \A z \in Stages : Elems(Pipeline[z]) = {} /\ Chained(Pipeline[z])
    BY <1>4 DEF Elems, Chained
  <1>6. Piped(Pipeline) /\ \A m : ~ On(Pipeline, m)
    BY <1>5 DEF Piped, Linked, On
  <1>7. FlowInv
    BY <1>6 DEF Init, FlowInv, Numbered
  <1>8. AnswerInv
    BY <1>6 DEF Init, AnswerInv, Answering, SomeAsker
  <1> QED BY <1>1, <1>2, <1>3, <1>7, <1>8, <1>9, <1>10

\* Every process, ring and frame is always of the type the model gives it; a
\* ring never holds more than its room, nor the host more frames than the card
\* has, and a caller whose reply was refused is still on the list of handlers.
THEOREM TypeCorrect == Spec => []TypeOK
  <1>1. ASSUME AskInv, FrameType, Balance, ControlType, RingType, ReaderBound, FlowInv
        PROVE  TypeOK
    <2>1. free <= Frames + bogus /\ stranded <= Frames + bogus
      <3>1. /\ free \in Nat /\ Len(outbound) \in Nat /\ HostFrames \in Nat /\ stranded \in Nat
            /\ bogus \in Nat /\ Frames \in Nat
        BY <1>1, Counts, HostSum, HostMessagesAssumption
      <3>2. free + Len(outbound) + HostFrames + stranded = Frames + bogus
        BY <1>1 DEF Balance
      <3> QED BY <3>1, <3>2
    <2>2. free \in 0 .. Frames + bogus /\ stranded \in 0 .. Frames + bogus
      BY <1>1, <2>1, HostMessagesAssumption DEF FrameType
    <2>3. reader \in [pc : {"idle", "loop", "nap", "have"}, ibuf : 0 .. MinRead,
                      room : 0 .. MaxRoom, naps : 0 .. MaxNaps]
      BY <1>1, HostMessagesAssumption DEF FrameType, ReaderType, ReaderBound
    <2> QED BY <1>1, <2>2, <2>3
            DEF TypeOK, AskInv, AskerType, FrameType, ControlType, RingType, FlowInv, Answers
  <1> QED BY <1>1, StartInv, AskInit, AskStep, FrameStep, ControlStep, RingStep, ReaderStep, FlowStep,
             PTL DEF Spec

\* The reader gets the card's stream in order and nothing of it twice, however
\* much is refused, stranded, put back, garbled or read in pieces.
THEOREM StreamIsInOrder == Spec => []StreamInOrder
  <1>1. ASSUME FlowInv
        PROVE  StreamInOrder
    <2>1. Len(Pipeline) = 7
      BY DEF Pipeline
    <2> SUFFICES ASSUME NEW x \in 1 .. 7
                 PROVE  /\ \A i, j \in 1 .. Len(Pipeline[x]) :
                             i < j => InOrder(Pipeline[x][i], Pipeline[x][j])
                        /\ \A y \in x + 1 .. 7 :
                             \A i \in 1 .. Len(Pipeline[x]), j \in 1 .. Len(Pipeline[y]) :
                               InOrder(Pipeline[x][i], Pipeline[y][j])
      BY <2>1 DEF StreamInOrder
    <2>2. Chained(Pipeline[x])
      BY <1>1 DEF FlowInv, Piped, Stages
    <2>3. ASSUME NEW y \in x + 1 .. 7
          PROVE  Linked(Elems(Pipeline[x]), Elems(Pipeline[y]))
      <3>1. x \in Stages /\ y \in Stages /\ x < y
        BY DEF Stages
      <3> QED BY <1>1, <3>1 DEF FlowInv, Piped
    <2> QED BY <2>2, <2>3 DEF Chained, Linked, Elems, Before
  <1> QED BY <1>1, StartInv, AskInit, AskStep, FrameStep, RingStep, FlowStep, PTL DEF Spec

\* Until a wait times out, is cut short by a signal or overlaps another, every
\* query prints the reply to its own question, whatever else the card sends.
THEOREM AnswersAreMine == Spec => []AnswersMine
  <1>1. AnswerInv => AnswersMine
    BY DEF AnswerInv, Answering, AnswersMine
  <1> QED BY <1>1, StartInv, AskInit, AskStep, FrameStep, QuietStep, RingStep, FlowStep, AnswerStep,
             PTL DEF Spec
-----------------------------------------------------------------------------
(* The rings.                                                              *)
LEMMA UpUsed == FrameType /\ [Next]_vars => [Streambuf!Next]_up
  <1> SUFFICES ASSUME FrameType, [Next]_vars
               PROVE  Streambuf!Next \/ UNCHANGED up
    OBVIOUS
  <1>1. CASE IncomingIsr
    <2>1. Head(outbound) \in Messages /\ Streambuf!Put(Head(outbound))
      BY <1>1, SeqCounts DEF IncomingIsr, FrameType
    <2> QED BY <2>1 DEF Streambuf!Next
  <1>2. CASE BhGet
    BY <1>2 DEF BhGet, Streambuf!Next
  <1>3. Card \/ BhStart \/ BhDone \/ BhDispatch \/ (\E on \in BOOLEAN : SendStream(on))
          \/ StreamAcked \/ StreamFailed \/ (\E c \in Callers : Command(c))
          => UNCHANGED up
    BY DEF Card, PostStream, PostReply, BhStart, BhDone, BhDispatch, SendStream, StreamAcked,
       StreamFailed, Command
  <1>4. \A a \in Askers : Query(a) \/ Dump(a) \/ Asker(a) => UNCHANGED up
    BY DEF Query, Dump, Asker, DumpWait, Expired, Woken, PrintAuxReply
  <1>5. (\E a \in Askers, why \in {"timeout", "signal"} : Interrupted(a, why)) \/ Reader
          \/ (\E room \in 0 .. MaxRoom : StartRead(room)) \/ UNCHANGED vars
          => UNCHANGED up
    BY DEF Interrupted, Reader, ReadGet, ReadNap, ReadWake, ReadEnd, ReadGarbled, ReadPutBack,
       ReadCopy, ReadOnly, StartRead, vars
  <1> QED BY <1>1, <1>2, <1>3, <1>4, <1>5 DEF Next, BottomHalf

LEMMA DownUsed == [Next]_vars => [Downstreambuf!Next]_down
  <1> SUFFICES ASSUME [Next]_vars
               PROVE  Downstreambuf!Next \/ UNCHANGED down
    OBVIOUS
  <1>1. CASE BhDispatch
    <2>1. CASE PassOn(upgot) /\ streamingEnabled
      <3>1. upgot \in Streams /\ Downstreambuf!Put(upgot)
        BY <2>1 DEF PassOn
      <3> QED BY <3>1 DEF Downstreambuf!Next
    <2>2. CASE ~ (PassOn(upgot) /\ streamingEnabled)
      BY <1>1, <2>2 DEF BhDispatch, PassOn, CallHandler, KeepAux
    <2> QED BY <2>1, <2>2
  <1>2. CASE ReadGet \/ ReadPutBack
    BY <1>2 DEF ReadGet, ReadPutBack, Downstreambuf!Next
  <1>3. Card \/ IncomingIsr \/ BhStart \/ BhGet \/ BhDone \/ (\E on \in BOOLEAN : SendStream(on))
          \/ StreamAcked \/ StreamFailed \/ (\E c \in Callers : Command(c))
          => UNCHANGED down
    BY DEF Card, PostStream, PostReply, IncomingIsr, BhStart, BhGet, BhDone, SendStream, StreamAcked,
       StreamFailed, Command
  <1>4. \A a \in Askers : Query(a) \/ Dump(a) \/ Asker(a) => UNCHANGED down
    BY DEF Query, Dump, Asker, DumpWait, Expired, Woken, PrintAuxReply
  <1>5. (\E a \in Askers, why \in {"timeout", "signal"} : Interrupted(a, why))
          \/ ReadNap \/ ReadWake \/ ReadEnd \/ ReadGarbled \/ ReadCopy
          \/ (\E room \in 0 .. MaxRoom : StartRead(room)) \/ UNCHANGED vars
          => UNCHANGED down
    BY DEF Interrupted, ReadNap, ReadWake, ReadEnd, ReadGarbled, ReadCopy, StartRead, vars
  <1> QED BY <1>1, <1>2, <1>3, <1>4, <1>5 DEF Next, BottomHalf, Reader

\* The interrupt, the bottom half and the reader use each ring as the abstract
\* queue that StreamBuf is proved to implement: only frames of its kind are put,
\* one step of the driver is at most one operation on it.
THEOREM RingsAreQueues == Spec => Streambuf!Spec /\ Downstreambuf!Spec
  <1>1. Init => Streambuf!Init /\ Downstreambuf!Init
    BY DEF Init
  <1>2. Init => FrameType
    BY StartInv
  <1>3. up = Streambuf!vars /\ down = Downstreambuf!vars
    BY DEF up, down, Streambuf!vars, Downstreambuf!vars
  <1>4. FrameType /\ [Next]_vars => [Streambuf!Next]_(Streambuf!vars)
    BY <1>3, UpUsed DEF up, Streambuf!vars
  <1>5. [Next]_vars => [Downstreambuf!Next]_(Downstreambuf!vars)
    BY <1>3, DownUsed DEF down, Downstreambuf!vars
  <1> QED BY <1>1, <1>2, <1>4, <1>5, StartInv, AskInit, AskStep, FrameStep, PTL
          DEF Spec, Streambuf!Spec, Downstreambuf!Spec
=============================================================================
