---------------------------- MODULE BridgeProofs ----------------------------
(***************************************************************************)
(* Theorems about Bridge: who has which buffer of the pool, the types of   *)
(* its variables, which handler a reply meets, and what a transfer moves   *)
(* to and from its file.                                                   *)
(***************************************************************************)
EXTENDS Bridge, WellFoundedInduction, FiniteSetTheorems, SequenceTheorems, TLAPS

-----------------------------------------------------------------------------
(* The inductive invariant.                                                *)
Fields == DOMAIN Fresh

\* A process has a buffer to fill.
Holding(r) == r.pc = "fill" /\ r.buf # NoBuf

\* Where a process has a buffer, and where it has none.
ClientOK(r) ==
  /\ DOMAIN r = Fields
  /\ r.buf \in Bufs \cup {NoBuf} /\ r.stop \in Bufs /\ r.op \in Nat
  /\ r.kind \in Kinds \cup {"none"}
  /\ r.pc \in {"closed", "user", "alloc", "full", "nap", "rescan"} => r.buf = NoBuf
  /\ r.pc \in {"alloc", "full", "nap", "rescan"} => r.kind \in {"read", "write", "empty"}
  /\ r.pc = "fill" => r.kind # "none" /\ (r.kind = "release" <=> r.buf = NoBuf)

Handler == [id : Nat, op : Nat, kind : Kinds, client : Clients, buf : Bufs \cup {NoBuf}]

PoolType ==
  /\ reserved \in [Bufs -> BOOLEAN] /\ ibuf \in Bufs
  /\ rchs \in Seq(Handler)
  /\ emptied \in Nat /\ nops \in Nat /\ lastId \in Nat
  /\ cl = [c \in Clients |-> cl[c]]
  /\ \A c \in Clients : ClientOK(cl[c])

\* One holder: never two handlers, two processes, or a process and a handler;
\* only the handler of a release has no buffer.
OneHolder ==
  /\ \A i \in 1 .. Len(rchs) :
       /\ rchs[i].kind = "release" <=> rchs[i].buf = NoBuf
       /\ rchs[i].buf # NoBuf => reserved[rchs[i].buf]
  /\ \A i, j \in 1 .. Len(rchs) :
       rchs[i].buf = rchs[j].buf /\ rchs[i].buf # NoBuf => i = j
  /\ \A c \in Clients : Holding(cl[c]) =>
       /\ reserved[cl[c].buf]
       /\ \A i \in 1 .. Len(rchs) : rchs[i].buf # cl[c].buf
       /\ \A d \in Clients : Holding(cl[d]) /\ cl[d].buf = cl[c].buf => d = c

\* Buffers that are reserved and have no holder.
Left ==
  {b \in Bufs : /\ reserved[b]
                /\ \A i \in 1 .. Len(rchs) : rchs[i].buf # b
                /\ \A c \in Clients : Holding(cl[c]) => cl[c].buf # b}

BufInv == PoolType /\ OneHolder /\ Cardinality(Left) <= emptied

-----------------------------------------------------------------------------
(* Lemmas on data.                                                         *)
LEMMA Buffers == /\ \A b \in Bufs : b # NoBuf /\ b \in Nat
                 /\ 0 \in Bufs /\ NData \in Nat /\ NData > 0
  BY BridgeAssumption DEF Bufs, NoBuf

LEMMA MinIn ==
  ASSUME NEW S \in SUBSET Nat, S # {}
  PROVE  Min(S) \in S /\ \A y \in S : Min(S) <= y
  <1> DEFINE less == {ss \in Nat \X Nat : ss[1] < ss[2]}
  <1>1. IsWellFoundedOn(less, Nat)
    BY NatLessThanWellFounded, Zenon DEF OpToRel
  <1>2. \A x, y \in Nat : y < x => <<y, x>> \in less
    OBVIOUS
  <1> HIDE DEF less
  <1>3. PICK x \in S : \A y \in S : ~ (<<y, x>> \in less)
    BY <1>1, WFMin
  <1>4. ASSUME NEW y \in S
        PROVE  x <= y
    <2>1. x \in Nat /\ y \in Nat
      OBVIOUS
    <2>2. ~ (y < x)
      BY <1>2, <1>3, <2>1
    <2> QED BY <2>1, <2>2
  <1> QED BY <1>4 DEF Min

\* What is left of a sequence without its i-th entry.
LEMMA Removed ==
  ASSUME NEW T, NEW s \in Seq(T), NEW i \in 1 .. Len(s)
  PROVE  /\ RemoveAt(s, i) \in Seq(T)
         /\ Len(RemoveAt(s, i)) = Len(s) - 1
         /\ \A k \in 1 .. Len(s) - 1 :
              RemoveAt(s, i)[k] = IF k < i THEN s[k] ELSE s[k + 1]
  <1> DEFINE a == SubSeq(s, 1, i - 1)
             b == SubSeq(s, i + 1, Len(s))
  <1>1. i \in Nat /\ i >= 1 /\ i <= Len(s) /\ Len(s) \in Nat /\ \A k \in 1 .. Len(s) : s[k] \in T
    OBVIOUS
  <1>2. /\ a \in Seq(T) /\ Len(a) = i - 1
        /\ \A k \in 1 .. i - 1 : a[k] = s[k]
    BY <1>1, SubSeqProperties
  <1>3. /\ b \in Seq(T) /\ Len(b) = Len(s) - i
        /\ \A k \in 1 .. Len(s) - i : b[k] = s[i + k]
    BY <1>1, SubSeqProperties
  <1> HIDE DEF a, b
  <1>4. /\ a \o b \in Seq(T) /\ Len(a \o b) = Len(s) - 1
        /\ \A k \in 1 .. Len(s) - 1 : (a \o b)[k] = IF k <= i - 1 THEN a[k] ELSE b[k - (i - 1)]
    BY <1>1, <1>2, <1>3, ConcatProperties
  <1>5. \A k \in 1 .. Len(s) - 1 : (a \o b)[k] = IF k < i THEN s[k] ELSE s[k + 1]
    <2> TAKE k \in 1 .. Len(s) - 1
    <2>1. CASE k < i
      <3>1. k <= i - 1 /\ k \in 1 .. i - 1
        BY <1>1, <2>1
      <3> QED BY <1>2, <1>4, <2>1, <3>1
    <2>2. CASE ~ (k < i)
      <3>1. k - (i - 1) \in 1 .. Len(s) - i /\ i + (k - (i - 1)) = k + 1
        BY <1>1, <2>2
      <3>2. ~ (k <= i - 1)
        BY <1>1, <2>2
      <3>3. (a \o b)[k] = b[k - (i - 1)]
        BY <1>4, <3>2
      <3>4. b[k - (i - 1)] = s[k + 1]
        BY <1>3, <3>1
      <3> QED BY <2>2, <3>3, <3>4
    <2> QED BY <2>1, <2>2
  <1> QED BY <1>4, <1>5 DEF RemoveAt, a, b

LEMMA LeftFinite == IsFiniteSet(Left) /\ Cardinality(Left) \in Nat
  <1>1. IsFiniteSet(Bufs)
    BY FS_Interval, BridgeAssumption DEF Bufs
  <1>2. Left \subseteq Bufs
    BY DEF Left
  <1> QED BY <1>1, <1>2, FS_Subset, FS_CardinalityType

\* A process moves that neither had a buffer to fill nor has one.
LEMMA Moved ==
  ASSUME BufInv, NEW c \in Clients, NEW r, ClientOK(r), ~ Holding(cl[c]), ~ Holding(r),
         cl' = [cl EXCEPT ![c] = r], UNCHANGED <<reserved, rchs, emptied>>,
         ibuf' \in Bufs, nops' \in Nat, lastId' \in Nat
  PROVE  BufInv'
  <1>1. cl' = [d \in Clients |-> cl'[d]]
    BY DEF BufInv, PoolType
  <1>2. cl'[c] = r /\ \A d \in Clients : d # c => cl'[d] = cl[d]
    BY DEF BufInv, PoolType
  <1>3. \A d \in Clients : ClientOK(cl'[d]) /\ (Holding(cl'[d]) <=> Holding(cl[d]))
    BY <1>2 DEF BufInv, PoolType
  <1>4. \A d \in Clients : Holding(cl[d]) => cl'[d] = cl[d]
    BY <1>2
  <1>5. PoolType'
    BY <1>1, <1>3 DEF BufInv, PoolType
  <1>6. OneHolder'
    BY <1>3, <1>4 DEF BufInv, OneHolder
  <1>7. Left' = Left
    BY <1>3, <1>4 DEF Left
  <1> QED BY <1>5, <1>6, <1>7 DEF BufInv

LEMMA FieldNames ==
  /\ Fields = {"pc", "chan", "pos", "dir", "kind", "op", "buf", "stop", "count", "awake",
               "eofdone", "begun", "wrote", "got"}
  /\ ClientOK(Fresh) /\ Fresh.pc = "closed"
  BY Buffers DEF Fields, Fresh, ClientOK, Kinds

LEMMA ReturnOK ==
  ASSUME BufInv, NEW c \in Clients
  PROVE  ClientOK(Return(c)) /\ Return(c).pc = "user"
  BY FieldNames, Buffers DEF BufInv, PoolType, ClientOK, Return, Kinds

-----------------------------------------------------------------------------
(* Steps by which nobody gets or gives a buffer.                           *)

\* The process goes on to another place.
LEMMA WaitingStep ==
  ASSUME BufInv, NEW c \in Clients,
         \/ Nap(c) \/ NapTimeout(c) \/ Close(c) \/ Sleep(c) \/ ReadAnswered(c)
         \/ Copy(c) \/ ReleaseAnswered(c) \/ \E f \in Files : Open(c, f)
  PROVE  BufInv'
  <1> DEFINE ok(r) == ClientOK(r) /\ ~ Holding(r)
  <1>1. ClientOK(cl[c]) /\ ClientOK(Fresh) /\ Fresh.pc = "closed"
        /\ ibuf \in Bufs /\ nops \in Nat /\ lastId \in Nat
    BY FieldNames DEF BufInv, PoolType
  <1>2. ASSUME NEW r, cl' = [cl EXCEPT ![c] = r], ok(r), ~ Holding(cl[c]),
               UNCHANGED <<driver, emptied, nops>>
        PROVE  BufInv'
    BY <1>1, <1>2, Moved DEF driver
  <1>3. CASE Nap(c)
    <2>1. ok([cl[c] EXCEPT !.pc = "nap"]) /\ ~ Holding(cl[c])
      BY <1>1, <1>3, FieldNames DEF Nap, ClientOK, Holding
    <2>2. cl' = [cl EXCEPT ![c] = [cl[c] EXCEPT !.pc = "nap"]] /\ UNCHANGED <<driver, emptied, nops>>
      BY <1>3 DEF Nap, ghosts
    <2> QED BY <1>2, <2>1, <2>2
  <1>4. CASE NapTimeout(c)
    BY <1>2, <1>4, ReturnOK DEF NapTimeout, Holding, ghosts
  <1>5. CASE Close(c) \/ ReleaseAnswered(c)
    BY <1>1, <1>2, <1>5 DEF Close, ReleaseAnswered, Holding, ghosts
  <1>6. CASE Sleep(c)
    <2>1. ok([cl[c] EXCEPT !.awake = FALSE]) /\ ~ Holding(cl[c])
      BY <1>1, <1>6, FieldNames DEF Sleep, ClientOK, Holding
    <2>2. cl' = [cl EXCEPT ![c] = [cl[c] EXCEPT !.awake = FALSE]] /\ UNCHANGED <<driver, emptied, nops>>
      BY <1>6 DEF Sleep, ghosts
    <2> QED BY <1>2, <2>1, <2>2
  <1>7. CASE ReadAnswered(c)
    <2> DEFINE r == [cl[c] EXCEPT !.pc = "copy", !.count = clidata[cl[c].buf]]
    <2>1. ok(r) /\ ~ Holding(cl[c])
      BY <1>1, <1>7, FieldNames DEF ReadAnswered, ClientOK, Holding
    <2>2. cl' = [cl EXCEPT ![c] = r] /\ UNCHANGED <<driver, emptied, nops>>
      BY <1>7 DEF ReadAnswered, ghosts
    <2> HIDE DEF r
    <2> QED BY <1>2, <2>1, <2>2
  <1>8. CASE Copy(c)
    <2>1. PICK pos, got : cl' = [cl EXCEPT ![c] = [Return(c) EXCEPT !.pos = pos, !.got = got]]
      BY <1>8 DEF Copy
    <2>2. ok([Return(c) EXCEPT !.pos = pos, !.got = got])
      BY ReturnOK, FieldNames DEF ClientOK, Holding
    <2>3. ~ Holding(cl[c]) /\ UNCHANGED <<driver, emptied, nops>>
      BY <1>8 DEF Copy, Holding, ghosts
    <2> QED BY <1>2, <2>1, <2>2, <2>3
  <1>9. ASSUME NEW f \in Files, Open(c, f)
        PROVE  BufInv'
    <2> DEFINE r == [Fresh EXCEPT !.pc = "user", !.chan = f]
    <2>1. ok(r)
      BY FieldNames, Buffers DEF Fresh, ClientOK, Holding, Kinds
    <2>2. cl' = [cl EXCEPT ![c] = r] /\ UNCHANGED <<driver, emptied, nops>> /\ ~ Holding(cl[c])
      BY <1>9 DEF Open, Holding
    <2> HIDE DEF r
    <2> QED BY <1>2, <2>1, <2>2
  <1> QED BY <1>3, <1>4, <1>5, <1>6, <1>7, <1>8, <1>9

\* A call begins, or its message is sent.
LEMMA CallStep ==
  ASSUME BufInv, NEW c \in Clients, (\E k \in Kinds : Call(c, k)) \/ Send(c)
  PROVE  BufInv'
  <1>1. ClientOK(cl[c]) /\ ibuf \in Bufs /\ nops \in Nat /\ lastId \in Nat
    BY DEF BufInv, PoolType
  <1>2. ASSUME NEW k \in Kinds, Call(c, k)
        PROVE  BufInv'
    <2> DEFINE r == [cl[c] EXCEPT !.kind = k, !.op = nops + 1,
                                  !.pc = IF k = "release" THEN "fill" ELSE "alloc"]
    <2>0. nops + 1 \in Nat
      BY <1>1
    <2>1. cl[c].pc = "user" /\ cl[c].buf = NoBuf
      BY <1>1, <1>2 DEF Call, ClientOK
    <2>2. ClientOK(r) /\ ~ Holding(r) /\ ~ Holding(cl[c])
      BY <1>1, <2>0, <2>1, FieldNames DEF ClientOK, Holding, Kinds
    <2>3. cl' = [cl EXCEPT ![c] = r] /\ UNCHANGED <<driver, emptied>> /\ nops' = nops + 1
      BY <1>2 DEF Call
    <2> HIDE DEF r
    <2> QED BY <1>1, <2>0, <2>2, <2>3, Moved DEF driver
  <1>3. CASE Send(c)
    <2>1. lastId' \in Nat
      BY <1>1, <1>3, BridgeAssumption DEF Send, Post
    <2>2. UNCHANGED <<reserved, ibuf, rchs, emptied, nops>> /\ ~ Holding(cl[c])
      BY <1>3 DEF Send, Holding
    <2>3. CASE cl[c].kind = "write"
      <3>1. PICK pos, begun, wrote :
              cl' = [cl EXCEPT ![c] = [Return(c) EXCEPT !.pos = pos, !.begun = begun,
                                                        !.wrote = wrote]]
        BY <1>3, <2>3 DEF Send
      <3>2. ClientOK([Return(c) EXCEPT !.pos = pos, !.begun = begun, !.wrote = wrote])
            /\ ~ Holding([Return(c) EXCEPT !.pos = pos, !.begun = begun, !.wrote = wrote])
        BY ReturnOK, FieldNames DEF ClientOK, Holding
      <3> QED BY <1>1, <2>1, <2>2, <3>1, <3>2, Moved
    <2>4. CASE cl[c].kind # "write"
      <3>1. PICK begun :
              cl' = [cl EXCEPT ![c] = [cl[c] EXCEPT !.pc = "wait", !.awake = TRUE,
                                                    !.begun = begun]]
        BY <1>3, <2>4 DEF Send
      <3>2. ClientOK([cl[c] EXCEPT !.pc = "wait", !.awake = TRUE, !.begun = begun])
            /\ ~ Holding([cl[c] EXCEPT !.pc = "wait", !.awake = TRUE, !.begun = begun])
        BY <1>1, FieldNames DEF ClientOK, Holding
      <3> QED BY <1>1, <2>1, <2>2, <3>1, <3>2, Moved
    <2> QED BY <2>3, <2>4
  <1> QED BY <1>2, <1>3

\* Messages come and go, and the card works.
LEMMA OtherStep ==
  ASSUME BufInv, Card \/ (\E c \in Clients : SendText(c)) \/ UNCHANGED vars
  PROVE  BufInv'
  <1>1. UNCHANGED <<cl, reserved, ibuf, rchs, emptied>>
    BY DEF Card, ProcessText, ProcessFile, SendText, vars, driver, ghosts
  <1>2. lastId \in Nat /\ nops \in Nat
    BY DEF BufInv, PoolType
  <1>3. lastId' \in Nat /\ nops' \in Nat
    <2>1. CASE Card \/ UNCHANGED vars
      BY <1>2, <2>1 DEF Card, ProcessText, ProcessFile, vars, driver, ghosts
    <2>2. CASE \E c \in Clients : SendText(c)
      <3>1. lastId' \in {lastId, (lastId + 1) % IdSpan} /\ nops' = nops + 1
        BY <2>2 DEF SendText, Post
      <3> QED BY <1>2, <3>1, BridgeAssumption
    <2> QED BY <2>1, <2>2
  <1> QED BY <1>1, <1>3 DEF BufInv, PoolType, OneHolder, Left

-----------------------------------------------------------------------------
(* Steps by which a buffer changes hands.                                  *)

\* A buffer that is not reserved goes to a process.
LEMMA TakeStep ==
  ASSUME BufInv, NEW c \in Clients, NEW b \in Bufs, ~ reserved[b], Take(c, b),
         cl[c].pc \in {"alloc", "rescan"}, UNCHANGED <<rchs, emptied, nops, lastId>>
  PROVE  BufInv'
  <1> DEFINE r == [cl[c] EXCEPT !.pc = "fill", !.buf = b]
  <1>1. ClientOK(cl[c]) /\ DOMAIN cl[c] = Fields
    BY DEF BufInv, PoolType, ClientOK
  <1>2. cl' = [cl EXCEPT ![c] = r] /\ reserved' = [reserved EXCEPT ![b] = TRUE] /\ ibuf' = b
    BY DEF Take
  <1>3. ClientOK(r) /\ Holding(r) /\ r.buf = b /\ ~ Holding(cl[c])
    BY <1>1, FieldNames, Buffers DEF ClientOK, Holding
  <1> HIDE DEF r
  <1>4. cl'[c] = r /\ \A d \in Clients : d # c => cl'[d] = cl[d]
    BY <1>2 DEF BufInv, PoolType
  <1>5. cl' = [d \in Clients |-> cl'[d]] /\ \A d \in Clients : ClientOK(cl'[d])
    BY <1>2, <1>3, <1>4 DEF BufInv, PoolType
  <1>6. PoolType'
    BY <1>2, <1>5 DEF BufInv, PoolType
  <1>7. \A i \in 1 .. Len(rchs) : rchs[i].buf # b
    BY Buffers DEF BufInv, OneHolder
  <1>8. \A d \in Clients : Holding(cl[d]) => cl[d].buf # b /\ cl[d].buf \in Bufs /\ d # c
    BY <1>3 DEF BufInv, OneHolder, PoolType, ClientOK, Holding
  <1>9. \A x \in Bufs : reserved'[x] <=> reserved[x] \/ x = b
    BY <1>2 DEF BufInv, PoolType
  <1>10. \A i \in 1 .. Len(rchs) : rchs[i].buf \in Bufs \cup {NoBuf}
    <2>1. rchs \in Seq(Handler)
      BY DEF BufInv, PoolType
    <2>2. \A i \in 1 .. Len(rchs) : rchs[i] \in Handler
      BY <2>1
    <2> QED BY <2>2 DEF Handler
  <1>11. OneHolder'
    <2>1. \A i \in 1 .. Len(rchs) : rchs[i].buf # NoBuf => reserved'[rchs[i].buf]
      BY <1>9, <1>10 DEF BufInv, OneHolder
    <2>2. \A d \in Clients : Holding(cl'[d]) =>
            /\ reserved'[cl'[d].buf]
            /\ \A i \in 1 .. Len(rchs) : rchs[i].buf # cl'[d].buf
            /\ \A e \in Clients : Holding(cl'[e]) /\ cl'[e].buf = cl'[d].buf => e = d
      <3> SUFFICES ASSUME NEW d \in Clients, Holding(cl'[d])
                   PROVE  /\ reserved'[cl'[d].buf]
                          /\ \A i \in 1 .. Len(rchs) : rchs[i].buf # cl'[d].buf
                          /\ \A e \in Clients : Holding(cl'[e]) /\ cl'[e].buf = cl'[d].buf => e = d
        OBVIOUS
      <3>1. CASE d = c
        BY <1>3, <1>4, <1>7, <1>8, <1>9, <3>1
      <3>2. CASE d # c
        BY <1>3, <1>4, <1>8, <1>9, <3>2 DEF BufInv, OneHolder
      <3> QED BY <3>1, <3>2
    <2> QED BY <2>1, <2>2 DEF BufInv, OneHolder
  <1>12. Left' \subseteq Left
    BY <1>3, <1>4, <1>8, <1>9 DEF Left
  <1>13. Cardinality(Left') <= Cardinality(Left) /\ Cardinality(Left') \in Nat
    BY <1>12, LeftFinite, FS_Subset, FS_CardinalityType
  <1> QED BY <1>6, <1>11, <1>13, LeftFinite DEF BufInv, PoolType

\* A process looks for a buffer, the next one or the first free one.
LEMMA AllocStep ==
  ASSUME BufInv, NEW c \in Clients, Alloc(c) \/ Rescan(c)
  PROVE  BufInv'
  <1>1. ClientOK(cl[c]) /\ DOMAIN cl[c] = Fields /\ ibuf \in Bufs /\ ibuf \in Nat
        /\ nops \in Nat /\ lastId \in Nat /\ UNCHANGED <<rchs, emptied, nops, lastId>>
    BY Buffers DEF BufInv, PoolType, ClientOK, Alloc, Rescan
  <1>2. ASSUME NEW s \in Bufs, NEW j \in Bufs, cl[c].pc \in {"alloc", "rescan"},
               cl' = [cl EXCEPT ![c] = [cl[c] EXCEPT !.pc = "full", !.stop = s]],
               ibuf' = j, UNCHANGED reserved
        PROVE  BufInv'
    <2>1. ClientOK([cl[c] EXCEPT !.pc = "full", !.stop = s]) /\ ~ Holding(cl[c])
          /\ ~ Holding([cl[c] EXCEPT !.pc = "full", !.stop = s])
      BY <1>1, <1>2, FieldNames DEF ClientOK, Holding
    <2> QED BY <1>1, <1>2, <2>1, Moved
  <1>3. CASE Alloc(c)
    <2>1. Inc(ibuf) \in Bufs
      BY <1>1, BridgeAssumption DEF Inc, Bufs
    <2>2. CASE reserved[Inc(ibuf)]
      BY <1>2, <1>3, <2>1, <2>2 DEF Alloc
    <2>3. CASE ~ reserved[Inc(ibuf)]
      BY <1>1, <1>3, <2>1, <2>3, TakeStep DEF Alloc
    <2> QED BY <2>2, <2>3
  <1>4. CASE Rescan(c)
    <2> DEFINE far  == (cl[c].stop + NData - ibuf - 1) % NData
               at(k) == (ibuf + 1 + k) % NData
               free == {k \in 0 .. far : ~ reserved[at(k)]}
    <2>1. CASE free = {}
      <3>1. cl' = [cl EXCEPT ![c].pc = "full"] /\ ibuf' = cl[c].stop /\ UNCHANGED reserved
            /\ cl[c].pc = "rescan"
        BY <1>4, <2>1 DEF Rescan
      <3>2. ClientOK([cl[c] EXCEPT !.pc = "full"]) /\ ~ Holding(cl[c])
            /\ ~ Holding([cl[c] EXCEPT !.pc = "full"]) /\ cl[c].stop \in Bufs
        BY <1>1, <3>1, FieldNames DEF ClientOK, Holding
      <3> QED BY <1>1, <3>1, <3>2, Moved
    <2>2. CASE free # {}
      <3>0. free \subseteq 0 .. far /\ 0 .. far \subseteq Nat
        OBVIOUS
      <3>1. Min(free) \in free
        <4> HIDE DEF free
        <4> QED BY <2>2, <3>0, MinIn
      <3>2. Min(free) \in Nat /\ ~ reserved[at(Min(free))]
        <4>1. \A k \in free : ~ reserved[at(k)]
          OBVIOUS
        <4> HIDE DEF free, far, at
        <4> QED BY <3>0, <3>1, <4>1
      <3>3. at(Min(free)) \in Bufs
        <4> DEFINE n == ibuf + 1 + Min(free)
        <4>1. n \in Nat /\ NData \in Nat /\ NData > 0
          BY <1>1, <3>2, Buffers
        <4> HIDE DEF n
        <4>2. n % NData \in 0 .. NData - 1
          BY <4>1
        <4> QED BY <4>2 DEF n, Bufs
      <3>4. Take(c, at(Min(free))) /\ cl[c].pc = "rescan"
        BY <1>4, <2>2 DEF Rescan
      <3> QED BY <1>1, <3>2, <3>3, <3>4, TakeStep
    <2> QED BY <2>1, <2>2
  <1> QED BY <1>3, <1>4

\* The list's entries are handlers.
LEMMA Entries == BufInv => \A i \in 1 .. Len(rchs) :
  /\ rchs[i] \in Handler
  /\ rchs[i].client \in Clients /\ rchs[i].kind \in Kinds
  /\ rchs[i].buf \in Bufs \cup {NoBuf}
  <1> SUFFICES ASSUME BufInv, NEW i \in 1 .. Len(rchs)
               PROVE  /\ rchs[i] \in Handler
                      /\ rchs[i].client \in Clients /\ rchs[i].kind \in Kinds
                      /\ rchs[i].buf \in Bufs \cup {NoBuf}
    OBVIOUS
  <1>1. rchs \in Seq(Handler)
    BY DEF BufInv, PoolType
  <1>2. rchs[i] \in Handler
    BY <1>1
  <1> QED BY <1>2 DEF Handler

\* A write of no bytes leaves its buffer reserved.
LEMMA EmptyStep ==
  ASSUME BufInv, NEW c \in Clients, FillNothing(c)
  PROVE  BufInv'
  <1> DEFINE b == cl[c].buf
             r == Return(c)
  <1>1. cl' = [cl EXCEPT ![c] = r] /\ emptied' = emptied + 1
        /\ UNCHANGED <<reserved, ibuf, rchs, lastId, nops>>
    BY DEF FillNothing, driver
  <1>2. ClientOK(r) /\ r.pc = "user" /\ ~ Holding(r)
    BY ReturnOK DEF Holding
  <1>3. b \in Bufs
    BY DEF FillNothing, BufInv, PoolType, ClientOK
  <1> HIDE DEF r
  <1>4. cl'[c] = r /\ \A d \in Clients : d # c => cl'[d] = cl[d]
    BY <1>1 DEF BufInv, PoolType
  <1>5. cl' = [d \in Clients |-> cl'[d]] /\ \A d \in Clients : ClientOK(cl'[d])
    BY <1>1, <1>2, <1>4 DEF BufInv, PoolType
  <1>6. emptied \in Nat /\ emptied' \in Nat
    BY <1>1 DEF BufInv, PoolType
  <1>7. PoolType'
    BY <1>1, <1>5, <1>6 DEF BufInv, PoolType
  <1>8. \A d \in Clients : Holding(cl'[d]) => d # c /\ cl'[d] = cl[d]
    BY <1>2, <1>4
  <1>9. OneHolder'
    BY <1>1, <1>8 DEF BufInv, OneHolder
  <1>10. Left' \subseteq Left \cup {b}
    <2> SUFFICES ASSUME NEW x \in Left', x # b
                 PROVE  x \in Left
      OBVIOUS
    <2>1. x \in Bufs /\ reserved[x] /\ \A i \in 1 .. Len(rchs) : rchs[i].buf # x
      BY <1>1 DEF Left
    <2>2. \A d \in Clients : Holding(cl[d]) => cl[d].buf # x
      BY <1>4 DEF Left
    <2> QED BY <2>1, <2>2 DEF Left
  <1>11. IsFiniteSet(Left \cup {b}) /\ Cardinality(Left \cup {b}) <= Cardinality(Left) + 1
         /\ Cardinality(Left \cup {b}) \in Nat /\ Cardinality(Left) \in Nat
    <2>1. IsFiniteSet(Left) /\ Cardinality(Left) \in Nat
      BY LeftFinite
    <2>2. IsFiniteSet(Left \cup {b})
          /\ Cardinality(Left \cup {b}) = IF b \in Left THEN Cardinality(Left) ELSE Cardinality(Left) + 1
      BY <2>1, FS_AddElement
    <2>3. CASE b \in Left
      BY <2>1, <2>2, <2>3
    <2>4. CASE b \notin Left
      BY <2>1, <2>2, <2>4
    <2> QED BY <2>3, <2>4
  <1>12. Cardinality(Left') <= Cardinality(Left \cup {b}) /\ Cardinality(Left') \in Nat
    BY <1>10, <1>11, FS_Subset, FS_CardinalityType
  <1>13. Cardinality(Left') <= emptied'
    BY <1>1, <1>6, <1>11, <1>12 DEF BufInv
  <1> QED BY <1>7, <1>9, <1>13 DEF BufInv

\* The buffer goes from the process to the handler it files.
LEMMA BuildStep ==
  ASSUME BufInv, NEW c \in Clients, BuildRch(c)
  PROVE  BufInv'
  <1> DEFINE n == Len(rchs)
             h == [id     |-> (lastId + 1) % IdSpan,
                   op     |-> cl[c].op,
                   kind   |-> cl[c].kind,
                   client |-> c,
                   buf    |-> cl[c].buf]
  <1>1. ClientOK(cl[c]) /\ DOMAIN cl[c] = Fields /\ lastId \in Nat /\ rchs \in Seq(Handler)
    BY DEF BufInv, PoolType, ClientOK
  <1>2. rchs' = Append(rchs, h) /\ UNCHANGED <<reserved, ibuf, lastId, emptied, nops>>
        /\ cl[c].pc = "fill"
    BY DEF BuildRch, ghosts
  <1>3. cl[c].kind \in Kinds /\ (cl[c].kind = "release" <=> cl[c].buf = NoBuf)
        /\ (Holding(cl[c]) <=> cl[c].buf # NoBuf)
    BY <1>1, <1>2 DEF ClientOK, Holding
  <1>4. PICK d : cl' = [cl EXCEPT ![c] = [cl[c] EXCEPT !.pc = "built", !.dir = d]]
    BY DEF BuildRch
  <1> DEFINE r == [cl[c] EXCEPT !.pc = "built", !.dir = d]
  <1>5. ClientOK(r) /\ ~ Holding(r)
    BY <1>1, FieldNames DEF ClientOK, Holding
  <1>6. (lastId + 1) % IdSpan \in Nat
    BY <1>1, BridgeAssumption
  <1>7. h \in Handler /\ h.buf = cl[c].buf /\ h.kind = cl[c].kind
    BY <1>1, <1>3, <1>6 DEF Handler, ClientOK
  <1> HIDE DEF r, h
  <1>8. cl'[c] = r /\ \A e \in Clients : e # c => cl'[e] = cl[e]
    BY <1>4 DEF BufInv, PoolType, r
  <1>9. cl' = [e \in Clients |-> cl'[e]] /\ \A e \in Clients : ClientOK(cl'[e])
    BY <1>4, <1>5, <1>8 DEF BufInv, PoolType
  <1>10. rchs' \in Seq(Handler) /\ Len(rchs') = n + 1 /\ n \in Nat
         /\ rchs'[n + 1] = h /\ \A i \in 1 .. n : rchs'[i] = rchs[i]
    BY <1>1, <1>2, <1>7
  <1>11. PoolType'
    BY <1>2, <1>9, <1>10 DEF BufInv, PoolType
  <1>12. \A e \in Clients : Holding(cl'[e]) => Holding(cl[e]) /\ e # c /\ cl'[e] = cl[e]
    BY <1>5, <1>8
  <1>13. \A i \in 1 .. Len(rchs') : i \in 1 .. n \/ i = n + 1
    BY <1>10
  <1>14. OneHolder'
    <2>1. \A i \in 1 .. Len(rchs') :
            /\ rchs'[i].kind = "release" <=> rchs'[i].buf = NoBuf
            /\ rchs'[i].buf # NoBuf => reserved'[rchs'[i].buf]
      <3> SUFFICES ASSUME NEW i \in 1 .. Len(rchs')
                   PROVE  /\ rchs'[i].kind = "release" <=> rchs'[i].buf = NoBuf
                          /\ rchs'[i].buf # NoBuf => reserved'[rchs'[i].buf]
        OBVIOUS
      <3>1. CASE i \in 1 .. n
        BY <1>2, <1>10, <3>1 DEF BufInv, OneHolder
      <3>2. CASE i = n + 1
        BY <1>2, <1>3, <1>7, <1>10, <3>2 DEF BufInv, OneHolder
      <3> QED BY <1>13, <3>1, <3>2
    <2>2. \A i \in 1 .. n : rchs[i].buf # NoBuf => rchs[i].buf # h.buf
      <3>1. CASE h.buf = NoBuf
        BY <3>1
      <3>2. CASE h.buf # NoBuf
        BY <1>3, <1>7, <3>2 DEF BufInv, OneHolder
      <3> QED BY <3>1, <3>2
    <2>3. \A i, j \in 1 .. Len(rchs') :
            rchs'[i].buf = rchs'[j].buf /\ rchs'[i].buf # NoBuf => i = j
      <3> SUFFICES ASSUME NEW i \in 1 .. Len(rchs'), NEW j \in 1 .. Len(rchs'),
                          rchs'[i].buf = rchs'[j].buf, rchs'[i].buf # NoBuf
                   PROVE  i = j
        OBVIOUS
      <3>1. CASE i \in 1 .. n /\ j \in 1 .. n
        BY <1>10, <3>1 DEF BufInv, OneHolder
      <3>2. CASE i \in 1 .. n /\ j = n + 1
        BY <1>10, <2>2, <3>2
      <3>3. CASE i = n + 1 /\ j \in 1 .. n
        BY <1>10, <2>2, <3>3
      <3> QED BY <1>13, <3>1, <3>2, <3>3
    <2>4. ASSUME NEW e \in Clients, Holding(cl'[e])
          PROVE  /\ reserved'[cl'[e].buf]
                 /\ \A i \in 1 .. Len(rchs') : rchs'[i].buf # cl'[e].buf
                 /\ \A f \in Clients : Holding(cl'[f]) /\ cl'[f].buf = cl'[e].buf => f = e
      <3>1. Holding(cl[e]) /\ e # c /\ cl'[e] = cl[e] /\ reserved[cl[e].buf]
        BY <1>12, <2>4 DEF BufInv, OneHolder
      <3>2. h.buf # cl[e].buf
        BY <1>3, <1>7, <3>1 DEF BufInv, OneHolder, Holding
      <3>3. \A i \in 1 .. Len(rchs') : rchs'[i].buf # cl'[e].buf
        BY <1>10, <1>13, <3>1, <3>2 DEF BufInv, OneHolder
      <3>4. \A f \in Clients : Holding(cl'[f]) /\ cl'[f].buf = cl'[e].buf => f = e
        BY <1>12, <3>1 DEF BufInv, OneHolder
      <3> QED BY <1>2, <3>1, <3>3, <3>4
    <2> QED BY <2>1, <2>3, <2>4 DEF OneHolder
  <1>15. Left' \subseteq Left
    <2> SUFFICES ASSUME NEW x \in Left'
                 PROVE  x \in Left
      OBVIOUS
    <2>1. /\ x \in Bufs /\ reserved[x]
          /\ \A i \in 1 .. Len(rchs') : rchs'[i].buf # x
          /\ \A e \in Clients : Holding(cl'[e]) => cl'[e].buf # x
      BY <1>2 DEF Left
    <2>2. (\A i \in 1 .. n : rchs[i].buf # x) /\ h.buf # x
      BY <1>10, <2>1
    <2>3. ASSUME NEW e \in Clients, Holding(cl[e])
          PROVE  cl[e].buf # x
      <3>1. CASE e = c
        BY <1>7, <2>2, <3>1
      <3>2. CASE e # c
        <4>1. cl'[e] = cl[e]
          BY <1>8, <3>2
        <4> QED BY <2>1, <2>3, <4>1
      <3> QED BY <3>1, <3>2
    <2> QED BY <2>1, <2>2, <2>3 DEF Left
  <1>16. Cardinality(Left') <= Cardinality(Left) /\ Cardinality(Left') \in Nat
    BY <1>15, LeftFinite, FS_Subset, FS_CardinalityType
  <1> QED BY <1>2, <1>11, <1>14, <1>16, LeftFinite DEF BufInv, PoolType

\* The bottom half removes a handler, which frees its buffer.
LEMMA HandleStep == BufInv /\ Handle => BufInv'
  <1> SUFFICES ASSUME BufInv, Handle
               PROVE  BufInv'
    OBVIOUS
  <1> DEFINE n == Len(rchs)
             i == Min(Matches(Head(outbound).id))
             h == rchs[i]
  <1>1. i \in 1 .. n /\ n \in Nat /\ rchs \in Seq(Handler)
    <2>1. Matches(Head(outbound).id) \in SUBSET (1 .. n) /\ Matches(Head(outbound).id) # {}
      BY DEF Handle, Matches
    <2>2. rchs \in Seq(Handler) /\ n \in Nat /\ 1 .. n \subseteq Nat
      BY DEF BufInv, PoolType
    <2> QED BY <2>1, <2>2, MinIn
  <1>2. h.client \in Clients /\ h.kind \in Kinds /\ h.buf \in Bufs \cup {NoBuf}
        /\ (h.kind = "release" <=> h.buf = NoBuf)
    BY <1>1, Entries DEF BufInv, OneHolder
  <1>3. rchs' = RemoveAt(rchs, i) /\ UNCHANGED <<ibuf, lastId, emptied, nops>>
    BY DEF Handle, ghosts
  <1>4. /\ cl' = [d \in Clients |-> cl'[d]]
        /\ \A d \in Clients : /\ ClientOK(cl'[d])
                              /\ Holding(cl'[d]) <=> Holding(cl[d])
                              /\ cl'[d].buf = cl[d].buf
    <2>1. \A d \in Clients : ClientOK(cl[d]) /\ DOMAIN cl[d] = Fields
      BY DEF BufInv, PoolType, ClientOK
    <2> DEFINE woken == Woken(cl)
    <2>2. \A d \in Clients : /\ ClientOK(woken[d]) /\ DOMAIN woken[d] = Fields
                             /\ Holding(woken[d]) <=> Holding(cl[d])
                             /\ woken[d].buf = cl[d].buf
      BY <2>1, FieldNames DEF Woken, ClientOK, Holding
    <2>3. woken = [d \in Clients |-> woken[d]] /\ cl = [d \in Clients |-> cl[d]]
      BY DEF Woken, BufInv, PoolType
    <2>4. cl' = [cl EXCEPT ![h.client] = [cl[h.client] EXCEPT !.eofdone = TRUE, !.awake = TRUE]]
          \/ cl' = woken
          \/ cl' = [woken EXCEPT ![h.client] = [woken[h.client] EXCEPT !.awake = TRUE]]
      BY DEF Handle, Woke
    <2> HIDE DEF woken, i, h
    <2>5. CASE cl' = woken
      BY <2>2, <2>3, <2>5
    <2>6. CASE cl' = [cl EXCEPT ![h.client] = [cl[h.client] EXCEPT !.eofdone = TRUE, !.awake = TRUE]]
      <3> DEFINE r == [cl[h.client] EXCEPT !.eofdone = TRUE, !.awake = TRUE]
      <3>1. ClientOK(r) /\ (Holding(r) <=> Holding(cl[h.client])) /\ r.buf = cl[h.client].buf
        BY <1>2, <2>1, FieldNames DEF ClientOK, Holding
      <3> HIDE DEF r
      <3>2. cl' = [cl EXCEPT ![h.client] = r]
        BY <2>6 DEF r
      <3> QED BY <1>2, <2>1, <2>3, <3>1, <3>2
    <2>7. CASE cl' = [woken EXCEPT ![h.client] = [woken[h.client] EXCEPT !.awake = TRUE]]
      <3> DEFINE r == [woken[h.client] EXCEPT !.awake = TRUE]
      <3>1. ClientOK(r) /\ (Holding(r) <=> Holding(cl[h.client])) /\ r.buf = cl[h.client].buf
        BY <1>2, <2>2, FieldNames DEF ClientOK, Holding
      <3> HIDE DEF r
      <3>2. cl' = [woken EXCEPT ![h.client] = r]
        BY <2>7 DEF r
      <3> QED BY <1>2, <2>2, <2>3, <3>1, <3>2
    <2> QED BY <2>4, <2>5, <2>6, <2>7
  <1>5. /\ reserved' \in [Bufs -> BOOLEAN]
        /\ \A b \in Bufs : reserved'[b] <=> reserved[b] /\ b # h.buf
    <2>1. CASE h.kind = "release"
      <3>1. UNCHANGED reserved
        BY <2>1 DEF Handle
      <3> QED BY <1>2, <2>1, <3>1, Buffers DEF BufInv, PoolType
    <2>2. CASE h.kind # "release"
      <3>1. reserved' = [reserved EXCEPT ![h.buf] = FALSE]
        BY <2>2 DEF Handle
      <3> HIDE DEF h
      <3> QED BY <1>2, <2>2, <3>1 DEF BufInv, PoolType
    <2> QED BY <2>1, <2>2
  <1>6. /\ rchs' \in Seq(Handler) /\ Len(rchs') = n - 1
        /\ \A k \in 1 .. n - 1 : rchs'[k] = IF k < i THEN rchs[k] ELSE rchs[k + 1]
    BY <1>1, <1>3, Removed
  <1> HIDE DEF h, i
  <1> DEFINE at(k) == IF k < i THEN k ELSE k + 1
  <1>7. /\ \A k \in 1 .. n - 1 : at(k) \in 1 .. n /\ at(k) # i /\ rchs'[k] = rchs[at(k)]
        /\ \A k, l \in 1 .. n - 1 : at(k) = at(l) => k = l
    BY <1>1, <1>6
  <1>8. \A j \in 1 .. n : j # i => \E k \in 1 .. n - 1 : at(k) = j
    <2> SUFFICES ASSUME NEW j \in 1 .. n, j # i
                 PROVE  \E k \in 1 .. n - 1 : at(k) = j
      OBVIOUS
    <2>1. CASE j < i
      BY <1>1, <2>1
    <2>2. CASE j > i
      <3>1. j - 1 \in 1 .. n - 1 /\ at(j - 1) = j
        BY <1>1, <2>2
      <3> QED BY <3>1
    <2> QED BY <1>1, <2>1, <2>2
  <1> HIDE DEF at
  <1>9. \A j \in 1 .. n : j # i /\ rchs[j].buf # NoBuf => rchs[j].buf # h.buf
    BY <1>1 DEF h, BufInv, OneHolder
  <1>10. \A d \in Clients : Holding(cl[d]) => cl[d].buf # h.buf
    BY <1>1 DEF h, BufInv, OneHolder
  <1>11. PoolType'
    BY <1>3, <1>4, <1>5, <1>6 DEF BufInv, PoolType
  <1>12. \A j \in 1 .. n : rchs[j].buf \in Bufs \cup {NoBuf}
    BY Entries
  <1>13. OneHolder'
    <2>1. \A k \in 1 .. Len(rchs') :
            /\ rchs'[k].kind = "release" <=> rchs'[k].buf = NoBuf
            /\ rchs'[k].buf # NoBuf => reserved'[rchs'[k].buf]
      BY <1>5, <1>6, <1>7, <1>9, <1>12 DEF BufInv, OneHolder
    <2>2. \A k, l \in 1 .. Len(rchs') :
            rchs'[k].buf = rchs'[l].buf /\ rchs'[k].buf # NoBuf => k = l
      <3> SUFFICES ASSUME NEW k \in 1 .. n - 1, NEW l \in 1 .. n - 1,
                          rchs'[k].buf = rchs'[l].buf, rchs'[k].buf # NoBuf
                   PROVE  k = l
        BY <1>6
      <3>1. /\ at(k) \in 1 .. n /\ rchs'[k] = rchs[at(k)]
            /\ at(l) \in 1 .. n /\ rchs'[l] = rchs[at(l)]
        BY <1>7
      <3>2. at(k) = at(l)
        BY <3>1 DEF BufInv, OneHolder
      <3> QED BY <1>7, <3>2
    <2>3. ASSUME NEW d \in Clients, Holding(cl'[d])
          PROVE  /\ reserved'[cl'[d].buf]
                 /\ \A k \in 1 .. Len(rchs') : rchs'[k].buf # cl'[d].buf
                 /\ \A e \in Clients : Holding(cl'[e]) /\ cl'[e].buf = cl'[d].buf => e = d
      <3>1. Holding(cl[d]) /\ cl'[d].buf = cl[d].buf /\ cl[d].buf \in Bufs
        BY <1>4, <2>3 DEF BufInv, PoolType, ClientOK, Holding
      <3>2. reserved'[cl'[d].buf]
        BY <1>5, <1>10, <3>1 DEF BufInv, OneHolder
      <3>3. \A k \in 1 .. Len(rchs') : rchs'[k].buf # cl'[d].buf
        BY <1>6, <1>7, <3>1 DEF BufInv, OneHolder
      <3>4. \A e \in Clients : Holding(cl'[e]) /\ cl'[e].buf = cl'[d].buf => e = d
        BY <1>4, <3>1 DEF BufInv, OneHolder
      <3> QED BY <3>2, <3>3, <3>4
    <2> QED BY <2>1, <2>2, <2>3 DEF OneHolder
  <1>14. Left' \subseteq Left
    <2> SUFFICES ASSUME NEW x \in Left'
                 PROVE  x \in Left
      OBVIOUS
    <2>1. x \in Bufs /\ reserved'[x] /\ (\A k \in 1 .. Len(rchs') : rchs'[k].buf # x)
          /\ \A e \in Clients : Holding(cl'[e]) => cl'[e].buf # x
      BY DEF Left
    <2>2. reserved[x] /\ x # h.buf
      BY <1>5, <2>1
    <2>3. \A j \in 1 .. n : rchs[j].buf # x
      <3> TAKE j \in 1 .. n
      <3>1. CASE j = i
        BY <2>2, <3>1 DEF h
      <3>2. CASE j # i
        <4>1. PICK l \in 1 .. n - 1 : at(l) = j
          BY <1>8, <3>2
        <4>2. rchs'[l] = rchs[j] /\ l \in 1 .. Len(rchs')
          BY <1>6, <1>7, <4>1
        <4> QED BY <2>1, <4>2
      <3> QED BY <3>1, <3>2
    <2>4. \A e \in Clients : Holding(cl[e]) => cl[e].buf # x
      BY <1>4, <2>1
    <2> QED BY <2>1, <2>2, <2>3, <2>4 DEF Left
  <1>15. Cardinality(Left') <= Cardinality(Left) /\ Cardinality(Left') \in Nat
    BY <1>14, LeftFinite, FS_Subset, FS_CardinalityType
  <1> QED BY <1>3, <1>11, <1>13, <1>15, LeftFinite DEF BufInv, PoolType

-----------------------------------------------------------------------------
(* The theorem.                                                            *)
LEMMA BufInit == Init => BufInv
  <1> SUFFICES ASSUME Init
               PROVE  BufInv
    OBVIOUS
  <1>1. \A c \in Clients : cl[c] = Fresh /\ ClientOK(cl[c]) /\ ~ Holding(cl[c])
    BY FieldNames DEF Init, Holding
  <1>2. NData - 1 \in Bufs
    BY BridgeAssumption DEF Bufs
  <1>3. PoolType
    BY <1>1, <1>2 DEF Init, PoolType
  <1>4. OneHolder
    BY <1>1 DEF Init, OneHolder
  <1>5. Left = {}
    BY DEF Init, Left
  <1>6. Cardinality(Left) = 0
    BY <1>5, FS_EmptySet
  <1> QED BY <1>3, <1>4, <1>6 DEF BufInv, Init

LEMMA BufStep == BufInv /\ [Next]_vars => BufInv'
  <1> SUFFICES ASSUME BufInv, [Next]_vars
               PROVE  BufInv'
    OBVIOUS
  <1>1. ASSUME NEW c \in Clients, Client(c)
        PROVE  BufInv'
    BY <1>1, WaitingStep, CallStep, AllocStep, EmptyStep, BuildStep DEF Client
  <1> QED BY <1>1, WaitingStep, CallStep, OtherStep, HandleStep DEF Next

LEMMA HolderCount ==
  ASSUME BufInv, NEW b \in Bufs
  PROVE  /\ Holders(b) \in {0, 1}
         /\ Holders(b) = 1 => reserved[b]
         /\ Holders(b) = 0 => /\ \A i \in 1 .. Len(rchs) : rchs[i].buf # b
                              /\ \A c \in Clients : Holding(cl[c]) => cl[c].buf # b
  <1> DEFINE fillers == {c \in Filling : cl[c].buf = b}
  <1>1. \A c \in Clients : c \in Filling <=> Holding(cl[c])
    BY DEF Filling, Holding
  <1>2. b # NoBuf
    BY Buffers
  <1>3. CASE \E i \in 1 .. Len(rchs) : rchs[i].buf = b
    <2>1. PICK i \in 1 .. Len(rchs) : rchs[i].buf = b
      BY <1>3
    <2>2. Listed(b) = {i}
      BY <1>2, <2>1 DEF Listed, BufInv, OneHolder
    <2>3. fillers = {}
      BY <2>1 DEF BufInv, OneHolder, Filling, Holding
    <2>4. Cardinality(Listed(b)) = 1 /\ Cardinality(fillers) = 0
      BY <2>2, <2>3, FS_Singleton, FS_EmptySet
    <2>5. reserved[b]
      BY <1>2, <2>1 DEF BufInv, OneHolder
    <2> QED BY <2>4, <2>5 DEF Holders
  <1>4. CASE ~ \E i \in 1 .. Len(rchs) : rchs[i].buf = b
    <2>1. Listed(b) = {} /\ Cardinality(Listed(b)) = 0
      BY <1>4, FS_EmptySet DEF Listed
    <2>2. CASE fillers = {}
      <3>1. Cardinality(fillers) = 0
        BY <2>2, FS_EmptySet
      <3>2. \A c \in Clients : Holding(cl[c]) => cl[c].buf # b
        BY <1>1, <2>2
      <3> QED BY <1>4, <2>1, <3>1, <3>2 DEF Holders
    <2>3. CASE fillers # {}
      <3>1. PICK c \in Clients : Holding(cl[c]) /\ cl[c].buf = b
        BY <2>3 DEF Filling, Holding
      <3>2. fillers = {c} /\ reserved[b]
        BY <1>1, <3>1 DEF BufInv, OneHolder, Filling
      <3>3. Cardinality(fillers) = 1
        BY <3>2, FS_Singleton
      <3> QED BY <2>1, <3>2, <3>3 DEF Holders
    <2> QED BY <2>2, <2>3
  <1> QED BY <1>3, <1>4

\* A buffer has one holder at a time and is reserved while it has, and only
\* writes of no bytes leave one behind, for any number of buffers, clients and
\* frames, and whether or not messages are lost for want of a frame.
THEOREM PoolIsSound == Spec => []PoolSound
  <1>1. BufInv => PoolSound
    <2> SUFFICES ASSUME BufInv
                 PROVE  PoolSound
      OBVIOUS
    <2>1. \A b \in Bufs : Holders(b) <= 1 /\ (Holders(b) = 1 => reserved[b])
      BY HolderCount
    <2>2. Orphans \subseteq Left
      BY HolderCount DEF Orphans, Left
    <2>3. Cardinality(Orphans) <= Cardinality(Left) /\ Cardinality(Orphans) \in Nat
      BY <2>2, LeftFinite, FS_Subset, FS_CardinalityType
    <2>4. Cardinality(Orphans) <= emptied
      BY <2>3, LeftFinite DEF BufInv, PoolType
    <2> QED BY <2>1, <2>4 DEF PoolSound
  <1> QED BY <1>1, BufInit, BufStep, PTL DEF Spec

-----------------------------------------------------------------------------
(* Types.  What a process brings to each place in a call, and what a       *)
(* message with an answer says.                                            *)
ClientTyped(r, n) ==
  /\ r.pc \in ClientPcs /\ r.chan \in Files \cup {NoFile}
  /\ r.op \in 0 .. n /\ r.count \in {0, 1}
  /\ r.pc # "closed" => r.chan \in Files
  /\ r.pc \notin {"closed", "user"} => r.op # 0 /\ r.kind \in Kinds
  /\ r.pc \in {"built", "wait"} => r.kind # "empty" /\ (r.kind = "release" <=> r.buf = NoBuf)

Mail ==
  {m \in Messages : m.client # NoClient =>
                      m.chan \in Files /\ m.op \in Ops /\ (m.eof \/ m.buf \in Bufs)}

CardTyped ==
  /\ content \in [Bufs -> [op : 0 .. MaxOps, data : Blocks]]
  /\ inbound \in Seq(Mail) /\ Len(inbound) <= Frames
  /\ outbound \in Seq(Replies)
  /\ file \in [chan : Files \cup {NoFile}, write : BOOLEAN, at : Nat]
  /\ file = Closed \/ file.chan \in Files
  /\ disk \in [Files -> Seq(Blocks)]

DriverTyped ==
  /\ clidata \in [Bufs -> {0, 1, Kbuf}]
  /\ rchs \in Seq(Handlers)
  /\ lastId \in Ids

\* Processes about to find that they have nothing to write.
Empties == {c \in Clients : cl[c].kind = "empty"}

BoundsKept ==
  /\ nops \in 0 .. MaxOps
  /\ IsFiniteSet(Empties) /\ emptied + Cardinality(Empties) <= MaxEmptyWrites

TypeInv ==
  /\ \A c \in Clients : ClientTyped(cl[c], nops)
  /\ CardTyped /\ DriverTyped /\ BoundsKept

LEMMA TypeInvType == BufInv /\ TypeInv => TypeOK
  <1> SUFFICES ASSUME BufInv, TypeInv
               PROVE  TypeOK
    OBVIOUS
  <1>1. \A c \in Clients : cl[c].buf \in Bufs \cup {NoBuf} /\ cl[c].stop \in Bufs
    BY DEF BufInv, PoolType, ClientOK
  <1>2. \A c \in Clients :
          /\ cl[c].pc \in ClientPcs
          /\ cl[c].chan \in Files \cup {NoFile}
          /\ cl[c].op \in 0 .. nops /\ cl[c].count \in {0, 1}
    BY DEF TypeInv, ClientTyped
  <1>3. inbound \in Seq(Messages) /\ Len(inbound) <= Frames
    <2>1. Mail \subseteq Messages
      BY DEF Mail
    <2> QED BY <2>1 DEF TypeInv, CardTyped
  <1>4. emptied \in 0 .. MaxEmptyWrites
    <2>1. Cardinality(Empties) \in Nat /\ emptied \in Nat
      BY FS_CardinalityType DEF BufInv, PoolType, TypeInv, BoundsKept
    <2> QED BY <2>1, BridgeAssumption DEF TypeInv, BoundsKept
  <1> QED
    BY <1>1, <1>2, <1>3, <1>4
       DEF TypeOK, BufInv, PoolType, TypeInv, CardTyped, DriverTyped, BoundsKept

\* The handler that a reply finds.
LEMMA FirstMatch ==
  ASSUME BufInv, Handle
  PROVE  /\ Min(Matches(Head(outbound).id)) \in Matches(Head(outbound).id)
         /\ Min(Matches(Head(outbound).id)) \in 1 .. Len(rchs)
  <1>1. Matches(Head(outbound).id) \in SUBSET (1 .. Len(rchs)) /\ Matches(Head(outbound).id) # {}
    BY DEF Handle, Matches
  <1>2. rchs \in Seq(Handler) /\ Len(rchs) \in Nat /\ 1 .. Len(rchs) \subseteq Nat
    BY DEF BufInv, PoolType
  <1> QED BY <1>1, <1>2, MinIn

\* No more processes have nothing to write.
LEMMA FewerEmpty ==
  ASSUME BoundsKept, Empties' \subseteq Empties, emptied' = emptied, emptied \in Nat,
         nops' \in 0 .. MaxOps
  PROVE  BoundsKept'
  <1>1. IsFiniteSet(Empties') /\ Cardinality(Empties') <= Cardinality(Empties)
        /\ Cardinality(Empties') \in Nat /\ Cardinality(Empties) \in Nat
    BY FS_Subset, FS_CardinalityType DEF BoundsKept
  <1> QED BY <1>1, BridgeAssumption DEF BoundsKept

\* The card takes one message, and works on one file.
LEMMA CardType ==
  ASSUME TypeInv, Card
  PROVE  CardTyped'
  <1> DEFINE m == Head(inbound)
  <1>1. inbound # << >> /\ inbound' = Tail(inbound)
    BY DEF Card, ProcessText, ProcessFile
  <1>2. m \in Mail /\ inbound' \in Seq(Mail) /\ Len(inbound') <= Frames
    BY <1>1, BridgeAssumption DEF TypeInv, CardTyped
  <1>3. CASE ProcessText
    BY <1>2, <1>3 DEF ProcessText, TypeInv, CardTyped, card
  <1>4. CASE ProcessFile
    <2> DEFINE s == Served(m)
               n == IF Moves(m) THEN 1 ELSE 0
    <2>1. m \in Messages /\ m.chan \in Files /\ m.op \in Ops /\ m.id \in Ids
          /\ m.write \in BOOLEAN
      BY <1>2, <1>4 DEF ProcessFile, Mail, Messages
    <2>2. s \in [chan : Files \cup {NoFile}, write : BOOLEAN, at : Nat] /\ s.chan \in Files
      BY <2>1 DEF Served, StaysOpen, TypeInv, CardTyped, Closed
    <2>3. Opened(m) \in [Files -> Seq(Blocks)]
          /\ (~ m.write => Opened(m) = disk)
      BY <2>1 DEF Opened, TypeInv, CardTyped
    <2>4. n \in {0, 1} /\ (n = 1 /\ ~ m.write => s.at < Len(disk[s.chan]))
      BY <2>3 DEF Moves
    <2>5. /\ disk' = IF m.write /\ n = 1
                       THEN [Opened(m) EXCEPT ![s.chan] = Append(@, content[m.buf].data)]
                       ELSE Opened(m)
          /\ content' = IF ~ m.write /\ n = 1
                          THEN [content EXCEPT ![m.buf] =
                                  [op |-> m.op, data |-> disk[s.chan][s.at + 1]]]
                          ELSE content
          /\ file' = IF m.eof THEN Closed
                     ELSE [s EXCEPT !.at = @ + (IF m.write THEN 0 ELSE n)]
          /\ outbound' = Append(outbound, [id |-> m.id, op |-> m.op, count |-> n])
      BY <1>4 DEF ProcessFile
    <2>6. content' \in [Bufs -> [op : 0 .. MaxOps, data : Blocks]]
      <3> DEFINE block == [op |-> m.op, data |-> disk[s.chan][s.at + 1]]
      <3>1. CASE ~ m.write /\ n = 1
        <4>1. disk[s.chan] \in Seq(Blocks) /\ s.at + 1 \in 1 .. Len(disk[s.chan])
          BY <2>2, <2>4, <3>1 DEF TypeInv, CardTyped
        <4>2. m.op \in 0 .. MaxOps
          BY <2>1, BridgeAssumption DEF Ops
        <4>3. block \in [op : 0 .. MaxOps, data : Blocks]
          BY <4>1, <4>2
        <4>4. content' = [content EXCEPT ![m.buf] = block]
          BY <2>5, <3>1
        <4> HIDE DEF block
        <4> QED BY <4>3, <4>4 DEF TypeInv, CardTyped
      <3>2. CASE ~ (~ m.write /\ n = 1)
        BY <2>5, <3>2 DEF TypeInv, CardTyped
      <3> QED BY <3>1, <3>2
    <2>7. disk' \in [Files -> Seq(Blocks)]
      <3>1. CASE m.write /\ n = 1
        <4>1. m.buf \in Bufs
          BY <1>2, <1>4, <3>1 DEF Mail, Moves, ProcessFile
        <4>2. content[m.buf].data \in Blocks
          BY <4>1 DEF TypeInv, CardTyped
        <4>3. disk' = [Opened(m) EXCEPT ![s.chan] = Append(@, content[m.buf].data)]
          BY <2>5, <3>1
        <4> HIDE DEF s, n
        <4> QED BY <2>2, <2>3, <4>2, <4>3
      <3>2. CASE ~ (m.write /\ n = 1)
        BY <2>3, <2>5, <3>2
      <3> QED BY <3>1, <3>2
    <2>8. outbound' \in Seq(Replies)
      BY <2>1, <2>4, <2>5 DEF TypeInv, CardTyped, Replies
    <2>9. /\ file' \in [chan : Files \cup {NoFile}, write : BOOLEAN, at : Nat]
          /\ file' = Closed \/ file'.chan \in Files
      BY <2>2, <2>4, <2>5 DEF Closed
    <2> QED BY <1>2, <2>6, <2>7, <2>8, <2>9 DEF CardTyped
  <1> QED BY <1>3, <1>4 DEF Card

\* One process goes on, and no more processes have nothing to write.
LEMMA MovedType ==
  ASSUME BufInv, TypeInv, NEW c \in Clients, NEW r,
         cl' = [cl EXCEPT ![c] = r], r.kind = "empty" => cl[c].kind = "empty",
         ClientTyped(r, nops), UNCHANGED <<nops, emptied>>, CardTyped', DriverTyped'
  PROVE  TypeInv'
  <1>1. cl'[c] = r /\ \A d \in Clients : d # c => cl'[d] = cl[d]
    BY DEF BufInv, PoolType
  <1>2. \A d \in Clients : ClientTyped(cl'[d], nops)
    BY <1>1 DEF TypeInv
  <1>3. Empties' \subseteq Empties
    BY <1>1 DEF Empties
  <1>4. BoundsKept'
    BY <1>3, FewerEmpty DEF BufInv, PoolType, TypeInv, BoundsKept
  <1> QED BY <1>2, <1>4 DEF TypeInv

LEMMA ReturnTyped ==
  ASSUME BufInv, TypeInv, NEW c \in Clients, cl[c].pc # "closed"
  PROVE  ClientTyped(Return(c), nops) /\ DOMAIN Return(c) = Fields /\ Return(c).kind = "none"
  <1>1. DOMAIN cl[c] = Fields /\ ClientTyped(cl[c], nops) /\ nops \in Nat
    BY DEF BufInv, PoolType, ClientOK, TypeInv
  <1> QED BY <1>1, FieldNames DEF ClientTyped, Return, ClientPcs

LEMMA FreshTyped == \A n \in Nat : ClientTyped(Fresh, n) /\ Fresh.kind = "none"
  BY DEF ClientTyped, Fresh, ClientPcs

\* The process goes on to another place.
LEMMA WaitingType ==
  ASSUME BufInv, TypeInv, NEW c \in Clients,
         \/ Nap(c) \/ NapTimeout(c) \/ Close(c) \/ Sleep(c) \/ ReadAnswered(c)
         \/ Copy(c) \/ ReleaseAnswered(c) \/ \E f \in Files : Open(c, f)
  PROVE  TypeInv'
  <1>1. ClientTyped(cl[c], nops) /\ DOMAIN cl[c] = Fields /\ ClientOK(cl[c])
        /\ nops \in Nat /\ ClientTyped(Fresh, nops) /\ Fresh.kind = "none"
    BY FreshTyped DEF BufInv, PoolType, ClientOK, TypeInv
  <1>2. UNCHANGED <<driver, content, inbound, outbound, card, nops, emptied>>
    BY DEF Nap, NapTimeout, Close, Sleep, ReadAnswered, Copy, ReleaseAnswered, Open, ghosts
  <1>3. CardTyped' /\ DriverTyped'
    BY <1>2 DEF TypeInv, CardTyped, DriverTyped, driver, card
  <1>4. ASSUME NEW r, cl' = [cl EXCEPT ![c] = r], ClientTyped(r, nops),
               r.kind = "empty" => cl[c].kind = "empty"
        PROVE  TypeInv'
    BY <1>2, <1>3, <1>4, MovedType
  <1>5. CASE Nap(c)
    <2> DEFINE r == [cl[c] EXCEPT !.pc = "nap"]
    <2>1. ClientTyped(r, nops) /\ r.kind = cl[c].kind
      BY <1>1, <1>5, FieldNames DEF Nap, ClientTyped, ClientPcs
    <2>2. cl' = [cl EXCEPT ![c] = r]
      BY <1>5 DEF Nap
    <2> HIDE DEF r
    <2> QED BY <1>4, <2>1, <2>2
  <1>6. CASE NapTimeout(c)
    BY <1>4, <1>6, ReturnTyped DEF NapTimeout
  <1>7. CASE Close(c) \/ ReleaseAnswered(c)
    BY <1>1, <1>4, <1>7 DEF Close, ReleaseAnswered
  <1>8. CASE Sleep(c)
    <2> DEFINE r == [cl[c] EXCEPT !.awake = FALSE]
    <2>1. ClientTyped(r, nops) /\ r.kind = cl[c].kind
      BY <1>1, <1>8, FieldNames DEF Sleep, ClientTyped, ClientPcs
    <2>2. cl' = [cl EXCEPT ![c] = r]
      BY <1>8 DEF Sleep
    <2> HIDE DEF r
    <2> QED BY <1>4, <2>1, <2>2
  <1>9. CASE ReadAnswered(c)
    <2> DEFINE r == [cl[c] EXCEPT !.pc = "copy", !.count = clidata[cl[c].buf]]
    <2>1. cl[c].buf \in Bufs
      BY <1>1, <1>9 DEF ReadAnswered, ClientTyped, ClientOK
    <2>2. clidata[cl[c].buf] \in {0, 1}
      BY <1>9, <2>1 DEF ReadAnswered, Answered, TypeInv, DriverTyped
    <2>3. ClientTyped(r, nops) /\ r.kind = cl[c].kind
      BY <1>1, <1>9, <2>2, FieldNames DEF ReadAnswered, ClientTyped, ClientPcs
    <2>4. cl' = [cl EXCEPT ![c] = r]
      BY <1>9 DEF ReadAnswered
    <2> HIDE DEF r
    <2> QED BY <1>4, <2>3, <2>4
  <1>10. CASE Copy(c)
    <2>1. PICK pos, got : cl' = [cl EXCEPT ![c] = [Return(c) EXCEPT !.pos = pos, !.got = got]]
      BY <1>10 DEF Copy
    <2> DEFINE r == [Return(c) EXCEPT !.pos = pos, !.got = got]
    <2>2. ClientTyped(Return(c), nops) /\ DOMAIN Return(c) = Fields /\ Return(c).kind = "none"
      BY <1>10, ReturnTyped DEF Copy
    <2>3. ClientTyped(r, nops) /\ r.kind = "none"
      BY <2>2, FieldNames DEF ClientTyped
    <2> HIDE DEF r
    <2> QED BY <1>4, <2>1, <2>3 DEF r
  <1>11. ASSUME NEW f \in Files, Open(c, f)
         PROVE  TypeInv'
    <2> DEFINE r == [Fresh EXCEPT !.pc = "user", !.chan = f]
    <2>1. ClientTyped(r, nops) /\ r.kind = "none"
      BY <1>1 DEF Fresh, ClientTyped, ClientPcs
    <2>2. cl' = [cl EXCEPT ![c] = r]
      BY <1>11 DEF Open
    <2> HIDE DEF r
    <2> QED BY <1>4, <2>1, <2>2
  <1> QED BY <1>5, <1>6, <1>7, <1>8, <1>9, <1>10, <1>11

\* A message that fits the queue leaves the queue within its bounds.
LEMMA PostType ==
  ASSUME TypeInv, NEW m \in [id : {0}, op : 0 .. MaxOps, client : Clients \cup {NoClient},
                             chan : Files \cup {NoFile}, write : BOOLEAN,
                             first : BOOLEAN, eof : BOOLEAN, buf : Bufs \cup {NoBuf}],
         m.client # NoClient => m.chan \in Files /\ m.op \in Ops /\ (m.eof \/ m.buf \in Bufs),
         Post(m), UNCHANGED <<content, outbound, card, clidata, rchs>>
  PROVE  CardTyped' /\ DriverTyped'
  <1>1. (lastId + 1) % IdSpan \in Ids /\ Len(inbound) \in Nat
    BY BridgeAssumption DEF TypeInv, DriverTyped, CardTyped, Ids
  <1>2. CASE Len(inbound) < Frames
    <2> DEFINE sent == [m EXCEPT !.id = (lastId + 1) % IdSpan]
    <2>1. lastId' = (lastId + 1) % IdSpan /\ inbound' = Append(inbound, sent)
      BY <1>2 DEF Post
    <2>2. sent \in Mail
      BY <1>1 DEF Mail, Messages
    <2> HIDE DEF sent
    <2>3. inbound' \in Seq(Mail) /\ Len(inbound') <= Frames
      BY <1>1, <1>2, <2>1, <2>2, BridgeAssumption DEF TypeInv, CardTyped
    <2> QED BY <1>1, <2>1, <2>3 DEF TypeInv, CardTyped, DriverTyped, card
  <1>3. CASE ~ (Len(inbound) < Frames)
    BY <1>3 DEF Post, TypeInv, CardTyped, DriverTyped, card
  <1> QED BY <1>2, <1>3

\* A message is sent.
LEMMA SendType ==
  ASSUME BufInv, TypeInv, NEW c \in Clients, Send(c)
  PROVE  TypeInv'
  <1> DEFINE eof == cl[c].kind = "release"
             m == [id     |-> 0,
                   op     |-> cl[c].op,
                   client |-> c,
                   chan   |-> cl[c].chan,
                   write  |-> cl[c].dir = "out",
                   first  |-> cl[c].pos = 0 /\ ~ eof,
                   eof    |-> eof,
                   buf    |-> cl[c].buf]
  <1>1. ClientTyped(cl[c], nops) /\ DOMAIN cl[c] = Fields /\ ClientOK(cl[c])
        /\ nops \in 0 .. MaxOps /\ cl[c].pc = "built"
    BY DEF BufInv, PoolType, ClientOK, TypeInv, BoundsKept, Send
  <1>2. Post(m) /\ UNCHANGED <<content, outbound, card, clidata, rchs, nops, emptied>>
    BY DEF Send
  <1>3. cl[c].op \in Ops /\ cl[c].op \in 0 .. MaxOps /\ cl[c].chan \in Files
        /\ (eof <=> cl[c].buf = NoBuf) /\ cl[c].buf \in Bufs \cup {NoBuf}
    BY <1>1, BridgeAssumption DEF ClientTyped, ClientOK, Ops
  <1>4. CardTyped' /\ DriverTyped'
    <2>1. m \in [id : {0}, op : 0 .. MaxOps, client : Clients \cup {NoClient},
                 chan : Files \cup {NoFile}, write : BOOLEAN,
                 first : BOOLEAN, eof : BOOLEAN, buf : Bufs \cup {NoBuf}]
      BY <1>3
    <2>2. m.chan \in Files /\ m.op \in Ops /\ (m.eof \/ m.buf \in Bufs)
      BY <1>3
    <2> HIDE DEF m
    <2> QED BY <1>2, <2>1, <2>2, PostType
  <1>5. CASE cl[c].kind = "write"
    <2>1. PICK pos, begun, wrote :
            cl' = [cl EXCEPT ![c] = [Return(c) EXCEPT !.pos = pos, !.begun = begun,
                                                      !.wrote = wrote]]
      BY <1>5 DEF Send
    <2> DEFINE r == [Return(c) EXCEPT !.pos = pos, !.begun = begun, !.wrote = wrote]
    <2>2. ClientTyped(Return(c), nops) /\ DOMAIN Return(c) = Fields /\ Return(c).kind = "none"
      BY <1>1, ReturnTyped
    <2>3. ClientTyped(r, nops) /\ r.kind = "none"
      BY <2>2, FieldNames DEF ClientTyped
    <2> HIDE DEF r
    <2> QED BY <1>2, <1>4, <2>1, <2>3, MovedType DEF r
  <1>6. CASE cl[c].kind # "write"
    <2>1. PICK begun :
            cl' = [cl EXCEPT ![c] = [cl[c] EXCEPT !.pc = "wait", !.awake = TRUE,
                                                  !.begun = begun]]
      BY <1>6 DEF Send
    <2> DEFINE r == [cl[c] EXCEPT !.pc = "wait", !.awake = TRUE, !.begun = begun]
    <2>2. ClientTyped(r, nops) /\ r.kind = cl[c].kind
      BY <1>1, FieldNames DEF ClientTyped, ClientPcs
    <2> HIDE DEF r
    <2> QED BY <1>2, <1>4, <2>1, <2>2, MovedType DEF r
  <1> QED BY <1>5, <1>6

\* A call begins.
LEMMA CallType ==
  ASSUME BufInv, TypeInv, NEW c \in Clients, NEW k \in Kinds, Call(c, k)
  PROVE  TypeInv'
  <1> DEFINE r == [cl[c] EXCEPT !.kind = k, !.op = nops + 1,
                                !.pc = IF k = "release" THEN "fill" ELSE "alloc"]
  <1>1. ClientTyped(cl[c], nops) /\ DOMAIN cl[c] = Fields /\ cl[c].pc = "user"
        /\ nops \in 0 .. MaxOps /\ nops' = nops + 1 /\ nops' \in 0 .. MaxOps
        /\ nops < MaxOps /\ emptied \in Nat
    BY BridgeAssumption DEF BufInv, PoolType, ClientOK, TypeInv, BoundsKept, Call
  <1>2. UNCHANGED <<driver, content, inbound, outbound, card, emptied>>
    BY DEF Call
  <1>3. CardTyped' /\ DriverTyped'
    BY <1>2 DEF TypeInv, CardTyped, DriverTyped, driver, card
  <1>4. cl' = [cl EXCEPT ![c] = r]
    BY DEF Call
  <1>5. ClientTyped(r, nops') /\ r.kind = k
    BY <1>1, FieldNames DEF ClientTyped, ClientPcs
  <1> HIDE DEF r
  <1>6. cl'[c] = r /\ \A d \in Clients : d # c => cl'[d] = cl[d]
    BY <1>4 DEF BufInv, PoolType
  <1>7. \A d \in Clients : ClientTyped(cl'[d], nops')
    <2> SUFFICES ASSUME NEW d \in Clients
                 PROVE  ClientTyped(cl'[d], nops')
      OBVIOUS
    <2>1. CASE d = c
      BY <1>5, <1>6, <2>1
    <2>2. CASE d # c
      <3>1. ClientTyped(cl[d], nops) /\ cl'[d] = cl[d]
        BY <1>6, <2>2 DEF TypeInv
      <3> QED BY <1>1, <3>1 DEF ClientTyped
    <2> QED BY <2>1, <2>2
  <1>8. BoundsKept'
    <2>1. CASE k = "empty"
      <3>1. Empties' \subseteq Empties \cup {c}
        BY <1>6 DEF Empties
      <3>2. IsFiniteSet(Empties) /\ emptied + Cardinality(Empties) < MaxEmptyWrites
        BY <2>1 DEF Call, Empties, TypeInv, BoundsKept
      <3>3. IsFiniteSet(Empties \cup {c}) /\ Cardinality(Empties \cup {c}) <= Cardinality(Empties) + 1
            /\ Cardinality(Empties) \in Nat /\ Cardinality(Empties \cup {c}) \in Nat
        <4>1. IsFiniteSet(Empties \cup {c})
              /\ Cardinality(Empties \cup {c}) = IF c \in Empties THEN Cardinality(Empties)
                                                 ELSE Cardinality(Empties) + 1
          BY <3>2, FS_AddElement
        <4>2. Cardinality(Empties) \in Nat
          BY <3>2, FS_CardinalityType
        <4>3. CASE c \in Empties
          BY <4>1, <4>2, <4>3
        <4>4. CASE c \notin Empties
          BY <4>1, <4>2, <4>4
        <4> QED BY <4>3, <4>4
      <3>4. IsFiniteSet(Empties') /\ Cardinality(Empties') <= Cardinality(Empties \cup {c})
            /\ Cardinality(Empties') \in Nat
        BY <3>1, <3>3, FS_Subset, FS_CardinalityType
      <3> QED BY <1>1, <1>2, <3>2, <3>3, <3>4, BridgeAssumption DEF BoundsKept
    <2>2. CASE k # "empty"
      <3>1. Empties' \subseteq Empties
        BY <1>5, <1>6, <2>2 DEF Empties
      <3> QED BY <1>1, <1>2, <3>1, FewerEmpty DEF TypeInv
    <2> QED BY <2>1, <2>2
  <1> QED BY <1>3, <1>7, <1>8 DEF TypeInv

\* A process goes on with a buffer, or goes to sleep.
LEMMA AllocType ==
  ASSUME BufInv, TypeInv, NEW c \in Clients, Alloc(c) \/ Rescan(c)
  PROVE  TypeInv'
  <1>1. ClientTyped(cl[c], nops) /\ DOMAIN cl[c] = Fields /\ cl[c].pc \in {"alloc", "rescan"}
    BY DEF BufInv, PoolType, ClientOK, TypeInv, Alloc, Rescan
  <1>2. UNCHANGED <<clidata, rchs, lastId, content, inbound, outbound, card, nops, emptied>>
    BY DEF Alloc, Rescan
  <1>3. CardTyped' /\ DriverTyped'
    BY <1>2 DEF TypeInv, CardTyped, DriverTyped, card
  <1>4. ASSUME NEW r, cl' = [cl EXCEPT ![c] = r], ClientTyped(r, nops), r.kind = cl[c].kind
        PROVE  TypeInv'
    BY <1>2, <1>3, <1>4, MovedType
  <1>5. ASSUME NEW b, Take(c, b)
        PROVE  TypeInv'
    <2> DEFINE r == [cl[c] EXCEPT !.pc = "fill", !.buf = b]
    <2>1. ClientTyped(r, nops) /\ r.kind = cl[c].kind
      BY <1>1, FieldNames DEF ClientTyped, ClientPcs
    <2>2. cl' = [cl EXCEPT ![c] = r]
      BY <1>5 DEF Take
    <2> HIDE DEF r
    <2> QED BY <1>4, <2>1, <2>2
  <1>6. ASSUME NEW b, cl' = [cl EXCEPT ![c] = [cl[c] EXCEPT !.pc = "full", !.stop = b]]
        PROVE  TypeInv'
    <2> DEFINE r == [cl[c] EXCEPT !.pc = "full", !.stop = b]
    <2>1. ClientTyped(r, nops) /\ r.kind = cl[c].kind
      BY <1>1, FieldNames DEF ClientTyped, ClientPcs
    <2>2. cl' = [cl EXCEPT ![c] = r]
      BY <1>6
    <2> HIDE DEF r
    <2> QED BY <1>4, <2>1, <2>2
  <1>7. CASE Alloc(c)
    BY <1>5, <1>6, <1>7 DEF Alloc
  <1>8. CASE Rescan(c)
    <2> DEFINE r == [cl[c] EXCEPT !.pc = "full"]
    <2>1. (\E b : Take(c, b)) \/ cl' = [cl EXCEPT ![c] = r]
      BY <1>8 DEF Rescan
    <2>2. ClientTyped(r, nops) /\ r.kind = cl[c].kind
      BY <1>1, FieldNames DEF ClientTyped, ClientPcs
    <2> HIDE DEF r
    <2> QED BY <1>4, <1>5, <2>1, <2>2
  <1> QED BY <1>7, <1>8

\* A write of no bytes returns.
LEMMA EmptyType ==
  ASSUME BufInv, TypeInv, NEW c \in Clients, FillNothing(c)
  PROVE  TypeInv'
  <1> DEFINE r == Return(c)
  <1>1. cl' = [cl EXCEPT ![c] = r] /\ emptied' = emptied + 1 /\ cl[c].kind = "empty"
        /\ UNCHANGED <<driver, content, inbound, outbound, card, nops>>
    BY DEF FillNothing
  <1>2. ClientTyped(r, nops) /\ r.kind = "none"
    BY ReturnTyped DEF FillNothing
  <1>3. CardTyped' /\ DriverTyped'
    BY <1>1 DEF TypeInv, CardTyped, DriverTyped, driver, card
  <1> HIDE DEF r
  <1>4. cl'[c] = r /\ \A d \in Clients : d # c => cl'[d] = cl[d]
    BY <1>1 DEF BufInv, PoolType
  <1>5. \A d \in Clients : ClientTyped(cl'[d], nops')
    BY <1>1, <1>2, <1>4 DEF TypeInv
  <1>6. Empties' = Empties \ {c} /\ c \in Empties
    BY <1>1, <1>2, <1>4 DEF Empties
  <1>7. IsFiniteSet(Empties') /\ Cardinality(Empties') = Cardinality(Empties) - 1
        /\ Cardinality(Empties) \in Nat
    BY <1>6, FS_RemoveElement, FS_CardinalityType DEF TypeInv, BoundsKept
  <1>8. BoundsKept'
    BY <1>1, <1>7, BridgeAssumption DEF TypeInv, BoundsKept, BufInv, PoolType
  <1> QED BY <1>3, <1>5, <1>8 DEF TypeInv

\* A handler is filed.
LEMMA BuildType ==
  ASSUME BufInv, TypeInv, NEW c \in Clients, BuildRch(c)
  PROVE  TypeInv'
  <1>1. ClientTyped(cl[c], nops) /\ ClientOK(cl[c]) /\ DOMAIN cl[c] = Fields
        /\ cl[c].pc = "fill" /\ cl[c].kind # "empty" /\ nops \in 0 .. MaxOps
    BY DEF BufInv, PoolType, ClientOK, TypeInv, BoundsKept, BuildRch
  <1>2. cl[c].op \in Ops /\ cl[c].op \in 0 .. MaxOps /\ cl[c].op \in Blocks
    BY <1>1, BridgeAssumption DEF ClientTyped, Ops, Blocks
  <1>3. UNCHANGED <<reserved, ibuf, lastId, inbound, outbound, card, nops, emptied>>
    BY DEF BuildRch, ghosts
  <1>4. content' \in [Bufs -> [op : 0 .. MaxOps, data : Blocks]]
    BY <1>2 DEF BuildRch, TypeInv, CardTyped
  <1>5. DriverTyped'
    <2> DEFINE h == [id     |-> (lastId + 1) % IdSpan,
                     op     |-> cl[c].op,
                     kind   |-> cl[c].kind,
                     client |-> c,
                     buf    |-> cl[c].buf]
    <2>1. (lastId + 1) % IdSpan \in Ids
      BY BridgeAssumption DEF TypeInv, DriverTyped, Ids
    <2>2. h \in Handlers
      BY <1>1, <1>2, <2>1 DEF Handlers, ClientOK, ClientTyped
    <2>3. rchs' = Append(rchs, h)
          /\ clidata' = [b \in Bufs |-> IF b = cl[c].buf THEN Kbuf ELSE clidata[b]]
      BY DEF BuildRch
    <2> HIDE DEF h
    <2> QED BY <1>3, <2>2, <2>3 DEF TypeInv, DriverTyped
  <1>6. CardTyped'
    BY <1>3, <1>4 DEF TypeInv, CardTyped, card
  <1>7. PICK d : cl' = [cl EXCEPT ![c] = [cl[c] EXCEPT !.pc = "built", !.dir = d]]
    BY DEF BuildRch
  <1> DEFINE r == [cl[c] EXCEPT !.pc = "built", !.dir = d]
  <1>8. ClientTyped(r, nops) /\ r.kind = cl[c].kind
    BY <1>1, FieldNames DEF ClientTyped, ClientOK, ClientPcs
  <1> HIDE DEF r
  <1> QED BY <1>3, <1>5, <1>6, <1>7, <1>8, MovedType DEF r

\* What the removal of a handler leaves of each process.
LEMMA HandleClients ==
  ASSUME BufInv, TypeInv, Handle
  PROVE  \A d \in Clients :
           /\ ClientTyped(cl'[d], nops) /\ cl'[d].kind = cl[d].kind /\ cl'[d].op = cl[d].op
           /\ cl'[d].pc = "built" <=> cl[d].pc = "built"
  <1> DEFINE i == Min(Matches(Head(outbound).id))
             h == rchs[i]
             woken == Woken(cl)
             Same(r, d) == /\ ClientTyped(r, nops) /\ r.kind = cl[d].kind /\ r.op = cl[d].op
                           /\ r.pc = "built" <=> cl[d].pc = "built"
  <1>1. \A d \in Clients : ClientTyped(cl[d], nops) /\ DOMAIN cl[d] = Fields
    BY DEF BufInv, PoolType, ClientOK, TypeInv
  <1>2. \A d \in Clients : Same(woken[d], d) /\ DOMAIN woken[d] = Fields
    BY <1>1, FieldNames DEF Woken, ClientTyped, ClientPcs
  <1>3. woken = [d \in Clients |-> woken[d]] /\ cl = [d \in Clients |-> cl[d]]
    BY DEF Woken, BufInv, PoolType
  <1>4. cl' = [cl EXCEPT ![h.client] = [cl[h.client] EXCEPT !.eofdone = TRUE, !.awake = TRUE]]
        \/ cl' = woken
        \/ cl' = [woken EXCEPT ![h.client] = [woken[h.client] EXCEPT !.awake = TRUE]]
    BY DEF Handle, Woke
  <1>5. h.client \in Clients
    BY FirstMatch, Entries
  <1> HIDE DEF woken, h
  <1>6. CASE cl' = woken
    BY <1>2, <1>6
  <1>7. CASE cl' = [cl EXCEPT ![h.client] = [cl[h.client] EXCEPT !.eofdone = TRUE, !.awake = TRUE]]
    <2> DEFINE r == [cl[h.client] EXCEPT !.eofdone = TRUE, !.awake = TRUE]
    <2>1. Same(r, h.client) /\ \A d \in Clients : Same(cl[d], d)
      BY <1>1, <1>5, FieldNames DEF ClientTyped
    <2>2. cl' = [cl EXCEPT ![h.client] = r]
      BY <1>7
    <2> HIDE DEF r, Same
    <2>3. \A d \in Clients : Same(cl'[d], d)
      BY <1>3, <1>5, <2>1, <2>2
    <2> QED BY <2>3 DEF Same
  <1>8. CASE cl' = [woken EXCEPT ![h.client] = [woken[h.client] EXCEPT !.awake = TRUE]]
    <2> DEFINE r == [woken[h.client] EXCEPT !.awake = TRUE]
    <2>1. Same(r, h.client)
      BY <1>2, <1>5, FieldNames DEF ClientTyped
    <2>2. cl' = [woken EXCEPT ![h.client] = r]
      BY <1>8
    <2> HIDE DEF r, Same
    <2>3. \A d \in Clients : Same(cl'[d], d)
      BY <1>2, <1>3, <1>5, <2>1, <2>2
    <2> QED BY <2>3 DEF Same
  <1> QED BY <1>4, <1>6, <1>7, <1>8

\* The bottom half removes a handler.
LEMMA HandleType ==
  ASSUME BufInv, TypeInv, Handle
  PROVE  TypeInv'
  <1> DEFINE n == Len(rchs)
             m == Head(outbound)
             i == Min(Matches(m.id))
             h == rchs[i]
  <1>1. i \in 1 .. n
    BY FirstMatch
  <1>2. h.client \in Clients /\ h.kind \in Kinds /\ h.buf \in Bufs \cup {NoBuf}
        /\ (h.kind = "release" <=> h.buf = NoBuf)
    BY <1>1, Entries DEF BufInv, OneHolder
  <1>3. UNCHANGED <<ibuf, lastId, content, inbound, card, nops, emptied>>
        /\ rchs' = RemoveAt(rchs, i) /\ outbound' = Tail(outbound) /\ outbound # << >>
    BY DEF Handle, ghosts
  <1>4. outbound' \in Seq(Replies) /\ m \in Replies
    BY <1>3 DEF TypeInv, CardTyped
  <1>5. CardTyped'
    BY <1>3, <1>4 DEF TypeInv, CardTyped, card
  <1>6. DriverTyped'
    <2>1. rchs' \in Seq(Handlers)
      BY <1>1, <1>3, Removed DEF TypeInv, DriverTyped
    <2>2. m.count \in {0, 1}
      BY <1>4 DEF Replies
    <2>3. clidata' = clidata \/ clidata' = [clidata EXCEPT ![h.buf] = m.count]
      BY DEF Handle
    <2> HIDE DEF m, h
    <2> QED BY <1>3, <2>1, <2>2, <2>3 DEF TypeInv, DriverTyped
  <1>7. \A d \in Clients : ClientTyped(cl'[d], nops) /\ cl'[d].kind = cl[d].kind
    BY HandleClients
  <1>8. Empties' \subseteq Empties
    BY <1>7 DEF Empties
  <1>9. BoundsKept'
    BY <1>3, <1>8, FewerEmpty DEF TypeInv, BoundsKept, BufInv, PoolType
  <1> QED BY <1>3, <1>5, <1>6, <1>7, <1>9 DEF TypeInv

\* A text message is sent, or nothing happens.
LEMMA TextType ==
  ASSUME BufInv, TypeInv, (\E c \in Clients : SendText(c)) \/ UNCHANGED vars
  PROVE  TypeInv'
  <1>1. CASE UNCHANGED vars
    BY <1>1 DEF vars, driver, card, ghosts, TypeInv, ClientTyped, CardTyped, DriverTyped,
                BoundsKept, Empties
  <1>2. CASE \E c \in Clients : SendText(c)
    <2>1. Post(Text) /\ UNCHANGED <<cl, clidata, rchs, content, outbound, card, emptied>>
          /\ nops < MaxOps /\ nops' = nops + 1
      BY <1>2 DEF SendText
    <2>2. Text \in [id : {0}, op : 0 .. MaxOps, client : Clients \cup {NoClient},
                    chan : Files \cup {NoFile}, write : BOOLEAN,
                    first : BOOLEAN, eof : BOOLEAN, buf : Bufs \cup {NoBuf}]
          /\ Text.client = NoClient
      BY BridgeAssumption DEF Text
    <2>3. CardTyped' /\ DriverTyped'
      BY <2>1, <2>2, PostType
    <2>4. nops \in Nat /\ nops' \in 0 .. MaxOps /\ emptied \in Nat
      BY <2>1, BridgeAssumption DEF TypeInv, BoundsKept, BufInv, PoolType
    <2>5. \A d \in Clients : ClientTyped(cl'[d], nops')
      BY <2>1, <2>4 DEF TypeInv, ClientTyped
    <2>6. Empties' \subseteq Empties
      BY <2>1 DEF Empties
    <2>7. BoundsKept'
      BY <2>1, <2>4, <2>6, FewerEmpty DEF TypeInv
    <2> QED BY <2>3, <2>5, <2>7 DEF TypeInv
  <1> QED BY <1>1, <1>2

LEMMA TypeInit == Init => TypeInv
  <1> SUFFICES ASSUME Init
               PROVE  TypeInv
    OBVIOUS
  <1>1. \A c \in Clients : ClientTyped(cl[c], nops)
    BY FreshTyped DEF Init
  <1>2. CardTyped
    BY BridgeAssumption DEF Init, CardTyped, Blank, Closed, Old, Blocks
  <1>3. DriverTyped
    BY BridgeAssumption DEF Init, DriverTyped, Ids
  <1>4. Empties = {} /\ Cardinality(Empties) = 0 /\ IsFiniteSet(Empties)
    <2>1. Empties = {}
      BY DEF Init, Fresh, Empties
    <2> QED BY <2>1, FS_EmptySet
  <1>5. BoundsKept
    BY <1>4, BridgeAssumption DEF Init, BoundsKept
  <1> QED BY <1>1, <1>2, <1>3, <1>5 DEF TypeInv

LEMMA TypeStep == BufInv /\ TypeInv /\ [Next]_vars => TypeInv'
  <1> SUFFICES ASSUME BufInv, TypeInv, [Next]_vars
               PROVE  TypeInv'
    OBVIOUS
  <1>1. ASSUME NEW c \in Clients, Client(c)
        PROVE  TypeInv'
    BY <1>1, WaitingType, SendType, AllocType, EmptyType, BuildType DEF Client
  <1>2. CASE Card
    <2>1. UNCHANGED <<cl, driver, nops, emptied>>
      BY <1>2 DEF Card, ProcessText, ProcessFile, ghosts
    <2>2. CardTyped'
      BY <1>2, CardType
    <2> QED BY <2>1, <2>2 DEF TypeInv, ClientTyped, DriverTyped, BoundsKept, Empties, driver
  <1> QED BY <1>1, <1>2, WaitingType, CallType, TextType, HandleType DEF Next

\* Every variable keeps its type, a full queue refuses a message, and a reply
\* tells of one buffer at most.
THEOREM TypeCorrect == Spec => []TypeOK
  BY BufInit, BufStep, TypeInit, TypeStep, TypeInvType, PTL DEF Spec

-----------------------------------------------------------------------------
(* Messages in flight and their handlers.                                  *)

\* The places of a sequence with an entry in P, and those as far as i.
Where(s, P)   == {i \in 1 .. Len(s) : s[i] \in P}
Upto(s, P, i) == {j \in Where(s, P) : j <= i}

LEMMA IndexSet ==
  ASSUME NEW n \in Nat, NEW S \in SUBSET (1 .. n)
  PROVE  IsFiniteSet(S) /\ Cardinality(S) \in Nat /\ Cardinality(S) <= n
  <1>1. IsFiniteSet(1 .. n) /\ Cardinality(1 .. n) = n
    BY FS_Interval
  <1> QED BY <1>1, FS_Subset, FS_CardinalityType

\* Taking an index out closes the gap.
LEMMA Closing ==
  ASSUME NEW n \in Nat, NEW k \in 1 .. n, NEW S \in SUBSET (1 .. n)
  PROVE  Cardinality({i \in 1 .. n - 1 : (IF i < k THEN i ELSE i + 1) \in S})
         = IF k \in S THEN Cardinality(S) - 1 ELSE Cardinality(S)
  <1> DEFINE at(i) == IF i < k THEN i ELSE i + 1
             A == {i \in 1 .. n - 1 : at(i) \in S}
             B == S \ {k}
             f == [i \in A |-> at(i)]
  <1>1. IsFiniteSet(S)
    BY IndexSet
  <1>2. IsFiniteSet(B) /\ Cardinality(B) = IF k \in S THEN Cardinality(S) - 1 ELSE Cardinality(S)
    BY <1>1, FS_RemoveElement
  <1>3. \A i \in A : f[i] \in B
    OBVIOUS
  <1>4. \A i, j \in A : f[i] = f[j] => i = j
    OBVIOUS
  <1>5. \A b \in B : \E i \in A : f[i] = b
    <2> SUFFICES ASSUME NEW b \in B
                 PROVE  \E i \in A : f[i] = b
      OBVIOUS
    <2>1. CASE b < k
      <3>1. b \in A /\ f[b] = b
        BY <2>1
      <3> QED BY <3>1
    <2>2. CASE ~ (b < k)
      <3>1. b - 1 \in A /\ f[b - 1] = b
        BY <2>2
      <3> QED BY <3>1
    <2> QED BY <2>1, <2>2
  <1>6. f \in Bijection(A, B)
    <2>1. f \in [A -> B]
      BY <1>3
    <2> HIDE DEF f, A, B
    <2> QED BY <1>4, <1>5, <2>1 DEF Bijection, Injection, Surjection, IsInjective
  <1>7. ExistsBijection(A, B)
    BY <1>6 DEF ExistsBijection
  <1>8. Cardinality(A) = Cardinality(B)
    <2>1. IsFiniteSet(A)
      <3>1. n - 1 \in Nat
        OBVIOUS
      <3>2. A \in SUBSET (1 .. n - 1)
        OBVIOUS
      <3> HIDE DEF A
      <3> QED BY <3>1, <3>2, IndexSet
    <2> HIDE DEF A, B
    <2> QED BY <1>7, <2>1, FS_Bijection
  <1> QED BY <1>2, <1>8

LEMMA WhereType ==
  ASSUME NEW T, NEW s \in Seq(T), NEW P
  PROVE  /\ IsFiniteSet(Where(s, P)) /\ Cardinality(Where(s, P)) \in Nat
         /\ \A i : /\ IsFiniteSet(Upto(s, P, i)) /\ Cardinality(Upto(s, P, i)) \in Nat
                   /\ Cardinality(Upto(s, P, i)) <= Cardinality(Where(s, P))
         /\ \A i \in Where(s, P) : Cardinality(Upto(s, P, i)) > 0
  <1>1. Where(s, P) \in SUBSET (1 .. Len(s)) /\ \A i : Upto(s, P, i) \subseteq Where(s, P)
    BY DEF Where, Upto
  <1>2. IsFiniteSet(Where(s, P)) /\ Cardinality(Where(s, P)) \in Nat
    BY <1>1, IndexSet
  <1>3. \A i : /\ IsFiniteSet(Upto(s, P, i)) /\ Cardinality(Upto(s, P, i)) \in Nat
               /\ Cardinality(Upto(s, P, i)) <= Cardinality(Where(s, P))
    BY <1>1, <1>2, FS_Subset, FS_CardinalityType
  <1>4. ASSUME NEW i \in Where(s, P)
        PROVE  Cardinality(Upto(s, P, i)) > 0
    <2>1. i \in Upto(s, P, i)
      BY DEF Upto, Where
    <2>2. Cardinality(Upto(s, P, i)) # 0
      BY <1>3, <2>1, FS_EmptySet
    <2> QED BY <1>3, <2>2
  <1> QED BY <1>2, <1>3, <1>4

\* An entry goes to the end.
LEMMA WhereAppend ==
  ASSUME NEW T, NEW s \in Seq(T), NEW P, NEW e
  PROVE  LET t == Append(s, e) IN
         /\ Cardinality(Where(t, P)) = IF e \in P THEN Cardinality(Where(s, P)) + 1
                                                  ELSE Cardinality(Where(s, P))
         /\ Where(t, P) = IF e \in P THEN Where(s, P) \cup {Len(s) + 1} ELSE Where(s, P)
         /\ \A i \in 1 .. Len(s) : Upto(t, P, i) = Upto(s, P, i)
         /\ Upto(t, P, Len(s) + 1) = Where(t, P)
  <1> DEFINE t == Append(s, e)
  <1>1. /\ Len(s) \in Nat /\ Len(t) = Len(s) + 1 /\ t[Len(s) + 1] = e
        /\ \A i \in 1 .. Len(s) : t[i] = s[i]
    OBVIOUS
  <1> HIDE DEF t
  <1>2. Where(t, P) = IF e \in P THEN Where(s, P) \cup {Len(s) + 1} ELSE Where(s, P)
    BY <1>1 DEF Where
  <1>3. \A i \in 1 .. Len(s) : Upto(t, P, i) = Upto(s, P, i)
    BY <1>1 DEF Where, Upto
  <1>4. Upto(t, P, Len(s) + 1) = Where(t, P)
    BY <1>1 DEF Where, Upto
  <1>5. Len(s) + 1 \notin Where(s, P)
    BY <1>1 DEF Where
  <1>6. Cardinality(Where(s, P) \cup {Len(s) + 1}) = Cardinality(Where(s, P)) + 1
    BY <1>5, WhereType, FS_AddElement
  <1>7. Cardinality(Where(t, P)) = IF e \in P THEN Cardinality(Where(s, P)) + 1
                                              ELSE Cardinality(Where(s, P))
    BY <1>2, <1>6
  <1> QED BY <1>2, <1>3, <1>4, <1>7 DEF t

\* An entry is taken out.
LEMMA WhereRemoved ==
  ASSUME NEW T, NEW s \in Seq(T), NEW P, NEW k \in 1 .. Len(s), NEW t,
         Len(t) = Len(s) - 1,
         \A i \in 1 .. Len(s) - 1 : t[i] = IF i < k THEN s[i] ELSE s[i + 1]
  PROVE  /\ Cardinality(Where(t, P)) = IF s[k] \in P THEN Cardinality(Where(s, P)) - 1
                                                     ELSE Cardinality(Where(s, P))
         /\ \A i \in 1 .. Len(t) : i >= k =>
              Cardinality(Upto(t, P, i)) = IF s[k] \in P THEN Cardinality(Upto(s, P, i + 1)) - 1
                                           ELSE Cardinality(Upto(s, P, i + 1))
  <1> DEFINE n == Len(s)
             at(i) == IF i < k THEN i ELSE i + 1
  <1>1. n \in Nat /\ k \in 1 .. n /\ \A i \in 1 .. n - 1 : at(i) \in 1 .. n
    OBVIOUS
  <1>2. Where(s, P) \in SUBSET (1 .. n) /\ (k \in Where(s, P) <=> s[k] \in P)
    BY <1>1 DEF Where
  <1>3. Where(t, P) = {i \in 1 .. n - 1 : at(i) \in Where(s, P)}
    BY <1>1 DEF Where
  <1>4. ASSUME NEW i \in 1 .. Len(t), i >= k
        PROVE  Cardinality(Upto(t, P, i)) = IF s[k] \in P THEN Cardinality(Upto(s, P, i + 1)) - 1
                                            ELSE Cardinality(Upto(s, P, i + 1))
    <2> DEFINE S == Upto(s, P, i + 1)
    <2>1. S \in SUBSET (1 .. n) /\ (k \in S <=> s[k] \in P)
      BY <1>1, <1>4 DEF Where, Upto
    <2>2. Upto(t, P, i) = {j \in 1 .. n - 1 : at(j) \in S}
      BY <1>1, <1>3, <1>4 DEF Upto
    <2> HIDE DEF S, n
    <2>3. Cardinality({j \in 1 .. n - 1 : at(j) \in S}) = IF k \in S THEN Cardinality(S) - 1
                                                          ELSE Cardinality(S)
      BY <1>1, <2>1, Closing
    <2> QED BY <2>1, <2>2, <2>3 DEF S
  <1>5. Cardinality(Where(t, P)) = IF s[k] \in P THEN Cardinality(Where(s, P)) - 1
                                                 ELSE Cardinality(Where(s, P))
    <2> HIDE DEF n
    <2>1. Cardinality({j \in 1 .. n - 1 : at(j) \in Where(s, P)})
          = IF k \in Where(s, P) THEN Cardinality(Where(s, P)) - 1 ELSE Cardinality(Where(s, P))
      BY <1>1, <1>2, Closing
    <2> QED BY <1>2, <1>3, <2>1
  <1> QED BY <1>4, <1>5

\* The first entry is taken out.
LEMMA WhereTail ==
  ASSUME NEW T, NEW s \in Seq(T), NEW P, s # << >>
  PROVE  /\ Cardinality(Where(Tail(s), P)) = IF s[1] \in P THEN Cardinality(Where(s, P)) - 1
                                                          ELSE Cardinality(Where(s, P))
         /\ \A i \in 1 .. Len(s) - 1 :
              Cardinality(Upto(Tail(s), P, i)) = IF s[1] \in P THEN Cardinality(Upto(s, P, i + 1)) - 1
                                                 ELSE Cardinality(Upto(s, P, i + 1))
  <1> DEFINE t == Tail(s)
             k == 1
  <1>1. /\ k \in 1 .. Len(s) /\ Len(t) = Len(s) - 1
        /\ \A i \in 1 .. Len(s) - 1 : t[i] = IF i < k THEN s[i] ELSE s[i + 1]
        /\ \A i \in 1 .. Len(s) - 1 : i \in 1 .. Len(t) /\ i >= k
    OBVIOUS
  <1> HIDE DEF t, k
  <1>2. /\ Cardinality(Where(t, P)) = IF s[k] \in P THEN Cardinality(Where(s, P)) - 1
                                                    ELSE Cardinality(Where(s, P))
        /\ \A i \in 1 .. Len(t) : i >= k =>
             Cardinality(Upto(t, P, i)) = IF s[k] \in P THEN Cardinality(Upto(s, P, i + 1)) - 1
                                          ELSE Cardinality(Upto(s, P, i + 1))
    BY <1>1, WhereRemoved
  <1> QED BY <1>1, <1>2 DEF t, k

-----------------------------------------------------------------------------
(* The invariant: one process at a time is about to send; every number has *)
(* as many handlers as messages in flight; and until a message is lost the *)
(* handlers are those of the messages, in their order.                     *)
Answerable == {m \in Mail : m.client # NoClient}

Posted(x) == Where(outbound, {m \in Replies : m.id = x})
Queued(x) == Where(inbound, {m \in Answerable : m.id = x})
Filed(x)  == Where(rchs, {h \in Handlers : h.id = x})
Due(x)    == IF ToBeSent # {} /\ x = (lastId + 1) % IdSpan THEN 1 ELSE 0

OneSender == \A c, d \in ToBeSent : c = d

Enough ==
  \A x \in Ids :
    Cardinality(Posted(x)) + Cardinality(Queued(x)) + Due(x) <= Cardinality(Filed(x))

InOrder ==
  /\ Len(rchs) = Len(outbound) + Cardinality(Awaited) + Cardinality(ToBeSent)
  /\ \A i \in 1 .. Len(outbound) : Tag(rchs[i]) = Tag(outbound[i])
  /\ \A i \in Awaited : Tag(rchs[Place(i)]) = Tag(inbound[i])
  /\ \A c \in ToBeSent :
       Tag(rchs[Len(rchs)]) = <<(lastId + 1) % IdSpan, cl[c].op>>

MatchInv == OneSender /\ Enough /\ (~ lost => InOrder)

\* The types of the queues, and the counts, now and after a step.
QueueFacts ==
  /\ inbound \in Seq(Mail) /\ outbound \in Seq(Replies) /\ rchs \in Seq(Handlers)
  /\ Len(inbound) \in Nat /\ Len(outbound) \in Nat /\ Len(rchs) \in Nat
  /\ lastId \in Ids /\ (lastId + 1) % IdSpan \in Ids
  /\ Awaited = Where(inbound, Answerable)
  /\ \A i : Place(i) = Len(outbound) + Cardinality(Upto(inbound, Answerable, i))
  /\ \A x : /\ Cardinality(Posted(x)) \in Nat /\ Cardinality(Queued(x)) \in Nat
            /\ Cardinality(Filed(x)) \in Nat /\ Due(x) \in {0, 1}

LEMMA Queues == TypeInv => QueueFacts
  <1> SUFFICES ASSUME TypeInv
               PROVE  QueueFacts
    OBVIOUS
  <1>1. inbound \in Seq(Mail) /\ outbound \in Seq(Replies) /\ rchs \in Seq(Handlers)
        /\ lastId \in Ids
    BY DEF TypeInv, CardTyped, DriverTyped
  <1>2. (lastId + 1) % IdSpan \in Ids
    BY <1>1, BridgeAssumption DEF Ids
  <1>3. \A i \in 1 .. Len(inbound) : inbound[i] \in Mail
    BY <1>1
  <1>4. Awaited = Where(inbound, Answerable)
    BY <1>3 DEF Awaited, Where, Answerable
  <1>5. \A i : Place(i) = Len(outbound) + Cardinality(Upto(inbound, Answerable, i))
    BY <1>4 DEF Place, Upto
  <1>6. \A x : /\ Cardinality(Posted(x)) \in Nat /\ Cardinality(Queued(x)) \in Nat
              /\ Cardinality(Filed(x)) \in Nat /\ Due(x) \in {0, 1}
    BY <1>1, WhereType DEF Posted, Queued, Filed, Due
  <1> QED BY <1>1, <1>2, <1>4, <1>5, <1>6 DEF QueueFacts

LEMMA NextQueues == TypeInv' => QueueFacts'
  BY Queues, PTL

USE DEF QueueFacts

\* One process is about to send, or none.
LEMMA Senders ==
  ASSUME OneSender
  PROVE  /\ IsFiniteSet(ToBeSent)
         /\ Cardinality(ToBeSent) = IF ToBeSent = {} THEN 0 ELSE 1
  <1>1. CASE ToBeSent = {}
    BY <1>1, FS_EmptySet
  <1>2. CASE ToBeSent # {}
    <2>1. PICK c : c \in ToBeSent
      BY <1>2
    <2>2. ToBeSent = {c}
      BY <2>1 DEF OneSender
    <2> QED BY <1>2, <2>2, FS_Singleton
  <1> QED BY <1>1, <1>2

\* A process moves that is not about to send, before or after.
LEMMA QuietStep ==
  ASSUME BufInv, MatchInv, NEW c \in Clients,
         \A d \in Clients : d # c => cl'[d] = cl[d], cl[c].pc # "built", cl'[c].pc # "built",
         UNCHANGED <<rchs, lastId, inbound, outbound, lost>>
  PROVE  MatchInv'
  <1>2. ToBeSent' = ToBeSent /\ \A d \in ToBeSent : cl'[d] = cl[d]
    BY DEF ToBeSent
  <1>3. OneSender'
    BY <1>2 DEF MatchInv, OneSender
  <1>4. Enough'
    BY <1>2 DEF MatchInv, Enough, Posted, Queued, Filed, Due
  <1>5. Awaited' = Awaited /\ \A i : Place(i)' = Place(i)
    BY DEF Awaited, Place
  <1>6. ~ lost' => InOrder'
    BY <1>2, <1>5 DEF MatchInv, InOrder
  <1> QED BY <1>3, <1>4, <1>6 DEF MatchInv

LEMMA QuietSteps ==
  ASSUME BufInv, MatchInv, NEW c \in Clients,
         \/ Nap(c) \/ NapTimeout(c) \/ Close(c) \/ Sleep(c) \/ ReadAnswered(c)
         \/ Copy(c) \/ ReleaseAnswered(c) \/ FillNothing(c) \/ Alloc(c) \/ Rescan(c)
         \/ (\E f \in Files : Open(c, f)) \/ (\E k \in Kinds : Call(c, k))
  PROVE  MatchInv'
  <1>1. UNCHANGED <<rchs, lastId, inbound, outbound, lost>> /\ cl[c].pc # "built"
    BY DEF Nap, NapTimeout, Close, Sleep, ReadAnswered, Copy, ReleaseAnswered, FillNothing,
           Alloc, Rescan, Open, Call, driver, ghosts
  <1>2. cl = [d \in Clients |-> cl[d]] /\ DOMAIN cl[c] = Fields /\ "pc" \in Fields
        /\ Fresh.pc = "closed"
    BY FieldNames DEF BufInv, PoolType, ClientOK
  <1>3. Return(c).pc = "user" /\ DOMAIN Return(c) = Fields
    BY <1>2 DEF Return
  <1>4. \A d \in Clients : d # c => cl'[d] = cl[d]
    BY <1>2 DEF Nap, NapTimeout, Close, Sleep, ReadAnswered, Copy, ReleaseAnswered,
                FillNothing, Alloc, Rescan, Open, Call, Take
  <1>5. cl'[c].pc # "built"
    <2>1. CASE Nap(c) \/ Sleep(c) \/ ReadAnswered(c)
      BY <1>2, <2>1 DEF Nap, Sleep, ReadAnswered
    <2>2. CASE NapTimeout(c) \/ FillNothing(c)
      BY <1>2, <1>3, <2>2 DEF NapTimeout, FillNothing
    <2>3. CASE Close(c) \/ ReleaseAnswered(c)
      BY <1>2, <2>3 DEF Close, ReleaseAnswered
    <2>4. CASE Copy(c)
      <3>1. PICK pos, got : cl' = [cl EXCEPT ![c] = [Return(c) EXCEPT !.pos = pos, !.got = got]]
        BY <2>4 DEF Copy
      <3>2. [Return(c) EXCEPT !.pos = pos, !.got = got].pc = "user"
        BY <1>2, <1>3, FieldNames
      <3> QED BY <1>2, <3>1, <3>2
    <2>5. CASE Alloc(c) \/ Rescan(c)
      BY <1>2, <2>5 DEF Alloc, Rescan, Take
    <2>6. CASE \E f \in Files : Open(c, f)
      <3>1. PICK f : cl' = [cl EXCEPT ![c] = [Fresh EXCEPT !.pc = "user", !.chan = f]]
        BY <2>6 DEF Open
      <3>2. [Fresh EXCEPT !.pc = "user", !.chan = f].pc = "user"
        BY <1>2 DEF Fields
      <3> QED BY <1>2, <3>1, <3>2
    <2>7. CASE \E k \in Kinds : Call(c, k)
      <3>1. PICK k \in Kinds : Call(c, k)
        BY <2>7
      <3> DEFINE r == [cl[c] EXCEPT !.kind = k, !.op = nops',
                                    !.pc = IF k = "release" THEN "fill" ELSE "alloc"]
      <3>2. cl' = [cl EXCEPT ![c] = r]
        BY <3>1 DEF Call
      <3>3. r.pc # "built"
        BY <1>2
      <3> HIDE DEF r
      <3> QED BY <1>2, <3>2, <3>3
    <2> QED BY <2>1, <2>2, <2>3, <2>4, <2>5, <2>6, <2>7
  <1> QED BY <1>1, <1>4, <1>5, QuietStep

\* The place of a message is behind those posted, and among the handlers.
LEMMA PlaceBound ==
  ASSUME TypeInv, NEW i \in Awaited
  PROVE  Place(i) \in Len(outbound) + 1 .. Len(outbound) + Cardinality(Awaited)
  <1>1. Cardinality(Upto(inbound, Answerable, i)) \in 1 .. Cardinality(Awaited)
    BY Queues, WhereType
  <1>2. Cardinality(Awaited) \in Nat
    BY Queues, WhereType
  <1> QED BY <1>1, <1>2, Queues

\* A handler is filed under the number its message will get.
LEMMA BuildMatch ==
  ASSUME BufInv, TypeInv, TypeInv', MatchInv, NEW c \in Clients, BuildRch(c)
  PROVE  MatchInv'
  <1> DEFINE h == [id     |-> (lastId + 1) % IdSpan,
                   op     |-> cl[c].op,
                   kind   |-> cl[c].kind,
                   client |-> c,
                   buf    |-> cl[c].buf]
             n == Len(rchs)
  <1>1. rchs' = Append(rchs, h) /\ UNCHANGED <<lastId, inbound, outbound, lost>>
    BY DEF BuildRch, ghosts
  <1>2. rchs \in Seq(Handlers) /\ n \in Nat /\ rchs' \in Seq(Handlers)
    BY Queues DEF TypeInv, DriverTyped
  <1>3. Len(rchs') = n + 1 /\ rchs'[n + 1] = h /\ \A i \in 1 .. n : rchs'[i] = rchs[i]
    BY <1>1, <1>2
  <1>4. h \in Handlers
    <2>1. rchs'[n + 1] \in Handlers
      BY <1>2, <1>3
    <2> QED BY <1>3, <2>1
  <1>5. ToBeSent = {}
    BY DEF BuildRch, Alone, ToBeSent
  <1>6. cl'[c].pc = "built" /\ cl'[c].op = cl[c].op /\ \A d \in Clients : d # c => cl'[d] = cl[d]
    BY FieldNames DEF BuildRch, BufInv, PoolType, ClientOK
  <1>7. ToBeSent' = {c}
    BY <1>5, <1>6 DEF ToBeSent
  <1>8. OneSender'
    BY <1>7 DEF OneSender
  <1>9. h.id = (lastId + 1) % IdSpan /\ Tag(h) = <<(lastId + 1) % IdSpan, cl[c].op>>
    BY DEF Tag
  <1> HIDE DEF h
  <1>10. Enough'
    <2> SUFFICES ASSUME NEW x \in Ids
                 PROVE  (Cardinality(Posted(x)) + Cardinality(Queued(x)) + Due(x)
                         <= Cardinality(Filed(x)))'
      BY DEF Enough
    <2> DEFINE P == {e \in Handlers : e.id = x}
    <2>1. Cardinality(Filed(x)') = IF h \in P THEN Cardinality(Filed(x)) + 1
                                              ELSE Cardinality(Filed(x))
      BY <1>1, <1>2, WhereAppend DEF Filed
    <2>2. h \in P <=> x = (lastId + 1) % IdSpan
      BY <1>4, <1>9
    <2>3. Due(x) = 0 /\ Due(x)' = IF x = (lastId + 1) % IdSpan THEN 1 ELSE 0
      BY <1>1, <1>5, <1>7 DEF Due
    <2>4. Posted(x)' = Posted(x) /\ Queued(x)' = Queued(x)
      BY <1>1 DEF Posted, Queued
    <2>5. Cardinality(Posted(x)) + Cardinality(Queued(x)) + Due(x) <= Cardinality(Filed(x))
      BY DEF MatchInv, Enough
    <2> HIDE DEF P
    <2> QED BY <2>1, <2>2, <2>3, <2>4, <2>5, Queues
  <1>11. ASSUME InOrder
         PROVE  InOrder'
    <2>1. n = Len(outbound) + Cardinality(Awaited) /\ Cardinality(Awaited) \in Nat
      BY <1>5, <1>11, FS_EmptySet, Queues, WhereType DEF InOrder
    <2>2. Cardinality(ToBeSent') = 1
      BY <1>7, FS_Singleton
    <2>3. Awaited' = Awaited /\ \A i : Place(i)' = Place(i)
      BY <1>1 DEF Awaited, Place
    <2>4. \A i \in Awaited : Place(i) \in 1 .. n
      BY <2>1, PlaceBound, Queues
    <2>5. \A i \in 1 .. Len(outbound) : i \in 1 .. n
      BY <2>1, Queues
    <2>6. \A i \in 1 .. Len(outbound) : Tag(rchs'[i]) = Tag(outbound[i])
      BY <1>3, <1>11, <2>5 DEF InOrder
    <2>7. \A i \in Awaited : Tag(rchs'[Place(i)]) = Tag(inbound[i])
      BY <1>3, <1>11, <2>4 DEF InOrder
    <2>8. \A d \in ToBeSent' : Tag(rchs'[Len(rchs')]) = <<(lastId + 1) % IdSpan, cl'[d].op>>
      BY <1>3, <1>6, <1>7, <1>9
    <2> QED BY <1>1, <1>3, <2>1, <2>2, <2>3, <2>6, <2>7, <2>8 DEF InOrder
  <1> QED BY <1>1, <1>8, <1>10, <1>11 DEF MatchInv

\* Where the messages are when one more is queued.
LEMMA QueueGrows ==
  ASSUME TypeInv, TypeInv', NEW e \in Mail, inbound' = Append(inbound, e), UNCHANGED outbound
  PROVE  /\ \A i \in Awaited : i \in Awaited' /\ inbound'[i] = inbound[i] /\ Place(i)' = Place(i)
         /\ e.client = NoClient =>
              /\ Awaited' = Awaited
              /\ \A x : Cardinality(Queued(x)') = Cardinality(Queued(x))
         /\ e.client # NoClient =>
              /\ Awaited' = Awaited \cup {Len(inbound) + 1} /\ inbound'[Len(inbound) + 1] = e
              /\ Cardinality(Awaited') = Cardinality(Awaited) + 1
              /\ \A k : k = Len(inbound) + 1 =>
                        Place(k)' = Len(outbound) + Cardinality(Awaited) + 1
              /\ \A x : Cardinality(Queued(x)') = IF x = e.id THEN Cardinality(Queued(x)) + 1
                                                             ELSE Cardinality(Queued(x))
  <1> DEFINE n == Len(inbound)
  <1>1. n \in Nat /\ inbound'[n + 1] = e /\ \A i \in 1 .. n : inbound'[i] = inbound[i]
    BY Queues, NextQueues
  <1>2. e \in Answerable <=> e.client # NoClient
    BY DEF Answerable
  <1>3. Awaited' = IF e \in Answerable THEN Awaited \cup {n + 1} ELSE Awaited
    BY Queues, NextQueues, WhereAppend
  <1>4. Cardinality(Awaited') = IF e \in Answerable THEN Cardinality(Awaited) + 1
                                                   ELSE Cardinality(Awaited)
    BY Queues, NextQueues, WhereAppend
  <1>5. \A i \in Awaited : i \in 1 .. n
    BY DEF Awaited
  <1>6. \A i \in 1 .. n : Place(i)' = Place(i)
    <2>1. \A i \in 1 .. n : Upto(inbound', Answerable, i) = Upto(inbound, Answerable, i)
      BY Queues, NextQueues, WhereAppend
    <2>2. \A i : Place(i)' = Len(outbound) + Cardinality(Upto(inbound', Answerable, i))
      BY Queues, NextQueues
    <2> QED BY <2>1, <2>2, Queues, NextQueues
  <1>7. ASSUME NEW k, k = n + 1
        PROVE  Place(k)' = Len(outbound) + Cardinality(Awaited')
    <2>1. Upto(inbound', Answerable, n + 1) = Where(inbound', Answerable)
      BY Queues, WhereAppend
    <2>2. Awaited' = Where(inbound', Answerable)
          /\ Place(k)' = Len(outbound) + Cardinality(Upto(inbound', Answerable, k))
      BY NextQueues
    <2> QED BY <1>7, <2>1, <2>2
  <1>8. ASSUME NEW x
        PROVE  Cardinality(Queued(x)') = IF e.client # NoClient /\ x = e.id
                                           THEN Cardinality(Queued(x)) + 1
                                           ELSE Cardinality(Queued(x))
    <2> DEFINE P == {m \in Answerable : m.id = x}
    <2>1. e \in P <=> e.client # NoClient /\ x = e.id
      BY <1>2
    <2>2. Cardinality(Where(inbound', P)) = IF e \in P THEN Cardinality(Where(inbound, P)) + 1
                                                       ELSE Cardinality(Where(inbound, P))
      <3> HIDE DEF P
      <3> QED BY Queues, NextQueues, WhereAppend
    <2> QED BY <2>1, <2>2 DEF Queued
  <1>9. Len(outbound) \in Nat /\ Cardinality(Awaited) \in Nat
    BY Queues, NextQueues, WhereType
  <1> HIDE DEF n
  <1>10. \A i \in Awaited : i \in Awaited' /\ inbound'[i] = inbound[i] /\ Place(i)' = Place(i)
    BY <1>1, <1>3, <1>5, <1>6
  <1>11. CASE e.client = NoClient
    BY <1>2, <1>3, <1>8, <1>10, <1>11
  <1>12. CASE e.client # NoClient
    <2>1. \A k : k = n + 1 => Place(k)' = Len(outbound) + Cardinality(Awaited) + 1
      BY <1>2, <1>4, <1>7, <1>9, <1>12
    <2> QED BY <1>1, <1>2, <1>3, <1>4, <1>8, <1>10, <1>12, <2>1 DEF n
  <1> QED BY <1>11, <1>12

\* Where the messages are when the first has been taken.
LEMMA QueueShrinks ==
  ASSUME TypeInv, TypeInv', inbound # << >>, inbound' = Tail(inbound)
  PROVE  LET m == Head(inbound) IN
         /\ m \in Mail
         /\ \A i \in Awaited' : i + 1 \in Awaited /\ inbound'[i] = inbound[i + 1]
         /\ m.client = NoClient =>
              /\ Cardinality(Awaited') = Cardinality(Awaited)
              /\ \A i \in Awaited' : Place(i)' = Len(outbound') + Place(i + 1) - Len(outbound)
              /\ \A x : Cardinality(Queued(x)') = Cardinality(Queued(x))
         /\ m.client # NoClient =>
              /\ 1 \in Awaited /\ Place(1) = Len(outbound) + 1
              /\ Cardinality(Awaited') = Cardinality(Awaited) - 1
              /\ \A i \in Awaited' : Place(i)' = Len(outbound') + Place(i + 1) - 1 - Len(outbound)
              /\ \A x : Cardinality(Queued(x)') = IF x = m.id THEN Cardinality(Queued(x)) - 1
                                                             ELSE Cardinality(Queued(x))
  <1> DEFINE m == Head(inbound)
             n == Len(inbound)
  <1>1. /\ n \in Nat /\ n > 0 /\ 1 \in 1 .. n /\ m = inbound[1] /\ m \in Mail
        /\ Len(inbound') = n - 1 /\ \A i \in 1 .. n - 1 : inbound'[i] = inbound[i + 1]
    BY Queues, NextQueues
  <1>2. m \in Answerable <=> m.client # NoClient
    BY <1>1 DEF Answerable
  <1>3. \A i \in 1 .. n - 1 : inbound'[i] = IF i < 1 THEN inbound[i] ELSE inbound[i + 1]
    BY <1>1
  <1>4. \A i \in Awaited' : i \in 1 .. n - 1 /\ i + 1 \in Awaited /\ inbound'[i] = inbound[i + 1]
    BY <1>1 DEF Awaited
  <1>5. ASSUME NEW P
        PROVE  /\ Cardinality(Where(inbound', P)) = IF m \in P THEN Cardinality(Where(inbound, P)) - 1
                                                    ELSE Cardinality(Where(inbound, P))
               /\ \A i \in 1 .. n - 1 :
                    Cardinality(Upto(inbound', P, i))
                    = IF m \in P THEN Cardinality(Upto(inbound, P, i + 1)) - 1
                                 ELSE Cardinality(Upto(inbound, P, i + 1))
    <2>1. inbound \in Seq(Mail) /\ m = inbound[1]
      BY <1>1, Queues
    <2> HIDE DEF m
    <2> QED BY <2>1, WhereTail
  <1>6. Cardinality(Awaited') = IF m \in Answerable THEN Cardinality(Awaited) - 1
                                                   ELSE Cardinality(Awaited)
    BY <1>5, Queues, NextQueues
  <1>7. /\ Len(outbound) \in Nat /\ Len(outbound') \in Nat
        /\ \A i : /\ Place(i) = Len(outbound) + Cardinality(Upto(inbound, Answerable, i))
                  /\ Place(i)' = Len(outbound') + Cardinality(Upto(inbound', Answerable, i))
                  /\ Cardinality(Upto(inbound, Answerable, i)) \in Nat
    BY Queues, NextQueues, WhereType
  <1>8. \A i \in Awaited' :
          Place(i)' = IF m \in Answerable THEN Len(outbound') + Place(i + 1) - 1 - Len(outbound)
                                         ELSE Len(outbound') + Place(i + 1) - Len(outbound)
    <2> SUFFICES ASSUME NEW i \in Awaited'
                 PROVE  Place(i)' = IF m \in Answerable
                                      THEN Len(outbound') + Place(i + 1) - 1 - Len(outbound)
                                      ELSE Len(outbound') + Place(i + 1) - Len(outbound)
      OBVIOUS
    <2> HIDE DEF m
    <2>1. Cardinality(Upto(inbound', Answerable, i))
          = IF m \in Answerable THEN Cardinality(Upto(inbound, Answerable, i + 1)) - 1
                                ELSE Cardinality(Upto(inbound, Answerable, i + 1))
      BY <1>4, <1>5
    <2>2. /\ Place(i + 1) = Len(outbound) + Cardinality(Upto(inbound, Answerable, i + 1))
          /\ Place(i)' = Len(outbound') + Cardinality(Upto(inbound', Answerable, i))
          /\ Cardinality(Upto(inbound, Answerable, i + 1)) \in Nat
      BY <1>7
    <2> QED BY <1>7, <2>1, <2>2
  <1>9. ASSUME m \in Answerable
        PROVE  1 \in Awaited /\ Place(1) = Len(outbound) + 1
    <2>1. 1 \in Awaited
      BY <1>1, <1>9 DEF Awaited, Answerable
    <2>2. Upto(inbound, Answerable, 1) = {1}
      BY <1>1, <1>9 DEF Upto, Where
    <2>3. Cardinality(Upto(inbound, Answerable, 1)) = 1
      BY <2>2, FS_Singleton
    <2> QED BY <1>7, <2>1, <2>3
  <1>10. ASSUME NEW x
         PROVE  Cardinality(Queued(x)') = IF m.client # NoClient /\ x = m.id
                                            THEN Cardinality(Queued(x)) - 1
                                            ELSE Cardinality(Queued(x))
    <2> DEFINE P == {e \in Answerable : e.id = x}
    <2>1. m \in P <=> m.client # NoClient /\ x = m.id
      BY <1>2
    <2>2. Cardinality(Where(inbound', P)) = IF m \in P THEN Cardinality(Where(inbound, P)) - 1
                                                       ELSE Cardinality(Where(inbound, P))
      BY <1>5
    <2> QED BY <2>1, <2>2 DEF Queued
  <1> HIDE DEF m, n
  <1> QED BY <1>1, <1>2, <1>4, <1>6, <1>8, <1>9, <1>10 DEF m

\* A message is sent under the number its handler is filed under, or is lost.
LEMMA SendMatch ==
  ASSUME BufInv, TypeInv, TypeInv', MatchInv, NEW c \in Clients, Send(c)
  PROVE  MatchInv'
  <1>1. UNCHANGED <<rchs, outbound>> /\ c \in ToBeSent
    BY DEF Send, ToBeSent
  <1>2. ToBeSent = {c} /\ Cardinality(ToBeSent) = 1
    <2>1. ToBeSent = {c}
      BY <1>1 DEF MatchInv, OneSender
    <2> QED BY <2>1, FS_Singleton
  <1>3. cl'[c].pc # "built" /\ \A d \in Clients : d # c => cl'[d] = cl[d]
    <2>1. cl = [d \in Clients |-> cl[d]] /\ DOMAIN cl[c] = Fields /\ DOMAIN Return(c) = Fields
          /\ Return(c).pc = "user"
      BY FieldNames DEF BufInv, PoolType, ClientOK, Return
    <2>2. CASE cl[c].kind = "write"
      <3>1. PICK pos, begun, wrote :
              cl' = [cl EXCEPT ![c] = [Return(c) EXCEPT !.pos = pos, !.begun = begun,
                                                        !.wrote = wrote]]
        BY <2>2 DEF Send
      <3>2. [Return(c) EXCEPT !.pos = pos, !.begun = begun, !.wrote = wrote].pc = "user"
        BY <2>1, FieldNames
      <3> QED BY <2>1, <3>1, <3>2
    <2>3. CASE cl[c].kind # "write"
      <3>1. PICK begun :
              cl' = [cl EXCEPT ![c] = [cl[c] EXCEPT !.pc = "wait", !.awake = TRUE,
                                                    !.begun = begun]]
        BY <2>3 DEF Send
      <3>2. [cl[c] EXCEPT !.pc = "wait", !.awake = TRUE, !.begun = begun].pc = "wait"
        BY <2>1, FieldNames
      <3> QED BY <2>1, <3>1, <3>2
    <2> QED BY <2>2, <2>3
  <1>4. ToBeSent' = {} /\ Cardinality(ToBeSent') = 0
    <2>1. ToBeSent' = {}
      BY <1>2, <1>3 DEF ToBeSent
    <2> QED BY <2>1, FS_EmptySet
  <1>5. OneSender'
    BY <1>4 DEF OneSender
  <1>6. \A x : Due(x)' = 0 /\ Due(x) = IF x = (lastId + 1) % IdSpan THEN 1 ELSE 0
    BY <1>2, <1>4 DEF Due
  <1>7. \A x : Posted(x)' = Posted(x) /\ Filed(x)' = Filed(x)
    BY <1>1 DEF Posted, Filed
  <1>8. CASE Len(inbound) < Frames
    <2>1. PICK e : /\ inbound' = Append(inbound, e) /\ e.id = (lastId + 1) % IdSpan
                   /\ e.op = cl[c].op /\ e.client = c /\ UNCHANGED lost
      BY <1>8 DEF Send, Post
    <2>2. e \in Mail /\ e.client # NoClient
      <3>1. inbound'[Len(inbound) + 1] = e /\ Len(inbound) + 1 \in 1 .. Len(inbound')
        BY <2>1, Queues
      <3>2. inbound'[Len(inbound) + 1] \in Mail
        BY <3>1, NextQueues
      <3> QED BY <2>1, <3>1, <3>2, BridgeAssumption
    <2>3. Enough'
      <3> SUFFICES ASSUME NEW x \in Ids
                   PROVE  (Cardinality(Posted(x)) + Cardinality(Queued(x)) + Due(x)
                           <= Cardinality(Filed(x)))'
        BY DEF Enough
      <3>1. Cardinality(Queued(x)') = IF x = e.id THEN Cardinality(Queued(x)) + 1
                                                  ELSE Cardinality(Queued(x))
        BY <1>1, <2>1, <2>2, QueueGrows
      <3>2. Cardinality(Posted(x)) + Cardinality(Queued(x)) + Due(x) <= Cardinality(Filed(x))
        BY DEF MatchInv, Enough
      <3> QED BY <1>6, <1>7, <2>1, <3>1, <3>2, Queues
    <2>4. ASSUME InOrder
          PROVE  InOrder'
      <3>1. Awaited' = Awaited \cup {Len(inbound) + 1} /\ inbound'[Len(inbound) + 1] = e
            /\ Cardinality(Awaited') = Cardinality(Awaited) + 1
            /\ \A k : k = Len(inbound) + 1 => Place(k)' = Len(outbound) + Cardinality(Awaited) + 1
        BY <1>1, <2>1, <2>2, QueueGrows
      <3>2. \A i \in Awaited : inbound'[i] = inbound[i] /\ Place(i)' = Place(i)
        BY <1>1, <2>1, <2>2, QueueGrows
      <3>3. Cardinality(Awaited) \in Nat /\ Len(outbound) \in Nat
            /\ Len(rchs) = Len(outbound) + Cardinality(Awaited) + 1
        BY <1>2, <2>4, Queues, WhereType DEF InOrder
      <3>4. Tag(rchs[Len(rchs)]) = Tag(e)
        BY <1>2, <2>1, <2>4 DEF InOrder, Tag
      <3>5. \A i \in Awaited' : Tag(rchs[Place(i)']) = Tag(inbound'[i])
        <4> SUFFICES ASSUME NEW i \in Awaited'
                     PROVE  Tag(rchs[Place(i)']) = Tag(inbound'[i])
          OBVIOUS
        <4>1. CASE i \in Awaited
          BY <2>4, <3>2, <4>1 DEF InOrder
        <4>2. CASE i = Len(inbound) + 1
          <5>1. Place(i)' = Len(rchs)
            BY <3>1, <3>3, <4>2
          <5> QED BY <3>1, <3>4, <4>2, <5>1
        <4> QED BY <3>1, <4>1, <4>2
      <3>6. Len(rchs) = Len(outbound) + Cardinality(Awaited') + Cardinality(ToBeSent')
        BY <1>4, <3>1, <3>3
      <3> QED BY <1>1, <1>4, <2>4, <3>5, <3>6 DEF InOrder
    <2> QED BY <1>5, <2>1, <2>3, <2>4 DEF MatchInv
  <1>9. CASE ~ (Len(inbound) < Frames)
    <2>1. lost' /\ UNCHANGED inbound
      BY <1>9, BridgeAssumption DEF Send, Post
    <2>2. \A x : Queued(x)' = Queued(x)
      BY <2>1 DEF Queued
    <2>3. Enough'
      <3> SUFFICES ASSUME NEW x \in Ids
                   PROVE  (Cardinality(Posted(x)) + Cardinality(Queued(x)) + Due(x)
                           <= Cardinality(Filed(x)))'
        BY DEF Enough
      <3>1. Cardinality(Posted(x)) + Cardinality(Queued(x)) + Due(x) <= Cardinality(Filed(x))
        BY DEF MatchInv, Enough
      <3> QED BY <1>6, <1>7, <2>2, <3>1, Queues
    <2> QED BY <1>5, <2>1, <2>3 DEF MatchInv
  <1> QED BY <1>8, <1>9

\* A text message is sent while nobody has filed a handler and not sent.
LEMMA TextMatch ==
  ASSUME TypeInv, TypeInv', MatchInv, NEW c \in Clients, SendText(c)
  PROVE  MatchInv'
  <1>1. UNCHANGED <<rchs, outbound, cl>> /\ ToBeSent = {} /\ ToBeSent' = {}
    BY DEF SendText, Alone, ToBeSent
  <1>2. lost => lost'
    BY DEF SendText, Post
  <1>3. /\ \A i \in Awaited : inbound'[i] = inbound[i] /\ Place(i)' = Place(i)
        /\ Awaited' = Awaited /\ \A x : Cardinality(Queued(x)') = Cardinality(Queued(x))
    <2>1. CASE Len(inbound) < Frames
      <3>1. PICK e : inbound' = Append(inbound, e) /\ e.client = NoClient
        BY <2>1 DEF SendText, Post, Text
      <3>2. e \in Mail
        <4>1. inbound'[Len(inbound) + 1] = e /\ Len(inbound) + 1 \in 1 .. Len(inbound')
          BY <3>1, Queues
        <4> QED BY <4>1, NextQueues
      <3> QED BY <1>1, <3>1, <3>2, QueueGrows
    <2>2. CASE ~ (Len(inbound) < Frames)
      <3>1. UNCHANGED inbound
        BY <2>2 DEF SendText, Post
      <3> QED BY <1>1, <3>1 DEF Awaited, Place, Queued
    <2> QED BY <2>1, <2>2
  <1>4. OneSender'
    BY <1>1 DEF OneSender
  <1>5. \A x : /\ Due(x)' = 0 /\ Due(x) = 0
               /\ Posted(x)' = Posted(x) /\ Filed(x)' = Filed(x)
    BY <1>1 DEF Due, Posted, Filed
  <1>6. Enough'
    BY <1>3, <1>5 DEF MatchInv, Enough
  <1>7. ASSUME InOrder
        PROVE  InOrder'
    BY <1>1, <1>3, <1>7 DEF InOrder
  <1> QED BY <1>2, <1>4, <1>6, <1>7 DEF MatchInv

\* The card takes a message, and answers it unless it is a text.
LEMMA CardMatch ==
  ASSUME TypeInv, TypeInv', MatchInv, Card
  PROVE  MatchInv'
  <1> DEFINE m == Head(inbound)
  <1>1. UNCHANGED <<rchs, cl, lastId, lost>> /\ inbound # << >> /\ inbound' = Tail(inbound)
    BY DEF Card, ProcessText, ProcessFile, driver, ghosts
  <1>2. ToBeSent' = ToBeSent /\ OneSender'
    BY <1>1 DEF ToBeSent, MatchInv, OneSender
  <1>3. \A x : Due(x)' = Due(x) /\ Filed(x)' = Filed(x)
    BY <1>1, <1>2 DEF Due, Filed
  <1>4. \A i \in Awaited' : i + 1 \in Awaited /\ inbound'[i] = inbound[i + 1]
    BY <1>1, QueueShrinks
  <1>5. Len(outbound) \in Nat /\ Cardinality(Awaited) \in Nat
        /\ \A i \in Awaited : Place(i) \in Nat
    BY Queues, WhereType, PlaceBound
  <1>6. CASE ProcessText
    <2>1. m.client = NoClient /\ UNCHANGED outbound
      BY <1>6 DEF ProcessText
    <2>2. /\ Cardinality(Awaited') = Cardinality(Awaited)
          /\ \A i \in Awaited' : Place(i)' = Len(outbound') + Place(i + 1) - Len(outbound)
          /\ \A x : Cardinality(Queued(x)') = Cardinality(Queued(x))
      BY <1>1, <2>1, QueueShrinks
    <2>3. Enough'
      BY <1>3, <2>1, <2>2 DEF MatchInv, Enough, Posted
    <2>4. \A i \in Awaited' : Place(i)' = Place(i + 1)
      BY <1>4, <1>5, <2>1, <2>2
    <2>5. ASSUME InOrder
          PROVE  InOrder'
      BY <1>1, <1>2, <1>4, <2>1, <2>2, <2>4, <2>5 DEF InOrder
    <2> QED BY <1>1, <1>2, <2>3, <2>5 DEF MatchInv
  <1>7. CASE ProcessFile
    <2>1. PICK a : outbound' = Append(outbound, a) /\ a.id = m.id /\ a.op = m.op
      BY <1>7 DEF ProcessFile
    <2>2. /\ m.client # NoClient /\ Len(outbound') = Len(outbound) + 1
          /\ outbound'[Len(outbound) + 1] = a
          /\ \A i \in 1 .. Len(outbound) : outbound'[i] = outbound[i]
      BY <1>7, <2>1, Queues DEF ProcessFile
    <2>3. a \in Replies
      <3>1. Len(outbound) + 1 \in 1 .. Len(outbound')
        BY <1>5, <2>2
      <3>2. outbound'[Len(outbound) + 1] \in Replies
        BY <3>1, NextQueues
      <3> QED BY <2>2, <3>2
    <2>4. /\ 1 \in Awaited /\ Place(1) = Len(outbound) + 1
          /\ Cardinality(Awaited') = Cardinality(Awaited) - 1
          /\ \A i \in Awaited' : Place(i)' = Len(outbound') + Place(i + 1) - 1 - Len(outbound)
          /\ \A x : Cardinality(Queued(x)') = IF x = m.id THEN Cardinality(Queued(x)) - 1
                                                          ELSE Cardinality(Queued(x))
      BY <1>1, <2>2, QueueShrinks
    <2>5. ASSUME NEW i \in Awaited'
          PROVE  Place(i)' = Place(i + 1)
      <3>1. Place(i + 1) \in Nat
        BY <1>4, <1>5
      <3>2. Place(i)' = Len(outbound') + Place(i + 1) - 1 - Len(outbound)
        BY <2>4
      <3> QED BY <1>5, <2>2, <3>1, <3>2
    <2>6. Enough'
      <3> SUFFICES ASSUME NEW x \in Ids
                   PROVE  (Cardinality(Posted(x)) + Cardinality(Queued(x)) + Due(x)
                           <= Cardinality(Filed(x)))'
        BY DEF Enough
      <3> DEFINE P == {e \in Replies : e.id = x}
      <3>1. a \in P <=> x = m.id
        BY <2>1, <2>3
      <3>2. Cardinality(Posted(x)') = IF a \in P THEN Cardinality(Posted(x)) + 1
                                                 ELSE Cardinality(Posted(x))
        BY <2>1, Queues, WhereAppend DEF Posted
      <3>3. Cardinality(Posted(x)) + Cardinality(Queued(x)) + Due(x) <= Cardinality(Filed(x))
        BY DEF MatchInv, Enough
      <3> HIDE DEF P, m
      <3> QED BY <1>3, <2>4, <3>1, <3>2, <3>3, Queues
    <2>7. ASSUME InOrder
          PROVE  InOrder'
      <3>1. Tag(rchs[Len(outbound) + 1]) = Tag(a)
        <4>1. inbound[1] = m
          BY <1>1, Queues
        <4> QED BY <2>1, <2>4, <2>7, <4>1 DEF InOrder, Tag
      <3>2. \A i \in 1 .. Len(outbound') : Tag(rchs[i]) = Tag(outbound'[i])
        <4> SUFFICES ASSUME NEW i \in 1 .. Len(outbound')
                     PROVE  Tag(rchs[i]) = Tag(outbound'[i])
          OBVIOUS
        <4>1. i \in 1 .. Len(outbound) \/ i = Len(outbound) + 1
          BY <1>5, <2>2
        <4> QED BY <2>2, <2>7, <3>1, <4>1 DEF InOrder
      <3>3. Len(rchs) = Len(outbound') + Cardinality(Awaited') + Cardinality(ToBeSent)
        <4>1. Cardinality(ToBeSent) \in Nat
          BY Senders DEF MatchInv
        <4> QED BY <1>5, <2>2, <2>4, <2>7, <4>1 DEF InOrder
      <3>4. \A i \in Awaited' : Tag(rchs[Place(i)']) = Tag(inbound'[i])
        BY <1>4, <2>5, <2>7 DEF InOrder
      <3> QED BY <1>1, <1>2, <2>7, <3>2, <3>3, <3>4 DEF InOrder
    <2> QED BY <1>1, <1>2, <2>6, <2>7 DEF MatchInv
  <1> QED BY <1>6, <1>7 DEF Card

\* The bottom half takes the first handler under the number of the first reply.
LEMMA HandleMatch ==
  ASSUME BufInv, TypeInv, TypeInv', MatchInv, Handle
  PROVE  MatchInv'
  <1> DEFINE m == Head(outbound)
             i == Min(Matches(m.id))
             n == Len(rchs)
  <1>1. UNCHANGED <<lastId, inbound, lost>> /\ outbound # << >> /\ outbound' = Tail(outbound)
        /\ rchs' = RemoveAt(rchs, i)
    BY DEF Handle, ghosts
  <1>2. /\ i \in 1 .. n /\ rchs[i].id = m.id
        /\ \A j \in 1 .. n : rchs[j].id = m.id => i <= j
    <2>1. i \in Matches(m.id) /\ i \in 1 .. n
      BY FirstMatch
    <2>2. Matches(m.id) \in SUBSET Nat /\ Matches(m.id) # {}
      BY <2>1 DEF Matches
    <2>3. \A j \in Matches(m.id) : i <= j
      BY <2>2, MinIn
    <2> HIDE DEF i, m
    <2> QED BY <2>1, <2>3 DEF Matches
  <1>3. ToBeSent' = ToBeSent /\ \A c \in ToBeSent : cl'[c].op = cl[c].op
    BY HandleClients DEF ToBeSent
  <1>4. OneSender' /\ \A x : Due(x)' = Due(x) /\ Queued(x)' = Queued(x)
    BY <1>1, <1>3 DEF MatchInv, OneSender, Due, Queued
  <1>5. /\ Len(rchs') = n - 1 /\ n \in Nat
        /\ \A k \in 1 .. n - 1 : rchs'[k] = IF k < i THEN rchs[k] ELSE rchs[k + 1]
    <2>1. rchs \in Seq(Handlers) /\ n \in Nat
      BY Queues
    <2> HIDE DEF i
    <2> QED BY <1>1, <1>2, <2>1, Removed
  <1>6. /\ Len(outbound) \in Nat /\ Len(outbound) > 0 /\ outbound[1] = m
        /\ Len(outbound') = Len(outbound) - 1
        /\ \A k \in 1 .. Len(outbound) - 1 : outbound'[k] = outbound[k + 1]
        /\ m \in Replies
    BY <1>1, Queues
  <1>7. Enough'
    <2> SUFFICES ASSUME NEW x \in Ids
                 PROVE  (Cardinality(Posted(x)) + Cardinality(Queued(x)) + Due(x)
                         <= Cardinality(Filed(x)))'
      BY DEF Enough
    <2>1. Cardinality(Filed(x)') = IF x = m.id THEN Cardinality(Filed(x)) - 1
                                               ELSE Cardinality(Filed(x))
      <3> DEFINE P == {h \in Handlers : h.id = x}
      <3>1. rchs \in Seq(Handlers) /\ rchs[i] \in Handlers
        BY <1>2, Queues
      <3>2. rchs[i] \in P <=> x = m.id
        BY <1>2, <3>1
      <3> HIDE DEF P, i, m
      <3>3. Cardinality(Where(rchs', P)) = IF rchs[i] \in P THEN Cardinality(Where(rchs, P)) - 1
                                           ELSE Cardinality(Where(rchs, P))
        BY <1>2, <1>5, <3>1, WhereRemoved
      <3> QED BY <3>2, <3>3 DEF Filed, P
    <2>2. Cardinality(Posted(x)') = IF x = m.id THEN Cardinality(Posted(x)) - 1
                                                ELSE Cardinality(Posted(x))
      <3> DEFINE P == {h \in Replies : h.id = x}
      <3>1. outbound[1] \in P <=> x = m.id
        BY <1>6
      <3> HIDE DEF P
      <3>2. Cardinality(Where(outbound', P)) = IF outbound[1] \in P
                                                 THEN Cardinality(Where(outbound, P)) - 1
                                                 ELSE Cardinality(Where(outbound, P))
        BY <1>1, Queues, WhereTail
      <3> QED BY <3>1, <3>2 DEF Posted, P
    <2>3. Cardinality(Posted(x)) + Cardinality(Queued(x)) + Due(x) <= Cardinality(Filed(x))
      BY DEF MatchInv, Enough
    <2>4. Cardinality(Queued(x)') = Cardinality(Queued(x)) /\ Due(x)' = Due(x)
      BY <1>4
    <2>5. /\ Cardinality(Posted(x)) \in Nat /\ Cardinality(Queued(x)) \in Nat
          /\ Cardinality(Filed(x)) \in Nat /\ Due(x) \in Nat
      BY Queues
    <2> HIDE DEF m
    <2> QED BY <2>1, <2>2, <2>3, <2>4, <2>5
  <1>8. ASSUME InOrder
        PROVE  InOrder'
    <2>1. i = 1
      <3>1. Tag(rchs[1]) = Tag(m) /\ n >= 1
        <4>1. Cardinality(Awaited) \in Nat /\ Cardinality(ToBeSent) \in Nat
          BY Queues, WhereType, Senders DEF MatchInv
        <4> QED BY <1>5, <1>6, <1>8, <4>1 DEF InOrder
      <3>2. rchs[1].id = m.id
        BY <3>1 DEF Tag
      <3> HIDE DEF i, m
      <3> QED BY <1>2, <1>5, <3>1, <3>2
    <2> HIDE DEF i
    <2>2. \A k \in 1 .. n - 1 : rchs'[k] = rchs[k + 1]
      BY <1>5, <2>1
    <2>3. Awaited' = Awaited /\ \A k : Place(k)' = Place(k) - 1
      <3>1. Awaited' = Awaited
        BY <1>1 DEF Awaited
      <3>2. ASSUME NEW k
            PROVE  Place(k)' = Place(k) - 1
        <4> DEFINE ahead == Cardinality({j \in Awaited : j <= k})
        <4>1. ahead \in Nat
          BY Queues, WhereType DEF Upto
        <4>2. Place(k) = Len(outbound) + ahead
          BY DEF Place
        <4>3. Place(k)' = Len(outbound') + ahead
          BY <3>1 DEF Place
        <4> HIDE DEF ahead
        <4> QED BY <1>6, <4>1, <4>2, <4>3
      <3> QED BY <3>1, <3>2
    <2>4. /\ Cardinality(Awaited) \in Nat /\ Cardinality(ToBeSent) \in Nat
          /\ n = Len(outbound) + Cardinality(Awaited) + Cardinality(ToBeSent)
      BY <1>8, Queues, WhereType, Senders DEF MatchInv, InOrder
    <2>5. \A k \in 1 .. Len(outbound') : Tag(rchs'[k]) = Tag(outbound'[k])
      <3> SUFFICES ASSUME NEW k \in 1 .. Len(outbound')
                   PROVE  Tag(rchs'[k]) = Tag(outbound'[k])
        OBVIOUS
      <3>1. k + 1 \in 1 .. Len(outbound) /\ k \in 1 .. n - 1 /\ k \in 1 .. Len(outbound) - 1
        BY <1>6, <2>4
      <3> QED BY <1>6, <1>8, <2>2, <3>1 DEF InOrder
    <2>6. \A k \in Awaited : Tag(rchs'[Place(k)']) = Tag(inbound[k])
      <3> SUFFICES ASSUME NEW k \in Awaited
                   PROVE  Tag(rchs'[Place(k)']) = Tag(inbound[k])
        OBVIOUS
      <3>1. Place(k) \in Len(outbound) + 1 .. Len(outbound) + Cardinality(Awaited)
        BY PlaceBound
      <3>2. Place(k)' \in 1 .. n - 1 /\ Place(k)' + 1 = Place(k)
        BY <1>6, <2>3, <2>4, <3>1
      <3>3. rchs'[Place(k)'] = rchs[Place(k)]
        BY <2>2, <3>2
      <3> QED BY <1>8, <3>3 DEF InOrder
    <2>7. \A c \in ToBeSent : Tag(rchs'[n - 1]) = <<(lastId + 1) % IdSpan, cl'[c].op>>
      <3> SUFFICES ASSUME NEW c \in ToBeSent
                   PROVE  Tag(rchs'[n - 1]) = <<(lastId + 1) % IdSpan, cl'[c].op>>
        OBVIOUS
      <3>1. Cardinality(ToBeSent) = 1
        BY Senders DEF MatchInv
      <3>2. n - 1 \in 1 .. n - 1 /\ n - 1 + 1 = n
        BY <1>5, <1>6, <2>4, <3>1
      <3>3. rchs'[n - 1] = rchs[n]
        BY <2>2, <3>2
      <3> QED BY <1>3, <1>8, <3>3 DEF InOrder
    <2>8. Len(rchs') = Len(outbound') + Cardinality(Awaited) + Cardinality(ToBeSent)
      BY <1>5, <1>6, <2>4
    <2> QED BY <1>1, <1>3, <1>5, <2>3, <2>5, <2>6, <2>7, <2>8 DEF InOrder
  <1> QED BY <1>1, <1>4, <1>7, <1>8 DEF MatchInv

LEMMA MatchInit == Init => MatchInv
  <1> SUFFICES ASSUME Init
               PROVE  MatchInv
    OBVIOUS
  <1>1. TypeInv
    BY TypeInit
  <1>2. ToBeSent = {}
    BY DEF Init, Fresh, ToBeSent
  <1>3. rchs = << >> /\ inbound = << >> /\ outbound = << >>
    BY DEF Init
  <1>4. Awaited = {} /\ \A x : Posted(x) = {} /\ Queued(x) = {} /\ Filed(x) = {} /\ Due(x) = 0
    BY <1>2, <1>3 DEF Awaited, Posted, Queued, Filed, Due, Where
  <1>5. Cardinality({}) = 0
    BY FS_EmptySet
  <1>6. OneSender /\ Enough
    BY <1>2, <1>4, <1>5 DEF OneSender, Enough
  <1>7. InOrder
    BY <1>2, <1>3, <1>4, <1>5 DEF InOrder
  <1> QED BY <1>6, <1>7 DEF MatchInv

LEMMA MatchStep == BufInv /\ TypeInv /\ MatchInv /\ [Next]_vars => MatchInv'
  <1> SUFFICES ASSUME BufInv, TypeInv, MatchInv, [Next]_vars
               PROVE  MatchInv'
    OBVIOUS
  <1>1. TypeInv'
    BY TypeStep
  <1>2. ASSUME NEW c \in Clients, Client(c)
        PROVE  MatchInv'
    BY <1>1, <1>2, QuietSteps, BuildMatch, SendMatch DEF Client
  <1>3. CASE UNCHANGED vars
    <2>1. UNCHANGED <<cl, rchs, lastId, inbound, outbound, lost>>
      BY <1>3 DEF vars, driver, ghosts
    <2> QED BY <2>1 DEF MatchInv, OneSender, Enough, InOrder, ToBeSent, Awaited, Place,
                        Posted, Queued, Filed, Due
  <1> QED BY <1>1, <1>2, <1>3, QuietSteps, TextMatch, CardMatch, HandleMatch DEF Next

\* The first reply has a handler: as many handlers as replies under its number.
LEMMA MatchAnswers == TypeInv /\ MatchInv => RepliesMatch
  <1> SUFFICES ASSUME TypeInv, MatchInv
               PROVE  RepliesMatch
    OBVIOUS
  <1>1. ASSUME outbound # << >>
        PROVE  Matches(Head(outbound).id) # {}
    <2> DEFINE x == Head(outbound).id
    <2>1. 1 \in Posted(x) /\ x \in Ids
      <3>1. /\ 1 \in 1 .. Len(outbound) /\ outbound[1] = Head(outbound)
            /\ outbound[1] \in Replies
        BY <1>1, Queues
      <3>2. Head(outbound).id \in Ids
        BY <3>1 DEF Replies
      <3> QED BY <3>1, <3>2 DEF Posted, Where
    <2>2. Cardinality(Posted(x)) # 0
      BY <2>1, Queues, WhereType, FS_EmptySet DEF Posted
    <2>3. Cardinality(Posted(x)) + Cardinality(Queued(x)) + Due(x) <= Cardinality(Filed(x))
      BY <2>1 DEF MatchInv, Enough
    <2> HIDE DEF x
    <2>4. Cardinality(Filed(x)) # 0
      BY <2>2, <2>3, Queues
    <2>5. Filed(x) # {}
      BY <2>4, FS_EmptySet
    <2> QED BY <2>5 DEF Filed, Where, Matches, x
  <1> QED BY <1>1 DEF MatchInv, InOrder, RepliesMatch

\* Every reply meets its own handler, in order, as long as no message was lost,
\* even when the 128 numbers have wrapped; and whether or not one was, every
\* reply has a handler: the bottom half never finds one that nobody waits for.
THEOREM RepliesMeetHandlers == Spec => []RepliesMatch
  BY BufInit, BufStep, TypeInit, TypeStep, MatchInit, MatchStep, MatchAnswers, PTL DEF Spec

-----------------------------------------------------------------------------
(* Transfers.  The invariant: a number belongs to one call, a message says *)
(* what its process wanted, and the card's file has what was moved.        *)
InCall(r) == r.kind # "none"

Unlisted(c) == \A i \in 1 .. Len(rchs) : rchs[i].op # cl[c].op

\* A number belongs to one call, and to the handler of that call.
Numbered ==
  /\ \A i, j \in 1 .. Len(rchs) : rchs[i].op = rchs[j].op => i = j
  /\ \A i \in 1 .. Len(rchs) : rchs[i].op <= nops
  /\ \A c, d \in Clients : InCall(cl[c]) /\ InCall(cl[d]) /\ cl[c].op = cl[d].op => c = d
  /\ \A c \in Clients : InCall(cl[c]) => cl[c].pc \notin {"closed", "user"}
  /\ \A c \in Clients : \A i \in 1 .. Len(rchs) :
       InCall(cl[c]) /\ rchs[i].op = cl[c].op =>
         /\ cl[c].pc \in {"built", "wait", "copy"}
         /\ rchs[i].client = c /\ rchs[i].buf = cl[c].buf /\ rchs[i].kind = cl[c].kind
  /\ \A i \in 1 .. Len(rchs) : rchs[i].kind = "release" =>
       InCall(cl[rchs[i].client]) /\ cl[rchs[i].client].op = rchs[i].op
  /\ \A c \in Clients : cl[c].eofdone =>
       cl[c].kind = "release" /\ cl[c].pc \in {"built", "wait"} /\ Unlisted(c)

\* How far a process is in its transfer.
Stage(r) ==
  /\ r.begun \in {"none", "in", "out"} /\ r.dir \in {"none", "in", "out"}
  /\ r.pos \in Nat
  /\ r.pc = "closed" => r.begun = "none"
  /\ r.pc = "copy" => r.kind = "read"
  /\ r.pc \in {"wait", "copy"} => r.begun # "none"
  /\ r.begun = "none" => r.got = << >> /\ r.wrote = << >> /\ r.pos = 0
  /\ r.pc # "built" => (r.begun = "none" <=> r.dir = "none")
  /\ r.pc = "built" => /\ r.kind = "write" => r.dir = "out"
                       /\ r.kind = "read" => r.dir = "in"
  /\ r.kind = "release" => r.begun # "none" /\ r.dir # "none"

Staged == \A c \in Clients : Stage(cl[c])

CallInv == Numbered /\ Staged

-----------------------------------------------------------------------------
(* The steps of a process that sends nothing.                              *)
Keeps(r, s) ==
  /\ s.chan = r.chan /\ s.pos = r.pos /\ s.dir = r.dir /\ s.eofdone = r.eofdone
  /\ s.begun = r.begun /\ s.wrote = r.wrote /\ s.got = r.got

SameCall(r, s) == s.kind = r.kind /\ s.op = r.op /\ s.buf = r.buf /\ s.count = r.count

Looks(r, s)   == /\ r.pc \in {"alloc", "full", "nap", "rescan"} /\ s.pc \in {"full", "nap"}
                 /\ Keeps(r, s) /\ SameCall(r, s)
Takes(r, s)   == /\ r.pc \in {"alloc", "rescan"} /\ s.pc = "fill"
                 /\ Keeps(r, s) /\ s.kind = r.kind /\ s.op = r.op
                 /\ s.buf \in Bufs /\ ~ reserved[s.buf]
Sleeps(r, s)  == r.pc = "wait" /\ s.pc = "wait" /\ Keeps(r, s) /\ SameCall(r, s)
GivesUp(r, s) == /\ r.pc \in {"nap", "fill"} /\ r.kind # "release"
                 /\ s.pc = "user" /\ Keeps(r, s) /\ s.kind = "none"
Wakes(r, s)   == /\ r.pc = "wait" /\ s.pc = "copy" /\ r.kind = "read"
                 /\ clidata[r.buf] # Kbuf /\ s.count = clidata[r.buf]
                 /\ Keeps(r, s) /\ s.kind = r.kind /\ s.op = r.op /\ s.buf = r.buf
Copies(r, s)  == /\ r.pc = "copy" /\ s.pc = "user" /\ s.kind = "none"
                 /\ s.chan = r.chan /\ s.dir = r.dir /\ s.eofdone = r.eofdone
                 /\ s.begun = r.begun /\ s.wrote = r.wrote
                 /\ s.pos = r.pos + r.count
                 /\ s.got = IF r.count = 0 THEN r.got ELSE
                              Append(r.got, [wanted |-> r.op, block |-> content[r.buf]])
Leaves(r, s)  == /\ s = Fresh
                 /\ \/ r.pc = "wait" /\ r.kind = "release" /\ r.eofdone
                    \/ r.pc = "user" /\ r.dir = "none"
Opens(r, s)   == r.pc = "closed" /\ \E f \in Files : s = [Fresh EXCEPT !.pc = "user", !.chan = f]
Calls(r, s)   == /\ r.pc = "user" /\ s.pc \in {"alloc", "fill"} /\ Keeps(r, s)
                 /\ s.kind \in Kinds /\ s.op = nops + 1 /\ s.op = nops' /\ s.buf = r.buf
                 /\ (s.pc = "fill" <=> s.kind = "release")
                 /\ (s.kind = "release" => r.dir # "none")

\* What a process does on its own.
Quiet(c) ==
  \/ Nap(c) \/ NapTimeout(c) \/ Close(c) \/ Sleep(c) \/ ReadAnswered(c)
  \/ Copy(c) \/ ReleaseAnswered(c) \/ FillNothing(c) \/ Alloc(c) \/ Rescan(c)
  \/ (\E f \in Files : Open(c, f)) \/ (\E k \in Kinds : Call(c, k))

Moves1(r, s) ==
  \/ Looks(r, s) \/ Takes(r, s) \/ Sleeps(r, s) \/ GivesUp(r, s) \/ Wakes(r, s)
  \/ Copies(r, s) \/ Leaves(r, s) \/ Opens(r, s) \/ Calls(r, s)

LEMMA QuietMoves ==
  ASSUME BufInv, NEW c \in Clients, Quiet(c)
  PROVE  /\ UNCHANGED <<rchs, lastId, inbound, outbound, lost, content, clidata, card, active>>
         /\ \A d \in Clients : d # c => cl'[d] = cl[d]
         /\ Moves1(cl[c], cl'[c])
         /\ nops' >= nops /\ (~ Calls(cl[c], cl'[c]) => nops' = nops)
         /\ ~ Opens(cl[c], cl'[c]) => tangled' = tangled
         /\ Opens(cl[c], cl'[c]) => tangled' = tangled \ {c}
         /\ ~ reused' => ~ reused
         /\ Takes(cl[c], cl'[c]) /\ ~ reused' => ~ AwaitsCopy(cl'[c].buf)
  <1> DEFINE r == cl[c]
             s == cl'[c]
             Goal == /\ UNCHANGED <<rchs, lastId, inbound, outbound, lost, content, clidata, card, active>>
                     /\ \A d \in Clients : d # c => cl'[d] = cl[d]
                     /\ Moves1(cl[c], cl'[c])
                     /\ nops' >= nops /\ (~ Calls(cl[c], cl'[c]) => nops' = nops)
                     /\ ~ Opens(cl[c], cl'[c]) => tangled' = tangled
                     /\ Opens(cl[c], cl'[c]) => tangled' = tangled \ {c}
                     /\ ~ reused' => ~ reused
                     /\ Takes(cl[c], cl'[c]) /\ ~ reused' => ~ AwaitsCopy(cl'[c].buf)
             Rest == /\ UNCHANGED <<rchs, lastId, inbound, outbound, lost, content, clidata, card, active>>
                     /\ \A d \in Clients : d # c => cl'[d] = cl[d]
                     /\ nops' >= nops
  <1>1. DOMAIN cl[c] = Fields /\ cl = [d \in Clients |-> cl[d]] /\ nops \in Nat /\ ibuf \in Bufs
        /\ cl[c].stop \in Bufs /\ reserved \in [Bufs -> BOOLEAN]
    BY DEF BufInv, PoolType, ClientOK
  <1>2. UNCHANGED <<rchs, lastId, inbound, outbound, lost, content, clidata, card, active>>
    BY DEF Quiet, Nap, NapTimeout, Close, Sleep, ReadAnswered, Copy, ReleaseAnswered, FillNothing,
           Alloc, Rescan, Open, Call, driver, ghosts
  <1>3. \A d \in Clients : d # c => cl'[d] = cl[d]
    BY <1>1 DEF Quiet, Nap, NapTimeout, Close, Sleep, ReadAnswered, Copy, ReleaseAnswered,
                FillNothing, Alloc, Rescan, Open, Call, Take
  <1>4. ASSUME UNCHANGED <<nops, tangled, reused>>, ~ Takes(r, s), ~ Opens(r, s), Moves1(r, s)
        PROVE  Goal
    BY <1>1, <1>2, <1>3, <1>4
  <1>5. CASE Nap(c) \/ Sleep(c)
    <2>1. UNCHANGED <<nops, tangled, reused>>
      BY <1>5 DEF Nap, Sleep, ghosts
    <2>2. Looks(r, s) \/ Sleeps(r, s)
      BY <1>1, <1>5, FieldNames DEF Nap, Sleep, Looks, Sleeps, Keeps, SameCall
    <2>3. s.pc # "fill" /\ r.pc # "closed"
      BY <2>2 DEF Looks, Sleeps
    <2> QED BY <1>4, <2>1, <2>2, <2>3 DEF Moves1, Takes, Opens
  <1>6. CASE NapTimeout(c) \/ FillNothing(c)
    <2>1. UNCHANGED <<nops, tangled, reused>>
      BY <1>6 DEF NapTimeout, FillNothing, ghosts
    <2>2. GivesUp(r, s)
      <3>1. s = Return(c) /\ r.pc \in {"nap", "fill"} /\ r.kind # "release"
        BY <1>1, <1>6 DEF NapTimeout, FillNothing, BufInv, PoolType, ClientOK
      <3> QED BY <1>1, <3>1, FieldNames DEF GivesUp, Keeps, Return
    <2>3. s.pc # "fill" /\ r.pc # "closed"
      BY <2>2 DEF GivesUp
    <2> QED BY <1>4, <2>1, <2>2, <2>3 DEF Moves1, Takes, Opens
  <1>7. CASE ReadAnswered(c)
    <2>1. UNCHANGED <<nops, tangled, reused>>
      BY <1>7 DEF ReadAnswered, ghosts
    <2>2. Wakes(r, s)
      BY <1>1, <1>7, FieldNames DEF ReadAnswered, Wakes, Keeps, Answered
    <2>3. s.pc # "fill" /\ r.pc # "closed"
      BY <2>2 DEF Wakes
    <2> QED BY <1>4, <2>1, <2>2, <2>3 DEF Moves1, Takes, Opens
  <1>8. CASE Copy(c)
    <2>1. UNCHANGED <<nops, tangled, reused>>
      BY <1>8 DEF Copy, ghosts
    <2>2. Copies(r, s)
      BY <1>1, <1>8, FieldNames DEF Copy, Copies, Return
    <2>3. s.pc # "fill" /\ r.pc # "closed"
      BY <2>2 DEF Copies
    <2> QED BY <1>4, <2>1, <2>2, <2>3 DEF Moves1, Takes, Opens
  <1>9. CASE Close(c) \/ ReleaseAnswered(c)
    <2>1. UNCHANGED <<nops, tangled, reused>>
      BY <1>9 DEF Close, ReleaseAnswered, ghosts
    <2>2. Leaves(r, s)
      BY <1>1, <1>9, FieldNames DEF Close, ReleaseAnswered, Leaves, Answered
    <2>3. s.pc # "fill" /\ r.pc # "closed"
      BY <2>2, FieldNames DEF Leaves
    <2> QED BY <1>4, <2>1, <2>2, <2>3 DEF Moves1, Takes, Opens
  <1>10. ASSUME NEW f \in Files, Open(c, f)
         PROVE  Goal
    <2>1. UNCHANGED <<nops, reused>> /\ tangled' = tangled \ {c}
      BY <1>10 DEF Open
    <2>2. s = [Fresh EXCEPT !.pc = "user", !.chan = f] /\ r.pc = "closed"
      BY <1>1, <1>10 DEF Open
    <2>3. Opens(r, s) /\ s.pc = "user"
      BY <2>2 DEF Opens, Fresh
    <2>4. ~ Takes(r, s)
      BY <2>3 DEF Takes
    <2> QED BY <1>1, <1>2, <1>3, <2>1, <2>3, <2>4 DEF Moves1
  <1>11. ASSUME NEW k \in Kinds, Call(c, k)
         PROVE  Goal
    <2>1. UNCHANGED <<reused, tangled>> /\ nops' = nops + 1
      BY <1>11 DEF Call
    <2>2. Calls(r, s) /\ r.pc = "user"
      BY <1>1, <1>11, FieldNames DEF Call, Calls, Keeps
    <2>3. ~ Takes(r, s) /\ ~ Opens(r, s)
      BY <2>2 DEF Takes, Opens
    <2> QED BY <1>1, <1>2, <1>3, <2>1, <2>2, <2>3 DEF Moves1
  <1>12. CASE Alloc(c) \/ Rescan(c)
    <2>1. UNCHANGED <<nops, tangled>> /\ r.pc \in {"alloc", "rescan"}
      BY <1>12 DEF Alloc, Rescan
    <2>2. \/ \E b \in Bufs : ~ reserved[b] /\ Take(c, b)
          \/ UNCHANGED reused /\ s.pc = "full" /\ Looks(r, s)
      <3>1. CASE Alloc(c)
        <4>1. Inc(ibuf) \in Bufs
          BY <1>1, BridgeAssumption DEF Inc, Bufs
        <4>2. CASE reserved[Inc(ibuf)]
          BY <1>1, <3>1, <4>2, FieldNames DEF Alloc, Looks, Keeps, SameCall
        <4>3. CASE ~ reserved[Inc(ibuf)]
          BY <3>1, <4>1, <4>3 DEF Alloc
        <4> QED BY <4>2, <4>3
      <3>2. CASE Rescan(c)
        <4> DEFINE far  == (cl[c].stop + NData - ibuf - 1) % NData
                   at(k) == (ibuf + 1 + k) % NData
                   free == {k \in 0 .. far : ~ reserved[at(k)]}
        <4>1. CASE free = {}
          <5>1. cl' = [cl EXCEPT ![c].pc = "full"] /\ UNCHANGED reused
            BY <3>2, <4>1 DEF Rescan
          <5> QED BY <1>1, <2>1, <5>1, FieldNames DEF Looks, Keeps, SameCall
        <4>2. CASE free # {}
          <5>1. Take(c, at(Min(free)))
            BY <3>2, <4>2 DEF Rescan
          <5>2. Min(free) \in free /\ free \subseteq Nat
            <6>1. free \in SUBSET Nat
              OBVIOUS
            <6> HIDE DEF free
            <6> QED BY <4>2, <6>1, MinIn
          <5>3. Min(free) \in Nat /\ ~ reserved[at(Min(free))]
            <6>1. \A k \in free : ~ reserved[at(k)]
              OBVIOUS
            <6> HIDE DEF free, at
            <6> QED BY <5>2, <6>1
          <5>4. at(Min(free)) \in Bufs
            <6> DEFINE n == ibuf + 1 + Min(free)
            <6>1. n \in Nat /\ NData \in Nat /\ NData > 0
              BY <1>1, <5>3, Buffers
            <6> HIDE DEF n
            <6>2. n % NData \in 0 .. NData - 1
              BY <6>1
            <6> QED BY <6>2 DEF n, Bufs
          <5> QED BY <5>1, <5>3, <5>4
        <4> QED BY <4>1, <4>2
      <3> QED BY <1>12, <3>1, <3>2
    <2>3. CASE UNCHANGED reused /\ s.pc = "full" /\ Looks(r, s)
      BY <1>4, <2>1, <2>3 DEF Moves1, Takes, Opens
    <2>4. ASSUME NEW b \in Bufs, ~ reserved[b], Take(c, b)
          PROVE  Goal
      <3>1. s = [r EXCEPT !.pc = "fill", !.buf = b]
        BY <1>1, <2>4 DEF Take
      <3>2. Takes(r, s) /\ s.buf = b
        BY <1>1, <2>1, <2>4, <3>1, FieldNames DEF Takes, Keeps
      <3>3. ~ Opens(r, s)
        BY <2>1 DEF Opens
      <3>4. (~ reused' => ~ reused) /\ (~ reused' => ~ AwaitsCopy(b))
        BY <2>4 DEF Take
      <3> QED BY <1>1, <1>2, <1>3, <2>1, <3>2, <3>3, <3>4 DEF Moves1
    <2> QED BY <2>2, <2>3, <2>4
  <1> QED BY <1>5, <1>6, <1>7, <1>8, <1>9, <1>10, <1>11, <1>12 DEF Quiet

-----------------------------------------------------------------------------
(* The other steps of a process, and what the bottom half does to one.     *)
Holder(c) == [id |-> (lastId + 1) % IdSpan, op |-> cl[c].op, kind |-> cl[c].kind,
              client |-> c, buf |-> cl[c].buf]

LEMMA Builds ==
  ASSUME BufInv, TypeInv, NEW c \in Clients, BuildRch(c)
  PROVE  /\ cl[c].pc = "fill" /\ cl'[c].pc = "built" /\ cl[c].kind \in {"read", "write", "release"}
         /\ \A d \in Clients : d # c => cl'[d] = cl[d]
         /\ cl'[c].chan = cl[c].chan /\ cl'[c].pos = cl[c].pos /\ cl'[c].eofdone = cl[c].eofdone
         /\ cl'[c].begun = cl[c].begun /\ cl'[c].wrote = cl[c].wrote /\ cl'[c].got = cl[c].got
         /\ SameCall(cl[c], cl'[c])
         /\ cl'[c].dir = CASE cl[c].kind = "write" -> "out"
                           [] cl[c].kind = "read" -> "in"
                           [] OTHER -> cl[c].dir
         /\ Len(rchs') = Len(rchs) + 1 /\ Len(rchs) \in Nat
         /\ \A i \in 1 .. Len(rchs) : rchs'[i] = rchs[i]
         /\ rchs'[Len(rchs) + 1] = Holder(c)
         /\ UNCHANGED <<lastId, inbound, outbound, card, ghosts>>
         /\ \A b \in Bufs : b # cl[c].buf => content'[b] = content[b] /\ clidata'[b] = clidata[b]
         /\ cl[c].kind # "write" => content' = content
         /\ cl[c].kind = "write" => content'[cl[c].buf] = [op |-> cl[c].op, data |-> cl[c].op]
         /\ cl[c].buf \in Bufs => clidata'[cl[c].buf] = Kbuf
  <1>1. DOMAIN cl[c] = Fields /\ cl = [d \in Clients |-> cl[d]] /\ cl[c].pc = "fill"
        /\ cl[c].kind # "empty" /\ cl[c].kind \in Kinds \cup {"none"} /\ cl[c].kind # "none"
        /\ (cl[c].kind = "release" <=> cl[c].buf = NoBuf) /\ cl[c].buf \in Bufs \cup {NoBuf}
    BY DEF BufInv, PoolType, ClientOK, BuildRch
  <1>2. rchs \in Seq(Handlers) /\ Len(rchs) \in Nat
    BY DEF TypeInv, DriverTyped
  <1>3. rchs' = Append(rchs, Holder(c))
    BY DEF BuildRch, Holder
  <1>4. cl'[c] = [cl[c] EXCEPT !.pc = "built",
                     !.dir = CASE cl[c].kind = "write" -> "out"
                               [] cl[c].kind = "read"  -> "in"
                               [] OTHER                -> @]
    BY <1>1 DEF BuildRch
  <1>5. /\ cl'[c].pc = "built" /\ SameCall(cl[c], cl'[c])
        /\ cl'[c].chan = cl[c].chan /\ cl'[c].pos = cl[c].pos /\ cl'[c].eofdone = cl[c].eofdone
        /\ cl'[c].begun = cl[c].begun /\ cl'[c].wrote = cl[c].wrote /\ cl'[c].got = cl[c].got
        /\ cl'[c].dir = CASE cl[c].kind = "write" -> "out"
                          [] cl[c].kind = "read" -> "in"
                          [] OTHER -> cl[c].dir
    BY <1>1, <1>4, FieldNames DEF SameCall
  <1>6. \A d \in Clients : d # c => cl'[d] = cl[d]
    BY <1>1 DEF BuildRch
  <1>7. UNCHANGED <<lastId, inbound, outbound, card, ghosts>>
    BY DEF BuildRch
  <1>8. content = [b \in Bufs |-> content[b]] /\ clidata = [b \in Bufs |-> clidata[b]]
    BY DEF TypeInv, CardTyped, DriverTyped
  <1>9. /\ cl[c].kind # "write" => content' = content
        /\ cl[c].kind = "write" => content' = [content EXCEPT ![cl[c].buf] =
                                                 [op |-> cl[c].op, data |-> cl[c].op]]
        /\ clidata' = [b \in Bufs |-> IF b = cl[c].buf THEN Kbuf ELSE clidata[b]]
    BY DEF BuildRch
  <1>10. cl[c].kind = "write" => cl[c].buf \in Bufs
    BY <1>1
  <1>11. /\ \A b \in Bufs : b # cl[c].buf => content'[b] = content[b] /\ clidata'[b] = clidata[b]
         /\ cl[c].kind = "write" => content'[cl[c].buf] = [op |-> cl[c].op, data |-> cl[c].op]
         /\ cl[c].buf \in Bufs => clidata'[cl[c].buf] = Kbuf
    BY <1>8, <1>9, <1>10
  <1>12. cl[c].kind \in {"read", "write", "release"}
    BY <1>1 DEF Kinds
  <1>13. /\ Len(rchs') = Len(rchs) + 1 /\ \A i \in 1 .. Len(rchs) : rchs'[i] = rchs[i]
         /\ rchs'[Len(rchs) + 1] = Holder(c)
    BY <1>2, <1>3
  <1> QED BY <1>1, <1>2, <1>5, <1>6, <1>7, <1>9, <1>11, <1>12, <1>13

\* The message is the one that a process sends.
SentBy(m, c) ==
  /\ m.op = cl[c].op /\ m.client = c /\ m.chan = cl[c].chan /\ m.buf = cl[c].buf
  /\ m.write <=> cl[c].dir = "out"
  /\ m.first <=> cl[c].pos = 0 /\ cl[c].kind # "release"
  /\ m.eof <=> cl[c].kind = "release"

LEMMA Sends ==
  ASSUME BufInv, TypeInv, NEW c \in Clients, Send(c)
  PROVE  /\ cl[c].pc = "built" /\ cl[c].kind \in {"read", "write", "release"}
         /\ \A d \in Clients : d # c => cl'[d] = cl[d]
         /\ cl'[c].chan = cl[c].chan /\ cl'[c].dir = cl[c].dir /\ cl'[c].eofdone = cl[c].eofdone
         /\ cl'[c].got = cl[c].got
         /\ cl'[c].begun = IF cl[c].begun = "none" THEN cl[c].dir ELSE cl[c].begun
         /\ cl[c].kind = "write" =>
              /\ cl'[c].pc = "user" /\ cl'[c].kind = "none" /\ cl'[c].pos = cl[c].pos + 1
              /\ cl'[c].wrote = Append(cl[c].wrote, cl[c].op)
         /\ cl[c].kind # "write" =>
              /\ cl'[c].pc = "wait" /\ SameCall(cl[c], cl'[c]) /\ cl'[c].pos = cl[c].pos
              /\ cl'[c].wrote = cl[c].wrote
         /\ UNCHANGED <<rchs, clidata, content, outbound, card, nops, reused, active, tangled>>
         /\ lost => lost'
         /\ ~ lost' => \E m : inbound' = Append(inbound, m) /\ SentBy(m, c)
  <1>1. DOMAIN cl[c] = Fields /\ cl = [d \in Clients |-> cl[d]] /\ cl[c].pc = "built"
        /\ cl[c].kind \in Kinds /\ cl[c].kind # "empty"
    BY DEF BufInv, PoolType, ClientOK, Send, TypeInv, ClientTyped
  <1>2. cl[c].kind \in {"read", "write", "release"}
    BY <1>1 DEF Kinds
  <1>3. UNCHANGED <<rchs, clidata, content, outbound, card, nops, reused, active, tangled>>
        /\ \A d \in Clients : d # c => cl'[d] = cl[d]
    BY <1>1 DEF Send
  <1> DEFINE begun == IF cl[c].begun = "none" THEN cl[c].dir ELSE cl[c].begun
             eof == cl[c].kind = "release"
             m == [id     |-> 0,
                   op     |-> cl[c].op,
                   client |-> c,
                   chan   |-> cl[c].chan,
                   write  |-> cl[c].dir = "out",
                   first  |-> cl[c].pos = 0 /\ ~ eof,
                   eof    |-> eof,
                   buf    |-> cl[c].buf]
  <1>4. Post(m)
    BY DEF Send
  <1>5. (lost => lost') /\ (~ lost' => \E e : inbound' = Append(inbound, e) /\ SentBy(e, c))
    <2>1. CASE Len(inbound) < Frames
      <3>1. lost' = lost /\ inbound' = Append(inbound, [m EXCEPT !.id = (lastId + 1) % IdSpan])
        BY <1>4, <2>1 DEF Post
      <3>2. SentBy([m EXCEPT !.id = (lastId + 1) % IdSpan], c)
        BY DEF SentBy
      <3> QED BY <3>1, <3>2
    <2>2. CASE ~ (Len(inbound) < Frames)
      <3>1. m.client = c /\ c # NoClient
        BY BridgeAssumption
      <3>2. lost' = (lost \/ m.client # NoClient)
        BY <1>4, <2>2 DEF Post
      <3>3. lost'
        BY <3>1, <3>2, Zenon
      <3> QED BY <3>3
    <2> QED BY <2>1, <2>2
  <1>6. CASE cl[c].kind = "write"
    <2>1. cl'[c] = [Return(c) EXCEPT !.pos = @ + 1, !.begun = begun,
                                     !.wrote = Append(@, cl[c].op)]
      BY <1>1, <1>6 DEF Send
    <2>2. /\ cl'[c].pc = "user" /\ cl'[c].kind = "none" /\ cl'[c].pos = cl[c].pos + 1
          /\ cl'[c].wrote = Append(cl[c].wrote, cl[c].op)
          /\ cl'[c].chan = cl[c].chan /\ cl'[c].dir = cl[c].dir /\ cl'[c].eofdone = cl[c].eofdone
          /\ cl'[c].got = cl[c].got /\ cl'[c].begun = begun
      BY <1>1, <2>1, FieldNames DEF Return
    <2> QED BY <1>1, <1>2, <1>3, <1>5, <1>6, <2>2
  <1>7. CASE cl[c].kind # "write"
    <2>1. cl'[c] = [cl[c] EXCEPT !.pc = "wait", !.awake = TRUE, !.begun = begun]
      BY <1>1, <1>7 DEF Send
    <2>2. /\ cl'[c].pc = "wait" /\ SameCall(cl[c], cl'[c]) /\ cl'[c].pos = cl[c].pos
          /\ cl'[c].wrote = cl[c].wrote
          /\ cl'[c].chan = cl[c].chan /\ cl'[c].dir = cl[c].dir /\ cl'[c].eofdone = cl[c].eofdone
          /\ cl'[c].got = cl[c].got /\ cl'[c].begun = begun
      BY <1>1, <2>1, FieldNames DEF SameCall
    <2> QED BY <1>1, <1>2, <1>3, <1>5, <1>7, <2>2
  <1> QED BY <1>6, <1>7

\* What the bottom half leaves of a process.
Handled(r, s) ==
  /\ s.chan = r.chan /\ s.pos = r.pos /\ s.dir = r.dir
  /\ s.begun = r.begun /\ s.wrote = r.wrote /\ s.got = r.got
  /\ SameCall(r, s)
  /\ s.pc = r.pc \/ (r.pc = "nap" /\ s.pc = "rescan")

LEMMA Handles ==
  ASSUME BufInv, TypeInv, Handle
  PROVE  LET i == Min(Matches(Head(outbound).id))
             h == rchs[i] IN
         /\ i \in 1 .. Len(rchs) /\ h.id = Head(outbound).id /\ h.client \in Clients
         /\ \A j \in 1 .. Len(rchs) : rchs[j].id = Head(outbound).id => i <= j
         /\ Len(rchs') = Len(rchs) - 1 /\ Len(rchs) \in Nat
         /\ \A k \in 1 .. Len(rchs) - 1 : rchs'[k] = IF k < i THEN rchs[k] ELSE rchs[k + 1]
         /\ \A d \in Clients :
              /\ Handled(cl[d], cl'[d])
              /\ ~ (h.kind = "release" /\ d = h.client) => cl'[d].eofdone = cl[d].eofdone
         /\ outbound # << >> /\ outbound' = Tail(outbound)
         /\ UNCHANGED <<lastId, content, inbound, card, ghosts>>
         /\ \A b \in Bufs : clidata'[b] = IF h.kind = "read" /\ b = h.buf
                                            THEN Head(outbound).count ELSE clidata[b]
  <1> DEFINE m == Head(outbound)
             i == Min(Matches(m.id))
             h == rchs[i]
             woken == Woken(cl)
             Same(r, d) == Handled(cl[d], r) /\ r.eofdone = cl[d].eofdone /\ DOMAIN r = Fields
  <1>1. (\A d \in Clients : DOMAIN cl[d] = Fields) /\ cl = [d \in Clients |-> cl[d]]
    BY DEF BufInv, PoolType, ClientOK
  <1>2. \A d \in Clients : Same(cl[d], d)
    BY <1>1 DEF Handled, SameCall
  <1>3. \A d \in Clients : Same(woken[d], d)
    BY <1>1, FieldNames DEF Woken, Handled, SameCall
  <1>4. woken = [d \in Clients |-> woken[d]]
    BY DEF Woken
  <1>5. /\ i \in 1 .. Len(rchs) /\ h.id = m.id
        /\ \A j \in 1 .. Len(rchs) : rchs[j].id = m.id => i <= j
    <2>1. i \in Matches(m.id) /\ i \in 1 .. Len(rchs)
      BY FirstMatch
    <2>2. Matches(m.id) \in SUBSET Nat /\ Matches(m.id) # {}
      BY <2>1 DEF Matches
    <2>3. \A j \in Matches(m.id) : i <= j
      BY <2>2, MinIn
    <2>4. \A j \in 1 .. Len(rchs) : rchs[j].id = m.id => j \in Matches(m.id)
      BY DEF Matches
    <2>5. rchs[i].id = m.id
      <3> HIDE DEF i, m
      <3> QED BY <2>1 DEF Matches
    <2> HIDE DEF i, m
    <2> QED BY <2>1, <2>3, <2>4, <2>5
  <1>6. /\ h.client \in Clients /\ h.kind \in Kinds /\ h.buf \in Bufs \cup {NoBuf}
        /\ (h.kind = "release" <=> h.buf = NoBuf)
    BY <1>5, Entries DEF BufInv, OneHolder
  <1>7. /\ outbound # << >> /\ outbound' = Tail(outbound) /\ rchs' = RemoveAt(rchs, i)
        /\ UNCHANGED <<lastId, content, inbound, card, ghosts>>
    BY DEF Handle
  <1>8. /\ Len(rchs') = Len(rchs) - 1 /\ Len(rchs) \in Nat
        /\ \A k \in 1 .. Len(rchs) - 1 : rchs'[k] = IF k < i THEN rchs[k] ELSE rchs[k + 1]
    <2>1. rchs \in Seq(Handlers) /\ Len(rchs) \in Nat
      BY DEF TypeInv, DriverTyped
    <2> HIDE DEF i
    <2> QED BY <1>5, <1>7, <2>1, Removed
  <1>9. clidata' = IF h.kind = "read" THEN [clidata EXCEPT ![h.buf] = m.count] ELSE clidata
    BY DEF Handle
  <1>10. \A b \in Bufs : clidata'[b] = IF h.kind = "read" /\ b = h.buf THEN m.count ELSE clidata[b]
    <2>1. clidata = [b \in Bufs |-> clidata[b]]
      BY DEF TypeInv, DriverTyped
    <2> HIDE DEF h, m
    <2> QED BY <1>9, <2>1
  <1>11. \/ h.kind = "release" /\ cl' = [cl EXCEPT ![h.client] =
                                       [cl[h.client] EXCEPT !.eofdone = TRUE, !.awake = TRUE]]
         \/ cl' = woken
         \/ cl' = [woken EXCEPT ![h.client] = [woken[h.client] EXCEPT !.awake = TRUE]]
    BY DEF Handle, Woke
  <1>12. \A d \in Clients :
           /\ Handled(cl[d], cl'[d])
           /\ ~ (h.kind = "release" /\ d = h.client) => cl'[d].eofdone = cl[d].eofdone
    <2> HIDE DEF woken, h
    <2>1. CASE cl' = woken
      BY <1>3, <2>1
    <2>2. CASE h.kind = "release" /\ cl' = [cl EXCEPT ![h.client] =
                                          [cl[h.client] EXCEPT !.eofdone = TRUE, !.awake = TRUE]]
      <3> DEFINE r == [cl[h.client] EXCEPT !.eofdone = TRUE, !.awake = TRUE]
      <3>1. Handled(cl[h.client], r)
        BY <1>1, <1>6, FieldNames DEF Handled, SameCall
      <3>2. cl' = [cl EXCEPT ![h.client] = r]
        BY <2>2
      <3> HIDE DEF r, Same
      <3>3. cl'[h.client] = r /\ \A d \in Clients : d # h.client => cl'[d] = cl[d]
        BY <1>1, <1>6, <3>2
      <3> QED BY <1>2, <2>2, <3>1, <3>3 DEF Same
    <2>3. CASE cl' = [woken EXCEPT ![h.client] = [woken[h.client] EXCEPT !.awake = TRUE]]
      <3> DEFINE r == [woken[h.client] EXCEPT !.awake = TRUE]
      <3>1. Same(r, h.client)
        BY <1>3, <1>6, FieldNames DEF Handled, SameCall
      <3>2. cl' = [woken EXCEPT ![h.client] = r]
        BY <2>3
      <3> HIDE DEF r, Same
      <3>3. cl'[h.client] = r /\ \A d \in Clients : d # h.client => cl'[d] = woken[d]
        BY <1>4, <1>6, <3>2
      <3> QED BY <1>3, <3>1, <3>3 DEF Same
    <2> QED BY <1>11, <2>1, <2>2, <2>3
  <1> QED BY <1>5, <1>6, <1>7, <1>8, <1>10, <1>12

-----------------------------------------------------------------------------
(* Numbers.                                                                *)
LEMMA NumberInit == Init => CallInv
  <1> SUFFICES ASSUME Init
               PROVE  CallInv
    OBVIOUS
  <1>1. rchs = << >> /\ \A c \in Clients : cl[c] = Fresh
    BY DEF Init
  <1>2. /\ Fresh.pc = "closed" /\ Fresh.kind = "none" /\ ~ Fresh.eofdone /\ Fresh.begun = "none"
        /\ Fresh.dir = "none" /\ Fresh.pos = 0 /\ Fresh.got = << >> /\ Fresh.wrote = << >>
    BY DEF Fresh
  <1>3. Numbered
    BY <1>1, <1>2 DEF Numbered, InCall
  <1>4. Staged
    BY <1>1, <1>2 DEF Staged, Stage
  <1> QED BY <1>3, <1>4 DEF CallInv

LEMMA ListType ==
  BufInv /\ TypeInv =>
    /\ Len(rchs) \in Nat /\ nops \in Nat
    /\ \A i \in 1 .. Len(rchs) :
         /\ rchs[i].op \in Nat /\ rchs[i].op > 0 /\ rchs[i].client \in Clients
         /\ rchs[i].kind \in Kinds /\ rchs[i].buf \in Bufs \cup {NoBuf}
    /\ \A c \in Clients : cl[c].op \in Nat /\ cl[c].op <= nops /\ cl[c].count \in {0, 1}
    /\ \A c \in Clients : cl[c].pc \notin {"closed", "user"} => cl[c].op > 0 /\ InCall(cl[c])
  <1> SUFFICES ASSUME BufInv, TypeInv
               PROVE  /\ Len(rchs) \in Nat /\ nops \in Nat
                      /\ \A i \in 1 .. Len(rchs) :
                           /\ rchs[i].op \in Nat /\ rchs[i].op > 0 /\ rchs[i].client \in Clients
                           /\ rchs[i].kind \in Kinds /\ rchs[i].buf \in Bufs \cup {NoBuf}
                      /\ \A c \in Clients : cl[c].op \in Nat /\ cl[c].op <= nops /\ cl[c].count \in {0, 1}
                      /\ \A c \in Clients :
                           cl[c].pc \notin {"closed", "user"} => cl[c].op > 0 /\ InCall(cl[c])
    OBVIOUS
  <1>1. rchs \in Seq(Handlers) /\ Len(rchs) \in Nat /\ nops \in Nat
    BY DEF TypeInv, DriverTyped, BufInv, PoolType
  <1>2. \A i \in 1 .. Len(rchs) : rchs[i] \in Handlers
    BY <1>1
  <1>3. \A c \in Clients : ClientTyped(cl[c], nops)
    BY DEF TypeInv
  <1>4. "none" \notin Kinds
    BY DEF Kinds
  <1> QED BY <1>1, <1>2, <1>3, <1>4, BridgeAssumption DEF Handlers, Ops, ClientTyped, InCall

\* A process goes on with its call.
LEMMA SameNumber ==
  ASSUME BufInv, TypeInv, Numbered, NEW c \in Clients,
         \A d \in Clients : d # c => cl'[d] = cl[d], rchs' = rchs, nops' \in Nat, nops' >= nops,
         cl'[c].kind = cl[c].kind, cl'[c].op = cl[c].op, cl'[c].eofdone = cl[c].eofdone,
         cl[c].pc \notin {"closed", "user"}, cl'[c].pc \notin {"closed", "user"},
         \/ cl'[c].pc = "wait" /\ cl'[c].buf = cl[c].buf
         \/ cl'[c].pc = "copy" /\ cl'[c].buf = cl[c].buf /\ cl[c].kind # "release"
         \/ cl[c].pc \notin {"built", "wait", "copy"}
  PROVE  Numbered'
  <1>1. \A d \in Clients : /\ cl'[d].kind = cl[d].kind /\ cl'[d].op = cl[d].op
                           /\ cl'[d].eofdone = cl[d].eofdone
                           /\ (InCall(cl'[d]) <=> InCall(cl[d])) /\ (Unlisted(d)' <=> Unlisted(d))
    BY DEF InCall, Unlisted
  <1>2. \A i \in 1 .. Len(rchs) : rchs[i].op <= nops'
    BY ListType DEF Numbered
  <1>3. \A d \in Clients : InCall(cl'[d]) => cl'[d].pc \notin {"closed", "user"}
    BY <1>1 DEF Numbered
  <1>4. \A d \in Clients : \A i \in 1 .. Len(rchs) :
          InCall(cl'[d]) /\ rchs[i].op = cl'[d].op =>
            /\ cl'[d].pc \in {"built", "wait", "copy"}
            /\ rchs[i].client = d /\ rchs[i].buf = cl'[d].buf /\ rchs[i].kind = cl'[d].kind
    BY <1>1 DEF Numbered
  <1>5. \A d \in Clients : cl'[d].eofdone =>
          cl'[d].kind = "release" /\ cl'[d].pc \in {"built", "wait"} /\ Unlisted(d)'
    BY <1>1 DEF Numbered
  <1>6. \A i \in 1 .. Len(rchs) : rchs[i].kind = "release" =>
          InCall(cl'[rchs[i].client]) /\ cl'[rchs[i].client].op = rchs[i].op
    BY <1>1, ListType DEF Numbered
  <1> QED BY <1>1, <1>2, <1>3, <1>4, <1>5, <1>6 DEF Numbered

\* A process is in no call any more.
LEMMA NoNumber ==
  ASSUME BufInv, TypeInv, Numbered, NEW c \in Clients,
         \A d \in Clients : d # c => cl'[d] = cl[d], rchs' = rchs, nops' = nops,
         cl'[c].kind = "none", ~ cl'[c].eofdone,
         \/ cl[c].kind # "release" \/ Unlisted(c)
  PROVE  Numbered'
  <1>1. ~ InCall(cl'[c])
    BY DEF InCall
  <1>2. \A i \in 1 .. Len(rchs) : rchs[i].kind = "release" => rchs[i].client # c
    BY DEF Numbered, Unlisted
  <1>3. \A d \in Clients : d # c => (Unlisted(d)' <=> Unlisted(d))
    BY DEF Unlisted
  <1>4. \A i \in 1 .. Len(rchs) : rchs[i].kind = "release" =>
          InCall(cl'[rchs[i].client]) /\ cl'[rchs[i].client].op = rchs[i].op
    BY <1>2, ListType DEF Numbered
  <1> QED BY <1>1, <1>3, <1>4 DEF Numbered

LEMMA CallsNumber ==
  ASSUME BufInv, TypeInv, Numbered, NEW c \in Clients,
         \A d \in Clients : d # c => cl'[d] = cl[d], rchs' = rchs, Calls(cl[c], cl'[c])
  PROVE  Numbered'
  <1>1. /\ cl[c].pc = "user" /\ cl'[c].op = nops + 1 /\ nops' = nops + 1 /\ cl'[c].pc \in {"alloc", "fill"}
        /\ cl'[c].eofdone = cl[c].eofdone
    BY DEF Calls, Keeps
  <1>2. ~ InCall(cl[c]) /\ ~ cl'[c].eofdone
    BY <1>1 DEF Numbered
  <1>3. \A i \in 1 .. Len(rchs) : rchs[i].op <= nops /\ rchs[i].op # nops + 1 /\ rchs[i].op <= nops + 1
    BY ListType DEF Numbered
  <1>4. \A d \in Clients : d # c => cl'[d].op # nops + 1 /\ (Unlisted(d)' <=> Unlisted(d))
    BY ListType DEF Unlisted
  <1>5. \A i \in 1 .. Len(rchs) : rchs[i].kind = "release" =>
          InCall(cl'[rchs[i].client]) /\ cl'[rchs[i].client].op = rchs[i].op
    <2> SUFFICES ASSUME NEW i \in 1 .. Len(rchs), rchs[i].kind = "release"
                 PROVE  InCall(cl'[rchs[i].client]) /\ cl'[rchs[i].client].op = rchs[i].op
      OBVIOUS
    <2>1. InCall(cl[rchs[i].client]) /\ cl[rchs[i].client].op = rchs[i].op
      BY DEF Numbered
    <2>2. rchs[i].client \in Clients /\ rchs[i].client # c
      BY <1>2, <2>1, ListType
    <2> QED BY <2>1, <2>2
  <1>6. \A d, e \in Clients : InCall(cl'[d]) /\ InCall(cl'[e]) /\ cl'[d].op = cl'[e].op => d = e
    BY <1>1, <1>4 DEF Numbered
  <1>7. \A d \in Clients : InCall(cl'[d]) => cl'[d].pc \notin {"closed", "user"}
    BY <1>1 DEF Numbered
  <1>8. \A d \in Clients : \A i \in 1 .. Len(rchs) :
          InCall(cl'[d]) /\ rchs[i].op = cl'[d].op =>
            /\ cl'[d].pc \in {"built", "wait", "copy"}
            /\ rchs[i].client = d /\ rchs[i].buf = cl'[d].buf /\ rchs[i].kind = cl'[d].kind
    BY <1>1, <1>3 DEF Numbered
  <1>9. \A d \in Clients : cl'[d].eofdone =>
          cl'[d].kind = "release" /\ cl'[d].pc \in {"built", "wait"} /\ Unlisted(d)'
    BY <1>2, <1>4 DEF Numbered
  <1> QED BY <1>1, <1>3, <1>5, <1>6, <1>7, <1>8, <1>9 DEF Numbered

\* A descriptor that was just opened, or is closed.
LEMMA FreshStart ==
  ASSUME NEW r, NEW s, Leaves(r, s) \/ Opens(r, s)
  PROVE  /\ s.begun = "none" /\ s.dir = "none" /\ s.kind = "none" /\ s.pc \in {"closed", "user"}
         /\ s.got = << >> /\ s.wrote = << >> /\ s.pos = 0 /\ ~ s.eofdone
  <1>1. CASE Leaves(r, s)
    BY <1>1 DEF Leaves, Fresh
  <1>2. CASE Opens(r, s)
    <2>1. PICK f \in Files : s = [Fresh EXCEPT !.pc = "user", !.chan = f]
      BY <1>2 DEF Opens
    <2> QED BY <2>1 DEF Fresh
  <1> QED BY <1>1, <1>2

LEMMA QuietNumber ==
  ASSUME BufInv, TypeInv, CallInv, NEW c \in Clients, Quiet(c)
  PROVE  Numbered'
  <1> DEFINE r == cl[c]
             s == cl'[c]
  <1>1. /\ rchs' = rchs /\ \A d \in Clients : d # c => cl'[d] = cl[d]
        /\ Moves1(r, s) /\ (~ Calls(r, s) => nops' = nops)
    BY QuietMoves
  <1>2. Numbered /\ Stage(r) /\ nops \in Nat /\ nops >= nops
    BY ListType DEF CallInv, Staged
  <1>3. CASE Calls(r, s)
    BY <1>1, <1>2, <1>3, CallsNumber
  <1>4. CASE (Looks(r, s) \/ Takes(r, s) \/ Sleeps(r, s) \/ Wakes(r, s)) /\ ~ Calls(r, s)
    <2>1. /\ nops' \in Nat /\ nops' >= nops
          /\ s.kind = r.kind /\ s.op = r.op /\ s.eofdone = r.eofdone
          /\ r.pc \notin {"closed", "user"} /\ s.pc \notin {"closed", "user"}
          /\ \/ s.pc = "wait" /\ s.buf = r.buf
             \/ s.pc = "copy" /\ s.buf = r.buf /\ r.kind # "release"
             \/ r.pc \notin {"built", "wait", "copy"}
      BY <1>1, <1>2, <1>4 DEF Looks, Takes, Sleeps, Wakes, Keeps, SameCall
    <2> HIDE DEF r, s
    <2> QED BY <1>1, <1>2, <2>1, SameNumber DEF r, s
  <1>5. CASE (GivesUp(r, s) \/ Copies(r, s) \/ Leaves(r, s) \/ Opens(r, s)) /\ ~ Calls(r, s)
    <2>1. CASE GivesUp(r, s) \/ Copies(r, s)
      <3>1. s.kind = "none" /\ r.kind # "release" /\ s.eofdone = r.eofdone
        BY <1>2, <2>1 DEF GivesUp, Copies, Stage, Keeps
      <3>2. ~ s.eofdone
        BY <1>2, <3>1 DEF Numbered
      <3> QED BY <1>1, <1>2, <1>5, <3>1, <3>2, NoNumber
    <2>2. CASE Leaves(r, s) \/ Opens(r, s)
      <3>1. s.kind = "none" /\ ~ s.eofdone
        BY <2>2, FreshStart
      <3>2. r.kind # "release" \/ Unlisted(c)
        <4>1. r.eofdone \/ r.pc \in {"closed", "user"}
          BY <2>2 DEF Leaves, Opens
        <4>2. r.kind = "release" => InCall(r)
          BY DEF InCall
        <4> QED BY <1>2, <4>1, <4>2 DEF Numbered
      <3> QED BY <1>1, <1>2, <1>5, <3>1, <3>2, NoNumber
    <2> QED BY <1>5, <2>1, <2>2
  <1> QED BY <1>1, <1>3, <1>4, <1>5 DEF Moves1

LEMMA QuietStage ==
  ASSUME BufInv, TypeInv, CallInv, NEW c \in Clients, Quiet(c)
  PROVE  Staged'
  <1> DEFINE r == cl[c]
             s == cl'[c]
  <1>1. Moves1(r, s) /\ \A d \in Clients : d # c => cl'[d] = cl[d]
    BY QuietMoves
  <1>2. Stage(r) /\ r.count \in {0, 1} /\ ClientOK(r)
    BY ListType DEF CallInv, Staged, BufInv, PoolType
  <1>3. Stage(s)
    <2> HIDE DEF r, s
    <2>1. CASE Looks(r, s) \/ Takes(r, s) \/ Sleeps(r, s) \/ Wakes(r, s) \/ GivesUp(r, s)
      BY <1>2, <2>1 DEF Looks, Takes, Sleeps, Wakes, GivesUp, Keeps, SameCall, Stage, ClientOK
    <2>2. CASE Copies(r, s)
      <3>1. r.begun # "none"
        BY <1>2, <2>2 DEF Copies, Stage
      <3> QED BY <1>2, <2>2, <3>1 DEF Copies, Stage
    <2>3. CASE Leaves(r, s) \/ Opens(r, s)
      <3>1. /\ s.begun = "none" /\ s.dir = "none" /\ s.kind = "none" /\ s.pc \in {"closed", "user"}
            /\ s.got = << >> /\ s.wrote = << >> /\ s.pos = 0
        BY <2>3, FreshStart
      <3> QED BY <3>1 DEF Stage
    <2>4. CASE Calls(r, s)
      BY <1>2, <2>4 DEF Calls, Keeps, Stage
    <2> QED BY <1>1, <2>1, <2>2, <2>3, <2>4 DEF Moves1
  <1> QED BY <1>1, <1>3 DEF CallInv, Staged

LEMMA BuildNumber ==
  ASSUME BufInv, TypeInv, CallInv, NEW c \in Clients, BuildRch(c)
  PROVE  CallInv'
  <1> DEFINE n == Len(rchs) + 1
             h == rchs'[n]
  <1>1. /\ Len(rchs') = n /\ n \in Nat /\ n \in 1 .. n /\ 1 .. n = (1 .. Len(rchs)) \cup {n}
        /\ \A i \in 1 .. Len(rchs) : rchs'[i] = rchs[i] /\ i # n
        /\ h.op = cl[c].op /\ h.client = c /\ h.buf = cl[c].buf /\ h.kind = cl[c].kind
        /\ nops' = nops
    <2>1. /\ Len(rchs') = n /\ Len(rchs) \in Nat /\ h = Holder(c) /\ nops' = nops
          /\ \A i \in 1 .. Len(rchs) : rchs'[i] = rchs[i]
      BY Builds DEF ghosts
    <2>2. /\ n \in Nat /\ n \in 1 .. n /\ 1 .. n = (1 .. Len(rchs)) \cup {n}
          /\ \A i \in 1 .. Len(rchs) : i # n
      BY <2>1
    <2> HIDE DEF n, h
    <2> QED BY <2>1, <2>2 DEF Holder
  <1> HIDE DEF n, h
  <1>2. /\ \A d \in Clients : d # c => cl'[d] = cl[d]
        /\ cl[c].pc = "fill" /\ cl'[c].pc = "built" /\ cl'[c].eofdone = cl[c].eofdone
        /\ cl'[c].kind = cl[c].kind /\ cl'[c].op = cl[c].op /\ cl'[c].buf = cl[c].buf
    BY Builds DEF SameCall
  <1>3. Numbered /\ Stage(cl[c]) /\ InCall(cl[c])
    BY <1>2, ListType DEF CallInv, Staged
  <1>4. \A d \in Clients : /\ cl'[d].kind = cl[d].kind /\ cl'[d].op = cl[d].op /\ cl'[d].buf = cl[d].buf
                           /\ cl'[d].eofdone = cl[d].eofdone /\ (InCall(cl'[d]) <=> InCall(cl[d]))
    BY <1>2 DEF InCall
  <1>5. \A i \in 1 .. Len(rchs) : rchs[i].op # cl[c].op
    BY <1>2, <1>3 DEF Numbered
  <1>6. \A i, j \in 1 .. n : rchs'[i].op = rchs'[j].op => i = j
    BY <1>1, <1>3, <1>5 DEF Numbered, h
  <1>7. \A i \in 1 .. n : rchs'[i].op <= nops'
    BY <1>1, <1>3, ListType DEF Numbered, h
  <1>8. \A d, e \in Clients : InCall(cl'[d]) /\ InCall(cl'[e]) /\ cl'[d].op = cl'[e].op => d = e
    BY <1>3, <1>4 DEF Numbered
  <1>9. \A d \in Clients : InCall(cl'[d]) => cl'[d].pc \notin {"closed", "user"}
    BY <1>2, <1>3, <1>4 DEF Numbered
  <1>10. \A d \in Clients : \A i \in 1 .. n :
           InCall(cl'[d]) /\ rchs'[i].op = cl'[d].op =>
             /\ cl'[d].pc \in {"built", "wait", "copy"}
             /\ rchs'[i].client = d /\ rchs'[i].buf = cl'[d].buf /\ rchs'[i].kind = cl'[d].kind
    <2> SUFFICES ASSUME NEW d \in Clients, NEW i \in 1 .. n, InCall(cl'[d]), rchs'[i].op = cl'[d].op
                 PROVE  /\ cl'[d].pc \in {"built", "wait", "copy"}
                        /\ rchs'[i].client = d /\ rchs'[i].buf = cl'[d].buf /\ rchs'[i].kind = cl'[d].kind
      OBVIOUS
    <2>1. CASE i = n
      <3>1. d = c
        BY <1>1, <1>3, <1>4, <2>1 DEF Numbered, h
      <3> QED BY <1>1, <1>2, <2>1, <3>1 DEF h
    <2>2. CASE i # n
      BY <1>1, <1>2, <1>3, <1>4, <2>2 DEF Numbered
    <2> QED BY <2>1, <2>2
  <1>11. \A i \in 1 .. n : rchs'[i].kind = "release" =>
           InCall(cl'[rchs'[i].client]) /\ cl'[rchs'[i].client].op = rchs'[i].op
    <2> SUFFICES ASSUME NEW i \in 1 .. n, rchs'[i].kind = "release"
                 PROVE  InCall(cl'[rchs'[i].client]) /\ cl'[rchs'[i].client].op = rchs'[i].op
      OBVIOUS
    <2>1. CASE i = n
      <3>1. rchs'[i] = h
        BY <2>1 DEF h
      <3> QED BY <1>1, <1>3, <1>4, <3>1
    <2>2. CASE i # n
      <3>1. i \in 1 .. Len(rchs) /\ rchs'[i] = rchs[i] /\ rchs[i].client \in Clients
        BY <1>1, <2>2, ListType
      <3> QED BY <1>3, <1>4, <3>1 DEF Numbered
    <2> QED BY <2>1, <2>2
  <1>12. \A d \in Clients : cl'[d].eofdone =>
           cl'[d].kind = "release" /\ cl'[d].pc \in {"built", "wait"} /\ Unlisted(d)'
    <2> SUFFICES ASSUME NEW d \in Clients, cl'[d].eofdone
                 PROVE  cl'[d].kind = "release" /\ cl'[d].pc \in {"built", "wait"} /\ Unlisted(d)'
      OBVIOUS
    <2>1. cl[d].kind = "release" /\ cl[d].pc \in {"built", "wait"} /\ Unlisted(d) /\ d # c
      BY <1>2, <1>3, <1>4 DEF Numbered
    <2>2. InCall(cl[d]) /\ cl[d].op # cl[c].op
      BY <1>3, <2>1 DEF Numbered, InCall
    <2> QED BY <1>1, <1>2, <2>1, <2>2 DEF Unlisted, h
  <1>13. Numbered'
    BY <1>1, <1>6, <1>7, <1>8, <1>9, <1>10, <1>11, <1>12 DEF Numbered
  <1>14. Stage(cl'[c])
    <2>1. /\ cl'[c].pos = cl[c].pos /\ cl'[c].begun = cl[c].begun
          /\ cl'[c].wrote = cl[c].wrote /\ cl'[c].got = cl[c].got
          /\ cl'[c].dir = CASE cl[c].kind = "write" -> "out"
                            [] cl[c].kind = "read" -> "in"
                            [] OTHER -> cl[c].dir
      BY Builds
    <2> QED BY <1>2, <1>3, <2>1 DEF Stage
  <1> QED BY <1>2, <1>13, <1>14 DEF CallInv, Staged

LEMMA SendNumber ==
  ASSUME BufInv, TypeInv, CallInv, NEW c \in Clients, Send(c)
  PROVE  CallInv'
  <1>1. /\ cl[c].pc = "built" /\ cl[c].kind \in {"read", "write", "release"}
        /\ \A d \in Clients : d # c => cl'[d] = cl[d]
        /\ cl'[c].dir = cl[c].dir /\ cl'[c].eofdone = cl[c].eofdone /\ cl'[c].got = cl[c].got
        /\ cl'[c].begun = IF cl[c].begun = "none" THEN cl[c].dir ELSE cl[c].begun
        /\ rchs' = rchs /\ nops' = nops
    BY Sends
  <1>2. Numbered /\ Stage(cl[c]) /\ nops \in Nat /\ nops >= nops
    BY ListType DEF CallInv, Staged
  <1>3. CASE cl[c].kind = "write"
    <2>1. /\ cl'[c].pc = "user" /\ cl'[c].kind = "none" /\ cl'[c].pos = cl[c].pos + 1
          /\ cl'[c].wrote = Append(cl[c].wrote, cl[c].op)
      BY <1>3, Sends
    <2>2. ~ cl'[c].eofdone
      BY <1>1, <1>2, <1>3 DEF Numbered
    <2>3. Numbered'
      BY <1>1, <1>2, <1>3, <2>1, <2>2, NoNumber
    <2>4. Stage(cl'[c])
      <3>1. cl'[c].begun \in {"in", "out"} /\ cl'[c].dir = "out" /\ cl'[c].pos \in Nat
        BY <1>1, <1>2, <1>3, <2>1 DEF Stage
      <3> QED BY <2>1, <3>1 DEF Stage
    <2> QED BY <1>1, <2>3, <2>4 DEF CallInv, Staged
  <1>4. CASE cl[c].kind # "write"
    <2>1. /\ cl'[c].pc = "wait" /\ cl'[c].kind = cl[c].kind /\ cl'[c].op = cl[c].op
          /\ cl'[c].buf = cl[c].buf /\ cl'[c].pos = cl[c].pos
          /\ cl'[c].wrote = cl[c].wrote
      BY <1>4, Sends DEF SameCall
    <2>2. Numbered'
      <3>1. /\ cl[c].pc \notin {"closed", "user"} /\ cl'[c].pc \notin {"closed", "user"}
            /\ nops' \in Nat /\ nops' >= nops /\ cl'[c].eofdone = cl[c].eofdone
            /\ cl'[c].pc = "wait" /\ cl'[c].buf = cl[c].buf
        BY <1>1, <1>2, <2>1
      <3> QED BY <1>1, <1>2, <2>1, <3>1, SameNumber
    <2>3. Stage(cl'[c])
      <3>1. cl'[c].begun \in {"in", "out"} /\ cl'[c].dir \in {"in", "out"}
        BY <1>1, <1>2, <1>4 DEF Stage
      <3> QED BY <1>1, <1>2, <2>1, <3>1 DEF Stage
    <2> QED BY <1>1, <2>2, <2>3 DEF CallInv, Staged
  <1> QED BY <1>3, <1>4

LEMMA HandleNumber ==
  ASSUME BufInv, TypeInv, CallInv, Handle
  PROVE  CallInv'
  <1> DEFINE n == Len(rchs)
             m == Head(outbound)
             i == Min(Matches(m.id))
             h == rchs[i]
             old(k) == IF k < i THEN k ELSE k + 1
  <1>1. /\ i \in 1 .. n /\ n \in Nat /\ Len(rchs') = n - 1 /\ h.client \in Clients
        /\ \A k \in 1 .. n - 1 : rchs'[k] = IF k < i THEN rchs[k] ELSE rchs[k + 1]
        /\ nops' = nops
    BY Handles DEF ghosts
  <1>2. \A d \in Clients :
          /\ Handled(cl[d], cl'[d])
          /\ ~ (h.kind = "release" /\ d = h.client) => cl'[d].eofdone = cl[d].eofdone
    BY Handles
  <1>3. Numbered /\ Staged
    BY DEF CallInv
  <1> HIDE DEF i, m
  <1>4. \A k \in 1 .. n - 1 : /\ old(k) \in 1 .. n /\ old(k) # i /\ rchs'[k] = rchs[old(k)]
                              /\ \A j \in 1 .. n - 1 : old(k) = old(j) => k = j
    BY <1>1
  <1> HIDE DEF n, old, h
  <1>5. \A d \in Clients : /\ cl'[d].kind = cl[d].kind /\ cl'[d].op = cl[d].op /\ cl'[d].buf = cl[d].buf
                           /\ (InCall(cl'[d]) <=> InCall(cl[d]))
                           /\ \/ cl'[d].pc = cl[d].pc
                              \/ cl[d].pc = "nap" /\ cl'[d].pc = "rescan"
    BY <1>2 DEF InCall, Handled, SameCall
  <1>6. \A d \in Clients : Unlisted(d) => Unlisted(d)'
    BY <1>1, <1>4, <1>5 DEF Unlisted, n
  <1>7. \A k \in 1 .. n - 1 : rchs'[k].kind = "release" =>
          InCall(cl'[rchs'[k].client]) /\ cl'[rchs'[k].client].op = rchs'[k].op
    <2> SUFFICES ASSUME NEW k \in 1 .. n - 1, rchs'[k].kind = "release"
                 PROVE  InCall(cl'[rchs'[k].client]) /\ cl'[rchs'[k].client].op = rchs'[k].op
      OBVIOUS
    <2>1. old(k) \in 1 .. n /\ rchs'[k] = rchs[old(k)]
      BY <1>4
    <2>2. rchs[old(k)].client \in Clients
      BY <2>1, ListType DEF n
    <2> QED BY <1>3, <1>5, <2>1, <2>2 DEF Numbered, n
  <1>8. \A d \in Clients : cl'[d].eofdone =>
          cl'[d].kind = "release" /\ cl'[d].pc \in {"built", "wait"} /\ Unlisted(d)'
    <2> SUFFICES ASSUME NEW d \in Clients, cl'[d].eofdone
                 PROVE  cl'[d].kind = "release" /\ cl'[d].pc \in {"built", "wait"} /\ Unlisted(d)'
      OBVIOUS
    <2>1. CASE h.kind = "release" /\ d = h.client
      <3>1. InCall(cl[d]) /\ cl[d].op = h.op
        BY <1>1, <1>3, <2>1 DEF Numbered, h, n
      <3>2. cl[d].kind = "release" /\ cl[d].pc \in {"built", "wait", "copy"}
        BY <1>1, <1>3, <2>1, <3>1 DEF Numbered, h, n
      <3>3. cl[d].pc # "copy"
        BY <1>3, <3>2 DEF Staged, Stage
      <3>4. \A k \in 1 .. n - 1 : rchs'[k].op # cl'[d].op
        BY <1>1, <1>3, <1>4, <1>5, <3>1 DEF Numbered, h, n
      <3> QED BY <1>1, <1>5, <3>2, <3>3, <3>4 DEF Unlisted
    <2>2. CASE ~ (h.kind = "release" /\ d = h.client)
      <3>1. cl[d].eofdone
        BY <1>2, <2>2
      <3> QED BY <1>3, <1>5, <1>6, <3>1 DEF Numbered
    <2> QED BY <2>1, <2>2
  <1>9. \A d \in Clients : \A k \in 1 .. n - 1 :
          InCall(cl'[d]) /\ rchs'[k].op = cl'[d].op =>
            /\ cl'[d].pc \in {"built", "wait", "copy"}
            /\ rchs'[k].client = d /\ rchs'[k].buf = cl'[d].buf /\ rchs'[k].kind = cl'[d].kind
    BY <1>3, <1>4, <1>5 DEF Numbered, n
  <1>10. \A k, j \in 1 .. n - 1 : rchs'[k].op = rchs'[j].op => k = j
    BY <1>3, <1>4 DEF Numbered, n
  <1>11. \A k \in 1 .. n - 1 : rchs'[k].op <= nops'
    BY <1>1, <1>3, <1>4 DEF Numbered, n
  <1>12. Numbered'
    BY <1>1, <1>3, <1>5, <1>7, <1>8, <1>9, <1>10, <1>11 DEF Numbered
  <1>13. Staged'
    BY <1>2, <1>3 DEF Staged, Stage, Handled, SameCall
  <1> QED BY <1>12, <1>13 DEF CallInv

LEMMA NumberStep == BufInv /\ TypeInv /\ CallInv /\ [Next]_vars => CallInv'
  <1> SUFFICES ASSUME BufInv, TypeInv, CallInv, [Next]_vars
               PROVE  CallInv'
    OBVIOUS
  <1>1. ASSUME NEW c \in Clients, Quiet(c)
        PROVE  CallInv'
    BY <1>1, QuietNumber, QuietStage DEF CallInv
  <1>2. ASSUME UNCHANGED <<cl, rchs>>, nops' \in {nops, nops + 1}
        PROVE  CallInv'
    <2>1. nops' >= nops /\ nops' \in Nat
      BY <1>2, ListType
    <2>2. \A i \in 1 .. Len(rchs) : rchs[i].op <= nops'
      BY <2>1, ListType DEF CallInv, Numbered
    <2> QED BY <1>2, <2>2 DEF CallInv, Numbered, Staged, Unlisted
  <1>3. CASE Card \/ (\E c \in Clients : SendText(c)) \/ UNCHANGED vars
    BY <1>2, <1>3 DEF Card, ProcessText, ProcessFile, SendText, vars, driver, ghosts
  <1>4. ASSUME NEW c \in Clients, Client(c)
        PROVE  CallInv'
    BY <1>1, <1>4, BuildNumber, SendNumber DEF Client, Quiet
  <1>5. ASSUME NEW c \in Clients, (\E f \in Files : Open(c, f)) \/ Close(c) \/ \E k \in Kinds : Call(c, k)
        PROVE  CallInv'
    BY <1>1, <1>5 DEF Quiet
  <1> QED BY <1>3, <1>4, <1>5, HandleNumber DEF Next

-----------------------------------------------------------------------------
(* Messages in flight have numbers of their own.                           *)
Apart ==
  /\ \A i \in Awaited : /\ i \in 1 .. Len(inbound) /\ inbound[i].client \in Clients
                        /\ inbound[i].op \in Nat /\ inbound[i].op > 0
                        /\ \E k \in 1 .. Len(rchs) : rchs[k].op = inbound[i].op
  /\ \A i, j \in Awaited : inbound[i].op = inbound[j].op => i = j
  /\ \A j \in 1 .. Len(outbound) :
       /\ j \in 1 .. Len(rchs) /\ rchs[j].op = outbound[j].op /\ rchs[j].id = outbound[j].id
       /\ \A i \in Awaited : outbound[j].op # inbound[i].op
       /\ \A k \in 1 .. Len(outbound) : outbound[j].op = outbound[k].op => j = k
  /\ \A c \in Clients : cl[c].pc = "built" =>
       /\ ~ Unlisted(c)
       /\ \A i \in Awaited : inbound[i].op # cl[c].op
       /\ \A j \in 1 .. Len(outbound) : outbound[j].op # cl[c].op

LEMMA AllApart ==
  ASSUME BufInv, TypeInv, MatchInv, Numbered, ~ lost
  PROVE  Apart
  <1> DEFINE n == Len(rchs)
             p == Len(outbound)
             a == Cardinality(Awaited)
  <1>1. /\ n \in Nat /\ p \in Nat /\ a \in Nat /\ InOrder
        /\ Cardinality(ToBeSent) = IF ToBeSent = {} THEN 0 ELSE 1
    BY Queues, WhereType, Senders DEF MatchInv
  <1>2. n = p + a + Cardinality(ToBeSent)
    BY <1>1 DEF InOrder
  <1>3. \A i \in Awaited : Place(i) \in p + 1 .. p + a
    BY PlaceBound
  <1>4. \A i \in Awaited : Tag(rchs[Place(i)]) = Tag(inbound[i])
    BY <1>1 DEF InOrder
  <1>5. \A j \in 1 .. p : Tag(rchs[j]) = Tag(outbound[j])
    BY <1>1 DEF InOrder
  <1>6. \A c \in ToBeSent : Tag(rchs[n]) = <<(lastId + 1) % IdSpan, cl[c].op>>
    BY <1>1 DEF InOrder
  <1>7. ASSUME NEW i \in Awaited, NEW j \in Awaited, i < j
        PROVE  Place(i) < Place(j)
    <2> DEFINE u == Upto(inbound, Answerable, i)
               w == Upto(inbound, Answerable, j)
    <2>1. Awaited = Where(inbound, Answerable) /\ i \in 1 .. Len(inbound) /\ j \in 1 .. Len(inbound)
          /\ inbound \in Seq(Mail) /\ Len(inbound) \in Nat
      BY Queues DEF Awaited
    <2>2. u \cup {j} \subseteq w /\ j \notin u
      BY <1>7, <2>1 DEF Upto, Where
    <2>3. IsFiniteSet(u) /\ IsFiniteSet(w) /\ Cardinality(u) \in Nat /\ Cardinality(w) \in Nat
      BY <2>1, WhereType
    <2>4. Place(i) = p + Cardinality(u) /\ Place(j) = p + Cardinality(w)
      BY Queues
    <2> HIDE DEF u, w
    <2>5. Cardinality(u \cup {j}) = Cardinality(u) + 1
      BY <2>2, <2>3, FS_AddElement
    <2>6. Cardinality(u \cup {j}) <= Cardinality(w)
      BY <2>2, <2>3, FS_Subset
    <2> QED BY <1>1, <2>3, <2>4, <2>5, <2>6
  <1> HIDE DEF a, n, p
  <1>8. \A i \in Awaited : Place(i) \in 1 .. n /\ Place(i) > p /\ (ToBeSent # {} => Place(i) < n)
    BY <1>1, <1>2, <1>3
  <1>9. \A i \in Awaited : /\ i \in 1 .. Len(inbound) /\ inbound[i].client \in Clients
                           /\ inbound[i].op \in Nat /\ inbound[i].op > 0
    <2> SUFFICES ASSUME NEW i \in Awaited
                 PROVE  /\ i \in 1 .. Len(inbound) /\ inbound[i].client \in Clients
                        /\ inbound[i].op \in Nat /\ inbound[i].op > 0
      OBVIOUS
    <2>1. i \in 1 .. Len(inbound) /\ inbound[i].client # NoClient
      BY DEF Awaited
    <2>2. inbound[i] \in Mail
      BY <2>1, Queues
    <2> QED BY <2>1, <2>2, BridgeAssumption DEF Mail, Messages, Ops
  <1>10. \A i \in Awaited : rchs[Place(i)].op = inbound[i].op
    BY <1>4 DEF Tag
  <1>11. \A j \in 1 .. p : j \in 1 .. n /\ rchs[j].op = outbound[j].op /\ rchs[j].id = outbound[j].id
    <2>1. p <= n
      <3>1. Cardinality(ToBeSent) \in Nat
        BY <1>1
      <3> QED BY <1>1, <1>2, <3>1
    <2> QED BY <1>1, <1>5, <2>1 DEF Tag
  <1>12. \A i, j \in 1 .. n : rchs[i].op = rchs[j].op => i = j
    BY DEF Numbered, n
  <1>13. \A i, j \in Awaited : inbound[i].op = inbound[j].op => i = j
    <2> SUFFICES ASSUME NEW i \in Awaited, NEW j \in Awaited, inbound[i].op = inbound[j].op
                 PROVE  i = j
      OBVIOUS
    <2>1. Place(i) = Place(j)
      BY <1>8, <1>10, <1>12
    <2>2. Place(i) \in Nat /\ Place(j) \in Nat /\ i \in Nat /\ j \in Nat
      BY <1>1, <1>8, <1>9, Queues
    <2>3. ~ (i < j) /\ ~ (j < i)
      BY <1>7, <2>1, <2>2
    <2> QED BY <2>2, <2>3
  <1>14. \A j \in 1 .. p : \A i \in Awaited : outbound[j].op # inbound[i].op
    <2> SUFFICES ASSUME NEW j \in 1 .. p, NEW i \in Awaited, outbound[j].op = inbound[i].op
                 PROVE  FALSE
      OBVIOUS
    <2>1. j = Place(i)
      BY <1>8, <1>10, <1>11, <1>12
    <2> QED BY <1>1, <1>8, <2>1
  <1>15. ASSUME NEW c \in Clients, cl[c].pc = "built"
         PROVE  /\ ~ Unlisted(c)
                /\ \A i \in Awaited : inbound[i].op # cl[c].op
                /\ \A j \in 1 .. p : outbound[j].op # cl[c].op
    <2>1. c \in ToBeSent /\ ToBeSent # {}
      BY <1>15 DEF ToBeSent
    <2>2. rchs[n].op = cl[c].op /\ n \in 1 .. n /\ p < n
      BY <1>1, <1>2, <1>6, <2>1 DEF Tag
    <2>3. ~ Unlisted(c)
      BY <2>2 DEF Unlisted, n
    <2>4. \A i \in Awaited : inbound[i].op # cl[c].op
      <3> SUFFICES ASSUME NEW i \in Awaited, inbound[i].op = cl[c].op
                   PROVE  FALSE
        OBVIOUS
      <3>1. Place(i) = n /\ Place(i) < n
        BY <1>8, <1>10, <1>12, <2>1, <2>2
      <3> QED BY <1>1, <3>1
    <2>5. \A j \in 1 .. p : outbound[j].op # cl[c].op
      <3> SUFFICES ASSUME NEW j \in 1 .. p, outbound[j].op = cl[c].op
                   PROVE  FALSE
        OBVIOUS
      <3>1. j = n
        BY <1>11, <1>12, <2>2
      <3> QED BY <1>1, <2>2, <3>1
    <2> QED BY <2>3, <2>4, <2>5
  <1>16. \A j, k \in 1 .. p : outbound[j].op = outbound[k].op => j = k
    BY <1>11, <1>12
  <1>17. \A i \in Awaited : \E k \in 1 .. Len(rchs) : rchs[k].op = inbound[i].op
    BY <1>8, <1>10 DEF n
  <1> QED BY <1>9, <1>11, <1>13, <1>14, <1>15, <1>16, <1>17 DEF Apart, n, p

-----------------------------------------------------------------------------
(* A reader has its count when its handler is off the list, not before.    *)
Unanswered ==
  \A c \in Clients : cl[c].kind = "read" =>
    /\ cl[c].pc \in {"built", "wait"} /\ ~ Unlisted(c) => clidata[cl[c].buf] = Kbuf
    /\ cl[c].pc = "copy" => Unlisted(c) /\ cl[c].buf \in Bufs

LEMMA ReaderBuffer ==
  ASSUME BufInv, TypeInv, NEW c \in Clients, cl[c].kind = "read", cl[c].pc \in {"built", "wait"}
  PROVE  cl[c].buf \in Bufs
  BY DEF BufInv, PoolType, ClientOK, TypeInv, ClientTyped

LEMMA AnswerInit == Init => Unanswered
  BY DEF Init, Fresh, Unanswered

LEMMA AnswerStep ==
  ASSUME BufInv, TypeInv, CallInv, Unanswered, [Next]_vars
  PROVE  Unanswered'
  <1>1. ASSUME NEW c \in Clients, Quiet(c)
        PROVE  Unanswered'
    <2> DEFINE r == cl[c]
               s == cl'[c]
    <2>1. /\ rchs' = rchs /\ clidata' = clidata
          /\ \A d \in Clients : d # c => cl'[d] = cl[d]
          /\ Moves1(r, s)
      BY <1>1, QuietMoves
    <2>2. \A d \in Clients : d # c => (Unlisted(d)' <=> Unlisted(d))
      BY <2>1 DEF Unlisted
    <2>3. CASE Wakes(r, s)
      <3>1. Unlisted(c) /\ r.buf \in Bufs
        BY <2>3, ReaderBuffer DEF Wakes, Unanswered
      <3>2. Unlisted(c)' /\ s.buf = r.buf /\ s.pc = "copy"
        BY <2>1, <2>3, <3>1 DEF Wakes, Unlisted
      <3> QED BY <2>1, <2>2, <3>1, <3>2 DEF Unanswered
    <2>4. CASE Sleeps(r, s)
      <3>1. s.pc = r.pc /\ s.kind = r.kind /\ s.buf = r.buf /\ (Unlisted(c)' <=> Unlisted(c))
        BY <2>1, <2>4 DEF Sleeps, SameCall, Unlisted
      <3> QED BY <2>1, <2>2, <3>1 DEF Unanswered
    <2>5. CASE ~ Wakes(r, s) /\ ~ Sleeps(r, s)
      <3>1. s.pc \notin {"built", "wait", "copy"}
        BY <2>1, <2>5, FreshStart DEF Moves1, Looks, Takes, GivesUp, Copies, Calls
      <3> QED BY <2>1, <2>2, <3>1 DEF Unanswered
    <2> QED BY <2>3, <2>4, <2>5
  <1>2. ASSUME NEW c \in Clients, BuildRch(c)
        PROVE  Unanswered'
    <2>1. /\ \A d \in Clients : d # c => cl'[d] = cl[d]
          /\ cl[c].pc = "fill" /\ cl'[c].pc = "built" /\ cl'[c].kind = cl[c].kind
          /\ cl'[c].op = cl[c].op /\ cl'[c].buf = cl[c].buf
          /\ Len(rchs') = Len(rchs) + 1 /\ Len(rchs) \in Nat
          /\ \A i \in 1 .. Len(rchs) : rchs'[i] = rchs[i]
          /\ \A b \in Bufs : b # cl[c].buf => clidata'[b] = clidata[b]
          /\ cl[c].buf \in Bufs => clidata'[cl[c].buf] = Kbuf
      BY <1>2, Builds DEF SameCall
    <2>0. rchs'[Len(rchs) + 1].op = cl[c].op
      <3>1. rchs'[Len(rchs) + 1] = Holder(c)
        BY <1>2, Builds
      <3> QED BY <3>1 DEF Holder
    <2>2. ASSUME NEW d \in Clients, d # c, cl[d].kind = "read"
          PROVE  /\ cl[d].pc \in {"built", "wait"} /\ ~ Unlisted(d)' => clidata'[cl[d].buf] = Kbuf
                 /\ cl[d].pc = "copy" => Unlisted(d)' /\ cl[d].buf \in Bufs
      <3>1. InCall(cl[d]) /\ InCall(cl[c]) /\ cl[d].op # cl[c].op
        BY <2>1, <2>2, ListType DEF InCall, CallInv, Numbered
      <3>2. Unlisted(d)' <=> Unlisted(d)
        <4>1. 1 .. Len(rchs') = (1 .. Len(rchs)) \cup {Len(rchs) + 1}
          BY <2>1
        <4> QED BY <2>0, <2>1, <2>2, <3>1, <4>1 DEF Unlisted
      <3> QED BY <2>1, <2>2, <3>2, ReaderBuffer DEF Unanswered
    <2>3. cl[c].kind = "read" => cl[c].buf \in Bufs
      BY <2>1 DEF BufInv, PoolType, ClientOK
    <2> QED BY <2>1, <2>2, <2>3 DEF Unanswered
  <1>3. ASSUME NEW c \in Clients, Send(c)
        PROVE  Unanswered'
    <2>1. /\ cl[c].pc = "built" /\ rchs' = rchs /\ clidata' = clidata
          /\ \A d \in Clients : d # c => cl'[d] = cl[d]
          /\ cl[c].kind = "write" => cl'[c].kind = "none"
          /\ cl[c].kind # "write" => cl'[c].pc = "wait" /\ cl'[c].kind = cl[c].kind
                                     /\ cl'[c].op = cl[c].op /\ cl'[c].buf = cl[c].buf
      BY <1>3, Sends DEF SameCall
    <2> QED BY <2>1 DEF Unanswered, Unlisted
  <1>4. CASE UNCHANGED <<cl, rchs, clidata>>
    BY <1>4 DEF Unanswered, Unlisted
  <1>5. CASE Handle
    <2> DEFINE n == Len(rchs)
               m == Head(outbound)
               i == Min(Matches(m.id))
               h == rchs[i]
    <2>1. /\ i \in 1 .. n /\ n \in Nat /\ Len(rchs') = n - 1
          /\ \A k \in 1 .. n - 1 : rchs'[k] = IF k < i THEN rchs[k] ELSE rchs[k + 1]
          /\ \A d \in Clients : Handled(cl[d], cl'[d])
          /\ \A b \in Bufs : clidata'[b] = IF h.kind = "read" /\ b = h.buf
                                             THEN m.count ELSE clidata[b]
      BY <1>5, Handles
    <2> HIDE DEF i, m
    <2>2. SUFFICES ASSUME NEW d \in Clients, cl'[d].kind = "read"
                   PROVE  /\ cl'[d].pc \in {"built", "wait"} /\ ~ Unlisted(d)'
                               => clidata'[cl'[d].buf] = Kbuf
                          /\ cl'[d].pc = "copy" => Unlisted(d)' /\ cl'[d].buf \in Bufs
      BY DEF Unanswered
    <2>3. /\ cl[d].kind = "read" /\ cl'[d].buf = cl[d].buf /\ cl'[d].op = cl[d].op
          /\ (cl'[d].pc \in {"built", "wait", "copy"} => cl[d].pc = cl'[d].pc)
      BY <2>1, <2>2 DEF Handled, SameCall
    <2>4. Unlisted(d) => Unlisted(d)'
      <3>1. \A k \in 1 .. n - 1 : \E j \in 1 .. n : rchs'[k] = rchs[j]
        BY <2>1
      <3> QED BY <2>1, <2>3, <3>1 DEF Unlisted
    <2>5. ASSUME cl[d].pc \in {"built", "wait"}, ~ Unlisted(d)'
          PROVE  clidata'[cl[d].buf] = Kbuf
      <3>1. cl[d].buf \in Bufs /\ InCall(cl[d])
        BY <2>3, <2>5, ReaderBuffer DEF InCall
      <3>2. PICK k \in 1 .. n - 1 : rchs'[k].op = cl[d].op
        BY <2>1, <2>3, <2>5 DEF Unlisted
      <3>3. PICK j \in 1 .. n : j # i /\ rchs[j].op = cl[d].op
        <4>1. CASE k < i
          <5>1. k \in 1 .. n /\ k # i /\ rchs'[k] = rchs[k]
            BY <2>1, <4>1
          <5> QED BY <3>2, <5>1
        <4>2. CASE ~ (k < i)
          <5>1. k + 1 \in 1 .. n /\ k + 1 # i /\ rchs'[k] = rchs[k + 1]
            BY <2>1, <4>2
          <5> QED BY <3>2, <5>1
        <4> QED BY <4>1, <4>2
      <3>4. rchs[j].buf = cl[d].buf
        BY <3>1, <3>3 DEF CallInv, Numbered
      <3>5. h.buf # cl[d].buf
        BY <2>1, <3>1, <3>3, <3>4, Buffers DEF BufInv, OneHolder
      <3>6. ~ Unlisted(d)
        BY <3>3 DEF Unlisted
      <3> QED BY <2>1, <2>3, <2>5, <3>1, <3>5, <3>6 DEF Unanswered
    <2> QED BY <2>3, <2>4, <2>5 DEF Unanswered
  <1>6. CASE Card \/ (\E c \in Clients : SendText(c)) \/ UNCHANGED vars
    BY <1>4, <1>6 DEF Card, ProcessText, ProcessFile, SendText, vars, driver
  <1>7. ASSUME NEW c \in Clients, Client(c)
        PROVE  Unanswered'
    BY <1>1, <1>2, <1>3, <1>7 DEF Client, Quiet
  <1>8. ASSUME NEW c \in Clients, (\E f \in Files : Open(c, f)) \/ Close(c) \/ \E k \in Kinds : Call(c, k)
        PROVE  Unanswered'
    BY <1>1, <1>8 DEF Quiet
  <1> QED BY <1>5, <1>6, <1>7, <1>8 DEF Next

-----------------------------------------------------------------------------
(* What a message says of its process, and whose transfer the card is at.  *)
Sent(c) == {i \in 1 .. Len(inbound) : inbound[i].client = c}

\* The message is that of the call its process is in; all others are writes,
\* whose processes do not wait.
Current(m) == InCall(cl[m.client]) /\ m.op = cl[m.client].op

Written(m) == m.write /\ ~ m.eof

FromCall(m, r) ==
  /\ r.pc = "wait" /\ m.buf = r.buf
  /\ m.eof <=> r.kind = "release"
  /\ r.kind \in {"read", "release"}
  /\ r.kind = "read" => ~ m.write

Letter(m) ==
  /\ m.op <= nops /\ cl[m.client].begun # "none" /\ m.chan = cl[m.client].chan
  /\ InCall(cl[m.client]) => m.op <= cl[m.client].op
  /\ m.eof => ~ m.first
  /\ Current(m) => FromCall(m, cl[m.client])
  /\ ~ Current(m) => Written(m)
  /\ Written(m) => content[m.buf] = [op |-> m.op, data |-> m.op]
  /\ \A j \in 1 .. Len(rchs) : rchs[j].op = m.op => rchs[j].buf = m.buf

Letters ==
  /\ \A i \in Awaited : Letter(inbound[i])
  /\ \A i, j \in Awaited : i < j /\ inbound[i].client = inbound[j].client =>
       inbound[i].op < inbound[j].op
  /\ \A c \in Clients : cl[c].pc = "wait" /\ Sent(c) # {} =>
       \E i \in Sent(c) : inbound[i].op = cl[c].op
  /\ \A c \in Clients : cl[c].pc = "built" /\ cl[c].kind = "write" =>
       content[cl[c].buf] = [op |-> cl[c].op, data |-> cl[c].op]

\* The card is through with the transfer.
Ended(c) == cl[c].kind = "release" /\ cl[c].pc = "wait" /\ Sent(c) = {}

Turns ==
  /\ active \subseteq Clients /\ IsFiniteSet(active)
  /\ \A c \in Clients : cl[c].begun = "none" => Sent(c) = {}
  /\ \A c \in Clients : cl[c].eofdone => Ended(c)
  /\ \A c \in active : cl[c].begun # "none" /\ ~ Ended(c)
  /\ \A c \in active : c \notin tangled =>
       active = {c} /\ file # Closed /\ file.chan = cl[c].chan
  /\ active = {} => file = Closed

\* Until its reader has copied it, a buffer goes to nobody else.
Guarded ==
  \A c \in Clients :
    cl[c].kind = "read" /\ (cl[c].pc = "copy" \/ (cl[c].pc = "wait" /\ Unlisted(c))) =>
      /\ \A i \in 1 .. Len(rchs) : rchs[i].buf # cl[c].buf
      /\ \A d \in Clients : cl[d].pc = "fill" => cl[d].buf # cl[c].buf

Before ==
  BufInv /\ TypeInv /\ MatchInv /\ CallInv /\ Unanswered

MailInv == Letters /\ Turns

LEMMA MailIndex ==
  /\ Awaited = {i \in 1 .. Len(inbound) : inbound[i].client # NoClient}
  /\ \A c \in Clients : \A i : i \in Sent(c) <=> i \in Awaited /\ inbound[i].client = c
  /\ \A c \in Clients : Sent(c) \subseteq Awaited
  BY BridgeAssumption DEF Awaited, Sent

\* A process goes on by itself: nothing of what it sent changes meaning.
LEMMA QuietMail ==
  ASSUME Before, MailInv, ~ lost, NEW c \in Clients, Quiet(c)
  PROVE  MailInv'
  <1> DEFINE r == cl[c]
             s == cl'[c]
  <1>1. /\ UNCHANGED <<rchs, inbound, content, file, active>>
        /\ \A d \in Clients : d # c => cl'[d] = cl[d]
        /\ Moves1(r, s)
        /\ nops' >= nops /\ (~ Calls(r, s) => nops' = nops)
        /\ ~ Opens(r, s) => tangled' = tangled
        /\ Opens(r, s) => tangled' = tangled \ {c}
    BY QuietMoves DEF Before, card
  <1>2. Awaited' = Awaited /\ \A d : Sent(d)' = Sent(d)
    BY <1>1 DEF Awaited, Sent
  <1>3. Letters /\ Turns /\ Numbered /\ Stage(r) /\ Apart /\ nops \in Nat /\ nops' \in Nat
    <2>1. nops' \in Nat
      BY <1>1, ListType DEF Calls, Before
    <2> QED BY <2>1, AllApart, ListType DEF Before, MailInv, CallInv, Staged
  <1>4. \A i \in Sent(c) : /\ i \in Awaited /\ inbound[i].client = c
                           /\ Letter(inbound[i]) /\ inbound[i].op \in Nat
    BY <1>3, MailIndex DEF Letters, Apart
  <1>5. r.pc \notin {"closed", "user"} => InCall(r) /\ r.op \in Nat
    BY ListType DEF Before
  <1>6. Wakes(r, s) => Sent(c) = {}
    <2> SUFFICES ASSUME Wakes(r, s), Sent(c) # {}
                 PROVE  FALSE
      OBVIOUS
    <2>1. r.pc = "wait" /\ r.kind = "read" /\ clidata[r.buf] # Kbuf
      BY DEF Wakes
    <2>2. Unlisted(c)
      BY <2>1 DEF Before, Unanswered
    <2>3. PICK i \in Sent(c) : inbound[i].op = cl[c].op
      BY <1>3, <2>1 DEF Letters
    <2> QED BY <1>3, <1>4, <2>2, <2>3 DEF Apart, Unlisted
  <1>7. Leaves(r, s) \/ Opens(r, s) => Sent(c) = {} /\ c \notin active
    <2> SUFFICES ASSUME Leaves(r, s) \/ Opens(r, s)
                 PROVE  Sent(c) = {} /\ c \notin active
      OBVIOUS
    <2>1. r.eofdone \/ r.begun = "none"
      BY <1>3 DEF Leaves, Opens, Stage
    <2>2. CASE r.eofdone
      BY <1>3, <2>2 DEF Turns, Ended
    <2>3. CASE r.begun = "none"
      BY <1>3, <2>3 DEF Turns
    <2> QED BY <2>1, <2>2, <2>3
  <1>8. \/ Sent(c) = {}
        \/ Sleeps(r, s)
        \/ /\ r.pc # "wait" /\ s.pc # "wait" /\ s.begun = r.begun /\ s.chan = r.chan
           /\ \/ ~ InCall(s)
              \/ s.op = r.op /\ InCall(r)
              \/ s.op = nops + 1
    BY <1>1, <1>5, <1>6, <1>7
       DEF Moves1, Looks, Takes, GivesUp, Copies, Calls, Keeps, SameCall, InCall
  <1>9. ASSUME NEW i \in Awaited
        PROVE  Letter(inbound[i])'
    <2> DEFINE m == inbound[i]
    <2>1. inbound'[i] = m /\ m.client \in Clients /\ Letter(m) /\ m.op \in Nat
      BY <1>1, <1>3 DEF Letters, Apart
    <2>2. m.op <= nops'
      BY <1>1, <1>3, <2>1 DEF Letter
    <2>3. CASE m.client # c
      BY <1>1, <2>1, <2>2, <2>3 DEF Letter, Current
    <2>4. CASE m.client = c
      <3>1. i \in Sent(c)
        BY <2>1, <2>4, MailIndex
      <3>2. CASE Sleeps(r, s)
        <4>1. SameCall(r, s) /\ s.begun = r.begun /\ s.chan = r.chan /\ s.pc = r.pc
          BY <3>2 DEF Sleeps, Keeps
        <4> QED BY <1>1, <2>1, <2>2, <2>4, <4>1 DEF Letter, Current, FromCall, SameCall, InCall
      <3>3. CASE /\ r.pc # "wait" /\ s.pc # "wait" /\ s.begun = r.begun /\ s.chan = r.chan
                 /\ \/ ~ InCall(s)
                    \/ s.op = r.op /\ InCall(r)
                    \/ s.op = nops + 1
        <4>1. ~ Current(m)
          BY <2>1, <2>4, <3>3 DEF Letter, FromCall
        <4>2. ~ (InCall(s) /\ m.op = s.op)
          BY <1>3, <2>1, <2>4, <3>3, <4>1 DEF Current, Letter
        <4>3. InCall(s) => m.op <= s.op
          BY <1>3, <2>1, <2>4, <3>3 DEF Letter
        <4> QED BY <1>1, <2>1, <2>2, <2>4, <3>3, <4>1, <4>2, <4>3 DEF Letter, Current
      <3> QED BY <1>8, <3>1, <3>2, <3>3
    <2> QED BY <2>3, <2>4
  <1>10. ASSUME NEW d \in Clients, cl'[d].pc = "wait", Sent(d) # {}
         PROVE  \E i \in Sent(d) : inbound[i].op = cl'[d].op
    <2>1. cl[d].pc = "wait" /\ cl'[d].op = cl[d].op
      <3>1. CASE d = c
        BY <1>8, <1>10, <3>1 DEF Sleeps, SameCall
      <3>2. CASE d # c
        BY <1>1, <1>10, <3>2
      <3> QED BY <3>1, <3>2
    <2> QED BY <1>3, <1>10, <2>1 DEF Letters
  <1>11. s.pc # "built"
    BY <1>1, FreshStart
       DEF Moves1, Looks, Takes, Sleeps, GivesUp, Wakes, Copies, Calls
  <1>12. Letters'
    BY <1>1, <1>2, <1>3, <1>9, <1>10, <1>11 DEF Letters
  <1>13. ASSUME NEW d \in Clients, cl'[d].begun = "none"
         PROVE  Sent(d) = {}
    <2>1. CASE d = c
      BY <1>3, <1>8, <1>13, <2>1 DEF Sleeps, Keeps, Turns
    <2>2. CASE d # c
      BY <1>1, <1>3, <1>13, <2>2 DEF Turns
    <2> QED BY <2>1, <2>2
  <1>14. ASSUME NEW d \in Clients, cl'[d].eofdone
         PROVE  Ended(d)'
    <2>1. CASE d = c
      <3>1. ~ Leaves(r, s) /\ ~ Opens(r, s)
        BY <1>14, <2>1, FreshStart
      <3>2. s.eofdone = r.eofdone
        BY <1>1, <3>1 DEF Moves1, Looks, Takes, Sleeps, GivesUp, Wakes, Copies, Calls, Keeps
      <3>3. r.kind = "release" /\ r.pc = "wait" /\ Sent(c) = {}
        BY <1>3, <1>14, <2>1, <3>2 DEF Turns, Ended
      <3>4. Sleeps(r, s)
        BY <1>1, <3>1, <3>3 DEF Moves1, Looks, Takes, GivesUp, Wakes, Copies, Calls
      <3> QED BY <1>2, <2>1, <3>3, <3>4 DEF Sleeps, SameCall, Ended
    <2>2. CASE d # c
      BY <1>1, <1>2, <1>3, <1>14, <2>2 DEF Turns, Ended
    <2> QED BY <2>1, <2>2
  <1>15. ASSUME NEW d \in active
         PROVE  /\ d \in Clients /\ cl'[d].begun # "none" /\ ~ Ended(d)' /\ cl'[d].chan = cl[d].chan
                /\ (d \in tangled' <=> d \in tangled)
    <2>1. d \in Clients /\ cl[d].begun # "none" /\ ~ Ended(d)
      BY <1>3 DEF Turns
    <2>2. CASE d = c
      <3>1. ~ Leaves(r, s) /\ ~ Opens(r, s)
        BY <1>7, <1>15, <2>2
      <3>2. s.begun = r.begun /\ s.chan = r.chan
        BY <1>1, <3>1 DEF Moves1, Looks, Takes, Sleeps, GivesUp, Wakes, Copies, Calls, Keeps
      <3>3. s.pc = "wait" => Sleeps(r, s)
        BY <1>1, <3>1 DEF Moves1, Looks, Takes, GivesUp, Wakes, Copies, Calls
      <3>4. ~ Ended(c)'
        BY <1>2, <2>1, <2>2, <3>3 DEF Ended, Sleeps, SameCall
      <3> QED BY <1>1, <2>1, <2>2, <3>1, <3>2, <3>4
    <2>3. CASE d # c
      BY <1>1, <1>2, <2>1, <2>3 DEF Ended
    <2> QED BY <2>2, <2>3
  <1>16. Turns'
    BY <1>1, <1>2, <1>3, <1>13, <1>14, <1>15 DEF Turns
  <1> QED BY <1>12, <1>16 DEF MailInv

\* No message in flight has the buffer of a process that fills one.
LEMMA BuildMail ==
  ASSUME Before, MailInv, ~ lost, NEW c \in Clients, BuildRch(c)
  PROVE  MailInv'
  <1> DEFINE n == Len(rchs) + 1
  <1>1. /\ cl[c].pc = "fill" /\ cl'[c].pc = "built" /\ cl[c].kind \in {"read", "write", "release"}
        /\ \A d \in Clients : d # c => cl'[d] = cl[d]
        /\ cl'[c].chan = cl[c].chan /\ cl'[c].begun = cl[c].begun /\ cl'[c].eofdone = cl[c].eofdone
        /\ cl'[c].kind = cl[c].kind /\ cl'[c].op = cl[c].op /\ cl'[c].buf = cl[c].buf
        /\ UNCHANGED <<inbound, file, active, tangled, nops>>
        /\ Len(rchs') = n /\ Len(rchs) \in Nat
        /\ \A i \in 1 .. Len(rchs) : rchs'[i] = rchs[i]
        /\ \A b \in Bufs : b # cl[c].buf => content'[b] = content[b]
        /\ cl[c].kind # "write" => content' = content
        /\ cl[c].kind = "write" => content'[cl[c].buf] = [op |-> cl[c].op, data |-> cl[c].op]
    BY Builds DEF SameCall, card, ghosts, Before
  <1>2. rchs'[n].op = cl[c].op /\ 1 .. n = (1 .. Len(rchs)) \cup {n}
    <2>1. rchs'[n] = Holder(c)
      BY Builds DEF Before
    <2>2. 1 .. n = (1 .. Len(rchs)) \cup {n}
      BY <1>1
    <2> QED BY <2>1, <2>2 DEF Holder
  <1>3. Letters /\ Turns /\ Numbered /\ Apart /\ InCall(cl[c])
    BY <1>1, AllApart, ListType DEF Before, MailInv, CallInv
  <1>4. Awaited' = Awaited /\ \A d : Sent(d)' = Sent(d)
    BY <1>1 DEF Awaited, Sent
  <1>5. \A i \in 1 .. Len(rchs) : rchs[i].op # cl[c].op
    BY <1>1, <1>3 DEF Numbered
  <1>6. ASSUME NEW b \in Bufs, NEW k \in 1 .. Len(rchs), rchs[k].buf = b
        PROVE  content'[b] = content[b]
    <2>1. CASE cl[c].kind = "write"
      <3>1. Holding(cl[c])
        BY <1>1, <2>1 DEF Holding, Before, BufInv, PoolType, ClientOK
      <3>2. rchs[k].buf # cl[c].buf
        BY <3>1 DEF Before, BufInv, OneHolder
      <3> QED BY <1>1, <1>6, <3>2
    <2>2. CASE cl[c].kind # "write"
      BY <1>1, <2>2
    <2> QED BY <2>1, <2>2
  <1>7. ASSUME NEW i \in Awaited
        PROVE  Letter(inbound[i])'
    <2> DEFINE m == inbound[i]
    <2>1. inbound'[i] = m /\ m.client \in Clients /\ Letter(m) /\ m \in Mail
      <3>1. i \in 1 .. Len(inbound) /\ inbound \in Seq(Mail)
        BY Queues DEF Awaited, Before
      <3>2. m \in Mail
        BY <3>1
      <3> QED BY <1>1, <1>3, <3>2 DEF Letters, Apart
    <2>2. PICK k \in 1 .. Len(rchs) : rchs[k].op = m.op
      BY <1>3 DEF Apart
    <2>3. rchs[k].buf = m.buf /\ m.op # cl[c].op
      BY <1>5, <2>1, <2>2 DEF Letter
    <2>4. \A j \in 1 .. Len(rchs') : rchs'[j].op = m.op => rchs'[j].buf = m.buf
      BY <1>1, <1>2, <2>1, <2>3 DEF Letter
    <2>5. Written(m) => content'[m.buf] = [op |-> m.op, data |-> m.op]
      <3> SUFFICES ASSUME Written(m)
                   PROVE  content'[m.buf] = [op |-> m.op, data |-> m.op]
        OBVIOUS
      <3>1. m.buf \in Bufs /\ content[m.buf] = [op |-> m.op, data |-> m.op]
        BY <2>1, MailIndex DEF Mail, Written, Letter
      <3> QED BY <1>6, <2>2, <2>3, <3>1
    <2>6. /\ cl'[m.client].begun = cl[m.client].begun /\ cl'[m.client].chan = cl[m.client].chan
          /\ cl'[m.client].op = cl[m.client].op /\ (InCall(cl'[m.client]) <=> InCall(cl[m.client]))
      BY <1>1, <2>1 DEF InCall
    <2>7. Current(m) => m.client # c
      BY <2>3 DEF Current
    <2> QED BY <1>1, <2>1, <2>4, <2>5, <2>6, <2>7 DEF Letter, Current
  <1>8. ASSUME NEW d \in Clients, cl'[d].pc = "built", cl'[d].kind = "write"
        PROVE  content'[cl'[d].buf] = [op |-> cl'[d].op, data |-> cl'[d].op]
    <2>1. CASE d = c
      BY <1>1, <1>8, <2>1
    <2>2. CASE d # c
      <3>1. cl'[d] = cl[d] /\ ~ Unlisted(d) /\ InCall(cl[d])
        BY <1>1, <1>3, <1>8, <2>2, ListType DEF Apart, Before
      <3>2. PICK k \in 1 .. Len(rchs) : rchs[k].op = cl[d].op
        BY <3>1 DEF Unlisted
      <3>3. rchs[k].buf = cl[d].buf
        BY <1>3, <3>1, <3>2 DEF Numbered
      <3>4. cl[d].buf \in Bufs
        BY <1>8, <3>1 DEF Before, BufInv, PoolType, ClientOK, TypeInv, ClientTyped
      <3> QED BY <1>3, <1>6, <1>8, <3>1, <3>3, <3>4 DEF Letters
    <2> QED BY <2>1, <2>2
  <1>9. Letters'
    BY <1>1, <1>3, <1>4, <1>7, <1>8 DEF Letters
  <1>10. ~ cl[c].eofdone
    BY <1>1, <1>3 DEF Numbered
  <1>11. Turns'
    BY <1>1, <1>3, <1>4, <1>10 DEF Turns, Ended
  <1> QED BY <1>9, <1>11 DEF MailInv

\* The queue with one message more, and with the first one gone.
LEMMA InboundGrows ==
  ASSUME TypeInv, NEW m, inbound' = Append(inbound, m)
  PROVE  LET n == Len(inbound) + 1 IN
         /\ n \in Nat /\ Len(inbound) \in Nat /\ inbound'[n] = m
         /\ \A i \in 1 .. Len(inbound) : inbound'[i] = inbound[i] /\ i # n /\ i < n
         /\ 1 .. Len(inbound') = (1 .. Len(inbound)) \cup {n}
         /\ Awaited' = IF m.client # NoClient THEN Awaited \cup {n} ELSE Awaited
         /\ \A c : Sent(c)' = IF m.client = c THEN Sent(c) \cup {n} ELSE Sent(c)
  <1> DEFINE n == Len(inbound) + 1
  <1>1. /\ n \in Nat /\ Len(inbound) \in Nat /\ inbound'[n] = m
        /\ \A i \in 1 .. Len(inbound) : inbound'[i] = inbound[i] /\ i # n /\ i < n
        /\ 1 .. Len(inbound') = (1 .. Len(inbound)) \cup {n}
    BY Queues
  <1> HIDE DEF n
  <1>2. Awaited' = IF m.client # NoClient THEN Awaited \cup {n} ELSE Awaited
    BY <1>1 DEF Awaited
  <1>3. \A c : Sent(c)' = IF m.client = c THEN Sent(c) \cup {n} ELSE Sent(c)
    BY <1>1 DEF Sent
  <1> QED BY <1>1, <1>2, <1>3 DEF n

LEMMA InboundShrinks ==
  ASSUME TypeInv, inbound # << >>, inbound' = Tail(inbound)
  PROVE  LET m == Head(inbound) IN
         /\ 1 \in 1 .. Len(inbound) /\ inbound[1] = m /\ m \in Mail /\ Len(inbound) \in Nat
         /\ \A i \in 1 .. Len(inbound) : i >= 1 /\ i \in Nat
         /\ \A i \in Awaited' : i + 1 \in Awaited /\ inbound'[i] = inbound[i + 1]
         /\ \A c : \A i \in Sent(c)' : i + 1 \in Sent(c) /\ inbound'[i] = inbound[i + 1]
         /\ \A c : \A i \in Sent(c) : i # 1 => i - 1 \in Sent(c)' /\ inbound'[i - 1] = inbound[i]
         /\ \A c : m.client # c => \A i \in Sent(c) : i # 1
  <1>1. /\ 1 \in 1 .. Len(inbound) /\ inbound[1] = Head(inbound) /\ Head(inbound) \in Mail
        /\ Len(inbound) \in Nat /\ Len(inbound') = Len(inbound) - 1
        /\ \A i \in 1 .. Len(inbound) - 1 : inbound'[i] = inbound[i + 1]
    BY Queues
  <1>2. \A i \in 1 .. Len(inbound') : i + 1 \in 1 .. Len(inbound) /\ inbound'[i] = inbound[i + 1]
    BY <1>1
  <1>3. \A i \in 1 .. Len(inbound) : i # 1 => i - 1 \in 1 .. Len(inbound') /\ inbound'[i - 1] = inbound[i]
    BY <1>1
  <1>4. \A c : \A i \in Sent(c) : i # 1 => i - 1 \in Sent(c)' /\ inbound'[i - 1] = inbound[i]
    BY <1>3 DEF Sent
  <1> QED BY <1>1, <1>2, <1>4 DEF Awaited, Sent

\* The message that a process sends is the last of its messages.
LEMMA SendMail ==
  ASSUME Before, MailInv, ~ lost, ~ lost', NEW c \in Clients, Send(c)
  PROVE  MailInv'
  <1>0. PICK n : n = Len(inbound) + 1
    OBVIOUS
  <1>1. /\ cl[c].pc = "built" /\ cl[c].kind \in {"read", "write", "release"}
        /\ \A d \in Clients : d # c => cl'[d] = cl[d]
        /\ cl'[c].chan = cl[c].chan /\ cl'[c].eofdone = cl[c].eofdone
        /\ cl'[c].begun = IF cl[c].begun = "none" THEN cl[c].dir ELSE cl[c].begun
        /\ cl[c].kind = "write" => cl'[c].pc = "user" /\ cl'[c].kind = "none"
        /\ cl[c].kind # "write" =>
             /\ cl'[c].pc = "wait" /\ cl'[c].kind = cl[c].kind /\ cl'[c].op = cl[c].op
             /\ cl'[c].buf = cl[c].buf
        /\ UNCHANGED <<rchs, content, file, nops, active, tangled>>
    BY Sends DEF Before, SameCall, card
  <1>2. PICK m : inbound' = Append(inbound, m) /\ SentBy(m, c)
    BY Sends DEF Before
  <1>3. /\ m.op = cl[c].op /\ m.client = c /\ m.chan = cl[c].chan /\ m.buf = cl[c].buf
        /\ (m.write <=> cl[c].dir = "out")
        /\ (m.first <=> cl[c].pos = 0 /\ cl[c].kind # "release")
        /\ (m.eof <=> cl[c].kind = "release")
    BY <1>2 DEF SentBy
  <1>4. /\ n \in Nat /\ Len(inbound) \in Nat /\ inbound'[n] = m
        /\ \A i \in 1 .. Len(inbound) : inbound'[i] = inbound[i] /\ i # n /\ i < n
        /\ Awaited' = Awaited \cup {n} /\ n \in Sent(c)'
        /\ \A d \in Clients : d # c => Sent(d)' = Sent(d)
    BY <1>0, <1>2, <1>3, InboundGrows, BridgeAssumption DEF Before
  <1>5. /\ Letters /\ Turns /\ Numbered /\ Apart /\ InCall(cl[c])
        /\ Stage(cl[c]) /\ Stage(cl'[c])
        /\ cl[c].op \in Nat /\ cl[c].op <= nops /\ nops \in Nat
    <2>1. CallInv'
      BY SendNumber DEF Before
    <2> QED BY <1>1, <2>1, AllApart, ListType DEF Before, MailInv, CallInv, Staged
  <1>6. cl'[c].begun # "none"
    BY <1>1, <1>5 DEF Stage
  <1>7. \A i \in Awaited : /\ i \in 1 .. Len(inbound) /\ inbound[i].client \in Clients
                           /\ inbound'[i] = inbound[i] /\ Letter(inbound[i])
                           /\ inbound[i].op \in Nat /\ inbound[i].op # cl[c].op
    BY <1>1, <1>4, <1>5 DEF Letters, Apart
  <1>8. ASSUME NEW i \in Awaited
        PROVE  Letter(inbound[i])'
    <2> DEFINE e == inbound[i]
    <2>1. inbound'[i] = e /\ Letter(e) /\ e.client \in Clients /\ e.op \in Nat /\ e.op # cl[c].op
      BY <1>7
    <2>2. CASE e.client # c
      BY <1>1, <2>1, <2>2 DEF Letter, Current
    <2>3. CASE e.client = c
      <3>1. ~ Current(e) /\ ~ (InCall(cl'[c]) /\ e.op = cl'[c].op)
        BY <1>1, <2>1, <2>3 DEF Current, InCall
      <3>2. InCall(cl'[c]) => e.op <= cl'[c].op
        BY <1>1, <1>5, <2>1, <2>3 DEF Letter, InCall
      <3> QED BY <1>1, <1>6, <2>1, <2>3, <3>1, <3>2 DEF Letter, Current
    <2> QED BY <2>2, <2>3
  <1>9. Letter(inbound[n])'
    <2>0. inbound'[n] = m
      BY <1>4
    <2>1. \A j \in 1 .. Len(rchs) : rchs[j].op = m.op => rchs[j].buf = m.buf
      BY <1>3, <1>5 DEF Numbered
    <2>2. m.op <= nops /\ m.chan = cl'[c].chan /\ (m.eof => ~ m.first)
      BY <1>1, <1>3, <1>5
    <2>3. CASE cl[c].kind = "write"
      <3>1. Written(m) /\ ~ InCall(cl'[c])
        BY <1>1, <1>3, <1>5, <2>3 DEF Written, Stage, InCall
      <3>2. content[m.buf] = [op |-> m.op, data |-> m.op]
        BY <1>1, <1>3, <1>5, <2>3 DEF Letters
      <3> QED BY <1>1, <1>3, <1>6, <2>1, <2>2, <3>1, <3>2, <2>0 DEF Letter, Current
    <2>4. CASE cl[c].kind # "write"
      <3>1. InCall(cl'[c]) /\ m.op = cl'[c].op
        BY <1>1, <1>3, <1>5, <2>4 DEF InCall
      <3>2. FromCall(m, cl'[c])
        BY <1>1, <1>3, <1>5, <2>4 DEF FromCall, Stage
      <3>3. ~ Written(m)
        BY <1>1, <1>3, <2>4, <3>2 DEF Written, FromCall
      <3>4. m.op <= cl'[c].op
        BY <1>3, <1>5, <3>1
      <3> QED BY <1>1, <1>3, <1>6, <2>0, <2>1, <2>2, <3>1, <3>2, <3>3, <3>4 DEF Letter, Current
    <2> QED BY <2>3, <2>4
  <1>10. \A i, j \in Awaited \cup {n} : i < j /\ inbound'[i].client = inbound'[j].client =>
           inbound'[i].op < inbound'[j].op
    <2> SUFFICES ASSUME NEW i \in Awaited \cup {n}, NEW j \in Awaited \cup {n}, i < j,
                        inbound'[i].client = inbound'[j].client
                 PROVE  inbound'[i].op < inbound'[j].op
      OBVIOUS
    <2>1. i \in Awaited
      <3>1. j = n \/ j \in 1 .. Len(inbound)
        BY <1>7
      <3>2. i # n
        BY <1>4, <3>1
      <3> QED BY <3>2
    <2>2. CASE j = n
      <3>1. inbound[i].client = c /\ inbound'[i] = inbound[i] /\ inbound'[j] = m
        BY <1>3, <1>4, <1>7, <2>1, <2>2
      <3>2. inbound[i].op <= cl[c].op /\ inbound[i].op # cl[c].op
        BY <1>5, <1>7, <2>1, <3>1 DEF Letter
      <3> QED BY <1>3, <1>5, <1>7, <2>1, <3>1, <3>2
    <2>3. CASE j # n
      BY <1>5, <1>7, <2>1, <2>3 DEF Letters
    <2> QED BY <2>2, <2>3
  <1>11. ASSUME NEW d \in Clients, cl'[d].pc = "wait", Sent(d)' # {}
         PROVE  \E i \in Sent(d)' : inbound'[i].op = cl'[d].op
    <2>1. CASE d = c
      BY <1>1, <1>3, <1>4, <1>11, <2>1
    <2>2. CASE d # c
      <3>1. PICK i \in Sent(d) : inbound[i].op = cl[d].op
        BY <1>1, <1>4, <1>5, <1>11, <2>2 DEF Letters
      <3>2. inbound'[i] = inbound[i]
        BY <1>7, MailIndex
      <3> QED BY <1>1, <1>4, <2>2, <3>1, <3>2
    <2> QED BY <2>1, <2>2
  <1>12. \A d \in Clients : cl'[d].pc = "built" /\ cl'[d].kind = "write" =>
           content'[cl'[d].buf] = [op |-> cl'[d].op, data |-> cl'[d].op]
    BY <1>1, <1>5 DEF Letters
  <1>13. Letters'
    <2>1. \A i \in Awaited' : Letter(inbound[i])'
      BY <1>4, <1>8, <1>9
    <2>2. \A i, j \in Awaited' : i < j /\ inbound'[i].client = inbound'[j].client =>
            inbound'[i].op < inbound'[j].op
      BY <1>4, <1>10
    <2> QED BY <1>11, <1>12, <2>1, <2>2 DEF Letters
  <1>14. ~ cl[c].eofdone
    BY <1>1, <1>5 DEF Turns, Ended
  <1>15. \A d \in Clients : Ended(d)' <=> Ended(d)
    <2>1. ~ Ended(c)' /\ ~ Ended(c)
      BY <1>1, <1>4 DEF Ended
    <2>2. \A d \in Clients : d # c => (Ended(d)' <=> Ended(d))
      BY <1>1, <1>4 DEF Ended
    <2> QED BY <2>1, <2>2
  <1>16. Turns'
    <2>1. \A d \in Clients : cl'[d].begun = "none" => Sent(d)' = {}
      BY <1>1, <1>4, <1>5, <1>6 DEF Turns
    <2>2. \A d \in Clients : cl'[d].eofdone => Ended(d)'
      BY <1>1, <1>5, <1>14, <1>15 DEF Turns
    <2>3. \A d \in active : /\ d \in Clients /\ cl'[d].begun # "none" /\ ~ Ended(d)'
                            /\ cl'[d].chan = cl[d].chan
      BY <1>1, <1>5, <1>6, <1>15 DEF Turns
    <2> QED BY <1>1, <1>5, <2>1, <2>2, <2>3 DEF Turns
  <1> QED BY <1>13, <1>16 DEF MailInv

LEMMA TextMail ==
  ASSUME Before, MailInv, ~ lost, ~ lost', NEW c \in Clients, SendText(c)
  PROVE  MailInv'
  <1>1. /\ UNCHANGED <<cl, rchs, content, file, active, tangled>> /\ nops' = nops + 1 /\ Post(Text)
    BY DEF SendText, card
  <1>2. UNCHANGED inbound \/ \E m : inbound' = Append(inbound, m) /\ m.client = NoClient
    <2>1. [Text EXCEPT !.id = lastId'].client = NoClient
      BY DEF Text
    <2> QED BY <1>1, <2>1 DEF Post
  <1>3. /\ Awaited' = Awaited /\ (\A d \in Clients : Sent(d)' = Sent(d))
        /\ \A i \in 1 .. Len(inbound) : inbound'[i] = inbound[i]
    <2>1. CASE UNCHANGED inbound
      BY <2>1 DEF Awaited, Sent
    <2>2. ASSUME NEW m, inbound' = Append(inbound, m), m.client = NoClient
          PROVE  /\ Awaited' = Awaited /\ (\A d \in Clients : Sent(d)' = Sent(d))
                 /\ \A i \in 1 .. Len(inbound) : inbound'[i] = inbound[i]
      BY <2>2, InboundGrows, BridgeAssumption DEF Before
    <2> QED BY <1>2, <2>1, <2>2
  <1>4. Letters /\ Turns /\ Apart /\ nops \in Nat
    BY AllApart, ListType DEF Before, MailInv, CallInv
  <1>5. ASSUME NEW i \in Awaited
        PROVE  Letter(inbound[i])'
    <2>1. inbound'[i] = inbound[i] /\ Letter(inbound[i]) /\ inbound[i].op \in Nat
      BY <1>3, <1>4 DEF Letters, Apart
    <2>2. inbound[i].op <= nops'
      BY <1>1, <1>4, <2>1 DEF Letter
    <2> QED BY <1>1, <2>1, <2>2 DEF Letter, Current
  <1>6. \A i \in Awaited : inbound'[i] = inbound[i]
    BY <1>3, <1>4 DEF Apart
  <1>7. \A d \in Clients : Sent(d) \subseteq Awaited
    BY MailIndex
  <1>8. Letters'
    BY <1>1, <1>3, <1>4, <1>5, <1>6, <1>7 DEF Letters
  <1>9. Turns'
    BY <1>1, <1>3, <1>4 DEF Turns, Ended
  <1> QED BY <1>8, <1>9 DEF MailInv

\* The card takes a message and puts no block in the buffer of another one.
LEMMA TailMail ==
  ASSUME Before, MailInv, ~ lost, inbound # << >>, inbound' = Tail(inbound),
         UNCHANGED <<cl, rchs, nops>>,
         \A i \in Awaited : i # 1 /\ Written(inbound[i]) =>
           content'[inbound[i].buf] = content[inbound[i].buf],
         \A c \in Clients : cl[c].pc = "built" /\ cl[c].kind = "write" =>
           content'[cl[c].buf] = content[cl[c].buf]
  PROVE  Letters'
  <1>1. /\ \A i \in Awaited' : i + 1 \in Awaited /\ inbound'[i] = inbound[i + 1]
        /\ \A c : \A i \in Sent(c)' : i + 1 \in Sent(c) /\ inbound'[i] = inbound[i + 1]
        /\ \A c : \A i \in Sent(c) : i # 1 => i - 1 \in Sent(c)' /\ inbound'[i - 1] = inbound[i]
        /\ \A i \in 1 .. Len(inbound) : i >= 1 /\ i \in Nat
        /\ Len(inbound) \in Nat
    BY InboundShrinks DEF Before
  <1>2. Letters /\ Apart
    BY AllApart DEF Before, MailInv, CallInv
  <1>3. \A i \in Awaited' : i \in Nat /\ i >= 1
    <2>1. \A i \in Awaited' : i \in 1 .. Len(inbound')
      BY DEF Awaited
    <2> QED BY <2>1
  <1>4. ASSUME NEW i \in Awaited'
        PROVE  Letter(inbound[i])'
    <2>0. i \in Nat /\ i >= 1
      BY <1>3
    <2>a. i + 1 # 1
      BY <2>0
    <2>1. inbound'[i] = inbound[i + 1] /\ i + 1 \in Awaited /\ i + 1 # 1
      BY <1>1, <2>a
    <2>2. Letter(inbound[i + 1])
      BY <1>2, <2>1 DEF Letters
    <2> QED BY <2>1, <2>2 DEF Letter, Current, Written
  <1>5. \A i, j \in Awaited' : i < j /\ inbound'[i].client = inbound'[j].client =>
          inbound'[i].op < inbound'[j].op
    <2> SUFFICES ASSUME NEW i \in Awaited', NEW j \in Awaited', i < j,
                        inbound'[i].client = inbound'[j].client
                 PROVE  inbound'[i].op < inbound'[j].op
      OBVIOUS
    <2>0. i + 1 < j + 1
      <3>1. i \in Nat /\ j \in Nat
        BY <1>3
      <3> QED BY <3>1
    <2>1. i + 1 \in Awaited /\ j + 1 \in Awaited /\ i + 1 < j + 1
          /\ inbound'[i] = inbound[i + 1] /\ inbound'[j] = inbound[j + 1]
      BY <1>1, <2>0
    <2> QED BY <1>2, <2>1 DEF Letters
  <1>6. ASSUME NEW c \in Clients, cl[c].pc = "wait", Sent(c)' # {}
        PROVE  \E i \in Sent(c)' : inbound'[i].op = cl[c].op
    <2>1. PICK k \in Sent(c)' : TRUE
      BY <1>6
    <2>2. k + 1 \in Sent(c) /\ k \in Nat /\ k >= 1
      <3>1. k \in 1 .. Len(inbound')
        BY DEF Sent
      <3> QED BY <1>1, <3>1
    <2>3. PICK i \in Sent(c) : inbound[i].op = cl[c].op
      BY <1>2, <1>6, <2>2 DEF Letters
    <2>4. i # 1
      <3> SUFFICES ASSUME i = 1
                   PROVE  FALSE
        OBVIOUS
      <3>1. i \in Awaited /\ k + 1 \in Awaited /\ i < k + 1
            /\ inbound[i].client = c /\ inbound[k + 1].client = c
        BY <2>2, MailIndex
      <3>2. inbound[i].op < inbound[k + 1].op
        BY <1>2, <3>1 DEF Letters
      <3>3. InCall(cl[c])
        BY <1>6, ListType DEF Before
      <3>4. inbound[k + 1].op <= cl[c].op
        BY <1>2, <3>1, <3>3 DEF Letters, Letter
      <3>5. inbound[i].op \in Nat /\ inbound[k + 1].op \in Nat
        BY <1>2, <3>1 DEF Apart
      <3> QED BY <2>3, <3>2, <3>4, <3>5
    <2>5. i - 1 \in Sent(c)' /\ inbound'[i - 1] = inbound[i]
      BY <1>1, <2>4
    <2> QED BY <2>3, <2>5
  <1>7. \A c \in Clients : cl[c].pc = "built" /\ cl[c].kind = "write" =>
          content'[cl[c].buf] = [op |-> cl[c].op, data |-> cl[c].op]
    BY <1>2 DEF Letters
  <1> QED BY <1>4, <1>5, <1>6, <1>7 DEF Letters

\* The buffer of the message at the head is no other message's, and not that
\* of a process about to send.
LEMMA HeadBuffer ==
  ASSUME Before, MailInv, ~ lost, 1 \in Awaited, inbound[1].buf \in Bufs
  PROVE  /\ \A i \in Awaited : i # 1 => inbound[i].buf # inbound[1].buf
         /\ \A c \in Clients : cl[c].pc = "built" => cl[c].buf # inbound[1].buf
         /\ \E k \in 1 .. Len(rchs) : rchs[k].op = inbound[1].op /\ rchs[k].buf = inbound[1].buf
  <1>1. Letters /\ Apart /\ Numbered
    BY AllApart DEF Before, MailInv, CallInv
  <1>2. \A i \in Awaited : \E k \in 1 .. Len(rchs) :
          rchs[k].op = inbound[i].op /\ rchs[k].buf = inbound[i].buf
    BY <1>1 DEF Apart, Letters, Letter
  <1>3. \A j, k \in 1 .. Len(rchs) : rchs[j].buf = rchs[k].buf /\ rchs[j].buf # NoBuf => j = k
    BY DEF Before, BufInv, OneHolder
  <1>4. PICK k \in 1 .. Len(rchs) : rchs[k].op = inbound[1].op /\ rchs[k].buf = inbound[1].buf
    BY <1>2
  <1>5. \A i \in Awaited : i # 1 => inbound[i].buf # inbound[1].buf
    BY <1>1, <1>2, <1>3, <1>4, Buffers DEF Apart
  <1>6. ASSUME NEW c \in Clients, cl[c].pc = "built"
        PROVE  cl[c].buf # inbound[1].buf
    <2>1. InCall(cl[c])
      BY <1>6, ListType DEF Before
    <2>2. PICK j \in 1 .. Len(rchs) : rchs[j].op = cl[c].op
      BY <1>1, <1>6 DEF Apart, Unlisted
    <2>3. rchs[j].buf = cl[c].buf
      BY <1>1, <2>1, <2>2 DEF Numbered
    <2> QED BY <1>1, <1>3, <1>4, <1>6, <2>2, <2>3, Buffers DEF Apart
  <1> QED BY <1>4, <1>5, <1>6

\* What the card does with a message of a file.
LEMMA Serves ==
  ASSUME TypeInv, ProcessFile
  PROVE  LET m == Head(inbound)
             s == Served(m)
             n == IF Moves(m) THEN 1 ELSE 0
             busy == active \cup {m.client} IN
         /\ inbound # << >> /\ inbound' = Tail(inbound) /\ inbound[1] = m /\ 1 \in Awaited
         /\ m.client # NoClient /\ m.client \in Clients /\ m.chan \in Files
         /\ (~ m.eof => m.buf \in Bufs)
         /\ s.chan \in Files /\ s.at \in Nat
         /\ disk' = IF m.write /\ n = 1
                      THEN [Opened(m) EXCEPT ![s.chan] = Append(@, content[m.buf].data)]
                      ELSE Opened(m)
         /\ content' = IF ~ m.write /\ n = 1
                         THEN [content EXCEPT ![m.buf] =
                                 [op |-> m.op, data |-> disk[s.chan][s.at + 1]]]
                         ELSE content
         /\ file' = IF m.eof THEN Closed ELSE [s EXCEPT !.at = @ + (IF m.write THEN 0 ELSE n)]
         /\ outbound' = Append(outbound, [id |-> m.id, op |-> m.op, count |-> n])
         /\ active' = IF m.eof THEN active \ {m.client} ELSE busy
         /\ tangled' = IF Cardinality(busy) > 1 THEN tangled \cup busy ELSE tangled
         /\ UNCHANGED <<cl, rchs, lastId, clidata, reserved, nops, lost, reused>>
  <1> DEFINE m == Head(inbound)
             s == Served(m)
  <1>1. inbound # << >> /\ m.client # NoClient
    BY DEF ProcessFile
  <1>2. /\ inbound[1] = m /\ 1 \in 1 .. Len(inbound) /\ m \in Mail
    BY <1>1, Queues
  <1>3. m.client \in Clients /\ m.chan \in Files /\ (~ m.eof => m.buf \in Bufs)
    BY <1>1, <1>2 DEF Mail, Messages
  <1>4. s.chan \in Files /\ s.at \in Nat
    BY <1>3 DEF Served, StaysOpen, TypeInv, CardTyped, Closed
  <1>5. 1 \in Awaited
    BY <1>1, <1>2 DEF Awaited
  <1> QED BY <1>1, <1>2, <1>3, <1>4, <1>5 DEF ProcessFile, driver

LEMMA TwoBusy ==
  ASSUME NEW S, IsFiniteSet(S), NEW x \in S, NEW y \in S, x # y
  PROVE  Cardinality(S) > 1
  <1>1. IsFiniteSet({x}) /\ Cardinality({x}) = 1 /\ y \notin {x}
    BY FS_Singleton
  <1>2. IsFiniteSet({x} \cup {y}) /\ Cardinality({x} \cup {y}) = 2
    BY <1>1, FS_AddElement
  <1>3. ({x} \cup {y}) \subseteq S
    OBVIOUS
  <1>4. 2 <= Cardinality(S) /\ Cardinality(S) \in Nat
    BY <1>2, <1>3, FS_Subset, FS_CardinalityType
  <1> QED BY <1>4

LEMMA CardMail ==
  ASSUME Before, MailInv, ~ lost, Card
  PROVE  MailInv'
  <1> DEFINE m == Head(inbound)
  <1>1. /\ inbound # << >> /\ inbound' = Tail(inbound) /\ UNCHANGED <<cl, rchs, nops>>
    BY DEF Card, ProcessText, ProcessFile, driver, ghosts
  <1>2. Letters /\ Turns
    BY DEF MailInv
  <1>3. /\ inbound[1] = m
        /\ \A c : \A i \in Sent(c)' : i + 1 \in Sent(c) /\ inbound'[i] = inbound[i + 1]
        /\ \A c : \A i \in Sent(c) : i # 1 => i - 1 \in Sent(c)' /\ inbound'[i - 1] = inbound[i]
        /\ \A c : m.client # c => \A i \in Sent(c) : i # 1
    BY <1>1, InboundShrinks DEF Before
  <1>4. \A c : Sent(c) = {} => Sent(c)' = {}
    BY <1>3
  <1>5. \A c : m.client # c /\ Sent(c)' = {} => Sent(c) = {}
    BY <1>3
  <1>6. CASE ProcessText
    <2>1. m.client = NoClient /\ UNCHANGED <<content, file, active, tangled>>
      BY <1>6 DEF ProcessText, card, ghosts
    <2>2. Letters'
      BY <1>1, <2>1, TailMail
    <2>3. \A c \in Clients : Sent(c)' = {} <=> Sent(c) = {}
      BY <1>4, <1>5, <2>1, BridgeAssumption
    <2>4. Turns'
      BY <1>1, <1>2, <2>1, <2>3 DEF Turns, Ended
    <2> QED BY <2>2, <2>4 DEF MailInv
  <1>7. CASE ProcessFile
    <2> DEFINE s == Served(m)
               c == m.client
               busy == active \cup {c}
    <2>1. /\ 1 \in Awaited /\ c \in Clients /\ (~ m.eof => m.buf \in Bufs) /\ s.chan \in Files
          /\ content' = IF ~ m.write /\ Moves(m)
                          THEN [content EXCEPT ![m.buf] =
                                  [op |-> m.op, data |-> disk[s.chan][s.at + 1]]]
                          ELSE content
          /\ file' = Closed \/ (~ m.eof /\ \E at : file' = [s EXCEPT !.at = at])
          /\ m.eof => file' = Closed
          /\ active' = IF m.eof THEN active \ {c} ELSE busy
          /\ tangled' = IF Cardinality(busy) > 1 THEN tangled \cup busy ELSE tangled
      <3>1. (IF Moves(m) THEN 1 ELSE 0) = 1 <=> Moves(m)
        OBVIOUS
      <3>2. /\ 1 \in Awaited /\ c \in Clients /\ (~ m.eof => m.buf \in Bufs) /\ s.chan \in Files
            /\ active' = IF m.eof THEN active \ {c} ELSE busy
            /\ tangled' = IF Cardinality(busy) > 1 THEN tangled \cup busy ELSE tangled
        BY <1>7, Serves DEF Before
      <3>3. content' = IF ~ m.write /\ (IF Moves(m) THEN 1 ELSE 0) = 1
                         THEN [content EXCEPT ![m.buf] =
                                 [op |-> m.op, data |-> disk[s.chan][s.at + 1]]]
                         ELSE content
        BY <1>7, Serves DEF Before
      <3>4. file' = IF m.eof THEN Closed
                    ELSE [s EXCEPT !.at = @ + (IF m.write THEN 0 ELSE IF Moves(m) THEN 1 ELSE 0)]
        BY <1>7, Serves DEF Before
      <3>5. file' = Closed \/ (~ m.eof /\ \E at : file' = [s EXCEPT !.at = at])
        <4> HIDE DEF m, s
        <4> QED BY <3>4
      <3>6. m.eof => file' = Closed
        BY <3>4
      <3>7. content' = IF ~ m.write /\ Moves(m)
                         THEN [content EXCEPT ![m.buf] =
                                 [op |-> m.op, data |-> disk[s.chan][s.at + 1]]]
                         ELSE content
        <4> HIDE DEF m, s
        <4> QED BY <3>1, <3>3
      <3> QED BY <3>2, <3>5, <3>6, <3>7
    <2>2. Letter(m)
      BY <1>2, <1>3, <2>1 DEF Letters
    <2>3. Letters'
      <3>1. CASE ~ m.write /\ Moves(m)
        <4>1. m.buf \in Bufs /\ content = [b \in Bufs |-> content[b]]
          BY <2>1, <3>1 DEF Moves, Before, TypeInv, CardTyped
        <4>2. /\ \A i \in Awaited : i # 1 => inbound[i].buf # m.buf
              /\ \A d \in Clients : cl[d].pc = "built" => cl[d].buf # m.buf
          BY <1>3, <2>1, <4>1, HeadBuffer
        <4>3. \A b : b # m.buf => content'[b] = content[b]
          BY <2>1, <3>1, <4>1
        <4> HIDE DEF m
        <4> QED BY <1>1, <4>2, <4>3, TailMail
      <3>2. CASE ~ (~ m.write /\ Moves(m))
        <4>1. content' = content
          BY <2>1, <3>2
        <4> QED BY <1>1, <4>1, TailMail
      <3> QED BY <3>1, <3>2
    <2>4. IsFiniteSet(busy) /\ IsFiniteSet(active') /\ active' \subseteq busy /\ busy \subseteq Clients
      <3>1. IsFiniteSet(active) /\ active \subseteq Clients
        BY <1>2 DEF Turns
      <3>2. IsFiniteSet(busy)
        BY <3>1, FS_AddElement
      <3>3. active' \subseteq busy
        BY <2>1
      <3> QED BY <2>1, <3>1, <3>2, <3>3, FS_Subset
    <2>5. ASSUME NEW d \in active'
          PROVE  cl[d].begun # "none" /\ ~ Ended(d)'
      <3>1. CASE d # c
        <4>1. d \in active
          BY <2>1, <3>1
        <4> QED BY <1>1, <1>2, <1>5, <3>1, <4>1 DEF Turns, Ended
      <3>2. CASE d = c
        <4>1. ~ m.eof
          BY <2>1, <2>5, <3>2
        <4>2. ASSUME Ended(d)'
              PROVE  FALSE
          <5>1. cl[d].kind = "release" /\ cl[d].pc = "wait" /\ Sent(d)' = {}
            BY <1>1, <4>2 DEF Ended
          <5>2. 1 \in Sent(d) /\ d \in Clients
            BY <1>3, <2>1, <3>2, MailIndex
          <5>3. PICK e \in Sent(d) : inbound[e].op = cl[d].op
            BY <1>2, <5>1, <5>2 DEF Letters
          <5>4. e = 1
            <6>1. e # 1 => e - 1 \in Sent(d)'
              BY <1>3
            <6> QED BY <5>1, <6>1
          <5>5. m.op = cl[d].op
            BY <1>3, <5>3, <5>4
          <5>6. Current(m)
            BY <3>2, <5>1, <5>5 DEF Current, InCall
          <5> QED BY <2>2, <3>2, <4>1, <5>1, <5>6 DEF Letter, FromCall
        <4> QED BY <2>2, <3>2, <4>2 DEF Letter
      <3> QED BY <3>1, <3>2
    <2>6. ASSUME NEW d \in active', d \notin tangled'
          PROVE  active' = {d} /\ file' # Closed /\ file'.chan = cl[d].chan
      <3>1. ~ (Cardinality(busy) > 1) /\ tangled' = tangled
        BY <2>1, <2>4, <2>6
      <3>2. busy = {c}
        <4>1. \A x \in busy : x = c
          BY <2>4, <3>1, TwoBusy
        <4> QED BY <4>1
      <3>3. d = c /\ ~ m.eof /\ active' = {c}
        BY <2>1, <2>6, <3>2
      <3>4. s.chan = cl[c].chan
        <4>1. m.chan = cl[c].chan
          BY <2>2 DEF Letter
        <4>2. CASE active = {}
          BY <1>2, <4>1, <4>2 DEF Turns, Served, StaysOpen
        <4>3. CASE active # {}
          <5>1. c \in active /\ c \notin tangled
            BY <2>6, <3>1, <3>2, <3>3, <4>3
          <5> QED BY <1>2, <4>1, <5>1 DEF Turns, Served
        <4> QED BY <4>2, <4>3
      <3>5. file' = [s EXCEPT !.at = file'.at] /\ file'.chan = s.chan
        <4>1. s = [chan |-> s.chan, write |-> s.write, at |-> s.at]
          BY DEF Served, Before, TypeInv, CardTyped
        <4>2. PICK at : file' = [s EXCEPT !.at = at]
          <5>1. file' = [s EXCEPT !.at = @ + (IF m.write THEN 0 ELSE IF Moves(m) THEN 1 ELSE 0)]
            BY <1>7, <3>3, Serves DEF Before
          <5> QED BY <5>1
        <4> HIDE DEF s
        <4> QED BY <4>1, <4>2
      <3>6. file' # Closed
        BY <2>1, <3>5, BridgeAssumption DEF Closed
      <3> QED BY <3>3, <3>4, <3>5, <3>6
    <2>7. active' = {} => file' = Closed
      BY <2>1
    <2>8. Turns'
      BY <1>1, <1>2, <1>4, <2>4, <2>5, <2>6, <2>7 DEF Turns, Ended
    <2> QED BY <2>3, <2>8 DEF MailInv
  <1> QED BY <1>6, <1>7 DEF Card

\* The first reply's handler is the first one: it is that of its own call.
LEMMA FirstReply ==
  ASSUME Before, ~ lost, Handle
  PROVE  LET i == Min(Matches(Head(outbound).id)) IN
         /\ i = 1 /\ 1 \in 1 .. Len(outbound) /\ Head(outbound) = outbound[1]
         /\ rchs[1].op = outbound[1].op /\ 1 \in 1 .. Len(rchs)
         /\ Len(outbound) \in Nat /\ Len(outbound') = Len(outbound) - 1
         /\ \A j \in 1 .. Len(outbound) - 1 : outbound'[j] = outbound[j + 1]
         /\ Len(rchs) \in Nat /\ Len(rchs') = Len(rchs) - 1
         /\ \A k \in 1 .. Len(rchs) - 1 : rchs'[k] = rchs[k + 1]
  <1> DEFINE i == Min(Matches(Head(outbound).id))
  <1>1. /\ i \in 1 .. Len(rchs) /\ outbound # << >> /\ outbound' = Tail(outbound)
        /\ \A j \in 1 .. Len(rchs) : rchs[j].id = Head(outbound).id => i <= j
        /\ Len(rchs) \in Nat /\ Len(rchs') = Len(rchs) - 1
        /\ \A k \in 1 .. Len(rchs) - 1 : rchs'[k] = IF k < i THEN rchs[k] ELSE rchs[k + 1]
    BY Handles DEF Before
  <1>2. /\ 1 \in 1 .. Len(outbound) /\ Head(outbound) = outbound[1] /\ Len(outbound) \in Nat
        /\ Len(outbound') = Len(outbound) - 1
        /\ \A j \in 1 .. Len(outbound) - 1 : outbound'[j] = outbound[j + 1]
    BY <1>1, Queues DEF Before
  <1>3. 1 \in 1 .. Len(rchs) /\ rchs[1].op = outbound[1].op /\ rchs[1].id = outbound[1].id
    BY <1>2, AllApart DEF Apart, Before, CallInv
  <1> HIDE DEF i
  <1>4. i = 1
    BY <1>1, <1>2, <1>3
  <1>5. \A k \in 1 .. Len(rchs) - 1 : rchs'[k] = rchs[k + 1]
    BY <1>1, <1>4
  <1> QED BY <1>1, <1>2, <1>3, <1>4, <1>5 DEF i

LEMMA HandleMail ==
  ASSUME Before, MailInv, ~ lost, Handle
  PROVE  MailInv'
  <1> DEFINE h == rchs[1]
  <1>1. /\ 1 \in 1 .. Len(outbound) /\ h.op = outbound[1].op /\ 1 \in 1 .. Len(rchs)
        /\ Len(rchs) \in Nat /\ Len(rchs') = Len(rchs) - 1
        /\ \A k \in 1 .. Len(rchs) - 1 : rchs'[k] = rchs[k + 1]
        /\ Min(Matches(Head(outbound).id)) = 1
    BY FirstReply
  <1>2. /\ UNCHANGED <<content, inbound, file, nops, active, tangled>>
        /\ \A d \in Clients :
             /\ Handled(cl[d], cl'[d])
             /\ ~ (h.kind = "release" /\ d = h.client) => cl'[d].eofdone = cl[d].eofdone
    BY <1>1, Handles DEF Before, card, ghosts
  <1>3. Letters /\ Turns /\ Numbered /\ Apart /\ Staged
    BY AllApart DEF Before, MailInv, CallInv
  <1>4. Awaited' = Awaited /\ \A d : Sent(d)' = Sent(d)
    BY <1>2 DEF Awaited, Sent
  <1>5. \A d \in Clients :
          /\ cl'[d].chan = cl[d].chan /\ cl'[d].begun = cl[d].begun /\ cl'[d].kind = cl[d].kind
          /\ cl'[d].op = cl[d].op /\ cl'[d].buf = cl[d].buf
          /\ (cl'[d].pc = "wait" <=> cl[d].pc = "wait")
          /\ (cl'[d].pc = "built" <=> cl[d].pc = "built")
    BY <1>2 DEF Handled, SameCall
  <1>6. \A k \in 1 .. Len(rchs') : k + 1 \in 1 .. Len(rchs) /\ rchs'[k] = rchs[k + 1]
    BY <1>1
  <1>7. ASSUME NEW i \in Awaited
        PROVE  Letter(inbound[i])'
    <2>1. inbound'[i] = inbound[i] /\ Letter(inbound[i]) /\ inbound[i].client \in Clients
      BY <1>2, <1>3 DEF Letters, Apart
    <2> DEFINE e == inbound[i]
    <2>2. InCall(cl[e.client])' <=> InCall(cl[e.client])
      BY <1>5, <2>1 DEF InCall
    <2>3. Current(e)' <=> Current(e)
      BY <1>5, <2>1, <2>2 DEF Current
    <2>4. FromCall(e, cl[e.client]) => FromCall(e, cl[e.client])'
      BY <1>5, <2>1 DEF FromCall
    <2>5. \A j \in 1 .. Len(rchs') : rchs'[j].op = e.op => rchs'[j].buf = e.buf
      BY <1>6, <2>1 DEF Letter
    <2>6. Written(e) => content'[e.buf] = [op |-> e.op, data |-> e.op]
      BY <1>2, <2>1 DEF Letter
    <2>7. e.op <= nops' /\ cl'[e.client].begun # "none" /\ e.chan = cl'[e.client].chan
      BY <1>2, <1>5, <2>1 DEF Letter
    <2>8. InCall(cl[e.client])' => e.op <= cl'[e.client].op
      BY <1>5, <2>1, <2>2 DEF Letter
    <2>9. (e.eof => ~ e.first) /\ (Current(e)' => FromCall(e, cl[e.client])')
          /\ (~ Current(e)' => Written(e))
      BY <2>1, <2>3, <2>4 DEF Letter
    <2> QED BY <2>1, <2>5, <2>6, <2>7, <2>8, <2>9 DEF Letter, Current, Written, FromCall
  <1>8. Letters'
    BY <1>2, <1>3, <1>4, <1>5, <1>7 DEF Letters
  <1>9. \A d \in Clients : Ended(d)' <=> Ended(d)
    BY <1>4, <1>5 DEF Ended
  <1>10. ASSUME NEW d \in Clients, cl'[d].eofdone
         PROVE  Ended(d)
    <2>1. CASE h.kind = "release" /\ d = h.client
      <3>1. InCall(cl[d]) /\ cl[d].op = h.op
        BY <1>1, <1>3, <2>1 DEF Numbered
      <3>2. cl[d].kind = "release" /\ cl[d].pc \in {"built", "wait", "copy"}
        BY <1>1, <1>3, <2>1, <3>1 DEF Numbered
      <3>3. cl[d].pc # "copy"
        BY <1>3, <3>2 DEF Staged, Stage
      <3>4. cl[d].pc # "built"
        BY <1>1, <1>3, <3>1 DEF Apart
      <3>5. Sent(d) = {}
        <4> SUFFICES ASSUME Sent(d) # {}
                     PROVE  FALSE
          OBVIOUS
        <4>1. PICK i \in Sent(d) : inbound[i].op = cl[d].op
          BY <1>3, <3>2, <3>3, <3>4 DEF Letters
        <4>2. i \in Awaited
          BY MailIndex
        <4> QED BY <1>1, <1>3, <3>1, <4>1, <4>2 DEF Apart
      <3> QED BY <3>2, <3>3, <3>4, <3>5 DEF Ended
    <2>2. CASE ~ (h.kind = "release" /\ d = h.client)
      BY <1>2, <1>3, <1>10, <2>2 DEF Turns
    <2> QED BY <2>1, <2>2
  <1>11. Turns'
    BY <1>2, <1>3, <1>4, <1>5, <1>9, <1>10 DEF Turns
  <1> QED BY <1>8, <1>11 DEF MailInv

LEMMA MailInit == Init => MailInv
  <1> SUFFICES ASSUME Init
               PROVE  MailInv
    OBVIOUS
  <1>1. /\ inbound = << >> /\ active = {} /\ file = Closed
        /\ \A c \in Clients : cl[c].pc = "closed" /\ ~ cl[c].eofdone
    BY DEF Init, Fresh
  <1>2. Awaited = {} /\ \A c : Sent(c) = {}
    BY <1>1 DEF Awaited, Sent
  <1>3. Letters
    BY <1>1, <1>2 DEF Letters
  <1>4. Turns
    BY <1>1, <1>2, FS_EmptySet DEF Turns
  <1> QED BY <1>3, <1>4 DEF MailInv

LEMMA MailStep ==
  ASSUME Before, MailInv, ~ lost, ~ lost', [Next]_vars
  PROVE  MailInv'
  <1>1. CASE UNCHANGED vars
    <2>1. UNCHANGED <<cl, rchs, nops, content, inbound, file, active, tangled>>
      BY <1>1 DEF vars, driver, card, ghosts
    <2>2. Awaited' = Awaited /\ \A c : Sent(c)' = Sent(c)
      BY <2>1 DEF Awaited, Sent
    <2>3. Letters'
      BY <2>1, <2>2 DEF MailInv, Letters, Letter, Current, FromCall, Written
    <2>4. Turns'
      BY <2>1, <2>2 DEF MailInv, Turns, Ended
    <2> QED BY <2>3, <2>4 DEF MailInv
  <1>2. ASSUME NEW c \in Clients, Quiet(c)
        PROVE  MailInv'
    BY <1>2, QuietMail
  <1>3. ASSUME NEW c \in Clients, Client(c)
        PROVE  MailInv'
    BY <1>2, <1>3, BuildMail, SendMail DEF Client, Quiet
  <1>4. ASSUME NEW c \in Clients,
               (\E f \in Files : Open(c, f)) \/ Close(c) \/ \E k \in Kinds : Call(c, k)
        PROVE  MailInv'
    BY <1>2, <1>4 DEF Quiet
  <1> QED BY <1>1, <1>3, <1>4, TextMail, CardMail, HandleMail DEF Next

-----------------------------------------------------------------------------
(* Until a buffer is handed out too early, a reader's is its own.          *)
HasData(c) == cl[c].kind = "read" /\ (cl[c].pc = "copy" \/ (cl[c].pc = "wait" /\ Unlisted(c)))

LEMMA GuardedStep ==
  ASSUME Before, Guarded, ~ lost, ~ reused', [Next]_vars
  PROVE  Guarded'
  <1>1. \A c \in Clients : HasData(c) => cl[c].buf \in Bufs
    BY ReaderBuffer DEF Before, Unanswered, HasData
  <1>2. \A c \in Clients : HasData(c) =>
          /\ \A i \in 1 .. Len(rchs) : rchs[i].buf # cl[c].buf
          /\ \A d \in Clients : cl[d].pc = "fill" => cl[d].buf # cl[c].buf
    BY DEF Guarded, HasData
  <1>3. SUFFICES \A c \in Clients : HasData(c)' =>
          /\ \A i \in 1 .. Len(rchs') : rchs'[i].buf # cl'[c].buf
          /\ \A d \in Clients : cl'[d].pc = "fill" => cl'[d].buf # cl'[c].buf
    BY DEF Guarded, HasData
  <1> DEFINE Safe == \A c \in Clients : HasData(c)' =>
                       /\ \A i \in 1 .. Len(rchs') : rchs'[i].buf # cl'[c].buf
                       /\ \A d \in Clients : cl'[d].pc = "fill" => cl'[d].buf # cl'[c].buf
  <1>4. ASSUME NEW c \in Clients, Quiet(c)
        PROVE  Safe
    <2> DEFINE r == cl[c]
               s == cl'[c]
    <2>1. /\ rchs' = rchs /\ \A d \in Clients : d # c => cl'[d] = cl[d]
          /\ Moves1(r, s) /\ (Takes(r, s) /\ ~ reused' => ~ AwaitsCopy(s.buf))
      BY <1>4, QuietMoves DEF Before
    <2>2. \A d \in Clients : d # c => (HasData(d)' <=> HasData(d))
      BY <2>1 DEF HasData, Unlisted
    <2>3. HasData(c)' => HasData(c) /\ s.buf = r.buf
      <3>1. CASE Wakes(r, s)
        <4>1. Unlisted(c) /\ r.pc = "wait" /\ r.kind = "read" /\ s.buf = r.buf
          BY <3>1 DEF Wakes, Before, Unanswered
        <4> QED BY <4>1 DEF HasData
      <3>2. CASE Sleeps(r, s)
        BY <2>1, <3>2 DEF Sleeps, SameCall, HasData, Unlisted
      <3>3. CASE ~ Wakes(r, s) /\ ~ Sleeps(r, s)
        <4>1. s.pc \notin {"built", "wait", "copy"}
          BY <2>1, <3>3, FreshStart DEF Moves1, Looks, Takes, GivesUp, Copies, Calls
        <4> QED BY <4>1 DEF HasData
      <3> QED BY <3>1, <3>2, <3>3
    <2>4. ASSUME NEW d \in Clients, d # c, HasData(d), s.pc = "fill"
          PROVE  s.buf # cl[d].buf
      <3>1. CASE Takes(r, s)
        <4>1. ~ AwaitsCopy(s.buf)
          BY <2>1, <3>1
        <4> QED BY <2>4, <4>1 DEF AwaitsCopy, HasData, Unlisted
      <3>2. CASE Calls(r, s)
        <4>1. s.buf = NoBuf
          BY <3>2 DEF Calls, Before, BufInv, PoolType, ClientOK
        <4> QED BY <1>1, <2>4, <4>1, Buffers
      <3>3. CASE ~ Takes(r, s) /\ ~ Calls(r, s)
        <4>1. s.pc # "fill"
          BY <2>1, <3>3, FreshStart DEF Moves1, Looks, Sleeps, Wakes, GivesUp, Copies
        <4> QED BY <2>4, <4>1
      <3> QED BY <3>1, <3>2, <3>3
    <2>5. s.pc = "fill" => ~ HasData(c)'
      BY DEF HasData
    <2> QED BY <1>2, <2>1, <2>2, <2>3, <2>4, <2>5
  <1>5. ASSUME NEW c \in Clients, BuildRch(c)
        PROVE  Safe
    <2>1. /\ \A d \in Clients : d # c => cl'[d] = cl[d]
          /\ cl[c].pc = "fill" /\ cl'[c].pc = "built"
          /\ Len(rchs') = Len(rchs) + 1 /\ Len(rchs) \in Nat
          /\ \A i \in 1 .. Len(rchs) : rchs'[i] = rchs[i]
      BY <1>5, Builds DEF Before
    <2>2. rchs'[Len(rchs) + 1].buf = cl[c].buf
      <3>1. rchs'[Len(rchs) + 1] = Holder(c)
        BY <1>5, Builds DEF Before
      <3> QED BY <3>1 DEF Holder
    <2>3. 1 .. Len(rchs') = (1 .. Len(rchs)) \cup {Len(rchs) + 1}
      BY <2>1
    <2>4. \A d \in Clients : HasData(d)' => d # c /\ HasData(d)
      BY <2>1, <2>3 DEF HasData, Unlisted
    <2> QED BY <1>2, <2>1, <2>2, <2>3, <2>4
  <1>6. ASSUME NEW c \in Clients, Send(c)
        PROVE  Safe
    <2>1. /\ cl[c].pc = "built" /\ rchs' = rchs
          /\ \A d \in Clients : d # c => cl'[d] = cl[d]
          /\ cl[c].kind = "write" => cl'[c].pc = "user"
          /\ cl[c].kind # "write" => cl'[c].pc = "wait" /\ cl'[c].op = cl[c].op
      BY <1>6, Sends DEF Before, SameCall
    <2>2. ~ Unlisted(c)
      BY <2>1, AllApart DEF Before, CallInv, Apart
    <2>3. \A d \in Clients : HasData(d)' => d # c /\ HasData(d)
      BY <2>1, <2>2 DEF HasData, Unlisted
    <2>4. cl'[c].pc # "fill"
      BY <2>1, Sends, <1>6 DEF Before
    <2> QED BY <1>2, <2>1, <2>3, <2>4
  <1>7. CASE Handle
    <2> DEFINE n == Len(rchs)
               i == Min(Matches(Head(outbound).id))
    <2>1. /\ i \in 1 .. n /\ n \in Nat /\ Len(rchs') = n - 1
          /\ \A k \in 1 .. n - 1 : rchs'[k] = IF k < i THEN rchs[k] ELSE rchs[k + 1]
          /\ \A d \in Clients : Handled(cl[d], cl'[d])
      BY <1>7, Handles DEF Before
    <2> HIDE DEF i
    <2>2. \A k \in 1 .. n - 1 : \E j \in 1 .. n : j # i /\ rchs'[k] = rchs[j]
      BY <2>1
    <2>3. \A j \in 1 .. n : j # i => \E k \in 1 .. n - 1 : rchs'[k] = rchs[j]
      <3> SUFFICES ASSUME NEW j \in 1 .. n, j # i
                   PROVE  \E k \in 1 .. n - 1 : rchs'[k] = rchs[j]
        OBVIOUS
      <3>1. CASE j < i
        <4>1. j \in 1 .. n - 1
          BY <2>1, <3>1
        <4> QED BY <2>1, <3>1, <4>1
      <3>2. CASE i < j
        <4>1. j - 1 \in 1 .. n - 1 /\ ~ (j - 1 < i) /\ (j - 1) + 1 = j
          BY <2>1, <3>2
        <4> QED BY <2>1, <4>1
      <3> QED BY <2>1, <3>1, <3>2
    <2>4. \A d \in Clients : /\ cl'[d].kind = cl[d].kind /\ cl'[d].op = cl[d].op
                             /\ cl'[d].buf = cl[d].buf
                             /\ \A pc \in {"copy", "wait", "fill"} : cl'[d].pc = pc <=> cl[d].pc = pc
      BY <2>1 DEF Handled, SameCall
    <2>5. ASSUME NEW d \in Clients, HasData(d)'
          PROVE  /\ \A k \in 1 .. Len(rchs') : rchs'[k].buf # cl[d].buf
                 /\ \A e \in Clients : cl[e].pc = "fill" => cl[e].buf # cl[d].buf
      <3>1. CASE HasData(d)
        BY <1>2, <2>1, <2>2, <3>1
      <3>2. CASE ~ HasData(d)
        <4>1. cl[d].kind = "read" /\ cl[d].pc = "wait" /\ ~ Unlisted(d) /\ Unlisted(d)'
          BY <2>4, <2>5, <3>2 DEF HasData
        <4>2. rchs[i].op = cl[d].op
          BY <2>1, <2>3, <2>4, <4>1 DEF Unlisted
        <4>3. rchs[i].buf = cl[d].buf /\ cl[d].buf # NoBuf
          BY <2>1, <4>1, <4>2, ReaderBuffer, Buffers DEF Before, CallInv, Numbered, InCall
        <4>4. \A k \in 1 .. n - 1 : rchs'[k].buf # cl[d].buf
          BY <2>1, <2>2, <4>3 DEF Before, BufInv, OneHolder
        <4>5. \A e \in Clients : Holding(cl[e]) => cl[e].buf # cl[d].buf
          BY <2>1, <4>3 DEF Before, BufInv, OneHolder
        <4> QED BY <2>1, <4>3, <4>4, <4>5 DEF Holding
      <3> QED BY <3>1, <3>2
    <2> QED BY <2>4, <2>5
  <1>8. CASE UNCHANGED <<cl, rchs>>
    BY <1>2, <1>8 DEF HasData, Unlisted
  <1>9. CASE Card \/ (\E c \in Clients : SendText(c)) \/ UNCHANGED vars
    <2>1. UNCHANGED <<cl, rchs>>
      BY <1>9 DEF Card, ProcessText, ProcessFile, SendText, vars, driver
    <2> QED BY <1>8, <2>1
  <1>10. ASSUME NEW c \in Clients, Client(c)
         PROVE  Safe
    BY <1>4, <1>5, <1>6, <1>10 DEF Client, Quiet
  <1>11. ASSUME NEW c \in Clients,
                (\E f \in Files : Open(c, f)) \/ Close(c) \/ \E k \in Kinds : Call(c, k)
         PROVE  Safe
    BY <1>4, <1>11 DEF Quiet
  <1> QED BY <1>7, <1>9, <1>10, <1>11 DEF Next

-----------------------------------------------------------------------------
\* What the file has of the transfer.
Kept(c) == IF c \in active THEN disk[cl[c].chan] ELSE << >>

Writes(c) ==
  LET w == cl[c].wrote
      k == Kept(c) IN
  /\ w \in Seq(Nat) /\ Len(w) > 0
  /\ \A i, j \in 1 .. Len(w) : i < j => w[i] < w[j]
  /\ \A i \in 1 .. Len(w) : w[i] <= nops /\ (InCall(cl[c]) => w[i] < cl[c].op)
  /\ Len(k) <= Len(w) /\ \A i \in 1 .. Len(k) : k[i] = w[i]
  /\ \A i \in Len(k) + 1 .. Len(w) : \E j \in Sent(c) : inbound[j].op = w[i]
  /\ \A j \in Sent(c) : Written(inbound[j]) =>
       \E i \in Len(k) + 1 .. Len(w) : inbound[j].op = w[i]
  /\ \A j \in Sent(c) : inbound[j].first <=> inbound[j].op = w[1]
  /\ c \in active => file.write /\ Len(k) > 0
  /\ cl[c].pos > 0

\* A transfer that began with a write, and that the card is not through with.
Writing(c) == cl[c].begun = "out" /\ c \notin tangled /\ ~ Ended(c)

WriteInv == \A c \in Clients : Writing(c) => Writes(c)

\* The file of a transfer, and the messages that have not got to it.
LEMMA KeptType ==
  ASSUME TypeInv, Staged, NEW c \in Clients, cl[c].begun # "none"
  PROVE  Kept(c) \in Seq(Nat) /\ Len(Kept(c)) \in Nat /\ cl[c].chan \in Files
  <1>1. cl[c].chan \in Files
    BY DEF Staged, Stage, TypeInv, ClientTyped
  <1>2. disk[cl[c].chan] \in Seq(Nat)
    <2>1. Blocks \subseteq Nat
      BY BridgeAssumption DEF Blocks
    <2>2. disk[cl[c].chan] \in Seq(Blocks)
      BY <1>1 DEF TypeInv, CardTyped
    <2> QED BY <2>1, <2>2, SeqMonotonic
  <1>3. Kept(c) \in Seq(Nat)
    BY <1>2 DEF Kept
  <1> QED BY <1>1, <1>3

\* Nothing was written, sent or put in the file.
LEMMA WritesKept ==
  ASSUME NEW c \in Clients, Writes(c), Len(Kept(c)) \in Nat,
         cl'[c].wrote = cl[c].wrote, Kept(c)' = Kept(c), cl'[c].pos >= cl[c].pos,
         cl[c].pos \in Nat, cl'[c].pos \in Nat,
         nops \in Nat, nops' \in Nat, nops' >= nops, cl'[c].op \in Nat,
         InCall(cl'[c]) => (InCall(cl[c]) /\ cl'[c].op = cl[c].op) \/ cl'[c].op > nops,
         c \in active' => c \in active /\ file'.write = file.write,
         \A j \in Sent(c)' : \E i \in Sent(c) : inbound'[j] = inbound[i],
         \A i \in Sent(c) : \/ \E j \in Sent(c)' : inbound'[j] = inbound[i]
                            \/ \A x \in 1 .. Len(cl[c].wrote) : inbound[i].op # cl[c].wrote[x]
  PROVE  Writes(c)'
  <1> DEFINE w == cl[c].wrote
             k == Kept(c)
  <1>1. /\ w \in Seq(Nat) /\ Len(w) > 0
        /\ \A i, j \in 1 .. Len(w) : i < j => w[i] < w[j]
        /\ \A i \in 1 .. Len(w) : w[i] <= nops /\ (InCall(cl[c]) => w[i] < cl[c].op)
        /\ Len(k) <= Len(w) /\ \A i \in 1 .. Len(k) : k[i] = w[i]
        /\ \A i \in Len(k) + 1 .. Len(w) : \E j \in Sent(c) : inbound[j].op = w[i]
        /\ \A j \in Sent(c) : Written(inbound[j]) =>
             \E i \in Len(k) + 1 .. Len(w) : inbound[j].op = w[i]
        /\ \A j \in Sent(c) : inbound[j].first <=> inbound[j].op = w[1]
        /\ c \in active => file.write /\ Len(k) > 0
        /\ cl[c].pos > 0
    BY DEF Writes
  <1>2. cl'[c].wrote = w /\ Kept(c)' = k /\ Len(k) \in Nat
    OBVIOUS
  <1>3. \A x \in 1 .. Len(w) : w[x] \in Nat
    BY <1>1
  <1>4. \A i \in Sent(c) : \/ \E j \in Sent(c)' : inbound'[j] = inbound[i]
                           \/ \A x \in 1 .. Len(w) : inbound[i].op # w[x]
    OBVIOUS
  <1> HIDE DEF w, k
  <1>5. \A x \in 1 .. Len(w) : w[x] <= nops' /\ (InCall(cl'[c]) => w[x] < cl'[c].op)
    BY <1>1, <1>3
  <1>6. \A x \in Len(k) + 1 .. Len(w) : x \in 1 .. Len(w)
    BY <1>1, <1>2
  <1>7. ASSUME NEW x \in Len(k) + 1 .. Len(w)
        PROVE  \E j \in Sent(c)' : inbound'[j].op = w[x]
    <2>1. PICK i \in Sent(c) : inbound[i].op = w[x]
      BY <1>1
    <2>2. \E j \in Sent(c)' : inbound'[j] = inbound[i]
      BY <1>4, <1>6, <2>1
    <2> QED BY <2>1, <2>2
  <1>8. ASSUME NEW j \in Sent(c)', Written(inbound'[j])
        PROVE  \E x \in Len(k) + 1 .. Len(w) : inbound'[j].op = w[x]
    <2>1. PICK i \in Sent(c) : inbound'[j] = inbound[i]
      OBVIOUS
    <2>2. Written(inbound[i])
      BY <1>8, <2>1
    <2> QED BY <1>1, <2>1, <2>2
  <1>9. \A j \in Sent(c)' : inbound'[j].first <=> inbound'[j].op = w[1]
    BY <1>1
  <1>10. (c \in active' => file'.write /\ Len(k) > 0) /\ cl'[c].pos > 0
    BY <1>1
  <1> QED BY <1>1, <1>2, <1>5, <1>7, <1>8, <1>9, <1>10 DEF Writes, Written

\* Only the call, the handlers or other processes' messages change.
LEMMA WritesOn ==
  ASSUME Before, Before', WriteInv, NEW c \in Clients, Writing(c)',
         Writing(c)' => Writing(c),
         cl'[c].wrote = cl[c].wrote, cl'[c].chan = cl[c].chan, cl'[c].pos >= cl[c].pos,
         InCall(cl'[c]) => (InCall(cl[c]) /\ cl'[c].op = cl[c].op) \/ cl'[c].op > nops,
         nops' >= nops, UNCHANGED <<disk, file, active>>,
         \A j \in Sent(c)' : \E i \in Sent(c) : inbound'[j] = inbound[i],
         \A i \in Sent(c) : \E j \in Sent(c)' : inbound'[j] = inbound[i]
  PROVE  Writes(c)'
  <1>1. Writing(c) /\ cl[c].begun # "none"
    BY DEF Writing
  <1>2. Writes(c)
    BY <1>1 DEF WriteInv
  <1>3. /\ cl[c].pos \in Nat /\ cl'[c].pos \in Nat /\ cl'[c].op \in Nat
        /\ nops \in Nat /\ nops' \in Nat
    BY DEF Before, CallInv, Staged, Stage, BufInv, PoolType, ClientOK
  <1>4. Len(Kept(c)) \in Nat
    BY <1>1, KeptType DEF Before, CallInv
  <1>5. Kept(c)' = Kept(c)
    BY DEF Kept
  <1> QED BY <1>2, <1>3, <1>4, <1>5, WritesKept

LEMMA SameSent ==
  ASSUME inbound' = inbound
  PROVE  \A c : /\ Sent(c)' = Sent(c)
                /\ \A j \in Sent(c)' : \E i \in Sent(c) : inbound'[j] = inbound[i]
                /\ \A i \in Sent(c) : \E j \in Sent(c)' : inbound'[j] = inbound[i]
  BY DEF Sent

LEMMA QuietWrites ==
  ASSUME Before, Before', WriteInv, NEW c \in Clients, Quiet(c)
  PROVE  WriteInv'
  <1> DEFINE r == cl[c]
             s == cl'[c]
  <1>1. /\ UNCHANGED <<inbound, disk, file, active>> /\ Moves1(r, s) /\ nops' >= nops
        /\ \A d \in Clients : d # c => cl'[d] = cl[d]
        /\ ~ Opens(r, s) => tangled' = tangled
        /\ Opens(r, s) => tangled' = tangled \ {c}
    BY QuietMoves DEF Before, card
  <1>2. \A d \in Clients :
          /\ Sent(d)' = Sent(d)
          /\ \A j \in Sent(d)' : \E i \in Sent(d) : inbound'[j] = inbound[i]
          /\ \A i \in Sent(d) : \E j \in Sent(d)' : inbound'[j] = inbound[i]
    BY <1>1, SameSent
  <1>3. \A d \in Clients : cl[d].pos \in Nat /\ cl[d].count \in {0, 1} /\ nops \in Nat
    BY ListType DEF Before, CallInv, Staged, Stage
  <1>4. ASSUME NEW d \in Clients, d # c, Writing(d)'
        PROVE  Writes(d)'
    <2>1. Writing(d)' => Writing(d)
      BY <1>1, <1>2, <1>4 DEF Writing, Ended
    <2>2. cl'[d].pos >= cl[d].pos
      BY <1>1, <1>3, <1>4
    <2> QED BY <1>1, <1>2, <1>4, <2>1, <2>2, WritesOn
  <1>5. ASSUME Writing(c)'
        PROVE  Writes(c)'
    <2>1. s.begun = "out" /\ ~ Leaves(r, s) /\ ~ Opens(r, s)
      BY <1>5, FreshStart DEF Writing
    <2>2. /\ s.begun = r.begun /\ s.wrote = r.wrote /\ s.chan = r.chan
          /\ s.pos = r.pos \/ s.pos = r.pos + r.count
          /\ InCall(s) => (InCall(r) /\ s.op = r.op) \/ s.op = nops + 1
          /\ r.pc = "wait" /\ r.kind = "release" => s.pc = "wait" /\ s.kind = "release"
      BY <1>1, <2>1 DEF Moves1, Looks, Takes, Sleeps, GivesUp, Wakes, Copies, Calls, Keeps, SameCall, InCall
    <2>3. Writing(c)' => Writing(c)
      BY <1>1, <1>2, <2>1, <2>2 DEF Writing, Ended
    <2>4. s.pos >= r.pos /\ (s.op = nops + 1 => s.op > nops)
      BY <1>3, <2>2
    <2>5. InCall(s) => (InCall(r) /\ s.op = r.op) \/ s.op > nops
      BY <2>2, <2>4
    <2> QED BY <1>1, <1>2, <1>5, <2>2, <2>3, <2>4, <2>5, WritesOn
  <1> QED BY <1>4, <1>5 DEF WriteInv

LEMMA BuildWrites ==
  ASSUME Before, Before', WriteInv, NEW c \in Clients, BuildRch(c)
  PROVE  WriteInv'
  <1>1. /\ cl[c].pc = "fill" /\ cl'[c].pc = "built"
        /\ \A d \in Clients : d # c => cl'[d] = cl[d]
        /\ cl'[c].chan = cl[c].chan /\ cl'[c].pos = cl[c].pos /\ cl'[c].wrote = cl[c].wrote
        /\ cl'[c].begun = cl[c].begun /\ cl'[c].kind = cl[c].kind /\ cl'[c].op = cl[c].op
        /\ UNCHANGED <<inbound, disk, file, active, tangled, nops>>
    BY Builds DEF Before, SameCall, card, ghosts
  <1>2. \A d \in Clients :
          /\ Sent(d)' = Sent(d)
          /\ \A j \in Sent(d)' : \E i \in Sent(d) : inbound'[j] = inbound[i]
          /\ \A i \in Sent(d) : \E j \in Sent(d)' : inbound'[j] = inbound[i]
    BY <1>1, SameSent
  <1>3. \A d \in Clients : cl[d].pos \in Nat /\ nops \in Nat
    BY ListType DEF Before, CallInv, Staged, Stage
  <1>4. ASSUME NEW d \in Clients, Writing(d)'
        PROVE  Writes(d)'
    <2>1. Writing(d)' => Writing(d)
      BY <1>1, <1>2 DEF Writing, Ended
    <2>2. /\ cl'[d].wrote = cl[d].wrote /\ cl'[d].chan = cl[d].chan /\ cl'[d].pos = cl[d].pos
          /\ InCall(cl'[d]) => InCall(cl[d]) /\ cl'[d].op = cl[d].op
      BY <1>1 DEF InCall
    <2>3. cl'[d].pos >= cl[d].pos /\ nops' >= nops
      BY <1>1, <1>3, <2>2
    <2> QED BY <1>1, <1>2, <1>4, <2>1, <2>2, <2>3, WritesOn
  <1> QED BY <1>4 DEF WriteInv

LEMMA HandleWrites ==
  ASSUME Before, Before', WriteInv, Handle
  PROVE  WriteInv'
  <1>1. /\ \A d \in Clients : Handled(cl[d], cl'[d])
        /\ UNCHANGED <<inbound, disk, file, active, tangled, nops>>
    BY Handles DEF Before, card, ghosts
  <1>2. \A d \in Clients :
          /\ Sent(d)' = Sent(d)
          /\ \A j \in Sent(d)' : \E i \in Sent(d) : inbound'[j] = inbound[i]
          /\ \A i \in Sent(d) : \E j \in Sent(d)' : inbound'[j] = inbound[i]
    BY <1>1, SameSent
  <1>3. \A d \in Clients : cl[d].pos \in Nat /\ nops \in Nat
    BY ListType DEF Before, CallInv, Staged, Stage
  <1>4. ASSUME NEW d \in Clients, Writing(d)'
        PROVE  Writes(d)'
    <2>1. /\ cl'[d].wrote = cl[d].wrote /\ cl'[d].chan = cl[d].chan /\ cl'[d].pos = cl[d].pos
          /\ InCall(cl'[d]) => InCall(cl[d]) /\ cl'[d].op = cl[d].op
          /\ cl'[d].begun = cl[d].begun /\ cl'[d].kind = cl[d].kind
          /\ cl'[d].pc = "wait" <=> cl[d].pc = "wait"
      BY <1>1 DEF Handled, SameCall, InCall
    <2>2. Writing(d)' => Writing(d)
      BY <1>1, <1>2, <2>1 DEF Writing, Ended
    <2>3. cl'[d].pos >= cl[d].pos /\ nops' >= nops
      BY <1>1, <1>3, <2>1
    <2> QED BY <1>1, <1>2, <1>4, <2>1, <2>2, <2>3, WritesOn
  <1> QED BY <1>4 DEF WriteInv

LEMMA TextWrites ==
  ASSUME Before, Before', WriteInv, ~ lost, ~ lost', NEW c \in Clients, SendText(c)
  PROVE  WriteInv'
  <1>1. /\ UNCHANGED <<cl, disk, file, active, tangled>> /\ nops' = nops + 1
        /\ Post(Text)
    BY DEF SendText, card
  <1>2. \/ UNCHANGED inbound
        \/ \E m : m.client = NoClient /\ inbound' = Append(inbound, m)
    <2>1. \A x : [Text EXCEPT !.id = x].client = NoClient
      BY DEF Text
    <2> QED BY <1>1, <2>1 DEF Post
  <1>3. ASSUME NEW d \in Clients
        PROVE  /\ Sent(d)' = Sent(d)
               /\ \A j \in Sent(d)' : \E i \in Sent(d) : inbound'[j] = inbound[i]
               /\ \A i \in Sent(d) : \E j \in Sent(d)' : inbound'[j] = inbound[i]
    <2>1. CASE UNCHANGED inbound
      BY <2>1, SameSent
    <2>2. ASSUME NEW m, m.client = NoClient, inbound' = Append(inbound, m)
          PROVE  Sent(d)' = Sent(d) /\ \A i \in Sent(d) : inbound'[i] = inbound[i]
      <3>1. /\ \A i \in 1 .. Len(inbound) : inbound'[i] = inbound[i]
            /\ Sent(d)' = IF m.client = d THEN Sent(d) \cup {Len(inbound) + 1} ELSE Sent(d)
        BY <2>2, InboundGrows DEF Before
      <3> QED BY <2>2, <3>1, BridgeAssumption DEF Sent
    <2> QED BY <1>2, <2>1, <2>2
  <1>4. \A d \in Clients : cl[d].pos \in Nat /\ nops \in Nat
    BY ListType DEF Before, CallInv, Staged, Stage
  <1>5. ASSUME NEW d \in Clients, Writing(d)'
        PROVE  Writes(d)'
    <2>1. Writing(d)' => Writing(d)
      BY <1>1, <1>3 DEF Writing, Ended
    <2>2. /\ cl'[d].wrote = cl[d].wrote /\ cl'[d].chan = cl[d].chan
          /\ InCall(cl'[d]) => InCall(cl[d]) /\ cl'[d].op = cl[d].op
      BY <1>1 DEF InCall
    <2>3. cl'[d].pos >= cl[d].pos /\ nops' >= nops
      BY <1>1, <1>4
    <2> QED BY <1>1, <1>3, <1>5, <2>1, <2>2, <2>3, WritesOn
  <1> QED BY <1>5 DEF WriteInv

\* A process sends: its write is the last that is on its way.
LEMMA SendWrites ==
  ASSUME Before, Before', MailInv, WriteInv, ~ lost, ~ lost', NEW c \in Clients, Send(c)
  PROVE  WriteInv'
  <1>0. PICK n : n = Len(inbound) + 1
    OBVIOUS
  <1> DEFINE w == cl[c].wrote
             k == Kept(c)
             op == cl[c].op
  <1>1. /\ cl[c].pc = "built" /\ cl[c].kind \in {"read", "write", "release"}
        /\ \A d \in Clients : d # c => cl'[d] = cl[d]
        /\ cl'[c].chan = cl[c].chan
        /\ cl'[c].begun = IF cl[c].begun = "none" THEN cl[c].dir ELSE cl[c].begun
        /\ cl[c].kind = "write" => /\ cl'[c].pc = "user" /\ cl'[c].kind = "none"
                                   /\ cl'[c].pos = cl[c].pos + 1 /\ cl'[c].wrote = Append(w, op)
        /\ cl[c].kind # "write" =>
             /\ cl'[c].pc = "wait" /\ cl'[c].kind = cl[c].kind /\ cl'[c].op = op
             /\ cl'[c].pos = cl[c].pos /\ cl'[c].wrote = w
        /\ UNCHANGED <<disk, file, nops, active, tangled>>
    BY Sends DEF Before, SameCall, card
  <1>2. PICK m : inbound' = Append(inbound, m) /\ SentBy(m, c)
    BY Sends DEF Before
  <1>3. /\ m.op = op /\ m.client = c
        /\ (m.write <=> cl[c].dir = "out")
        /\ (m.first <=> cl[c].pos = 0 /\ cl[c].kind # "release")
        /\ (m.eof <=> cl[c].kind = "release")
    BY <1>2 DEF SentBy
  <1>4. /\ n \in Nat /\ inbound'[n] = m
        /\ \A i \in 1 .. Len(inbound) : inbound'[i] = inbound[i]
        /\ Sent(c)' = Sent(c) \cup {n}
        /\ \A d \in Clients : d # c => Sent(d)' = Sent(d)
    BY <1>0, <1>2, <1>3, InboundGrows DEF Before
  <1>5. \A d \in Clients : \A i \in Sent(d) : inbound'[i] = inbound[i]
    BY <1>4 DEF Sent
  <1>6. /\ Turns /\ InCall(cl[c]) /\ Stage(cl[c]) /\ op \in Nat /\ op <= nops /\ nops \in Nat
        /\ \A d \in Clients : cl[d].pos \in Nat
    BY <1>1, ListType DEF Before, MailInv, CallInv, Staged, Stage
  <1>7. ASSUME NEW d \in Clients, d # c, Writing(d)'
        PROVE  Writes(d)'
    <2>1. Writing(d)' => Writing(d)
      BY <1>1, <1>4, <1>7 DEF Writing, Ended
    <2>2. /\ cl'[d].wrote = cl[d].wrote /\ cl'[d].chan = cl[d].chan /\ cl'[d].pos >= cl[d].pos
          /\ InCall(cl'[d]) => InCall(cl[d]) /\ cl'[d].op = cl[d].op
      BY <1>1, <1>6, <1>7
    <2>3. /\ \A j \in Sent(d)' : \E i \in Sent(d) : inbound'[j] = inbound[i]
          /\ \A i \in Sent(d) : \E j \in Sent(d)' : inbound'[j] = inbound[i]
      BY <1>4, <1>5, <1>7
    <2>4. nops' >= nops
      BY <1>1, <1>6
    <2> QED BY <1>1, <1>7, <2>1, <2>2, <2>3, <2>4, WritesOn
  <1>8. ASSUME Writing(c)'
        PROVE  Writes(c)'
    <2>0. cl'[c].begun = "out" /\ c \notin tangled /\ ~ Ended(c)
      BY <1>1, <1>8 DEF Writing, Ended
    <2>1. cl[c].begun = "out" => Writes(c)
      BY <2>0 DEF WriteInv, Writing
    <2>2. Kept(c)' = k
      BY <1>1 DEF Kept
    <2>3. cl[c].begun # "out" => /\ cl[c].begun = "none" /\ cl[c].kind = "write"
                                 /\ w = << >> /\ cl[c].pos = 0 /\ k = << >> /\ Sent(c) = {}
                                 /\ c \notin active
      <3> SUFFICES ASSUME cl[c].begun # "out"
                   PROVE  /\ cl[c].begun = "none" /\ cl[c].kind = "write"
                          /\ w = << >> /\ cl[c].pos = 0 /\ k = << >> /\ Sent(c) = {}
                          /\ c \notin active
        OBVIOUS
      <3>1. cl[c].begun = "none" /\ cl[c].dir = "out"
        BY <1>1, <2>0
      <3>2. cl[c].kind = "write" /\ w = << >> /\ cl[c].pos = 0
        BY <1>1, <1>6, <3>1 DEF Stage
      <3>3. c \notin active /\ Sent(c) = {}
        BY <1>6, <3>1 DEF Turns
      <3> QED BY <3>1, <3>2, <3>3 DEF Kept
    <2>4. /\ w \in Seq(Nat) /\ Len(w) \in Nat /\ Len(k) \in Nat
          /\ (Len(w) = 0 <=> cl[c].pos = 0)
      <3>1. CASE cl[c].begun = "out"
        <4>1. Writes(c)
          BY <2>1, <3>1
        <4>2. Len(k) \in Nat
          BY <3>1, KeptType DEF Before, CallInv
        <4>3. w \in Seq(Nat) /\ Len(w) > 0 /\ cl[c].pos > 0
          BY <4>1 DEF Writes
        <4> HIDE DEF w, k
        <4>4. Len(w) \in Nat
          BY <4>3
        <4> QED BY <1>6, <4>2, <4>3, <4>4
      <3>2. CASE cl[c].begun # "out"
        <4>1. w = << >> /\ k = << >> /\ cl[c].pos = 0
          BY <2>3, <3>2
        <4> HIDE DEF w, k
        <4>2. << >> \in Seq(Nat) /\ Len(<< >>) = 0
          BY EmptySeq
        <4> QED BY <4>1, <4>2
      <3> QED BY <3>1, <3>2
    <2>5. /\ \A i, j \in 1 .. Len(w) : i < j => w[i] < w[j]
          /\ \A i \in 1 .. Len(w) : w[i] < op
          /\ Len(k) <= Len(w) /\ \A i \in 1 .. Len(k) : k[i] = w[i]
          /\ \A i \in Len(k) + 1 .. Len(w) : \E j \in Sent(c) : inbound[j].op = w[i]
          /\ \A j \in Sent(c) : Written(inbound[j]) =>
               \E i \in Len(k) + 1 .. Len(w) : inbound[j].op = w[i]
          /\ \A j \in Sent(c) : Len(w) > 0 /\ (inbound[j].first <=> inbound[j].op = w[1])
          /\ c \in active => file.write /\ Len(k) > 0
      <3>1. CASE cl[c].begun = "out"
        BY <1>6, <2>1, <3>1 DEF Writes
      <3>2. CASE cl[c].begun # "out"
        BY <2>3, <2>4, <3>2
      <3> QED BY <3>1, <3>2
    <2>6. CASE cl[c].kind # "write"
      <3>1. Writes(c) /\ cl[c].begun = "out" /\ Len(w) > 0 /\ cl[c].pos > 0
        BY <2>1, <2>3, <2>6 DEF Writes
      <3>2. ~ Written(m) /\ ~ m.first
        BY <1>1, <1>3, <1>6, <2>6, <3>1 DEF Stage, Written
      <3>3. \A i \in 1 .. Len(w) : m.op # w[i] /\ w[i] \in Nat
        BY <1>3, <1>6, <2>4, <2>5
      <3>4. \A j \in Sent(c)' : inbound'[j].first <=> inbound'[j].op = w[1]
        BY <1>4, <1>5, <2>4, <2>5, <3>1, <3>2, <3>3
      <3>5. \A j \in Sent(c)' : Written(inbound'[j]) =>
              \E i \in Len(k) + 1 .. Len(w) : inbound'[j].op = w[i]
        BY <1>4, <1>5, <2>5, <3>2
      <3>6. \A i \in Len(k) + 1 .. Len(w) : \E j \in Sent(c)' : inbound'[j].op = w[i]
        BY <1>4, <1>5, <2>5
      <3>7. \A i \in 1 .. Len(w) : w[i] <= nops'
        BY <1>1, <3>1 DEF Writes
      <3>8. cl'[c].wrote = w /\ cl'[c].pos > 0 /\ cl'[c].op = op /\ file' = file /\ active' = active
        BY <1>1, <2>6, <3>1
      <3>9. \A i \in 1 .. Len(w) : w[i] <= nops' /\ (InCall(cl'[c]) => w[i] < cl'[c].op)
        BY <2>5, <3>7, <3>8
      <3>10. c \in active' => file'.write /\ Len(k) > 0
        BY <2>5, <3>8
      <3>11. w \in Seq(Nat) /\ Len(w) > 0
        BY <2>4, <3>1
      <3> HIDE DEF w, k, op
      <3>12. \A i, j \in 1 .. Len(w) : i < j => w[i] < w[j]
        BY <2>5
      <3>13. Len(k) <= Len(w) /\ \A i \in 1 .. Len(k) : k[i] = w[i]
        BY <2>5
      <3>14. cl'[c].wrote = w /\ cl'[c].pos > 0
        BY <3>8
      <3> QED BY <2>2, <3>4, <3>5, <3>6, <3>9, <3>10, <3>11, <3>12, <3>13, <3>14 DEF Writes, Written
    <2>7. CASE cl[c].kind = "write"
      <3> DEFINE v == Append(w, op)
      <3>1. cl'[c].wrote = v /\ cl'[c].pos > 0 /\ ~ InCall(cl'[c])
            /\ file' = file /\ active' = active /\ nops' = nops
        BY <1>1, <1>6, <2>7 DEF InCall
      <3>2. /\ v \in Seq(Nat) /\ Len(v) = Len(w) + 1 /\ v[Len(w) + 1] = op
            /\ \A i \in 1 .. Len(w) : v[i] = w[i] /\ w[i] \in Nat
            /\ 1 .. Len(v) = (1 .. Len(w)) \cup {Len(w) + 1}
        <4>1. w \in Seq(Nat) /\ op \in Nat /\ Len(w) \in Nat
          BY <1>6, <2>4
        <4> HIDE DEF w, op
        <4>2. v \in Seq(Nat) /\ Len(v) = Len(w) + 1 /\ v[Len(w) + 1] = op
          BY <4>1
        <4>3. \A i \in 1 .. Len(w) : v[i] = w[i] /\ w[i] \in Nat
          BY <4>1
        <4> QED BY <4>1, <4>2, <4>3
      <3>3. Written(m) /\ (m.first <=> Len(w) = 0) /\ m.op = op
        <4>1. cl[c].dir = "out"
          BY <1>1, <1>6, <2>7 DEF Stage
        <4>2. Written(m)
          BY <1>3, <2>7, <4>1 DEF Written
        <4>3. m.first <=> cl[c].pos = 0
          BY <1>3, <2>7
        <4> HIDE DEF w, op
        <4> QED BY <1>3, <2>4, <4>2, <4>3 DEF op
      <3> HIDE DEF v, w, k, op
      <3>4. \A i, j \in 1 .. Len(v) : i < j => v[i] < v[j]
        <4> SUFFICES ASSUME NEW i \in 1 .. Len(v), NEW j \in 1 .. Len(v), i < j
                     PROVE  v[i] < v[j]
          OBVIOUS
        <4>1. i \in 1 .. Len(w)
          BY <2>4, <3>2
        <4>2. CASE j = Len(w) + 1
          BY <2>5, <3>2, <4>1, <4>2
        <4>3. CASE j # Len(w) + 1
          <5>1. j \in 1 .. Len(w)
            BY <3>2, <4>3
          <5> QED BY <2>5, <3>2, <4>1, <5>1
        <4> QED BY <4>2, <4>3
      <3>5. \A i \in 1 .. Len(v) : v[i] <= nops'
        <4>1. \A i \in 1 .. Len(w) : v[i] <= nops
          BY <1>6, <2>5, <3>2 DEF op
        <4>2. v[Len(w) + 1] <= nops
          BY <1>6, <3>2 DEF op
        <4> QED BY <3>1, <3>2, <4>1, <4>2
      <3>6. Len(k) <= Len(v) /\ \A i \in 1 .. Len(k) : k[i] = v[i]
        <4>1. \A i \in 1 .. Len(k) : i \in 1 .. Len(w)
          BY <2>4, <2>5
        <4> QED BY <2>4, <2>5, <3>2, <4>1
      <3>7. \A i \in Len(k) + 1 .. Len(v) : \E j \in Sent(c)' : inbound'[j].op = v[i]
        <4> SUFFICES ASSUME NEW i \in Len(k) + 1 .. Len(v)
                     PROVE  \E j \in Sent(c)' : inbound'[j].op = v[i]
          OBVIOUS
        <4>1. CASE i = Len(w) + 1
          BY <1>4, <3>2, <3>3, <4>1
        <4>2. CASE i # Len(w) + 1
          <5>1. i \in Len(k) + 1 .. Len(w) /\ i \in 1 .. Len(w)
            BY <2>4, <3>2, <4>2
          <5>2. PICK j \in Sent(c) : inbound[j].op = w[i]
            BY <2>5, <5>1
          <5> QED BY <1>4, <1>5, <3>2, <5>1, <5>2
        <4> QED BY <4>1, <4>2
      <3>8. ASSUME NEW j \in Sent(c)', Written(inbound'[j])
            PROVE  \E i \in Len(k) + 1 .. Len(v) : inbound'[j].op = v[i]
        <4>1. CASE j = n
          <5>1. Len(w) + 1 \in Len(k) + 1 .. Len(v)
            BY <2>4, <2>5, <3>2
          <5> QED BY <1>4, <3>2, <3>3, <4>1, <5>1
        <4>2. CASE j # n
          <5>1. j \in Sent(c) /\ inbound'[j] = inbound[j]
            BY <1>4, <1>5, <4>2
          <5>2. PICK i \in Len(k) + 1 .. Len(w) : inbound[j].op = w[i]
            BY <2>5, <3>8, <5>1
          <5>3. i \in Len(k) + 1 .. Len(v) /\ i \in 1 .. Len(w)
            BY <2>4, <3>2
          <5> QED BY <3>2, <5>1, <5>2, <5>3
        <4> QED BY <4>1, <4>2
      <3>9. ASSUME NEW j \in Sent(c)'
            PROVE  inbound'[j].first <=> inbound'[j].op = v[1]
        <4>1. CASE j = n
          <5>1. inbound'[j] = m /\ m.op = op
            BY <1>4, <3>3, <4>1
          <5>2. CASE Len(w) = 0
            BY <3>2, <3>3, <5>1, <5>2
          <5>3. CASE Len(w) # 0
            <6>1. 1 \in 1 .. Len(w)
              BY <2>4, <5>3
            <6>2. v[1] = w[1] /\ w[1] < op /\ w[1] \in Nat
              BY <2>5, <3>2, <6>1
            <6> QED BY <1>6, <3>3, <5>1, <5>3, <6>2 DEF op
          <5> QED BY <5>2, <5>3
        <4>2. CASE j # n
          <5>1. j \in Sent(c) /\ inbound'[j] = inbound[j]
            BY <1>4, <1>5, <4>2
          <5>2. 1 \in 1 .. Len(w)
            BY <2>4, <2>5, <5>1
          <5> QED BY <2>5, <3>2, <5>1, <5>2
        <4> QED BY <4>1, <4>2
      <3>10. Len(v) > 0
        BY <2>4, <3>2
      <3>11. \A i \in 1 .. Len(v) : v[i] <= nops' /\ (InCall(cl'[c]) => v[i] < cl'[c].op)
        BY <3>1, <3>5
      <3>12. c \in active' => file'.write /\ Len(k) > 0
        BY <2>5, <3>1
      <3>13. v \in Seq(Nat) /\ Len(v) > 0
        BY <3>2, <3>10
      <3>14. cl'[c].wrote = v /\ cl'[c].pos > 0
        BY <3>1
      <3>15. \A j \in Sent(c)' : Written(inbound'[j]) =>
               \E i \in Len(k) + 1 .. Len(v) : inbound'[j].op = v[i]
        BY <3>8
      <3> QED BY <2>2, <3>4, <3>6, <3>7, <3>9, <3>11, <3>12, <3>13, <3>14, <3>15 DEF Writes, Written
    <2> QED BY <2>6, <2>7
  <1> QED BY <1>7, <1>8 DEF WriteInv

\* The card takes a message: those of other processes stay, one place on.
LEMMA OthersMail ==
  ASSUME TypeInv, inbound # << >>, inbound' = Tail(inbound), NEW d, Head(inbound).client # d
  PROVE  /\ \A j \in Sent(d)' : \E i \in Sent(d) : inbound'[j] = inbound[i]
         /\ \A i \in Sent(d) : \E j \in Sent(d)' : inbound'[j] = inbound[i]
         /\ Sent(d)' = {} <=> Sent(d) = {}
  BY InboundShrinks

\* The card takes the message of a transfer that overlaps no other.
LEMMA OwnMail ==
  ASSUME Before, MailInv, ~ lost, ProcessFile, NEW d \in Clients, d = Head(inbound).client,
         NEW m, m = Head(inbound), d \notin tangled'
  PROVE  /\ active \subseteq {d} /\ d \notin tangled /\ ~ Ended(d) /\ Letter(m) /\ m.client = d
         /\ 1 \in Sent(d) /\ inbound[1] = m /\ m.op \in Nat
         /\ \A j \in Sent(d) : inbound[j].op \in Nat /\ (j # 1 => m.op < inbound[j].op)
         /\ \A j \in Sent(d)' : \E i \in Sent(d) : i # 1 /\ inbound'[j] = inbound[i]
         /\ \A i \in Sent(d) : i # 1 => \E j \in Sent(d)' : inbound'[j] = inbound[i]
         /\ active' = IF m.eof THEN {} ELSE {d}
         /\ d \in active => active = {d} /\ file # Closed /\ file.chan = cl[d].chan
         /\ d \notin active => file = Closed
         /\ m.eof => Ended(d)' /\ m.op = cl[d].op /\ InCall(cl[d]) /\ cl[d].kind = "release"
  <1>1. /\ inbound # << >> /\ inbound' = Tail(inbound) /\ 1 \in Awaited
        /\ active' = IF m.eof THEN active \ {d} ELSE active \cup {d}
        /\ tangled' = IF Cardinality(active \cup {d}) > 1 THEN tangled \cup (active \cup {d})
                                                          ELSE tangled
        /\ UNCHANGED cl
    BY Serves DEF Before
  <1>2. Letters /\ Turns /\ Apart
    BY AllApart DEF Before, MailInv, CallInv
  <1>3. active \subseteq {d} /\ d \notin tangled
    <2>1. IsFiniteSet(active \cup {d})
      BY <1>2, FS_AddElement DEF Turns
    <2>2. ~ (Cardinality(active \cup {d}) > 1) /\ tangled' = tangled
      BY <1>1
    <2>3. \A x \in active \cup {d} : x = d
      BY <2>1, <2>2, TwoBusy
    <2> QED BY <2>2, <2>3
  <1>4. /\ inbound[1] = m /\ m.client = d
        /\ \A j \in Sent(d)' : j + 1 \in Sent(d) /\ inbound'[j] = inbound[j + 1]
        /\ \A i \in Sent(d) : i # 1 => i - 1 \in Sent(d)' /\ inbound'[i - 1] = inbound[i]
        /\ \A i \in 1 .. Len(inbound) : i >= 1 /\ i \in Nat
    BY <1>1, InboundShrinks DEF Before
  <1>5. 1 \in Sent(d) /\ m.op \in Nat /\ Letter(m)
    BY <1>1, <1>2, <1>4, MailIndex DEF Letters, Apart
  <1>6. ASSUME NEW j \in Sent(d)
        PROVE  inbound[j].op \in Nat /\ (j # 1 => m.op < inbound[j].op)
    <2>1. j \in Awaited /\ inbound[j].client = d /\ j >= 1 /\ j \in Nat
      BY <1>2, <1>4, MailIndex DEF Apart
    <2>2. j # 1 => 1 < j
      BY <2>1
    <2> QED BY <1>1, <1>2, <1>4, <2>1, <2>2 DEF Letters, Apart
  <1>7. ASSUME NEW j \in Sent(d)'
        PROVE  \E i \in Sent(d) : i # 1 /\ inbound'[j] = inbound[i]
    <2>1. j \in 1 .. Len(inbound') /\ j \in Nat /\ j >= 1
      <3>1. j \in 1 .. Len(inbound')
        BY DEF Sent
      <3> QED BY <3>1
    <2>2. j + 1 # 1
      BY <2>1
    <2> QED BY <1>4, <2>2
  <1>8. \A i \in Sent(d) : i # 1 => \E j \in Sent(d)' : inbound'[j] = inbound[i]
    BY <1>4
  <1>9. ASSUME m.eof
        PROVE  /\ m.op = cl[d].op /\ InCall(cl[d]) /\ cl[d].kind = "release"
               /\ cl[d].pc = "wait" /\ Sent(d)' = {}
    <2>1. Current(m)
      BY <1>5, <1>9 DEF Letter, Written
    <2>2. /\ m.op = cl[d].op /\ InCall(cl[d]) /\ cl[d].kind = "release"
          /\ cl[d].pc = "wait"
      BY <1>4, <1>5, <1>9, <2>1 DEF Letter, Current, FromCall
    <2>3. ASSUME NEW j \in Sent(d)'
          PROVE  FALSE
      <3>1. PICK i \in Sent(d) : i # 1 /\ inbound'[j] = inbound[i]
        BY <1>7
      <3>2. inbound[i].op \in Nat /\ m.op < inbound[i].op
        BY <1>6, <3>1
      <3>3. i \in Awaited /\ inbound[i].client = d
        BY MailIndex
      <3>4. inbound[i].op <= cl[d].op
        BY <1>2, <2>2, <3>3 DEF Letters, Letter
      <3> QED BY <1>5, <2>2, <3>2, <3>4
    <2> QED BY <2>2, <2>3
  <1>10. m.eof => Ended(d)'
    BY <1>1, <1>9 DEF Ended
  <1>11. ~ Ended(d)
    BY <1>5 DEF Ended
  <1>12. /\ d \in active => active = {d} /\ file # Closed /\ file.chan = cl[d].chan
         /\ d \notin active => file = Closed
    BY <1>2, <1>3 DEF Turns
  <1>13. active' = IF m.eof THEN {} ELSE {d}
    BY <1>1, <1>3
  <1> QED BY <1>3, <1>4, <1>5, <1>6, <1>7, <1>8, <1>9, <1>10, <1>11, <1>12, <1>13

\* The card writes the next block that is due, in the file that it has open.
LEMMA WriteServed ==
  ASSUME Before, MailInv, ~ lost, ProcessFile, NEW d \in Clients, d = Head(inbound).client,
         NEW m, m = Head(inbound), d \notin tangled', Written(m),
         d \in active => file.write /\ ~ m.first, d \notin active => m.first
  PROVE  Kept(d)' = Append(Kept(d), m.op) /\ file'.write
  <1>1. /\ active \subseteq {d} /\ Letter(m) /\ m.client = d
        /\ active' = IF m.eof THEN {} ELSE {d}
        /\ d \in active => file # Closed /\ file.chan = cl[d].chan
        /\ d \notin active => file = Closed
    BY OwnMail
  <1> DEFINE s == Served(m)
  <1>2. /\ ~ m.eof => m.buf \in Bufs
        /\ s.chan \in Files /\ s.at \in Nat /\ m \in Mail
        /\ disk' = IF m.write /\ (IF Moves(m) THEN 1 ELSE 0) = 1
                     THEN [Opened(m) EXCEPT ![s.chan] = Append(@, content[m.buf].data)]
                     ELSE Opened(m)
        /\ file' = IF m.eof THEN Closed
                   ELSE [s EXCEPT !.at = @ + (IF m.write THEN 0
                                              ELSE IF Moves(m) THEN 1 ELSE 0)]
        /\ UNCHANGED cl
    BY Serves, InboundShrinks DEF Before
  <1>3. m.write /\ ~ m.eof /\ m.write = TRUE
    BY <1>2 DEF Written, Mail, Messages
  <1>4. content[m.buf].data = m.op /\ m.chan = cl[d].chan
    BY <1>1 DEF Letter
  <1>5. disk = [f \in Files |-> disk[f]] /\ file \in [chan : Files \cup {NoFile}, write : BOOLEAN, at : Nat]
    BY DEF Before, TypeInv, CardTyped
  <1>6. s.write = TRUE /\ s.chan = cl[d].chan /\ s = [chan |-> s.chan, write |-> s.write, at |-> s.at]
    <2>1. CASE d \in active
      <3>1. s = file
        BY <1>1, <2>1 DEF Served, StaysOpen
      <3> QED BY <1>1, <1>5, <2>1, <3>1
    <2>2. CASE d \notin active
      <3>1. s = [chan |-> m.chan, write |-> m.write, at |-> 0]
        BY <1>1, <2>2 DEF Served, StaysOpen
      <3> QED BY <1>3, <1>4, <3>1
    <2> QED BY <2>1, <2>2
  <1>7. Moves(m)
    BY <1>3, <1>6 DEF Moves
  <1>8. disk' = [Opened(m) EXCEPT ![s.chan] = Append(@, m.op)]
    <2> HIDE DEF s
    <2> QED BY <1>2, <1>3, <1>4, <1>7
  <1>9. file' = [s EXCEPT !.at = @ + 0]
    <2> HIDE DEF s
    <2> QED BY <1>2, <1>3
  <1>10. file'.write
    <2> HIDE DEF s
    <2> QED BY <1>6, <1>9
  <1>11. /\ Opened(m) = [f \in Files |-> Opened(m)[f]]
         /\ Opened(m)[cl[d].chan] = Kept(d)
    <2>1. CASE d \in active
      <3>1. Opened(m) = disk
        BY <1>1, <2>1 DEF Opened, StaysOpen
      <3> QED BY <1>5, <2>1, <3>1 DEF Kept
    <2>2. CASE d \notin active
      <3>1. Opened(m) = [disk EXCEPT ![m.chan] = << >>]
        BY <1>1, <1>3, <2>2 DEF Opened, StaysOpen
      <3>2. m.chan \in Files
        BY <1>2, <1>4, <1>6
      <3> QED BY <1>4, <1>5, <2>2, <3>1, <3>2 DEF Kept
    <2> QED BY <2>1, <2>2
  <1>12. disk'[cl[d].chan] = Append(Kept(d), m.op)
    <2>1. s.chan = cl[d].chan /\ s.chan \in Files
      BY <1>2, <1>6
    <2> HIDE DEF s
    <2> QED BY <1>8, <1>11, <2>1
  <1>13. d \in active' /\ cl' = cl
    BY <1>1, <1>2, <1>3
  <1> QED BY <1>10, <1>12, <1>13 DEF Kept

\* A read, in a file opened to be written, moves nothing.
LEMMA ReadRefused ==
  ASSUME Before, MailInv, ~ lost, ProcessFile, NEW d \in Clients, d = Head(inbound).client,
         NEW m, m = Head(inbound), d \notin tangled', ~ m.write, ~ m.eof,
         d \in active, file.write, ~ m.first
  PROVE  Kept(d)' = Kept(d) /\ file' = file /\ d \in active'
  <1>1. /\ active' = IF m.eof THEN {} ELSE {d}
        /\ file # Closed /\ file.chan = cl[d].chan
    BY OwnMail
  <1>2. m \in Mail /\ file \in [chan : Files \cup {NoFile}, write : BOOLEAN, at : Nat] /\ UNCHANGED cl
    BY Serves, InboundShrinks DEF Before, TypeInv, CardTyped
  <1>3. Served(m) = file /\ Opened(m) = disk
    BY <1>1 DEF Served, Opened, StaysOpen
  <1>4. m.write # file.write
    BY <1>2 DEF Mail, Messages
  <1>5. ~ Moves(m)
    BY <1>3, <1>4 DEF Moves
  <1>6. disk' = disk /\ file' = [file EXCEPT !.at = @ + 0]
    BY <1>3, <1>5, Serves DEF Before
  <1>7. file' = file
    BY <1>2, <1>6
  <1>8. d \in active'
    BY <1>1
  <1> QED BY <1>2, <1>6, <1>7, <1>8 DEF Kept

\* The first of the writes on their way is the one that is due.
LEMMA WriteDue ==
  ASSUME Before, NEW d \in Clients, Writes(d), cl[d].begun # "none", NEW m, 1 \in Sent(d),
         inbound[1] = m, m.op \in Nat,
         \A j \in Sent(d) : inbound[j].op \in Nat /\ (j # 1 => m.op < inbound[j].op)
  PROVE  LET w == cl[d].wrote
             k == Kept(d) IN
         /\ Len(k) \in Nat /\ Len(w) \in Nat /\ Len(w) > 0 /\ \A i \in 1 .. Len(w) : w[i] \in Nat
         /\ Written(m) => Len(k) < Len(w) /\ m.op = w[Len(k) + 1]
         /\ \A i \in Len(k) + 1 .. Len(w) : m.op <= w[i]
  <1> DEFINE w == cl[d].wrote
             k == Kept(d)
  <1>1. Len(k) \in Nat
    BY KeptType DEF Before, CallInv
  <1>2. /\ w \in Seq(Nat) /\ Len(w) > 0
        /\ \A i, j \in 1 .. Len(w) : i < j => w[i] < w[j]
        /\ \A i \in Len(k) + 1 .. Len(w) : \E j \in Sent(d) : inbound[j].op = w[i]
        /\ \A j \in Sent(d) : Written(inbound[j]) =>
             \E i \in Len(k) + 1 .. Len(w) : inbound[j].op = w[i]
    BY DEF Writes
  <1> HIDE DEF w, k
  <1>3. Len(w) \in Nat /\ \A i \in 1 .. Len(w) : w[i] \in Nat
    BY <1>2
  <1>4. \A j \in Sent(d) : m.op <= inbound[j].op
    OBVIOUS
  <1>5. \A i \in Len(k) + 1 .. Len(w) : m.op <= w[i]
    BY <1>2, <1>4
  <1>6. ASSUME Written(m)
        PROVE  Len(k) < Len(w) /\ m.op = w[Len(k) + 1]
    <2>1. PICK i \in Len(k) + 1 .. Len(w) : m.op = w[i]
      BY <1>2, <1>6
    <2>2. /\ i \in 1 .. Len(w) /\ Len(k) + 1 \in 1 .. Len(w) /\ Len(k) < Len(w)
          /\ Len(k) + 1 \in Len(k) + 1 .. Len(w) /\ i \in Nat /\ i >= Len(k) + 1
      BY <1>1, <1>3
    <2>3. m.op <= w[Len(k) + 1]
      BY <1>5, <2>2
    <2>4. ~ (Len(k) + 1 < i)
      <3> SUFFICES ASSUME Len(k) + 1 < i
                   PROVE  FALSE
        OBVIOUS
      <3>1. w[Len(k) + 1] < w[i] /\ w[Len(k) + 1] \in Nat
        BY <1>2, <1>3, <2>2
      <3> QED BY <2>1, <2>3, <3>1
    <2>5. i = Len(k) + 1
      BY <1>1, <2>2, <2>4
    <2> QED BY <2>1, <2>2, <2>5
  <1> QED BY <1>1, <1>2, <1>3, <1>5, <1>6 DEF w, k

LEMMA CardWrites ==
  ASSUME Before, Before', MailInv, WriteInv, ~ lost, Card
  PROVE  WriteInv'
  <1>1. inbound # << >> /\ inbound' = Tail(inbound) /\ UNCHANGED <<cl, nops>>
    BY DEF Card, ProcessText, ProcessFile, ghosts
  <1>2. \A d \in Clients : cl[d].pos \in Nat /\ nops \in Nat /\ cl[d].op \in Nat
    BY ListType DEF Before, CallInv, Staged, Stage
  <1>3. CASE ProcessText
    <2>1. Head(inbound).client = NoClient /\ UNCHANGED <<file, disk, active, tangled>>
      BY <1>3 DEF ProcessText, card, ghosts
    <2>2. ASSUME NEW d \in Clients, Writing(d)'
          PROVE  Writes(d)'
      <3>1. /\ \A j \in Sent(d)' : \E i \in Sent(d) : inbound'[j] = inbound[i]
            /\ \A i \in Sent(d) : \E j \in Sent(d)' : inbound'[j] = inbound[i]
            /\ Sent(d)' = {} <=> Sent(d) = {}
        <4>1. Head(inbound).client # d
          BY <2>1, BridgeAssumption
        <4> QED BY <1>1, <4>1, OthersMail DEF Before
      <3>2. Writing(d)' => Writing(d)
        BY <1>1, <2>1, <3>1 DEF Writing, Ended
      <3>3. /\ cl'[d].wrote = cl[d].wrote /\ cl'[d].chan = cl[d].chan
            /\ cl'[d].pos >= cl[d].pos /\ nops' >= nops
            /\ InCall(cl'[d]) => InCall(cl[d]) /\ cl'[d].op = cl[d].op
        BY <1>1, <1>2
      <3> QED BY <2>1, <2>2, <3>1, <3>2, <3>3, WritesOn
    <2> QED BY <2>2 DEF WriteInv
  <1>4. CASE ProcessFile
    <2>0. PICK m : m = Head(inbound)
      OBVIOUS
    <2>1. /\ m.client \in Clients
          /\ active' = IF m.eof THEN active \ {m.client} ELSE active \cup {m.client}
          /\ tangled' = IF Cardinality(active \cup {m.client}) > 1
                          THEN tangled \cup (active \cup {m.client}) ELSE tangled
      BY <1>4, <2>0, Serves DEF Before
    <2>2. ASSUME NEW d \in Clients, Writing(d)', d # m.client
          PROVE  Writes(d)'
      <3>1. /\ \A j \in Sent(d)' : \E i \in Sent(d) : inbound'[j] = inbound[i]
            /\ \A i \in Sent(d) : \E j \in Sent(d)' : inbound'[j] = inbound[i]
            /\ Sent(d)' = {} <=> Sent(d) = {}
        BY <1>1, <2>0, <2>2, OthersMail DEF Before
      <3>2. d \notin tangled'
        BY <2>2 DEF Writing
      <3>3. d \notin active
        <4> SUFFICES ASSUME d \in active
                     PROVE  FALSE
          OBVIOUS
        <4>1. IsFiniteSet(active \cup {m.client})
          BY FS_AddElement DEF MailInv, Turns
        <4>2. Cardinality(active \cup {m.client}) > 1
          BY <2>2, <4>1, TwoBusy
        <4> QED BY <2>1, <3>2, <4>2
      <3>4. d \notin active' /\ d \notin tangled
        BY <2>1, <2>2, <3>2, <3>3
      <3>5. Writes(d) /\ cl[d].begun # "none"
        BY <1>1, <2>2, <3>1, <3>4 DEF WriteInv, Writing, Ended
      <3>6. Kept(d)' = Kept(d) /\ Len(Kept(d)) \in Nat
        <4>1. Kept(d)' = << >> /\ Kept(d) = << >>
          BY <3>3, <3>4 DEF Kept
        <4> QED BY <4>1
      <3>7. /\ cl'[d].wrote = cl[d].wrote /\ cl'[d].pos >= cl[d].pos
            /\ cl'[d].pos \in Nat /\ cl'[d].op \in Nat
            /\ nops' \in Nat /\ nops' >= nops
            /\ InCall(cl'[d]) => InCall(cl[d]) /\ cl'[d].op = cl[d].op
        BY <1>1, <1>2
      <3> QED BY <1>2, <3>1, <3>4, <3>5, <3>6, <3>7, WritesKept
    <2>3. ASSUME NEW d \in Clients, Writing(d)', d = m.client
          PROVE  Writes(d)'
      <3> DEFINE w == cl[d].wrote
                 k == Kept(d)
      <3>1. d \notin tangled' /\ ~ Ended(d)' /\ cl[d].begun = "out"
        BY <1>1, <2>3 DEF Writing
      <3>2. /\ d \notin tangled /\ ~ Ended(d) /\ Letter(m)
            /\ 1 \in Sent(d) /\ inbound[1] = m /\ m.op \in Nat
            /\ \A j \in Sent(d) : inbound[j].op \in Nat /\ (j # 1 => m.op < inbound[j].op)
            /\ \A j \in Sent(d)' : \E i \in Sent(d) : i # 1 /\ inbound'[j] = inbound[i]
            /\ \A i \in Sent(d) : i # 1 => \E j \in Sent(d)' : inbound'[j] = inbound[i]
            /\ active' = IF m.eof THEN {} ELSE {d}
        BY <1>4, <2>0, <2>3, <3>1, OwnMail
      <3>3. ~ m.eof /\ m.client = d /\ d \in active'
        <4>1. m.eof => Ended(d)'
          BY <1>4, <2>0, <2>3, <3>1, OwnMail
        <4> QED BY <2>3, <3>1, <3>2, <4>1
      <3>4. Writes(d)
        BY <3>1, <3>2 DEF WriteInv, Writing
      <3>5. /\ Len(k) \in Nat /\ Len(w) \in Nat /\ Len(w) > 0 /\ \A i \in 1 .. Len(w) : w[i] \in Nat
            /\ Written(m) => Len(k) < Len(w) /\ m.op = w[Len(k) + 1]
            /\ \A i \in Len(k) + 1 .. Len(w) : m.op <= w[i]
        BY <3>1, <3>2, <3>4, WriteDue
      <3>6. /\ w \in Seq(Nat)
            /\ \A i, j \in 1 .. Len(w) : i < j => w[i] < w[j]
            /\ \A i \in 1 .. Len(w) : w[i] <= nops /\ (InCall(cl[d]) => w[i] < cl[d].op)
            /\ Len(k) <= Len(w) /\ \A i \in 1 .. Len(k) : k[i] = w[i]
            /\ \A i \in Len(k) + 1 .. Len(w) : \E j \in Sent(d) : inbound[j].op = w[i]
            /\ \A j \in Sent(d) : Written(inbound[j]) =>
                 \E i \in Len(k) + 1 .. Len(w) : inbound[j].op = w[i]
            /\ m.first <=> m.op = w[1]
            /\ \A j \in Sent(d) : inbound[j].first <=> inbound[j].op = w[1]
            /\ d \in active => file.write /\ Len(k) > 0
            /\ cl[d].pos > 0
        BY <3>2, <3>4 DEF Writes
      <3>7. d \notin active => Len(k) = 0
        BY DEF Kept
      <3>8. cl'[d].wrote = w /\ cl'[d].pos > 0 /\ cl'[d].op = cl[d].op /\ cl'[d].kind = cl[d].kind
            /\ nops' = nops
        BY <1>1, <3>6
      <3>9. CASE ~ Written(m)
        <4>1. Current(m) /\ ~ m.write
          BY <3>2, <3>3, <3>9 DEF Letter, Written
        <4>2. m.op = cl[d].op /\ InCall(cl[d])
          BY <3>3, <4>1 DEF Current
        <4>3. \A i \in 1 .. Len(w) : w[i] < m.op
          BY <3>6, <4>2
        <4>4. Len(k) = Len(w)
          <5> HIDE DEF w, k
          <5>1. ~ (Len(k) < Len(w))
            <6> SUFFICES ASSUME Len(k) < Len(w)
                         PROVE  FALSE
              OBVIOUS
            <6>1. Len(k) + 1 \in Len(k) + 1 .. Len(w) /\ Len(k) + 1 \in 1 .. Len(w)
              BY <3>5
            <6>2. m.op <= w[Len(k) + 1] /\ w[Len(k) + 1] < m.op /\ w[Len(k) + 1] \in Nat
              BY <3>5, <4>3, <6>1
            <6> QED BY <3>2, <6>2
          <5> QED BY <3>5, <3>6, <5>1
        <4>5. d \in active
          BY <3>5, <3>7, <4>4
        <4>6. ~ m.first
          <5>1. 1 \in 1 .. Len(w)
            BY <3>5
          <5>2. w[1] < m.op /\ w[1] \in Nat
            BY <3>5, <4>3, <5>1
          <5> QED BY <3>2, <3>6, <5>2
        <4>7. Kept(d)' = k /\ file' = file
          BY <1>4, <2>0, <2>3, <3>1, <3>3, <3>6, <4>1, <4>5, <4>6, ReadRefused
        <4>8. \A j \in Sent(d)' : \E i \in Sent(d) : inbound'[j] = inbound[i]
          BY <3>2
        <4>9. \A i \in Sent(d) : \/ \E j \in Sent(d)' : inbound'[j] = inbound[i]
                                 \/ \A x \in 1 .. Len(w) : inbound[i].op # w[x]
          <5> SUFFICES ASSUME NEW i \in Sent(d)
                       PROVE  \/ \E j \in Sent(d)' : inbound'[j] = inbound[i]
                              \/ \A x \in 1 .. Len(w) : inbound[i].op # w[x]
            OBVIOUS
          <5>1. CASE i # 1
            BY <3>2, <5>1
          <5>2. CASE i = 1
            <6>1. inbound[i].op = m.op
              BY <3>2, <5>2
            <6>2. \A x \in 1 .. Len(w) : m.op # w[x]
              BY <3>2, <3>5, <4>3
            <6> QED BY <6>1, <6>2
          <5> QED BY <5>1, <5>2
        <4>10. /\ cl'[d].pos >= cl[d].pos /\ cl[d].pos \in Nat /\ cl'[d].pos \in Nat
               /\ nops \in Nat /\ nops' \in Nat /\ nops' >= nops /\ cl'[d].op \in Nat
               /\ InCall(cl'[d]) => InCall(cl[d]) /\ cl'[d].op = cl[d].op
          BY <1>1, <1>2
        <4> QED BY <3>4, <3>5, <3>8, <4>5, <4>7, <4>8, <4>9, <4>10, WritesKept
      <3>10. CASE Written(m)
        <4> DEFINE v == Append(k, m.op)
        <4>1. Len(k) < Len(w) /\ m.op = w[Len(k) + 1] /\ Len(k) + 1 \in 1 .. Len(w)
          BY <3>5, <3>10
        <4>2. d \in active => ~ m.first
          <5> SUFFICES ASSUME d \in active
                       PROVE  ~ m.first
            OBVIOUS
          <5>1. 1 \in 1 .. Len(w) /\ 1 < Len(k) + 1
            BY <3>5, <3>6
          <5>2. w[1] < m.op /\ w[1] \in Nat
            BY <3>5, <3>6, <4>1, <5>1
          <5> QED BY <3>2, <3>6, <5>2
        <4>3. d \notin active => m.first
          BY <3>6, <3>7, <4>1
        <4>4. Kept(d)' = v /\ file'.write
          BY <1>4, <2>0, <2>3, <3>1, <3>6, <3>10, <4>2, <4>3, WriteServed
        <4>5. k \in Seq(Nat)
          BY <3>1, KeptType DEF Before, CallInv
        <4> HIDE DEF k, w
        <4>6. /\ Len(v) = Len(k) + 1 /\ v[Len(k) + 1] = m.op
              /\ \A i \in 1 .. Len(k) : v[i] = k[i]
              /\ 1 .. Len(v) = (1 .. Len(k)) \cup {Len(k) + 1}
          <5>1. m.op \in Nat /\ Len(k) \in Nat
            BY <3>2, <3>5
          <5>2. Len(v) = Len(k) + 1 /\ v[Len(k) + 1] = m.op /\ \A i \in 1 .. Len(k) : v[i] = k[i]
            BY <4>5, <5>1
          <5> QED BY <5>1, <5>2
        <4> HIDE DEF v
        <4>7. Len(v) <= Len(w) /\ \A i \in 1 .. Len(v) : v[i] = w[i]
          <5>1. \A i \in 1 .. Len(k) : v[i] = w[i]
            BY <3>6, <4>6
          <5>2. v[Len(k) + 1] = w[Len(k) + 1]
            BY <4>1, <4>6
          <5>3. Len(v) <= Len(w)
            BY <3>5, <4>1, <4>6
          <5> QED BY <4>6, <5>1, <5>2, <5>3
        <4>8. \A i \in Len(v) + 1 .. Len(w) : \E j \in Sent(d)' : inbound'[j].op = w[i]
          <5> SUFFICES ASSUME NEW i \in Len(v) + 1 .. Len(w)
                       PROVE  \E j \in Sent(d)' : inbound'[j].op = w[i]
            OBVIOUS
          <5>1. i \in Len(k) + 1 .. Len(w) /\ i \in 1 .. Len(w) /\ Len(k) + 1 < i
            BY <3>5, <4>6
          <5>2. PICK j \in Sent(d) : inbound[j].op = w[i]
            BY <3>6, <5>1
          <5>3. m.op < w[i]
            BY <3>6, <4>1, <5>1
          <5>4. j # 1
            BY <3>2, <5>2, <5>3
          <5> QED BY <3>2, <5>2, <5>4
        <4>9. \A j \in Sent(d)' : Written(inbound'[j]) =>
                \E i \in Len(v) + 1 .. Len(w) : inbound'[j].op = w[i]
          <5> SUFFICES ASSUME NEW j \in Sent(d)', Written(inbound'[j])
                       PROVE  \E i \in Len(v) + 1 .. Len(w) : inbound'[j].op = w[i]
            OBVIOUS
          <5>1. PICK x \in Sent(d) : x # 1 /\ inbound'[j] = inbound[x]
            BY <3>2
          <5>2. Written(inbound[x])
            BY <5>1
          <5>3. PICK i \in Len(k) + 1 .. Len(w) : inbound[x].op = w[i]
            BY <3>6, <5>2
          <5>4. i # Len(k) + 1
            <6>1. m.op < inbound[x].op
              BY <3>2, <5>1
            <6> QED BY <3>2, <4>1, <5>3, <6>1
          <5>5. i \in Len(v) + 1 .. Len(w)
            BY <3>5, <4>6, <5>4
          <5> QED BY <5>1, <5>3, <5>5
        <4>10. \A j \in Sent(d)' : inbound'[j].first <=> inbound'[j].op = w[1]
          <5> SUFFICES ASSUME NEW j \in Sent(d)'
                       PROVE  inbound'[j].first <=> inbound'[j].op = w[1]
            OBVIOUS
          <5>1. PICK x \in Sent(d) : inbound'[j] = inbound[x]
            BY <3>2
          <5> QED BY <3>6, <5>1
        <4>11. \A i \in 1 .. Len(w) : w[i] <= nops' /\ (InCall(cl'[d]) => w[i] < cl'[d].op)
          BY <3>6, <3>8 DEF InCall
        <4>12. d \in active' => file'.write /\ Len(v) > 0
          BY <3>5, <4>4, <4>6
        <4>13. w \in Seq(Nat) /\ Len(w) > 0 /\ \A i, j \in 1 .. Len(w) : i < j => w[i] < w[j]
          BY <3>5, <3>6
        <4>14. cl'[d].wrote = w /\ cl'[d].pos > 0 /\ Kept(d)' = v
          BY <3>8, <4>4
        <4> QED BY <4>7, <4>8, <4>9, <4>10, <4>11, <4>12, <4>13, <4>14 DEF Writes, Written
      <3> QED BY <3>9, <3>10
    <2> QED BY <2>2, <2>3 DEF WriteInv
  <1> QED BY <1>3, <1>4 DEF Card

LEMMA WriteInit == Init => WriteInv
  BY DEF Init, Fresh, WriteInv, Writing

LEMMA WriteStep ==
  ASSUME Before, Before', MailInv, WriteInv, ~ lost, ~ lost', [Next]_vars
  PROVE  WriteInv'
  <1>1. CASE UNCHANGED vars
    <2>1. UNCHANGED <<cl, nops, inbound, disk, file, active, tangled>>
      BY <1>1 DEF vars, card, ghosts
    <2>2. \A c : Sent(c)' = Sent(c)
      BY <2>1 DEF Sent
    <2>3. \A c : Kept(c)' = Kept(c)
      BY <2>1 DEF Kept
    <2> QED BY <2>1, <2>2, <2>3 DEF WriteInv, Writing, Writes, Ended, Written, InCall
  <1>2. ASSUME NEW c \in Clients, Quiet(c)
        PROVE  WriteInv'
    BY <1>2, QuietWrites
  <1>3. ASSUME NEW c \in Clients, Client(c)
        PROVE  WriteInv'
    BY <1>2, <1>3, BuildWrites, SendWrites DEF Client, Quiet
  <1>4. ASSUME NEW c \in Clients,
               (\E f \in Files : Open(c, f)) \/ Close(c) \/ \E k \in Kinds : Call(c, k)
        PROVE  WriteInv'
    BY <1>2, <1>4 DEF Quiet
  <1> QED BY <1>1, <1>3, <1>4, TextWrites, CardWrites, HandleWrites DEF Next

\* At the last message of a transfer the file has all that was written.
LEMMA FileComplete ==
  ASSUME Before, MailInv, WriteInv, ~ lost, Next, NEW c \in Clients,
         c \in active, c \notin active', c \notin tangled', cl[c].begun = "out"
  PROVE  disk'[cl[c].chan] = cl[c].wrote
  <1>1. ProcessFile
    <2>1. ASSUME NEW d \in Clients, Client(d)
          PROVE  active' = active
      BY <2>1 DEF Client, Alloc, Nap, Rescan, NapTimeout, FillNothing, BuildRch, Send, Sleep,
                  ReadAnswered, Copy, ReleaseAnswered, ghosts
    <2> QED BY <2>1 DEF Next, Card, ProcessText, Handle, Open, Close, SendText, Call, ghosts
  <1>2. PICK m : m = Head(inbound)
    OBVIOUS
  <1>3. active' = (IF m.eof THEN active \ {m.client} ELSE active \cup {m.client}) /\ UNCHANGED cl
    BY <1>1, <1>2, Serves DEF Before
  <1>4. m.eof /\ c = m.client
    BY <1>3
  <1>5. /\ c \notin tangled /\ ~ Ended(c) /\ Letter(m)
        /\ 1 \in Sent(c) /\ inbound[1] = m /\ m.op \in Nat
        /\ \A j \in Sent(c) : inbound[j].op \in Nat /\ (j # 1 => m.op < inbound[j].op)
        /\ file # Closed /\ file.chan = cl[c].chan
        /\ m.op = cl[c].op /\ InCall(cl[c])
    BY <1>1, <1>2, <1>4, OwnMail
  <1>6. disk' = disk
    <2>1. ~ m.first
      BY <1>4, <1>5 DEF Letter
    <2>2. Opened(m) = disk /\ ~ Moves(m)
      BY <1>4, <1>5, <2>1 DEF Opened, StaysOpen, Moves
    <2> QED BY <1>1, <1>2, <2>2, Serves DEF Before
  <1>7. Writes(c)
    BY <1>5 DEF WriteInv, Writing
  <1> DEFINE w == cl[c].wrote
             k == Kept(c)
  <1>8. /\ Len(k) \in Nat /\ Len(w) \in Nat /\ \A i \in 1 .. Len(w) : w[i] \in Nat
        /\ \A i \in Len(k) + 1 .. Len(w) : m.op <= w[i]
    BY <1>5, <1>7, WriteDue
  <1>9. /\ w \in Seq(Nat) /\ k \in Seq(Nat)
        /\ \A i \in 1 .. Len(w) : w[i] < cl[c].op
        /\ Len(k) <= Len(w) /\ \A i \in 1 .. Len(k) : k[i] = w[i]
    BY <1>5, <1>7, KeptType DEF Before, CallInv, Writes
  <1>10. k = disk[cl[c].chan]
    BY DEF Kept
  <1> HIDE DEF w, k
  <1>11. ~ (Len(k) < Len(w))
    <2> SUFFICES ASSUME Len(k) < Len(w)
                 PROVE  FALSE
      OBVIOUS
    <2>1. Len(w) \in Len(k) + 1 .. Len(w) /\ Len(w) \in 1 .. Len(w)
      BY <1>8
    <2>2. m.op <= w[Len(w)] /\ w[Len(w)] < m.op /\ w[Len(w)] \in Nat
      BY <1>5, <1>8, <1>9, <2>1
    <2> QED BY <1>5, <2>2
  <1>12. Len(k) = Len(w)
    BY <1>8, <1>9, <1>11
  <1>13. k = w
    BY <1>9, <1>12, SeqEqual
  <1> QED BY <1>6, <1>10, <1>13 DEF w

Transfers ==
  /\ BufInv /\ TypeInv /\ MatchInv /\ CallInv /\ Unanswered
  /\ ~ lost => MailInv /\ WriteInv

LEMMA LostStays == TypeInv /\ BufInv /\ [Next]_vars => (lost => lost')
  <1> SUFFICES ASSUME TypeInv, BufInv, [Next]_vars, lost
               PROVE  lost'
    OBVIOUS
  <1>1. ASSUME NEW c \in Clients, Send(c)
        PROVE  lost'
    BY <1>1, Sends
  <1>2. ASSUME NEW c \in Clients, SendText(c)
        PROVE  lost'
    <2>1. lost' = lost \/ lost' = (lost \/ Text.client # NoClient)
      BY <1>2 DEF SendText, Post
    <2> QED BY <2>1, Zenon
  <1>3. ASSUME NEW c \in Clients, Client(c)
        PROVE  lost'
    BY <1>1, <1>3 DEF Client, Alloc, Nap, Rescan, NapTimeout, FillNothing, BuildRch, Sleep,
                      ReadAnswered, Copy, ReleaseAnswered, ghosts
  <1> QED BY <1>2, <1>3 DEF Next, Card, ProcessText, ProcessFile, Handle, Open, Close, Call, vars, ghosts

LEMMA TransfersInit == Init => Transfers
  BY BufInit, TypeInit, MatchInit, NumberInit, AnswerInit, MailInit, WriteInit DEF Transfers

LEMMA TransfersStep == Transfers /\ [Next]_vars => Transfers'
  <1> SUFFICES ASSUME Transfers, [Next]_vars
               PROVE  Transfers'
    OBVIOUS
  <1>1. Before
    BY DEF Transfers, Before
  <1>2. BufInv' /\ TypeInv' /\ MatchInv' /\ CallInv' /\ Unanswered'
    BY <1>1, BufStep, TypeStep, MatchStep, NumberStep, AnswerStep DEF Before
  <1>3. Before'
    BY <1>2 DEF Before
  <1>4. ASSUME ~ lost'
        PROVE  MailInv' /\ WriteInv'
    <2>1. ~ lost
      BY <1>1, <1>4, LostStays DEF Before
    <2>2. MailInv /\ WriteInv
      BY <2>1 DEF Transfers
    <2> QED BY <1>1, <1>3, <1>4, <2>1, <2>2, MailStep, WriteStep
  <1> QED BY <1>2, <1>4 DEF Transfers

\* FileHoldsWrites: at the card's last message of a transfer that began with a
\* write and that no other transfer overlapped, the file holds what the
\* process wrote, in order.
THEOREM FileIsWritten == Spec => FileHoldsWrites
  <1>1. ASSUME Transfers, Next, NEW c \in Clients,
               c \in active /\ c \notin active' /\ c \notin tangled'
               /\ ~ lost /\ cl[c].begun = "out"
        PROVE  disk'[cl[c].chan] = cl[c].wrote
    <2>1. Before
      BY <1>1 DEF Transfers, Before
    <2> QED BY <1>1, <2>1, FileComplete DEF Transfers
  <1>2. Transfers /\ [Next]_vars =>
          [\A c \in Clients :
             /\ c \in active /\ c \notin active' /\ c \notin tangled'
             /\ ~ lost /\ cl[c].begun = "out"
             => disk'[cl[c].chan] = cl[c].wrote]_vars
    BY <1>1
  <1> QED BY <1>2, TransfersInit, TransfersStep, PTL DEF Spec, FileHoldsWrites

-----------------------------------------------------------------------------
(* What a transfer that began with a read has been given of its file.      *)
Blocked == [wanted : Nat, block : [op : 0 .. MaxOps, data : Blocks]]

\* The block of the read under way is in its buffer, and the reply on its way
\* or taken.
Loaded(c) ==
  /\ cl[c].kind = "read"
  /\ \/ cl[c].pc = "wait" /\ \E j \in 1 .. Len(outbound) :
          outbound[j].op = cl[c].op /\ outbound[j].count = 1
     \/ cl[c].pc = "wait" /\ Unlisted(c) /\ clidata[cl[c].buf] = 1
     \/ cl[c].pc = "copy" /\ cl[c].count = 1

Reads(c) ==
  LET g == cl[c].got
      d == disk[cl[c].chan]
      n == Len(g) IN
  /\ g \in Seq(Blocked) /\ n <= cl[c].pos
  /\ Loaded(c) => /\ c \in active /\ ~ file.write /\ file.at = n + 1 /\ n < Len(d)
                  /\ content[cl[c].buf].data = d[n + 1]
  /\ c \in active /\ ~ Loaded(c) /\ ~ file.write => file.at = n
  /\ n > 0 => c \in active /\ ~ file.write /\ n <= Len(d)
  /\ \A i \in 1 .. n : g[i].block.data = d[i]
  /\ \A j \in Sent(c) : inbound[j].first => n = 0 /\ ~ Loaded(c)
  /\ c \notin active => /\ cl[c].kind = "read" /\ cl[c].pc = "wait" /\ Sent(c) # {}
                        /\ \A j \in Sent(c) : inbound[j].first /\ inbound[j].op = cl[c].op

\* A transfer that began with a read, and that the card is not through with.
Reading(c) == cl[c].begun = "in" /\ c \notin tangled /\ ~ Ended(c)

ReadInv == \A c \in Clients : Reading(c) => Reads(c)

\* Nothing was read, and no block came.
LEMMA ReadsOn ==
  ASSUME NEW c \in Clients, Reads(c),
         cl'[c].got = cl[c].got, cl'[c].chan = cl[c].chan, cl'[c].pos >= cl[c].pos,
         cl[c].pos \in Nat, cl'[c].pos \in Nat,
         c \in active' <=> c \in active,
         c \in active => file' = file /\ disk'[cl[c].chan] = disk[cl[c].chan],
         Loaded(c)' <=> Loaded(c),
         Loaded(c) => content'[cl'[c].buf] = content[cl[c].buf],
         \A j \in Sent(c)' : \E i \in Sent(c) : inbound'[j] = inbound[i],
         c \notin active => /\ cl'[c].kind = cl[c].kind /\ cl'[c].pc = cl[c].pc
                            /\ cl'[c].op = cl[c].op /\ Sent(c)' # {}
  PROVE  Reads(c)'
  <1> DEFINE g == cl[c].got
             n == Len(g)
  <1>1. g \in Seq(Blocked) /\ n \in Nat /\ n <= cl[c].pos /\ cl'[c].got = g
    <2>1. g \in Seq(Blocked) /\ n <= cl[c].pos /\ cl'[c].got = g
      BY DEF Reads
    <2> HIDE DEF g
    <2> QED BY <2>1
  <1>2. CASE c \in active
    <2> DEFINE d == disk[cl[c].chan]
    <2>1. /\ Loaded(c) => /\ ~ file.write /\ file.at = n + 1 /\ n < Len(d)
                          /\ content[cl[c].buf].data = d[n + 1]
          /\ ~ Loaded(c) /\ ~ file.write => file.at = n
          /\ n > 0 => ~ file.write /\ n <= Len(d)
          /\ \A i \in 1 .. n : g[i].block.data = d[i]
          /\ \A j \in Sent(c) : inbound[j].first => n = 0 /\ ~ Loaded(c)
      BY <1>2 DEF Reads
    <2>2. disk'[cl'[c].chan] = d /\ file' = file /\ c \in active'
      BY <1>2
    <2>3. \A j \in Sent(c)' : inbound'[j].first => n = 0 /\ ~ Loaded(c)'
      BY <2>1
    <2>4. n <= cl'[c].pos
      BY <1>1
    <2>5. Loaded(c)' => content'[cl'[c].buf].data = d[n + 1]
      BY <2>1
    <2> HIDE DEF g, d
    <2> QED BY <1>1, <2>1, <2>2, <2>3, <2>4, <2>5 DEF Reads
  <1>3. CASE c \notin active
    <2>1. n = 0 /\ ~ Loaded(c)
      BY <1>1, <1>3 DEF Reads
    <2>2. /\ cl[c].kind = "read" /\ cl[c].pc = "wait"
          /\ \A j \in Sent(c) : inbound[j].first /\ inbound[j].op = cl[c].op
      BY <1>3 DEF Reads
    <2>3. /\ cl'[c].kind = "read" /\ cl'[c].pc = "wait" /\ Sent(c)' # {}
          /\ \A j \in Sent(c)' : inbound'[j].first /\ inbound'[j].op = cl'[c].op
      BY <1>3, <2>2
    <2>4. n <= cl'[c].pos /\ ~ Loaded(c)' /\ c \notin active' /\ ~ (n > 0) /\ 1 .. n = {}
      BY <1>1, <1>3, <2>1
    <2> HIDE DEF g
    <2> QED BY <1>1, <2>1, <2>3, <2>4 DEF Reads
  <1> QED BY <1>2, <1>3

\* A process is where it was with its call, and so is its handler.
LEMMA LoadedOn ==
  ASSUME NEW c \in Clients, outbound' = outbound, SameCall(cl[c], cl'[c]),
         \A pc \in {"wait", "copy"} : cl'[c].pc = pc <=> cl[c].pc = pc,
         Unlisted(c)' <=> Unlisted(c),
         cl[c].kind = "read" /\ cl[c].pc = "wait" /\ Unlisted(c) =>
           clidata'[cl[c].buf] = clidata[cl[c].buf]
  PROVE  Loaded(c)' <=> Loaded(c)
  BY DEF Loaded, SameCall

LEMMA NotLoaded ==
  ASSUME NEW c \in Clients, Loaded(c)
  PROVE  cl[c].kind = "read" /\ cl[c].pc \in {"wait", "copy"}
  BY DEF Loaded

\* Until its first message is served, a process waits for its reply.
LEMMA NotServed ==
  ASSUME Before, ~ lost, NEW c \in Clients, Reads(c), c \notin active
  PROVE  cl[c].pc = "wait" /\ cl[c].kind = "read" /\ ~ Unlisted(c) /\ Sent(c) # {}
  <1>1. Apart
    BY AllApart DEF Before, CallInv
  <1>2. /\ cl[c].kind = "read" /\ cl[c].pc = "wait" /\ Sent(c) # {}
        /\ \A j \in Sent(c) : inbound[j].op = cl[c].op
    BY DEF Reads
  <1>3. PICK j \in Sent(c) : inbound[j].op = cl[c].op
    BY <1>2
  <1>4. j \in Awaited
    BY MailIndex
  <1> QED BY <1>1, <1>2, <1>3, <1>4 DEF Apart, Unlisted

\* The reader copies a block: it is the next one of the file.
LEMMA CopyReads ==
  ASSUME Before, ~ lost, NEW c \in Clients, Reads(c), Copies(cl[c], cl'[c]), cl[c].pos \in Nat,
         UNCHANGED <<inbound, disk, file, active, content>>
  PROVE  Reads(c)'
  <1> DEFINE r == cl[c]
             s == cl'[c]
             g == r.got
             n == Len(g)
             d == disk[r.chan]
  <1>1. /\ r.pc = "copy" /\ s.pc = "user" /\ s.kind = "none" /\ s.chan = r.chan
        /\ s.pos = r.pos + r.count
        /\ s.got = IF r.count = 0 THEN g ELSE Append(g, [wanted |-> r.op, block |-> content[r.buf]])
    BY DEF Copies
  <1>2. r.count \in {0, 1} /\ r.op \in Nat
    BY ListType DEF Before
  <1>3. c \in active
    BY <1>1, NotServed
  <1>4. ~ Loaded(c)'
    BY <1>1 DEF Loaded
  <1>5. Sent(c)' = Sent(c)
    BY DEF Sent
  <1>6. CASE r.count = 0
    <2>1. ~ Loaded(c)
      BY <1>1, <1>6 DEF Loaded
    <2>2. s.got = g /\ s.pos >= r.pos /\ s.pos \in Nat
      BY <1>1, <1>6
    <2> QED BY <1>1, <1>3, <1>4, <1>5, <2>1, <2>2, ReadsOn
  <1>7. CASE r.count = 1
    <2> DEFINE e == [wanted |-> r.op, block |-> content[r.buf]]
    <2>1. r.kind = "read" /\ r.buf \in Bufs /\ Loaded(c)
      <3>1. r.kind = "read"
        BY <1>1 DEF Before, CallInv, Staged, Stage
      <3> QED BY <1>1, <1>7, <3>1 DEF Before, Unanswered, Loaded
    <2>2. e \in Blocked
      <3>1. content[r.buf] \in [op : 0 .. MaxOps, data : Blocks]
        BY <2>1 DEF Before, TypeInv, CardTyped
      <3> QED BY <1>2, <3>1 DEF Blocked
    <2>3. /\ g \in Seq(Blocked) /\ n <= r.pos /\ ~ file.write /\ file.at = n + 1 /\ n < Len(d)
          /\ e.block.data = d[n + 1]
          /\ \A i \in 1 .. n : g[i].block.data = d[i]
          /\ \A j \in Sent(c) : ~ inbound[j].first
      BY <2>1 DEF Reads
    <2>4. d \in Seq(Blocks)
      <3>1. r.chan \in Files
        BY <1>1 DEF Before, TypeInv, ClientTyped
      <3> QED BY <3>1 DEF Before, TypeInv, CardTyped
    <2>5. s.got = Append(g, e) /\ s.pos = r.pos + 1
      BY <1>1, <1>7
    <2> HIDE DEF e, g, d
    <2> DEFINE h == Append(g, e)
    <2>6. /\ h \in Seq(Blocked) /\ Len(h) = n + 1 /\ n \in Nat /\ h[n + 1] = e
          /\ \A i \in 1 .. n : h[i] = g[i]
          /\ 1 .. n + 1 = (1 .. n) \cup {n + 1}
      BY <2>2, <2>3
    <2>7. \A i \in 1 .. n + 1 : h[i].block.data = d[i]
      BY <2>3, <2>6
    <2>8. n + 1 <= s.pos /\ n + 1 <= Len(d)
      BY <2>3, <2>4, <2>5, <2>6
    <2>9. disk'[s.chan] = d /\ file' = file /\ active' = active
      BY <1>1 DEF d
    <2>10. \A j \in Sent(c)' : ~ inbound'[j].first
      BY <1>5, <2>3
    <2> HIDE DEF h
    <2>11. s.got = h
      BY <2>5 DEF h
    <2> QED BY <1>3, <1>4, <2>3, <2>6, <2>7, <2>8, <2>9, <2>10, <2>11 DEF Reads
  <1> QED BY <1>2, <1>6, <1>7

LEMMA QuietReads ==
  ASSUME Before, ReadInv, ~ lost, NEW c \in Clients, Quiet(c)
  PROVE  ReadInv'
  <1> DEFINE r == cl[c]
             s == cl'[c]
  <1>1. /\ UNCHANGED <<rchs, clidata, outbound, content, inbound, disk, file, active>> /\ Moves1(r, s)
        /\ \A d \in Clients : d # c => cl'[d] = cl[d]
        /\ ~ Opens(r, s) => tangled' = tangled
        /\ Opens(r, s) => tangled' = tangled \ {c}
    BY QuietMoves DEF Before, card
  <1>2. \A d \in Clients :
          /\ Sent(d)' = Sent(d)
          /\ \A j \in Sent(d)' : \E i \in Sent(d) : inbound'[j] = inbound[i]
    BY <1>1, SameSent
  <1>3. \A d \in Clients : cl[d].pos \in Nat /\ cl[d].count \in {0, 1}
    BY ListType DEF Before, CallInv, Staged, Stage
  <1>4. ASSUME NEW d \in Clients, d # c, Reading(d)'
        PROVE  Reads(d)'
    <2>1. Reading(d)
      BY <1>1, <1>2, <1>4 DEF Reading, Ended
    <2>2. Reads(d)
      BY <2>1 DEF ReadInv
    <2>3. Unlisted(d)' <=> Unlisted(d)
      BY <1>1, <1>4 DEF Unlisted
    <2>4. Loaded(d)' <=> Loaded(d)
      BY <1>1, <1>4, <2>3, LoadedOn DEF SameCall
    <2>5. cl'[d] = cl[d] /\ cl[d].pos \in Nat /\ cl[d].pos >= cl[d].pos
      BY <1>1, <1>3, <1>4
    <2>6. d \notin active => Sent(d)' # {}
      BY <1>2, <2>2 DEF Reads
    <2> QED BY <1>1, <1>2, <2>2, <2>4, <2>5, <2>6, ReadsOn
  <1>5. ASSUME Reading(c)'
        PROVE  Reads(c)'
    <2>1. s.begun = "in" /\ ~ Leaves(r, s) /\ ~ Opens(r, s)
      BY <1>5, FreshStart DEF Reading
    <2>2. /\ s.begun = r.begun /\ s.chan = r.chan
          /\ r.pc = "wait" /\ r.kind = "release" => s.pc = "wait" /\ s.kind = "release"
      BY <1>1, <2>1 DEF Moves1, Looks, Takes, Sleeps, GivesUp, Wakes, Copies, Calls, Keeps, SameCall
    <2>3. Reading(c)
      BY <1>1, <1>2, <1>5, <2>1, <2>2 DEF Reading, Ended
    <2>4. Reads(c)
      BY <2>3 DEF ReadInv
    <2>5. CASE Copies(r, s)
      BY <1>1, <1>3, <2>4, <2>5, CopyReads
    <2>6. CASE Wakes(r, s)
      <3>1. /\ r.pc = "wait" /\ s.pc = "copy" /\ r.kind = "read" /\ s.count = clidata[r.buf]
            /\ s.pos = r.pos /\ s.got = r.got /\ s.kind = r.kind /\ s.op = r.op /\ s.buf = r.buf
            /\ clidata[r.buf] # Kbuf
        BY <2>6 DEF Wakes, Keeps
      <3>2. Unlisted(c)
        BY <3>1 DEF Before, Unanswered
      <3>3. c \in active
        BY <2>4, <3>2, NotServed
      <3>4. ~ \E j \in 1 .. Len(outbound) : outbound[j].op = r.op
        <4>1. Apart
          BY AllApart DEF Before, CallInv
        <4> QED BY <3>2, <4>1 DEF Apart, Unlisted
      <3>5. Loaded(c)' <=> Loaded(c)
        BY <3>1, <3>2, <3>4 DEF Loaded
      <3>6. s.pos >= r.pos /\ r.pos \in Nat /\ s.pos \in Nat
        BY <1>3, <3>1
      <3>7. content'[s.buf] = content[r.buf]
        BY <1>1, <3>1
      <3> QED BY <1>1, <1>2, <2>2, <2>4, <3>1, <3>3, <3>5, <3>6, <3>7, ReadsOn
    <2>7. CASE Sleeps(r, s)
      <3>1. Unlisted(c)' <=> Unlisted(c)
        BY <1>1, <2>7 DEF Unlisted, Sleeps, SameCall
      <3>2. /\ SameCall(r, s) /\ s.pos = r.pos /\ s.got = r.got /\ s.pc = r.pc
        BY <2>7 DEF Sleeps, Keeps
      <3>3. Loaded(c)' <=> Loaded(c)
        BY <1>1, <3>1, <3>2, LoadedOn
      <3>4. s.pos >= r.pos /\ r.pos \in Nat /\ s.pos \in Nat
        BY <1>3, <3>2
      <3>5. s.kind = r.kind /\ s.op = r.op /\ s.buf = r.buf
        BY <3>2 DEF SameCall
      <3>6. c \notin active => Sent(c)' # {}
        BY <1>2, <2>4 DEF Reads
      <3> QED BY <1>1, <1>2, <2>2, <2>4, <3>2, <3>3, <3>4, <3>5, <3>6, ReadsOn
    <2>8. CASE Looks(r, s) \/ Takes(r, s) \/ GivesUp(r, s) \/ Calls(r, s)
      <3>1. r.pc \notin {"wait", "copy"} /\ s.pc \notin {"wait", "copy"} /\ s.pos = r.pos /\ s.got = r.got
        BY <2>8 DEF Looks, Takes, GivesUp, Calls, Keeps
      <3>2. ~ Loaded(c) /\ ~ Loaded(c)'
        BY <3>1 DEF Loaded
      <3>3. c \in active
        BY <2>4, <3>1, NotServed
      <3>4. s.pos >= r.pos /\ r.pos \in Nat /\ s.pos \in Nat
        BY <1>3, <3>1
      <3> QED BY <1>1, <1>2, <2>2, <2>4, <3>1, <3>2, <3>3, <3>4, ReadsOn
    <2> QED BY <1>1, <2>1, <2>5, <2>6, <2>7, <2>8 DEF Moves1
  <1> QED BY <1>4, <1>5 DEF ReadInv

\* A buffer with a block that its reader waits for is nobody else's.
LEMMA LoadedBuffer ==
  ASSUME Before, Guarded, ~ lost, NEW d \in Clients, Loaded(d)
  PROVE  /\ cl[d].buf \in Bufs
         /\ \A c \in Clients : cl[c].pc = "fill" => cl[c].buf # cl[d].buf
         /\ \A i \in 1 .. Len(rchs) : rchs[i].op # cl[d].op => rchs[i].buf # cl[d].buf
  <1>1. Apart /\ Numbered
    BY AllApart DEF Before, CallInv
  <1>2. cl[d].kind = "read" /\ cl[d].pc \in {"wait", "copy"} /\ InCall(cl[d])
    BY NotLoaded DEF InCall
  <1>3. cl[d].buf \in Bufs
    BY <1>2, ReaderBuffer DEF Before, Unanswered
  <1>4. CASE cl[d].pc = "copy" \/ Unlisted(d)
    BY <1>2, <1>3, <1>4 DEF Guarded
  <1>5. CASE cl[d].pc = "wait" /\ ~ Unlisted(d)
    <2>1. PICK j \in 1 .. Len(rchs) : rchs[j].op = cl[d].op
      BY <1>5 DEF Unlisted
    <2>2. rchs[j].buf = cl[d].buf
      BY <1>1, <1>2, <2>1 DEF Numbered
    <2>3. cl[d].buf # NoBuf
      BY <1>3, Buffers
    <2>4. \A i \in 1 .. Len(rchs) : rchs[i].buf = cl[d].buf => i = j
      BY <2>2, <2>3 DEF Before, BufInv, OneHolder
    <2>5. \A c \in Clients : cl[c].pc = "fill" => cl[c].buf # cl[d].buf
      BY <2>2, <2>3 DEF Before, BufInv, OneHolder, Holding
    <2> QED BY <1>3, <2>1, <2>4, <2>5
  <1> QED BY <1>2, <1>4, <1>5

LEMMA BuildReads ==
  ASSUME Before, ReadInv, Guarded, ~ lost, NEW c \in Clients, BuildRch(c)
  PROVE  ReadInv'
  <1>1. /\ cl[c].pc = "fill" /\ cl'[c].pc = "built" /\ cl[c].kind \in {"read", "write", "release"}
        /\ \A d \in Clients : d # c => cl'[d] = cl[d]
        /\ cl'[c].chan = cl[c].chan /\ cl'[c].pos = cl[c].pos /\ cl'[c].got = cl[c].got
        /\ cl'[c].begun = cl[c].begun
        /\ Len(rchs') = Len(rchs) + 1 /\ Len(rchs) \in Nat
        /\ \A i \in 1 .. Len(rchs) : rchs'[i] = rchs[i]
        /\ UNCHANGED <<inbound, outbound, disk, file, active, tangled>>
        /\ \A b \in Bufs : b # cl[c].buf => content'[b] = content[b] /\ clidata'[b] = clidata[b]
    BY Builds DEF Before, card, ghosts
  <1>2. rchs'[Len(rchs) + 1].op = cl[c].op
    <2>1. rchs'[Len(rchs) + 1] = Holder(c)
      BY Builds DEF Before
    <2> QED BY <2>1 DEF Holder
  <1>3. 1 .. Len(rchs') = (1 .. Len(rchs)) \cup {Len(rchs) + 1}
    BY <1>1
  <1>4. \A d \in Clients :
          /\ Sent(d)' = Sent(d) /\ cl[d].pos \in Nat /\ cl[d].pos >= cl[d].pos
          /\ \A j \in Sent(d)' : \E i \in Sent(d) : inbound'[j] = inbound[i]
    BY <1>1, SameSent, ListType DEF Before, CallInv, Staged, Stage
  <1>5. ASSUME NEW d \in Clients, Reading(d)'
        PROVE  Reads(d)'
    <2>1. Reads(d)
      BY <1>1, <1>4, <1>5 DEF Reading, Ended, ReadInv
    <2>2. CASE d = c
      <3>1. ~ Loaded(c) /\ ~ Loaded(c)'
        BY <1>1 DEF Loaded
      <3>2. c \in active
        BY <1>1, <2>1, <2>2, NotServed
      <3> QED BY <1>1, <1>4, <2>1, <2>2, <3>1, <3>2, ReadsOn
    <2>3. CASE d # c
      <3>1. cl'[d] = cl[d] /\ (d \notin active => Sent(d)' # {})
        BY <1>1, <1>4, <2>1, <2>3 DEF Reads
      <3>2. Loaded(d)' <=> Loaded(d)
        <4>1. CASE cl[d].kind # "read"
          BY <3>1, <4>1 DEF Loaded
        <4>2. CASE cl[d].kind = "read"
          <5>1. cl[c].op # cl[d].op
            BY <1>1, <2>3, <4>2 DEF Before, CallInv, Numbered, InCall
          <5>2. Unlisted(d)' <=> Unlisted(d)
            BY <1>1, <1>2, <1>3, <3>1, <5>1 DEF Unlisted
          <5>3. cl[d].pc = "wait" /\ Unlisted(d) => clidata'[cl[d].buf] = clidata[cl[d].buf]
            <6> SUFFICES ASSUME cl[d].pc = "wait", Unlisted(d)
                         PROVE  clidata'[cl[d].buf] = clidata[cl[d].buf]
              OBVIOUS
            <6>1. cl[d].buf \in Bufs
              BY <4>2, ReaderBuffer DEF Before
            <6>2. cl[c].buf # cl[d].buf
              BY <1>1, <4>2 DEF Guarded
            <6> QED BY <1>1, <6>1, <6>2
          <5> QED BY <1>1, <3>1, <5>2, <5>3, LoadedOn DEF SameCall
        <4> QED BY <4>1, <4>2
      <3>3. Loaded(d) => content'[cl'[d].buf] = content[cl[d].buf]
        BY <1>1, <3>1, LoadedBuffer
      <3> QED BY <1>1, <1>4, <2>1, <3>1, <3>2, <3>3, ReadsOn
    <2> QED BY <2>2, <2>3
  <1> QED BY <1>5 DEF ReadInv

\* A message that no reader sent.
LEMMA TextReads ==
  ASSUME Before, ReadInv, ~ lost, ~ lost', NEW c \in Clients, SendText(c)
  PROVE  ReadInv'
  <1>1. /\ UNCHANGED <<cl, rchs, clidata, content, outbound, disk, file, active, tangled>>
        /\ Post(Text)
    BY DEF SendText, card
  <1>2. \/ UNCHANGED inbound
        \/ \E m : m.client = NoClient /\ inbound' = Append(inbound, m)
    <2>1. \A x : [Text EXCEPT !.id = x].client = NoClient
      BY DEF Text
    <2> QED BY <1>1, <2>1 DEF Post
  <1>3. ASSUME NEW d \in Clients
        PROVE  /\ Sent(d)' = Sent(d)
               /\ \A j \in Sent(d)' : \E i \in Sent(d) : inbound'[j] = inbound[i]
    <2>1. CASE UNCHANGED inbound
      BY <2>1, SameSent
    <2>2. ASSUME NEW m, m.client = NoClient, inbound' = Append(inbound, m)
          PROVE  Sent(d)' = Sent(d) /\ \A i \in Sent(d) : inbound'[i] = inbound[i]
      <3>1. /\ \A i \in 1 .. Len(inbound) : inbound'[i] = inbound[i]
            /\ Sent(d)' = IF m.client = d THEN Sent(d) \cup {Len(inbound) + 1} ELSE Sent(d)
        BY <2>2, InboundGrows DEF Before
      <3> QED BY <2>2, <3>1, BridgeAssumption DEF Sent
    <2> QED BY <1>2, <2>1, <2>2
  <1>4. ASSUME NEW d \in Clients, Reading(d)'
        PROVE  Reads(d)'
    <2>1. Reads(d)
      BY <1>1, <1>3, <1>4 DEF Reading, Ended, ReadInv
    <2>2. cl[d].pos \in Nat /\ cl[d].pos >= cl[d].pos
      BY ListType DEF Before, CallInv, Staged, Stage
    <2>3. d \notin active => Sent(d)' # {}
      BY <1>3, <2>1 DEF Reads
    <2>4. Loaded(d)' <=> Loaded(d)
      BY <1>1 DEF Loaded, Unlisted
    <2> QED BY <1>1, <1>3, <2>1, <2>2, <2>3, <2>4, ReadsOn
  <1> QED BY <1>4 DEF ReadInv

LEMMA SendReads ==
  ASSUME Before, MailInv, ReadInv, ~ lost, ~ lost', NEW c \in Clients, Send(c)
  PROVE  ReadInv'
  <1>0. PICK k : k = Len(inbound) + 1
    OBVIOUS
  <1>1. /\ cl[c].pc = "built" /\ cl[c].kind \in {"read", "write", "release"}
        /\ \A d \in Clients : d # c => cl'[d] = cl[d]
        /\ cl'[c].chan = cl[c].chan /\ cl'[c].got = cl[c].got
        /\ cl'[c].begun = IF cl[c].begun = "none" THEN cl[c].dir ELSE cl[c].begun
        /\ cl[c].kind = "write" => /\ cl'[c].pc = "user" /\ cl'[c].kind = "none"
                                   /\ cl'[c].pos = cl[c].pos + 1
        /\ cl[c].kind # "write" =>
             /\ cl'[c].pc = "wait" /\ cl'[c].kind = cl[c].kind /\ cl'[c].op = cl[c].op
             /\ cl'[c].pos = cl[c].pos
        /\ UNCHANGED <<rchs, clidata, content, outbound, disk, file, active, tangled>>
    BY Sends DEF Before, SameCall, card
  <1>2. PICK m : inbound' = Append(inbound, m) /\ SentBy(m, c)
    BY Sends DEF Before
  <1>3. m.op = cl[c].op /\ m.client = c /\ (m.first <=> cl[c].pos = 0 /\ cl[c].kind # "release")
    BY <1>2 DEF SentBy
  <1>4. /\ inbound'[k] = m
        /\ \A i \in 1 .. Len(inbound) : inbound'[i] = inbound[i]
        /\ Sent(c)' = Sent(c) \cup {k}
        /\ \A d \in Clients : d # c => Sent(d)' = Sent(d)
    BY <1>0, <1>2, <1>3, InboundGrows DEF Before
  <1>5. \A d \in Clients : \A i \in Sent(d) : inbound'[i] = inbound[i]
    BY <1>4 DEF Sent
  <1>6. Turns /\ Stage(cl[c]) /\ Apart /\ \A d \in Clients : cl[d].pos \in Nat /\ cl[d].pos >= cl[d].pos
    BY ListType, AllApart DEF Before, MailInv, CallInv, Staged, Stage
  <1>7. ASSUME NEW d \in Clients, d # c, Reading(d)'
        PROVE  Reads(d)'
    <2>1. Reads(d)
      BY <1>1, <1>4, <1>7 DEF Reading, Ended, ReadInv
    <2>2. cl'[d] = cl[d] /\ Sent(d)' = Sent(d) /\ (d \notin active => Sent(d)' # {})
      BY <1>1, <1>4, <1>7, <2>1 DEF Reads
    <2>3. Loaded(d)' <=> Loaded(d)
      BY <1>1, <2>2 DEF Loaded, Unlisted
    <2>4. \A j \in Sent(d)' : \E i \in Sent(d) : inbound'[j] = inbound[i]
      BY <1>5, <2>2
    <2> QED BY <1>1, <1>6, <2>1, <2>2, <2>3, <2>4, ReadsOn
  <1>8. ASSUME Reading(c)'
        PROVE  Reads(c)'
    <2> DEFINE g == cl[c].got
               n == Len(g)
               d == disk[cl[c].chan]
    <2>1. cl'[c].begun = "in" /\ c \notin tangled
      BY <1>1, <1>8 DEF Reading
    <2>2. ~ Loaded(c) /\ ~ Loaded(c)'
      <3>1. ~ Loaded(c)
        BY <1>1 DEF Loaded
      <3>2. ~ Unlisted(c) /\ \A j \in 1 .. Len(outbound) : outbound[j].op # cl[c].op
        BY <1>1, <1>6 DEF Apart
      <3>3. CASE cl[c].kind = "write"
        BY <1>1, <3>1, <3>3 DEF Loaded
      <3>4. CASE cl[c].kind # "write"
        BY <1>1, <3>1, <3>2, <3>4 DEF Loaded, Unlisted
      <3> QED BY <3>3, <3>4, <3>1
    <2>3. CASE cl[c].begun = "none"
      <3>1. cl[c].dir = "in" /\ cl[c].kind = "read" /\ g = << >> /\ cl[c].pos = 0
        BY <1>1, <1>6, <2>1, <2>3 DEF Stage
      <3>2. c \notin active /\ Sent(c) = {}
        BY <1>6, <2>3 DEF Turns
      <3>3. Sent(c)' = {k} /\ inbound'[k].first /\ inbound'[k].op = cl[c].op
        BY <1>3, <1>4, <3>1, <3>2
      <3>4. << >> \in Seq(Blocked) /\ Len(<< >>) = 0
        BY EmptySeq
      <3>5. cl'[c].got = << >> /\ cl'[c].pos = 0 /\ cl'[c].kind = "read" /\ cl'[c].pc = "wait"
            /\ cl'[c].op = cl[c].op /\ c \notin active'
        BY <1>1, <3>1, <3>2
      <3>6. 1 .. 0 = {} /\ 0 <= 0 /\ ~ (0 > 0)
        OBVIOUS
      <3> QED BY <2>2, <3>3, <3>4, <3>5, <3>6 DEF Reads
    <2>4. CASE cl[c].begun # "none"
      <3>1. Reads(c)
        BY <1>1, <2>1, <2>4 DEF ReadInv, Reading, Ended
      <3>2. c \in active
        BY <1>1, <3>1, NotServed
      <3>3. /\ g \in Seq(Blocked) /\ n <= cl[c].pos
            /\ ~ file.write => file.at = n
            /\ n > 0 => ~ file.write /\ n <= Len(d)
            /\ \A i \in 1 .. n : g[i].block.data = d[i]
            /\ \A j \in Sent(c) : inbound[j].first => n = 0
        BY <2>2, <3>1, <3>2 DEF Reads
      <3>4. cl'[c].got = g /\ disk'[cl'[c].chan] = d /\ file' = file /\ c \in active'
        BY <1>1, <3>2
      <3> HIDE DEF g, d
      <3>5. n \in Nat
        BY <3>3
      <3>6. m.first => n = 0
        BY <1>3, <3>3, <3>5
      <3>7. n <= cl'[c].pos
        BY <1>1, <1>6, <3>3, <3>5
      <3>8. \A j \in Sent(c)' : inbound'[j].first => n = 0 /\ ~ Loaded(c)'
        BY <1>4, <1>5, <2>2, <3>3, <3>6
      <3> QED BY <2>2, <3>3, <3>4, <3>7, <3>8 DEF Reads
    <2> QED BY <2>3, <2>4
  <1> QED BY <1>7, <1>8 DEF ReadInv

\* A reply is taken: its block is its reader's as it was on its way.
LEMMA HandleReads ==
  ASSUME Before, ReadInv, Guarded, ~ lost, Handle
  PROVE  ReadInv'
  <1> DEFINE h == rchs[1]
             p == Len(outbound)
  <1>1. /\ 1 \in 1 .. p /\ Head(outbound) = outbound[1] /\ h.op = outbound[1].op /\ 1 \in 1 .. Len(rchs)
        /\ p \in Nat /\ Len(outbound') = p - 1
        /\ \A j \in 1 .. p - 1 : outbound'[j] = outbound[j + 1]
        /\ Len(rchs) \in Nat /\ Len(rchs') = Len(rchs) - 1
        /\ \A k \in 1 .. Len(rchs) - 1 : rchs'[k] = rchs[k + 1]
        /\ Min(Matches(Head(outbound).id)) = 1
    BY FirstReply
  <1>2. /\ UNCHANGED <<content, inbound, disk, file, active, tangled>>
        /\ \A d \in Clients : Handled(cl[d], cl'[d])
        /\ \A b \in Bufs : clidata'[b] = IF h.kind = "read" /\ b = h.buf
                                           THEN outbound[1].count ELSE clidata[b]
    BY <1>1, Handles DEF Before, card, ghosts
  <1>3. \A d \in Clients :
          /\ cl'[d].chan = cl[d].chan /\ cl'[d].begun = cl[d].begun /\ cl'[d].kind = cl[d].kind
          /\ cl'[d].op = cl[d].op /\ cl'[d].buf = cl[d].buf /\ cl'[d].count = cl[d].count
          /\ cl'[d].pos = cl[d].pos /\ cl'[d].got = cl[d].got
          /\ (cl'[d].pc = "wait" <=> cl[d].pc = "wait")
          /\ (cl'[d].pc = "copy" <=> cl[d].pc = "copy")
    BY <1>2 DEF Handled, SameCall
  <1>4. \A d \in Clients :
          /\ Sent(d)' = Sent(d) /\ cl[d].pos \in Nat /\ cl[d].pos >= cl[d].pos
          /\ \A j \in Sent(d)' : \E i \in Sent(d) : inbound'[j] = inbound[i]
    BY <1>2, SameSent, ListType DEF Before, CallInv, Staged, Stage
  <1>5. /\ \A j \in 1 .. p - 1 : j + 1 \in 1 .. p /\ j + 1 # 1
        /\ \A j \in 1 .. p : j # 1 => j - 1 \in 1 .. p - 1 /\ (j - 1) + 1 = j
        /\ \A k \in 1 .. Len(rchs) - 1 : k + 1 \in 1 .. Len(rchs) /\ k + 1 # 1
        /\ \A k \in 1 .. Len(rchs) : k # 1 => k - 1 \in 1 .. Len(rchs) - 1 /\ (k - 1) + 1 = k
    BY <1>1
  <1>6. Apart /\ Numbered
    BY AllApart DEF Before, CallInv
  <1>7. ASSUME NEW d \in Clients
        PROVE  Loaded(d)' <=> Loaded(d)
    <2> DEFINE op == cl[d].op
               Came  == \E j \in 1 .. p : outbound[j].op = op /\ outbound[j].count = 1
               Came1 == \E j \in 1 .. p - 1 : outbound'[j].op = op /\ outbound'[j].count = 1
    <2>1. CASE cl[d].kind # "read"
      BY <1>3, <2>1 DEF Loaded
    <2>2. CASE cl[d].kind = "read" /\ cl[d].pc # "wait"
      BY <1>3, <2>2 DEF Loaded
    <2>3. CASE cl[d].kind = "read" /\ cl[d].pc = "wait"
      <3>1. cl[d].buf \in Bufs /\ InCall(cl[d])
        BY <2>3, ReaderBuffer DEF Before, InCall
      <3>2. /\ Loaded(d) <=> Came \/ (Unlisted(d) /\ clidata[cl[d].buf] = 1)
            /\ Loaded(d)' <=> Came1 \/ (Unlisted(d)' /\ clidata'[cl[d].buf] = 1)
        BY <1>1, <1>3, <2>3 DEF Loaded
      <3>3. CASE h.op = op
        <4>1. h.buf = cl[d].buf /\ h.kind = "read" /\ ~ Unlisted(d)
          BY <1>1, <1>6, <2>3, <3>1, <3>3 DEF Numbered, Unlisted
        <4>2. \A j \in 1 .. p : outbound[j].op = op => j = 1
          BY <1>1, <1>6, <3>3 DEF Apart
        <4>3. Came <=> outbound[1].count = 1
          BY <1>1, <3>3, <4>2
        <4>4. ~ Came1
          BY <1>1, <1>5, <4>2
        <4>5. Unlisted(d)'
          <5>1. \A k \in 1 .. Len(rchs) : rchs[k].op = op => k = 1
            BY <1>1, <1>6, <3>3 DEF Numbered
          <5>2. \A k \in 1 .. Len(rchs) - 1 : rchs'[k].op # op
            BY <1>1, <1>5, <5>1
          <5> QED BY <1>1, <1>3, <5>2 DEF Unlisted
        <4>6. clidata'[cl[d].buf] = outbound[1].count
          BY <1>2, <3>1, <4>1
        <4> QED BY <3>2, <4>1, <4>3, <4>4, <4>5, <4>6
      <3>4. CASE h.op # op
        <4>1. Came1 <=> Came
          <5>1. ASSUME NEW j \in 1 .. p, outbound[j].op = op, outbound[j].count = 1
                PROVE  Came1
            <6>1. j # 1
              BY <1>1, <3>4, <5>1
            <6>2. j - 1 \in 1 .. p - 1 /\ outbound'[j - 1] = outbound[j]
              BY <1>1, <1>5, <6>1
            <6> QED BY <5>1, <6>2
          <5>2. ASSUME NEW j \in 1 .. p - 1, outbound'[j].op = op, outbound'[j].count = 1
                PROVE  Came
            <6>1. j + 1 \in 1 .. p /\ outbound'[j] = outbound[j + 1]
              BY <1>1, <1>5
            <6> QED BY <5>2, <6>1
          <5> QED BY <5>1, <5>2
        <4>2. Unlisted(d)' <=> Unlisted(d)
          <5>1. ASSUME NEW k \in 1 .. Len(rchs'), rchs'[k].op = op
                PROVE  \E j \in 1 .. Len(rchs) : rchs[j].op = op
            <6>1. k + 1 \in 1 .. Len(rchs) /\ rchs'[k] = rchs[k + 1]
              BY <1>1, <1>5
            <6> QED BY <5>1, <6>1
          <5>2. ASSUME NEW k \in 1 .. Len(rchs), rchs[k].op = op
                PROVE  \E j \in 1 .. Len(rchs') : rchs'[j].op = op
            <6>1. k # 1
              BY <3>4, <5>2
            <6>2. k - 1 \in 1 .. Len(rchs) - 1 /\ rchs'[k - 1] = rchs[k]
              BY <1>1, <1>5, <6>1
            <6> QED BY <1>1, <5>2, <6>2
          <5> QED BY <1>3, <5>1, <5>2 DEF Unlisted
        <4>3. Unlisted(d) => clidata'[cl[d].buf] = clidata[cl[d].buf]
          <5>1. Unlisted(d) => h.buf # cl[d].buf
            BY <1>1, <2>3 DEF Guarded
          <5> QED BY <1>2, <3>1, <5>1
        <4> HIDE DEF Came, Came1
        <4> QED BY <3>2, <4>1, <4>2, <4>3
      <3> QED BY <3>3, <3>4
    <2> QED BY <2>1, <2>2, <2>3
  <1>8. ASSUME NEW d \in Clients, Reading(d)'
        PROVE  Reads(d)'
    <2>1. Reads(d)
      BY <1>2, <1>3, <1>4, <1>8 DEF Reading, Ended, ReadInv
    <2>2. d \notin active => cl[d].pc = "wait" /\ Sent(d)' # {}
      BY <1>4, <2>1 DEF Reads
    <2>3. d \notin active => cl'[d].pc = cl[d].pc
      BY <1>3, <2>2
    <2> QED BY <1>2, <1>3, <1>4, <1>7, <2>1, <2>2, <2>3, ReadsOn
  <1> QED BY <1>8 DEF ReadInv

\* The card's reply may be that a reader waits for.
LEMMA LoadServed ==
  ASSUME Before, ~ lost, ProcessFile, NEW d \in Clients, NEW m, m = Head(inbound)
  PROVE  /\ Loaded(d) => m.op # cl[d].op
         /\ Loaded(d)' <=> \/ Loaded(d)
                           \/ /\ cl[d].kind = "read" /\ cl[d].pc = "wait"
                              /\ m.op = cl[d].op /\ Moves(m)
  <1>1. PICK e : e = [id |-> m.id, op |-> m.op, count |-> IF Moves(m) THEN 1 ELSE 0]
    OBVIOUS
  <1>2. /\ 1 \in Awaited /\ inbound[1] = m /\ outbound' = Append(outbound, e)
        /\ UNCHANGED <<cl, rchs, clidata>>
    BY <1>1, Serves DEF Before
  <1>3. e.op = m.op /\ (e.count = 1 <=> Moves(m))
    BY <1>1
  <1>4. LET p == Len(outbound) IN
        /\ p \in Nat /\ 1 .. Len(outbound') = (1 .. p) \cup {p + 1} /\ outbound'[p + 1] = e
        /\ \A j \in 1 .. p : outbound'[j] = outbound[j]
    BY <1>2, Queues DEF Before
  <1>5. Apart
    BY AllApart DEF Before, CallInv
  <1>6. Unlisted(d)' <=> Unlisted(d)
    BY <1>2 DEF Unlisted
  <1>7. \E k \in 1 .. Len(rchs) : rchs[k].op = m.op
    BY <1>2, <1>5 DEF Apart
  <1>8. \A j \in 1 .. Len(outbound) : outbound[j].op # m.op
    BY <1>2, <1>5 DEF Apart
  <1>9. Loaded(d) => m.op # cl[d].op
    BY <1>7, <1>8 DEF Loaded, Unlisted, Before, Unanswered
  <1> DEFINE Came  == \E j \in 1 .. Len(outbound) : outbound[j].op = cl[d].op /\ outbound[j].count = 1
             Came1 == \E j \in 1 .. Len(outbound') : outbound'[j].op = cl[d].op /\ outbound'[j].count = 1
  <1>10. Came1 <=> Came \/ (m.op = cl[d].op /\ Moves(m))
    BY <1>3, <1>4
  <1>11. Loaded(d) <=> /\ cl[d].kind = "read"
                       /\ \/ cl[d].pc = "wait" /\ (Came \/ (Unlisted(d) /\ clidata[cl[d].buf] = 1))
                          \/ cl[d].pc = "copy" /\ cl[d].count = 1
    BY DEF Loaded
  <1>12. Loaded(d)' <=> /\ cl[d].kind = "read"
                        /\ \/ cl[d].pc = "wait" /\ (Came1 \/ (Unlisted(d)' /\ clidata[cl[d].buf] = 1))
                           \/ cl[d].pc = "copy" /\ cl[d].count = 1
    BY <1>2 DEF Loaded
  <1> HIDE DEF Came, Came1
  <1> QED BY <1>6, <1>9, <1>10, <1>11, <1>12

\* What becomes of the file in a transfer that overlaps no other.
LEMMA OwnServed ==
  ASSUME Before, MailInv, ~ lost, ProcessFile, NEW d \in Clients, d = Head(inbound).client,
         NEW m, m = Head(inbound), d \notin tangled', ~ m.eof
  PROVE  LET f == disk[cl[d].chan]
             n == IF Moves(m) THEN 1 ELSE 0 IN
         /\ m.write => content' = content
         /\ (d \notin active \/ m.first) /\ ~ m.write =>
              /\ disk' = disk /\ ~ file'.write /\ (Moves(m) <=> 0 < Len(f)) /\ file'.at = n
              /\ Moves(m) => content'[m.buf].data = f[1]
         /\ (d \notin active \/ m.first) /\ m.write => file'.write
         /\ d \in active /\ ~ m.first /\ ~ m.write =>
              /\ disk' = disk /\ file'.write = file.write /\ file'.at = file.at + n
              /\ (Moves(m) <=> ~ file.write /\ file.at < Len(f))
              /\ Moves(m) => content'[m.buf].data = f[file.at + 1]
         /\ d \in active /\ ~ m.first /\ m.write =>
              file' = file /\ (~ file.write => disk' = disk)
  <1> DEFINE s == Served(m)
             f == disk[cl[d].chan]
             n == IF Moves(m) THEN 1 ELSE 0
  <1>1. /\ Letter(m) /\ m.client = d
        /\ d \in active => file # Closed /\ file.chan = cl[d].chan
        /\ d \notin active => file = Closed
    BY OwnMail
  <1>2. m.chan = cl[d].chan
    BY <1>1 DEF Letter
  <1>3. /\ m.buf \in Bufs /\ s.chan \in Files /\ s.at \in Nat /\ m.write \in BOOLEAN
    BY Serves, InboundShrinks DEF Before, Mail, Messages
  <1>4. disk' = IF m.write /\ n = 1
                  THEN [Opened(m) EXCEPT ![s.chan] = Append(@, content[m.buf].data)]
                  ELSE Opened(m)
    BY Serves DEF Before
  <1>5. content' = IF ~ m.write /\ n = 1
                     THEN [content EXCEPT ![m.buf] = [op |-> m.op, data |-> disk[s.chan][s.at + 1]]]
                     ELSE content
    BY Serves DEF Before
  <1>6. file' = [s EXCEPT !.at = @ + (IF m.write THEN 0 ELSE n)]
    BY Serves DEF Before
  <1>7. /\ file \in [chan : Files \cup {NoFile}, write : BOOLEAN, at : Nat]
        /\ content = [b \in Bufs |-> content[b]]
    BY DEF Before, TypeInv, CardTyped
  <1>8. Moves(m) <=> m.write = s.write /\ (~ m.write => s.at < Len(Opened(m)[s.chan]))
    BY DEF Moves
  <1>9. s = [chan |-> s.chan, write |-> s.write, at |-> s.at] /\ s.write \in BOOLEAN
    BY <1>3, <1>7 DEF Served
  <1>10. (n = 1 <=> Moves(m)) /\ n \in Nat
    OBVIOUS
  <1>11. d \notin active \/ m.first => s = [chan |-> m.chan, write |-> m.write, at |-> 0]
    BY <1>1 DEF Served, StaysOpen
  <1>12. d \in active /\ ~ m.first => s = file /\ Opened(m) = disk
    BY <1>1 DEF Served, Opened, StaysOpen
  <1>13. ~ m.write => Opened(m) = disk
    BY DEF Opened
  <1> HIDE DEF s, n
  <1>14. file' = [chan |-> s.chan, write |-> s.write, at |-> s.at + (IF m.write THEN 0 ELSE n)]
    BY <1>6, <1>9
  <1>15. m.write => content' = content
    BY <1>5
  <1>16. ~ m.write /\ Moves(m) => content'[m.buf].data = disk[s.chan][s.at + 1]
    BY <1>3, <1>5, <1>7, <1>10
  <1>17. ~ m.write => disk' = disk
    BY <1>4, <1>13
  <1>18. ASSUME d \notin active \/ m.first
         PROVE  /\ ~ m.write => /\ disk' = disk /\ ~ file'.write /\ (Moves(m) <=> 0 < Len(f))
                                /\ file'.at = n /\ (Moves(m) => content'[m.buf].data = f[1])
                /\ m.write => file'.write
    <2>1. s.chan = cl[d].chan /\ s.write = m.write /\ s.at = 0
      BY <1>2, <1>11, <1>18
    <2>2. CASE m.write
      BY <1>14, <2>1, <2>2
    <2>3. CASE ~ m.write
      <3>1. file'.at = n /\ ~ file'.write
        BY <1>10, <1>14, <2>1, <2>3
      <3>2. Moves(m) <=> 0 < Len(f)
        BY <1>8, <1>13, <2>1, <2>3
      <3>3. Moves(m) => content'[m.buf].data = f[1]
        BY <1>16, <2>1, <2>3
      <3> QED BY <1>17, <2>3, <3>1, <3>2, <3>3
    <2> QED BY <2>2, <2>3
  <1>19. ASSUME d \in active, ~ m.first
         PROVE  /\ ~ m.write =>
                     /\ disk' = disk /\ file'.write = file.write /\ file'.at = file.at + n
                     /\ (Moves(m) <=> ~ file.write /\ file.at < Len(f))
                     /\ Moves(m) => content'[m.buf].data = f[file.at + 1]
                /\ m.write => file' = file /\ (~ file.write => disk' = disk)
    <2>1. s = file /\ Opened(m) = disk /\ s.chan = cl[d].chan
      BY <1>1, <1>12, <1>19
    <2>2. CASE m.write
      <3>1. file' = file
        BY <1>3, <1>9, <1>14, <2>1, <2>2
      <3>2. ~ file.write => ~ Moves(m)
        BY <1>3, <1>7, <1>8, <2>1, <2>2
      <3> QED BY <1>4, <1>10, <2>1, <2>2, <3>1, <3>2
    <2>3. CASE ~ m.write
      <3>1. file'.write = file.write /\ file'.at = file.at + n
        BY <1>14, <2>1, <2>3
      <3>2. Moves(m) <=> ~ file.write /\ file.at < Len(f)
        BY <1>3, <1>7, <1>8, <2>1, <2>3
      <3>3. Moves(m) => content'[m.buf].data = f[file.at + 1]
        BY <1>16, <2>1, <2>3
      <3> QED BY <1>17, <2>3, <3>1, <3>2, <3>3
    <2> QED BY <2>2, <2>3
  <1> QED BY <1>15, <1>18, <1>19 DEF n

\* The card serves a message of the transfer.
LEMMA OwnReads ==
  ASSUME Before, MailInv, ~ lost, ProcessFile, NEW d \in Clients, d = Head(inbound).client,
         NEW m, m = Head(inbound), d \notin tangled', ~ m.eof, Reads(d)
  PROVE  Reads(d)'
  <1> DEFINE g == cl[d].got
             n == Len(g)
             f == disk[cl[d].chan]
  <1>1. /\ Letter(m) /\ m.client = d /\ 1 \in Sent(d) /\ inbound[1] = m /\ m.op \in Nat
        /\ \A j \in Sent(d) : inbound[j].op \in Nat /\ (j # 1 => m.op < inbound[j].op)
        /\ \A j \in Sent(d)' : \E i \in Sent(d) : i # 1 /\ inbound'[j] = inbound[i]
        /\ d \in active'
    BY OwnMail
  <1>2. UNCHANGED <<cl, rchs, clidata>>
    BY Serves DEF Before
  <1>3. /\ Loaded(d) => m.op # cl[d].op
        /\ Loaded(d)' <=> \/ Loaded(d)
                          \/ /\ cl[d].kind = "read" /\ cl[d].pc = "wait"
                             /\ m.op = cl[d].op /\ Moves(m)
    BY LoadServed
  <1>4. /\ g \in Seq(Blocked) /\ n <= cl[d].pos
        /\ Loaded(d) => /\ d \in active /\ ~ file.write /\ file.at = n + 1 /\ n < Len(f)
                        /\ content[cl[d].buf].data = f[n + 1]
        /\ d \in active /\ ~ Loaded(d) /\ ~ file.write => file.at = n
        /\ n > 0 => d \in active /\ ~ file.write /\ n <= Len(f)
        /\ \A i \in 1 .. n : g[i].block.data = f[i]
        /\ \A j \in Sent(d) : inbound[j].first => n = 0 /\ ~ Loaded(d)
        /\ d \notin active =>
             /\ cl[d].kind = "read" /\ cl[d].pc = "wait"
             /\ \A j \in Sent(d) : inbound[j].first /\ inbound[j].op = cl[d].op
    BY DEF Reads
  <1>5. /\ m.write => content' = content
        /\ (d \notin active \/ m.first) /\ ~ m.write =>
             /\ disk' = disk /\ ~ file'.write /\ (Moves(m) <=> 0 < Len(f))
             /\ file'.at = (IF Moves(m) THEN 1 ELSE 0)
             /\ Moves(m) => content'[m.buf].data = f[1]
        /\ (d \notin active \/ m.first) /\ m.write => file'.write
        /\ d \in active /\ ~ m.first /\ ~ m.write =>
             /\ disk' = disk /\ file'.write = file.write
             /\ file'.at = file.at + (IF Moves(m) THEN 1 ELSE 0)
             /\ (Moves(m) <=> ~ file.write /\ file.at < Len(f))
             /\ Moves(m) => content'[m.buf].data = f[file.at + 1]
        /\ d \in active /\ ~ m.first /\ m.write =>
             file' = file /\ (~ file.write => disk' = disk)
    BY OwnServed
  <1>6. n \in Nat
    <2>1. g \in Seq(Blocked)
      BY <1>4
    <2> HIDE DEF g
    <2> QED BY <2>1
  <1>7. d \notin active => m.first /\ m.op = cl[d].op /\ n = 0 /\ ~ Loaded(d)
    BY <1>1, <1>4, <1>6
  <1>8. m.first => n = 0 /\ ~ Loaded(d)
    BY <1>1, <1>4
  <1>9. \A j \in Sent(d)' : inbound'[j].first => n = 0 /\ ~ Loaded(d)
    BY <1>1, <1>4
  <1>10. ASSUME ~ m.write
         PROVE  /\ cl[d].kind = "read" /\ cl[d].pc = "wait" /\ m.op = cl[d].op /\ m.buf = cl[d].buf
                /\ Sent(d)' = {} /\ ~ Loaded(d)
    <2>1. Current(m) /\ FromCall(m, cl[d])
      BY <1>1, <1>10 DEF Letter, Written
    <2>2. m.op = cl[d].op /\ InCall(cl[d])
      BY <1>1, <2>1 DEF Current
    <2>3. cl[d].kind = "read" /\ cl[d].pc = "wait" /\ m.buf = cl[d].buf
      BY <2>1 DEF FromCall
    <2>4. ASSUME NEW j \in Sent(d)'
          PROVE  FALSE
      <3>1. PICK i \in Sent(d) : i # 1
        BY <1>1
      <3>2. inbound[i].op \in Nat /\ m.op < inbound[i].op
        BY <1>1, <3>1
      <3>3. i \in Awaited /\ inbound[i].client = d
        BY MailIndex
      <3>4. inbound[i].op <= cl[d].op
        BY <2>2, <3>3 DEF MailInv, Letters, Letter
      <3> QED BY <1>1, <2>2, <3>2, <3>4
    <2> QED BY <1>3, <2>2, <2>3, <2>4
  <1>11. m.write => (Loaded(d)' <=> Loaded(d))
    <2>1. m.write /\ cl[d].kind = "read" => m.op # cl[d].op
      BY <1>1 DEF Letter, Current, FromCall, InCall
    <2> QED BY <1>3, <2>1
  <1>12. cl'[d] = cl[d]
    BY <1>2
  <1> HIDE DEF g, n, f
  <1>13. CASE ~ m.write
    <2>1. Loaded(d)' <=> Moves(m)
      BY <1>3, <1>10, <1>13
    <2>2. disk' = disk /\ Sent(d)' = {}
      BY <1>5, <1>10, <1>13
    <2>3. /\ Moves(m) => /\ ~ file'.write /\ file'.at = n + 1 /\ n < Len(f)
                         /\ content'[cl[d].buf].data = f[n + 1]
          /\ ~ Moves(m) /\ ~ file'.write => file'.at = n
          /\ n > 0 => ~ file'.write /\ n <= Len(f)
      <3>1. CASE d \notin active \/ m.first
        <4>1. n = 0
          BY <1>7, <1>8, <3>1
        <4>2. /\ ~ file'.write /\ (Moves(m) <=> 0 < Len(f))
              /\ file'.at = (IF Moves(m) THEN 1 ELSE 0)
              /\ Moves(m) => content'[m.buf].data = f[1]
          BY <1>5, <1>13, <3>1 DEF f
        <4>3. m.buf = cl[d].buf
          BY <1>10, <1>13
        <4> QED BY <4>1, <4>2, <4>3
      <3>2. CASE d \in active /\ ~ m.first
        <4>1. ~ file.write => file.at = n
          BY <1>4, <1>10, <1>13, <3>2 DEF n, g
        <4>2. /\ file'.write = file.write /\ file'.at = file.at + (IF Moves(m) THEN 1 ELSE 0)
              /\ (Moves(m) <=> ~ file.write /\ file.at < Len(f))
              /\ Moves(m) => content'[m.buf].data = f[file.at + 1]
          BY <1>5, <1>13, <3>2 DEF f
        <4>3. n > 0 => ~ file.write /\ n <= Len(f)
          BY <1>4 DEF n, g, f
        <4>4. m.buf = cl[d].buf
          BY <1>10, <1>13
        <4> QED BY <1>6, <4>1, <4>2, <4>3, <4>4
      <3> QED BY <3>1, <3>2
    <2>4. \A i \in 1 .. n : g[i].block.data = f[i]
      BY <1>4 DEF n, g, f
    <2>5. g \in Seq(Blocked) /\ n <= cl[d].pos
      BY <1>4 DEF n, g
    <2> QED BY <1>1, <1>12, <2>1, <2>2, <2>3, <2>4, <2>5 DEF Reads, n, g, f
  <1>14. CASE m.write /\ file'.write /\ n = 0 /\ ~ Loaded(d)
    <2>1. g \in Seq(Blocked) /\ n <= cl[d].pos
      BY <1>4 DEF n, g
    <2>2. ~ Loaded(d)' /\ 1 .. n = {} /\ ~ (n > 0)
      BY <1>11, <1>14
    <2>3. \A j \in Sent(d)' : inbound'[j].first => n = 0 /\ ~ Loaded(d)'
      BY <1>14, <2>2
    <2> QED BY <1>1, <1>12, <1>14, <2>1, <2>2, <2>3 DEF Reads, n, g
  <1>15. CASE m.write /\ file' = file /\ disk' = disk /\ d \in active
    <2>1. content' = content
      BY <1>5, <1>15
    <2>2. \A j \in Sent(d)' : \E i \in Sent(d) : inbound'[j] = inbound[i]
      BY <1>1
    <2>3. cl[d].pos \in Nat /\ cl[d].pos >= cl[d].pos
      BY DEF Before, CallInv, Staged, Stage
    <2> QED BY <1>1, <1>11, <1>12, <1>15, <2>1, <2>2, <2>3, ReadsOn
  <1>16. CASE m.write
    <2>1. CASE d \notin active \/ m.first
      BY <1>5, <1>7, <1>8, <1>14, <1>16, <2>1
    <2>2. CASE d \in active /\ ~ m.first /\ ~ file.write
      BY <1>5, <1>15, <1>16, <2>2
    <2>3. CASE d \in active /\ ~ m.first /\ file.write
      <3>1. ~ (n > 0) /\ ~ Loaded(d)
        BY <1>4, <2>3 DEF n, g
      <3>2. n = 0
        BY <1>6, <3>1
      <3> QED BY <1>5, <1>14, <1>16, <2>3, <3>1, <3>2
    <2> QED BY <2>1, <2>2, <2>3
  <1> QED BY <1>13, <1>16

LEMMA CardReads ==
  ASSUME Before, MailInv, ReadInv, ~ lost, Card
  PROVE  ReadInv'
  <1>1. inbound # << >> /\ inbound' = Tail(inbound) /\ UNCHANGED <<cl, rchs, clidata>>
    BY DEF Card, ProcessText, ProcessFile, driver
  <1>2. \A d \in Clients : cl[d].pos \in Nat /\ cl[d].pos >= cl[d].pos
    BY DEF Before, CallInv, Staged, Stage
  <1>3. CASE ProcessText
    <2>1. /\ Head(inbound).client = NoClient
          /\ UNCHANGED <<content, outbound, file, disk, active, tangled>>
      BY <1>3 DEF ProcessText, card, ghosts
    <2>2. ASSUME NEW d \in Clients, Reading(d)'
          PROVE  Reads(d)'
      <3>1. /\ \A j \in Sent(d)' : \E i \in Sent(d) : inbound'[j] = inbound[i]
            /\ Sent(d)' = {} <=> Sent(d) = {}
        <4>1. Head(inbound).client # d
          BY <2>1, BridgeAssumption
        <4> QED BY <1>1, <4>1, OthersMail DEF Before
      <3>2. Reads(d)
        BY <1>1, <2>1, <2>2, <3>1 DEF Reading, Ended, ReadInv
      <3>3. Loaded(d)' <=> Loaded(d)
        BY <1>1, <2>1 DEF Loaded, Unlisted
      <3>4. d \notin active => Sent(d)' # {}
        BY <3>1, <3>2 DEF Reads
      <3> QED BY <1>1, <1>2, <2>1, <3>1, <3>2, <3>3, <3>4, ReadsOn
    <2> QED BY <2>2 DEF ReadInv
  <1>4. CASE ProcessFile
    <2>0. PICK m : m = Head(inbound)
      OBVIOUS
    <2>1. /\ m.client \in Clients /\ inbound[1] = m /\ 1 \in Awaited
          /\ active' = IF m.eof THEN active \ {m.client} ELSE active \cup {m.client}
          /\ tangled' = IF Cardinality(active \cup {m.client}) > 1
                          THEN tangled \cup (active \cup {m.client}) ELSE tangled
      BY <1>4, <2>0, Serves DEF Before
    <2>2. ASSUME NEW d \in Clients, Reading(d)', d # m.client
          PROVE  Reads(d)'
      <3>1. /\ \A j \in Sent(d)' : \E i \in Sent(d) : inbound'[j] = inbound[i]
            /\ Sent(d)' = {} <=> Sent(d) = {}
        BY <1>1, <2>0, <2>2, OthersMail DEF Before
      <3>2. d \notin tangled'
        BY <2>2 DEF Reading
      <3>3. d \notin active
        <4> SUFFICES ASSUME d \in active
                     PROVE  FALSE
          OBVIOUS
        <4>1. IsFiniteSet(active \cup {m.client})
          BY FS_AddElement DEF MailInv, Turns
        <4>2. Cardinality(active \cup {m.client}) > 1
          BY <2>2, <4>1, TwoBusy
        <4> QED BY <2>1, <3>2, <4>2
      <3>4. d \notin active' /\ d \notin tangled
        BY <2>1, <2>2, <3>2, <3>3
      <3>5. Reads(d)
        BY <1>1, <2>2, <3>1, <3>4 DEF ReadInv, Reading, Ended
      <3>6. Sent(d) # {} /\ \A j \in Sent(d) : inbound[j].op = cl[d].op
        BY <3>3, <3>5 DEF Reads
      <3>7. m.op # cl[d].op
        <4>1. PICK j \in Sent(d) : inbound[j].op = cl[d].op
          BY <3>6
        <4>2. j \in Awaited /\ inbound[j].client = d /\ j # 1
          BY <2>1, <2>2, MailIndex
        <4>3. Apart
          BY AllApart DEF Before, CallInv
        <4> QED BY <2>1, <4>1, <4>2, <4>3 DEF Apart
      <3>8. ~ Loaded(d) /\ ~ Loaded(d)'
        <4>1. ~ Loaded(d)
          BY <3>3, <3>5 DEF Reads
        <4> QED BY <1>4, <2>0, <3>7, <4>1, LoadServed
      <3>9. cl'[d] = cl[d]
        BY <1>1
      <3> QED BY <1>2, <3>1, <3>3, <3>4, <3>5, <3>6, <3>8, <3>9, ReadsOn
    <2>3. ASSUME NEW d \in Clients, Reading(d)', d = m.client
          PROVE  Reads(d)'
      <3>1. d \notin tangled' /\ ~ Ended(d)' /\ cl[d].begun = "in"
        BY <1>1, <2>3 DEF Reading
      <3>2. d \notin tangled /\ ~ Ended(d) /\ ~ m.eof
        BY <1>4, <2>0, <2>3, <3>1, OwnMail
      <3>3. Reads(d)
        BY <3>1, <3>2 DEF ReadInv, Reading
      <3> QED BY <1>4, <2>0, <2>3, <3>1, <3>2, <3>3, OwnReads
    <2> QED BY <2>2, <2>3 DEF ReadInv
  <1> QED BY <1>3, <1>4 DEF Card

LEMMA ReadInit == Init => Guarded /\ ReadInv
  BY DEF Init, Fresh, Guarded, ReadInv, Reading

LEMMA ReadStep ==
  ASSUME Before, MailInv, ReadInv, Guarded, ~ lost, ~ lost', [Next]_vars
  PROVE  ReadInv'
  <1>1. CASE UNCHANGED vars
    <2>1. UNCHANGED <<cl, rchs, clidata, content, inbound, outbound, disk, file, active, tangled>>
      BY <1>1 DEF vars, driver, card, ghosts
    <2>2. \A c : Sent(c)' = Sent(c)
      BY <2>1 DEF Sent
    <2>3. \A c : Loaded(c)' <=> Loaded(c)
      BY <2>1 DEF Loaded, Unlisted
    <2>4. \A c : Reads(c)' <=> Reads(c)
      BY <2>1, <2>2, <2>3 DEF Reads
    <2>5. \A c : Reading(c)' <=> Reading(c)
      BY <2>1, <2>2 DEF Reading, Ended
    <2> QED BY <2>4, <2>5 DEF ReadInv
  <1>2. ASSUME NEW c \in Clients, Quiet(c)
        PROVE  ReadInv'
    BY <1>2, QuietReads
  <1>3. ASSUME NEW c \in Clients, Client(c)
        PROVE  ReadInv'
    BY <1>2, <1>3, BuildReads, SendReads DEF Client, Quiet
  <1>4. ASSUME NEW c \in Clients,
               (\E f \in Files : Open(c, f)) \/ Close(c) \/ \E k \in Kinds : Call(c, k)
        PROVE  ReadInv'
    BY <1>2, <1>4 DEF Quiet
  <1> QED BY <1>1, <1>3, <1>4, TextReads, CardReads, HandleReads DEF Next

LEMMA ReusedStays == BufInv /\ TypeInv /\ [Next]_vars => (reused => reused')
  <1> SUFFICES ASSUME BufInv, TypeInv, [Next]_vars, reused
               PROVE  reused'
    OBVIOUS
  <1>1. ASSUME NEW c \in Clients, Quiet(c)
        PROVE  reused'
    BY <1>1, QuietMoves
  <1>2. ASSUME NEW c \in Clients, Client(c)
        PROVE  reused'
    BY <1>1, <1>2, Sends, Builds DEF Client, Quiet, ghosts
  <1>3. ASSUME NEW c \in Clients,
               (\E f \in Files : Open(c, f)) \/ Close(c) \/ \E k \in Kinds : Call(c, k)
        PROVE  reused'
    BY <1>1, <1>3 DEF Quiet
  <1> QED BY <1>2, <1>3 DEF Next, Card, ProcessText, ProcessFile, Handle, SendText, vars, ghosts

ReadTransfers == Transfers /\ (~ lost /\ ~ reused => Guarded /\ ReadInv)

LEMMA ReadTransfersStep == ReadTransfers /\ [Next]_vars => ReadTransfers'
  <1> SUFFICES ASSUME ReadTransfers, [Next]_vars
               PROVE  ReadTransfers'
    OBVIOUS
  <1>1. Transfers /\ Before /\ Transfers'
    BY TransfersStep DEF ReadTransfers, Transfers, Before
  <1>2. ASSUME ~ lost', ~ reused'
        PROVE  Guarded' /\ ReadInv'
    <2>1. ~ lost /\ ~ reused
      BY <1>1, <1>2, LostStays, ReusedStays DEF Before
    <2>2. Guarded /\ ReadInv /\ MailInv
      BY <1>1, <2>1 DEF ReadTransfers, Transfers
    <2> QED BY <1>1, <1>2, <2>1, <2>2, GuardedStep, ReadStep
  <1> QED BY <1>1, <1>2 DEF ReadTransfers

\* Only a copy, in the driver's copy, gives the process anything.
LEMMA OnlyCopies ==
  ASSUME Before, Next, NEW c \in Clients, cl[c].pc = "copy", cl'[c].got # cl[c].got
  PROVE  Quiet(c) /\ Copies(cl[c], cl'[c])
  <1>1. ~ (\E d \in Clients : SendText(d)) /\ ~ Card
    BY DEF SendText, Card, ProcessText, ProcessFile
  <1>2. ~ Handle
    <2>1. Handle => Handled(cl[c], cl'[c])
      BY Handles DEF Before
    <2> QED BY <2>1 DEF Handled
  <1>3. ASSUME NEW d \in Clients, Quiet(d)
        PROVE  d = c
    BY <1>3, QuietMoves DEF Before
  <1>4. ASSUME NEW d \in Clients, BuildRch(d) \/ Send(d)
        PROVE  FALSE
    <2>1. d # c
      BY <1>4 DEF BuildRch, Send
    <2> QED BY <1>4, <2>1, Builds, Sends DEF Before
  <1>5. \E d \in Clients : Quiet(d)
    <2>1. ASSUME NEW d \in Clients, Client(d)
          PROVE  Quiet(d)
      BY <1>4, <2>1 DEF Client, Quiet
    <2>2. ASSUME NEW d \in Clients,
                 (\E f \in Files : Open(d, f)) \/ Close(d) \/ \E k \in Kinds : Call(d, k)
          PROVE  Quiet(d)
      BY <2>2 DEF Quiet
    <2> QED BY <1>1, <1>2, <2>1, <2>2 DEF Next
  <1>6. Quiet(c)
    BY <1>3, <1>5
  <1>7. Moves1(cl[c], cl'[c])
    BY <1>6, QuietMoves DEF Before
  <1>8. Copies(cl[c], cl'[c])
    BY <1>7 DEF Moves1, Looks, Takes, Sleeps, GivesUp, Wakes, Leaves, Opens, Calls
  <1> QED BY <1>6, <1>8

LEMMA PrefixOf ==
  ASSUME NEW s \in Seq(Blocks), NEW t \in Seq(Blocks), Len(s) <= Len(t),
         \A i \in 1 .. Len(s) : s[i] = t[i]
  PROVE  IsPrefix(s, t)
  <1> DEFINE n == Len(s)
             u == SubSeq(s, 1, n)
             v == SubSeq(t, 1, n)
  <1>1. n \in Nat /\ Len(t) \in Nat /\ 1 \in 1 .. Len(s) + 1 /\ 1 \in 1 .. Len(t) + 1
        /\ n \in 1 - 1 .. Len(s) /\ n \in 1 - 1 .. Len(t) /\ n - 1 + 1 = n
    OBVIOUS
  <1>2. u \in Seq(Blocks) /\ Len(u) = n /\ \A i \in 1 .. n : u[i] = s[1 + i - 1]
    BY <1>1, SubSeqProperties
  <1>3. v \in Seq(Blocks) /\ Len(v) = n /\ \A i \in 1 .. n : v[i] = t[1 + i - 1]
    BY <1>1, SubSeqProperties
  <1> HIDE DEF u, v
  <1>4. \A i \in 1 .. n : u[i] = v[i]
    <2>1. \A i \in 1 .. n : 1 + i - 1 = i
      BY <1>1
    <2> QED BY <1>2, <1>3, <2>1
  <1>5. u = v
    BY <1>2, <1>3, <1>4, SeqEqual
  <1> QED BY <1>5 DEF IsPrefix, u, v

\* A block that is copied is the next one of the file.
LEMMA ReadAdds ==
  ASSUME Before, ReadInv, ~ lost, Next, NEW c \in Clients,
         cl'[c].got # cl[c].got, cl[c].pc = "copy", c \notin tangled, cl[c].begun = "in"
  PROVE  IsPrefix([i \in 1 .. Len(cl'[c].got) |-> cl'[c].got[i].block.data], disk[cl[c].chan])
  <1>1. Quiet(c) /\ Copies(cl[c], cl'[c])
    BY OnlyCopies
  <1>2. UNCHANGED <<inbound, disk, file, active, content>> /\ cl'[c].chan = cl[c].chan
    BY <1>1, QuietMoves DEF Before, card, Copies
  <1>3. Reads(c)
    BY DEF ReadInv, Reading, Ended
  <1>4. Reads(c)'
    BY <1>1, <1>2, <1>3, CopyReads DEF Before, CallInv, Staged, Stage
  <1> DEFINE g == cl'[c].got
             n == Len(g)
             d == disk[cl[c].chan]
             s == [i \in 1 .. n |-> g[i].block.data]
  <1>5. /\ g \in Seq(Blocked) /\ (n > 0 => n <= Len(d)) /\ \A i \in 1 .. n : g[i].block.data = d[i]
    BY <1>2, <1>4 DEF Reads
  <1>6. d \in Seq(Blocks)
    <2>1. cl[c].chan \in Files
      BY DEF Before, TypeInv, ClientTyped
    <2> QED BY <2>1 DEF Before, TypeInv, CardTyped
  <1> HIDE DEF g, d
  <1>7. n \in Nat /\ Len(d) \in Nat /\ \A i \in 1 .. n : g[i] \in Blocked
    BY <1>5, <1>6
  <1>8. \A i \in 1 .. n : g[i].block.data \in Blocks
    BY <1>7 DEF Blocked
  <1>9. s \in Seq(Blocks) /\ Len(s) = n /\ \A i \in 1 .. n : s[i] = d[i]
    BY <1>5, <1>7, <1>8
  <1>10. Len(s) <= Len(d)
    BY <1>5, <1>7, <1>9
  <1> HIDE DEF s
  <1>11. IsPrefix(s, d)
    BY <1>6, <1>9, <1>10, PrefixOf
  <1> QED BY <1>11 DEF s, g, d

\* ReadsTheFile: a process whose transfer began with a read that no other
\* transfer overlapped, and whose buffers were not handed out early, is given
\* the blocks of the file in order, from its beginning.
THEOREM FileIsRead == Spec => ReadsTheFile
  <1>1. ASSUME ReadTransfers, Next, NEW c \in Clients,
               cl'[c].got # cl[c].got /\ cl[c].pc = "copy"
               /\ ~ lost /\ ~ reused /\ c \notin tangled /\ cl[c].begun = "in"
        PROVE  IsPrefix([i \in 1 .. Len(cl'[c].got) |-> cl'[c].got[i].block.data],
                        disk[cl[c].chan])
    <2>1. Before /\ ReadInv
      BY <1>1 DEF ReadTransfers, Transfers, Before
    <2> QED BY <1>1, <2>1, ReadAdds
  <1>2. ReadTransfers /\ [Next]_vars =>
          [\A c \in Clients :
             /\ cl'[c].got # cl[c].got /\ cl[c].pc = "copy"
             /\ ~ lost /\ ~ reused /\ c \notin tangled /\ cl[c].begun = "in"
             => IsPrefix([i \in 1 .. Len(cl'[c].got) |-> cl'[c].got[i].block.data],
                         disk[cl[c].chan])]_vars
    BY <1>1
  <1>3. Init => ReadTransfers
    BY TransfersInit, ReadInit DEF ReadTransfers
  <1> QED BY <1>2, <1>3, ReadTransfersStep, PTL DEF Spec, ReadsTheFile
=============================================================================
