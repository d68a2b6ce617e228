----------------------------- MODULE ClientsProofs -----------------------------
(***************************************************************************)
(* Theorems about Clients: the interrupt, which the count of clients gives *)
(* and takes, and the slots of the status clients.                         *)
(***************************************************************************)
EXTENDS Clients, FiniteSetTheorems, TLAPS

-----------------------------------------------------------------------------
(* The inductive invariant.                                                *)

\* Clients that have counted themselves in, and not out.
Counted == {c \in Clients : pc[c] \in {"irq", "open", "closing"}}

\* nclients is never below the clients there are; while it is up the interrupt
\* has been asked for; and the mutex is held from the count to what is done on it.
IrqInv ==
  /\ IsFiniteSet(Counted) /\ nclients >= Cardinality(Counted)
  /\ nclients > 0 => installed \/ failed
  /\ \A c \in Clients : pc[c] \in {"irq", "freeing", "freed"} => irqMutex = c
  /\ \A c \in Clients : pc[c] = "freeing" => nclients = 0 /\ ~ useInterrupts
  /\ \A c \in Clients : pc[c] = "freed" /\ nclients = 0 => ~ installed
  /\ useInterrupts => installed
  /\ installed => useInterrupts \/ \E c \in Clients : pc[c] = "freeing"
  /\ nclients = 0 /\ irqMutex = Nobody => ~ installed

\* Until clients have closed out of order, their slots are the first ones.
SlotInv ==
  /\ IsFiniteSet(Listening)
  /\ SlotsSound
  /\ shuffled \/ \A c \in Listening : InSlot(c) /\ slot[c] < enable

-----------------------------------------------------------------------------
(* Types.                                                                  *)

LEMMA AppendFits ==
  ASSUME NEW s \in Seq(Nat), NEW e \in Nat, NEW n \in Nat, Len(s) < n
  PROVE  Append(s, e) \in Seq(Nat) /\ Len(Append(s, e)) <= n
  OBVIOUS

LEMMA StillOwedType ==
  ASSUME owed \in [Clients -> Nat], StillOwed
  PROVE  owed' \in [Clients -> Nat]
  <1>1. \A c \in Clients : owed'[c] = owed[c] \/ owed'[c] = 0
    BY DEF StillOwed
  <1>2. \A c \in Clients : owed'[c] \in Nat
    BY <1>1
  <1> QED BY <1>2 DEF StillOwed

\* Delivery of a change: the card, the interrupt, cos_task; and the inhibition.
LEMMA DeliveryType ==
  ASSUME TypeOK, Card \/ Isr \/ CosTask \/ Inhibit \/ Allow
  PROVE  TypeOK'
  <1> USE ClientsAssumption DEF TypeOK, irq, slots, card, host, paths, CosOnly
  <1>1. CASE CardStore
    BY <1>1 DEF CardStore
  <1>2. CASE CardRing
    BY <1>2, ZenonT(40) DEF CardRing
  <1>3. CASE IsrRead
    BY <1>3 DEF IsrRead
  <1>4. CASE IsrEnd
    <2>1. \/ statusbuf' = statusbuf
          \/ Len(statusbuf) < StatusRoom /\ statusbuf' = Append(statusbuf, isrStatus)
      BY <1>4 DEF IsrEnd
    <2>2. statusbuf' \in Seq(Nat) /\ Len(statusbuf') <= StatusRoom
      <3>1. statusbuf \in Seq(Nat) /\ isrStatus \in Nat /\ StatusRoom \in Nat
            /\ Len(statusbuf) <= StatusRoom
        OBVIOUS
      <3> QED BY ONLY <2>1, <3>1, AppendFits
    <2>3. owed' = owed \/ owed' = [d \in Clients |-> 0]
      BY <1>4 DEF IsrEnd
    <2>4. owed' \in [Clients -> Nat]
      BY <2>3
    <2>5. taskQueued' \in BOOLEAN
      BY <1>4 DEF IsrEnd
    <2> QED BY <1>4, <2>2, <2>4, <2>5, ZenonT(40) DEF IsrEnd
  <1>5. CASE CosStart
    BY <1>5, ZenonT(40) DEF CosStart
  <1>6. CASE CosGet
    <2>1. /\ statusbuf # << >> /\ statusbuf' = Tail(statusbuf)
          /\ Head(statusbuf) \in Nat
      BY <1>6 DEF CosGet, Deliver
    <2>2. statusbuf' \in Seq(Nat) /\ Len(statusbuf') <= StatusRoom
      BY <2>1
    <2>3. /\ buf' \in [Clients -> Seq(Nat)]
          /\ \A c \in Clients : Len(buf'[c]) <= PathRoom
      BY <1>6, <2>1 DEF CosGet, Deliver
    <2>4. owed' \in [Clients -> Nat]
      BY <1>6 DEF CosGet, Deliver
    <2> QED BY <1>6, <2>2, <2>3, <2>4 DEF CosGet
  <1>7. CASE CosEmpty
    BY <1>7 DEF CosEmpty
  <1>8. CASE CosWake
    <2>1. reader' \in [Clients -> {"out", "read", "asleep"}]
      BY <1>8 DEF CosWake
    <2> QED BY <1>8, <2>1 DEF CosWake
  <1>9. CASE Inhibit \/ Allow
    <2>1. inhibit' \in BOOLEAN
      BY <1>9 DEF Inhibit, Allow
    <2>2. UNCHANGED <<pc, irq, slots, card, isr, isrStatus, statusbuf, taskQueued,
                      cosPc, paths, owed>>
      BY <1>9 DEF Inhibit, Allow
    <2> QED BY <2>1, <2>2
  <1> QED BY <1>1, <1>2, <1>3, <1>4, <1>5, <1>6, <1>7, <1>8, <1>9
       DEF Card, Isr, CosTask

\* Reads of the status node.
LEMMA ReadType ==
  ASSUME TypeOK, NEW c \in Clients,
         StartRead(c) \/ InRead(c) \/ Signal(c)
  PROVE  TypeOK'
  <1> USE DEF TypeOK, irq, slots, card, host, paths, ReadOnly
  <1>1. CASE StartRead(c)
    BY <1>1 DEF StartRead
  <1>2. CASE ReadReturns(c)
    <2>1. buf' \in [Clients -> Seq(Nat)] /\ \A d \in Clients : Len(buf'[d]) <= PathRoom
      BY <1>2, ClientsAssumption DEF ReadReturns
    <2>2. owed' \in [Clients -> Nat]
      BY <1>2 DEF ReadReturns
    <2> QED BY <1>2, <2>1, <2>2 DEF ReadReturns
  <1>3. CASE ReadSleeps(c)
    BY <1>3 DEF ReadSleeps
  <1>4. CASE Signal(c)
    BY <1>4 DEF Signal
  <1> QED BY <1>1, <1>2, <1>3, <1>4 DEF InRead

\* Opens and closes.  The count and the index stay in their ranges because
\* nobody is counted out who was not counted in.
LEMMA CallType ==
  ASSUME TypeOK, IrqInv, SlotInv, NEW c \in Clients,
         Open(c) \/ Close(c) \/ InCall(c)
  PROVE  TypeOK'
  <1> USE ClientsAssumption
          DEF TypeOK, Pcs, irq, slots, card, host, paths, Goto, NewPath, FreePath,
              Slots, NoSlot
  <1>1. CASE OpenOther(c) \/ CloseOther(c)
    <2>1. /\ UNCHANGED <<irq, slots, card, host, paths, owed>>
          /\ pc' \in [Clients -> Pcs]
      BY <1>1 DEF OpenOther, CloseOther
    <2> QED BY <2>1
  <1>2. CASE OpenStatus(c)
    <2>1. enable \in Slots /\ enable' \in 0 .. MaxCosPaths
      BY <1>2 DEF OpenStatus
    <2>2. slot' \in [Clients -> Slots \cup {NoSlot}] /\ files' \in [Slots -> Clients \cup {Nobody}]
      BY <1>2, <2>1 DEF OpenStatus
    <2>3. owed' \in [Clients -> Nat]
      BY <1>2, StillOwedType DEF OpenStatus
    <2>4. pc' \in [Clients -> Pcs] /\ UNCHANGED <<irq, shuffled, card, host, paths>>
      BY <1>2 DEF OpenStatus
    <2> QED BY <2>1, <2>2, <2>3, <2>4, SMTT(30)
  <1>3. CASE OpenRefused(c)
    BY <1>3 DEF OpenRefused
  <1>4. CASE RequestIrq(c)
    <2>0. owed' = owed \/ owed' = [d \in Clients |-> 0]
      BY <1>4 DEF RequestIrq
    <2>1. owed' \in [Clients -> Nat]
      BY <2>0
    <2>4. usesIrq' \in [Clients -> BOOLEAN]
      BY <1>4 DEF RequestIrq
    <2>2. useInterrupts' \in BOOLEAN /\ installed' \in BOOLEAN /\ failed' \in BOOLEAN
      BY <1>4 DEF RequestIrq
    <2>3. pc' \in [Clients -> Pcs] /\ nclients' \in Nat /\ irqMutex' \in Clients \cup {Nobody}
      BY <1>4 DEF RequestIrq
    <2> QED BY <1>4, <2>1, <2>2, <2>3, <2>4 DEF RequestIrq
  <1>5. CASE OpenDone(c)
    BY <1>5 DEF OpenDone
  <1>6. CASE CloseStatus(c)
    <2>1. c \in Listening /\ slot[c] \in Slots
      BY <1>6 DEF CloseStatus, Release, Listening, SlotInv, SlotsSound
    <2>2. enable' \in 0 .. MaxCosPaths
      <3>1. Cardinality(Listening) \in Nat /\ Cardinality(Listening) # 0
        BY <2>1, FS_EmptySet, FS_CardinalityType DEF SlotInv
      <3>2. enable = Cardinality(Listening) /\ enable' = enable - 1
        BY <1>6 DEF CloseStatus, Release, SlotInv, SlotsSound
      <3> QED BY <3>1, <3>2, SMTT(30)
    <2>3. slot' \in [Clients -> Slots \cup {NoSlot}] /\ files' \in [Slots -> Clients \cup {Nobody}]
      BY <1>6, <2>1 DEF CloseStatus, Release
    <2>4. owed' \in [Clients -> Nat] /\ shuffled' \in BOOLEAN
      BY <1>6, StillOwedType DEF CloseStatus, Release, LaterSlot
    <2>5. pc' \in [Clients -> Pcs] /\ UNCHANGED <<irq, card, host, paths>>
      BY <1>6 DEF CloseStatus, Release
    <2> QED BY <2>2, <2>3, <2>4, <2>5
  <1>7. ASSUME FreePath(c)
        PROVE  buf' \in [Clients -> Seq(Nat)] /\ \A d \in Clients : Len(buf'[d]) <= PathRoom
    BY <1>7
  <1>8. CASE FreeNothing(c)
    BY <1>7, <1>8 DEF FreeNothing
  <1>9. CASE FreeIrq(c)
    <2>1. c \in Counted
      BY <1>9 DEF FreeIrq, Counted
    <2>2. nclients' \in Nat
      BY <1>9, <2>1, FS_EmptySet, FS_CardinalityType DEF FreeIrq, IrqInv
    <2>3. pc' \in [Clients -> Pcs] /\ rings' \in BOOLEAN /\ useInterrupts' \in BOOLEAN
      BY <1>9 DEF FreeIrq
    <2> QED BY <1>9, <2>2, <2>3 DEF FreeIrq
  <1>10. CASE FreeDone(c)
    <2>1. installed' \in BOOLEAN /\ usesIrq' \in [Clients -> BOOLEAN]
      BY <1>10 DEF FreeDone
    <2> QED BY <1>7, <1>10, <2>1 DEF FreeDone
  <1> QED BY <1>1, <1>2, <1>3, <1>4, <1>5, <1>6, <1>8, <1>9, <1>10
       DEF Open, Close, InCall

-----------------------------------------------------------------------------
(* The interrupt.                                                          *)

\* The count when one client comes to b.
LEMMA CountedMoves ==
  ASSUME TypeOK, IsFiniteSet(Counted), NEW c \in Clients, NEW b, Goto(c, b)
  PROVE  /\ IsFiniteSet(Counted)'
         /\ Cardinality(Counted) \in Nat /\ Cardinality(Counted)' \in Nat
         /\ c \in Counted => Cardinality(Counted) > 0
         /\ b \in {"irq", "open", "closing"} =>
              Cardinality(Counted)' = IF c \in Counted THEN Cardinality(Counted)
                                      ELSE Cardinality(Counted) + 1
         /\ b \notin {"irq", "open", "closing"} =>
              Cardinality(Counted)' = IF c \in Counted THEN Cardinality(Counted) - 1
                                      ELSE Cardinality(Counted)
  <1>1. Counted' = IF b \in {"irq", "open", "closing"} THEN Counted \cup {c}
                   ELSE Counted \ {c}
    BY DEF Goto, TypeOK, Counted
  <1>2. Cardinality(Counted) \in Nat
    BY FS_CardinalityType
  <1>3. c \in Counted => Cardinality(Counted) > 0
    BY <1>2, FS_EmptySet
  <1>4. /\ IsFiniteSet(Counted \cup {c})
        /\ Cardinality(Counted \cup {c}) = IF c \in Counted THEN Cardinality(Counted)
                                            ELSE Cardinality(Counted) + 1
    BY FS_AddElement
  <1>5. /\ IsFiniteSet(Counted \ {c})
        /\ Cardinality(Counted \ {c}) = IF c \in Counted THEN Cardinality(Counted) - 1
                                         ELSE Cardinality(Counted)
    BY FS_RemoveElement
  <1> HIDE DEF Counted
  <1>6. CASE b \in {"irq", "open", "closing"}
    BY <1>1, <1>2, <1>3, <1>4, <1>6
  <1>7. CASE b \notin {"irq", "open", "closing"}
    BY <1>1, <1>2, <1>3, <1>5, <1>7
  <1> QED BY <1>6, <1>7

LEMMA IrqStep ==
  ASSUME TypeOK, IrqInv, NEW c \in Clients, Open(c) \/ Close(c) \/ InCall(c)
  PROVE  IrqInv'
  <1> USE ClientsAssumption DEF irq, NewPath, FreePath
  <1>1. \A b : Goto(c, b) => /\ pc'[c] = b
                             /\ \A d \in Clients : d # c => pc'[d] = pc[d]
    BY DEF Goto, TypeOK
  <1>2. c \in Counted <=> pc[c] \in {"irq", "open", "closing"}
    BY DEF Counted
  <1> USE DEF IrqInv
  <1>3. CASE OpenOther(c) \/ OpenStatus(c)
    <2>1. Goto(c, "opening") /\ pc[c] = "closed" /\ UNCHANGED irq
      BY <1>3 DEF OpenOther, OpenStatus
    <2> QED BY <1>1, <1>2, <2>1, CountedMoves
  <1>4. CASE OpenRefused(c)
    BY <1>4 DEF OpenRefused, Counted
  <1>5. CASE RequestIrq(c)
    <2>1. /\ Goto(c, "irq") /\ pc[c] = "opening"
          /\ \A d \in Clients : pc[d] \notin {"irq", "freeing", "freed"}
      BY <1>5 DEF RequestIrq
    <2>2. IsFiniteSet(Counted)' /\ nclients' >= Cardinality(Counted)'
      BY <1>2, <1>5, <2>1, CountedMoves DEF RequestIrq, TypeOK
    <2>3. CASE nclients' = 1
      <3>1. PICK granted \in BOOLEAN :
              /\ useInterrupts' = granted /\ installed' = granted
              /\ failed' = ~ granted
        BY <1>5, <2>3 DEF RequestIrq
      <3>2. (useInterrupts' <=> installed') /\ (installed' \/ failed')
        BY <3>1
      <3>3. irqMutex' = c
        BY <1>5 DEF RequestIrq
      <3> QED BY <1>1, <2>1, <2>2, <2>3, <3>2, <3>3
    <2>4. CASE nclients' # 1
      <3>1. /\ UNCHANGED <<useInterrupts, installed, failed>> /\ nclients > 0
            /\ nclients' > 0 /\ irqMutex' = c
        BY <1>5, <2>4 DEF RequestIrq, TypeOK
      <3>2. installed' => useInterrupts'
        BY <2>1, <3>1
      <3> QED BY <1>1, <2>1, <2>2, <3>1, <3>2
    <2> QED BY <2>3, <2>4
  <1>6. CASE OpenDone(c)
    <2>1. Goto(c, "open") /\ pc[c] = "irq" /\ irqMutex = c /\ irqMutex' = Nobody
          /\ UNCHANGED <<nclients, useInterrupts, installed, failed>>
      BY <1>6 DEF OpenDone
    <2>2. nclients > 0
      BY <1>2, <2>1, CountedMoves DEF TypeOK
    <2>3. \A d \in Clients : d # c => pc[d] \notin {"irq", "freeing", "freed"}
      BY <2>1
    <2> QED BY <1>1, <1>2, <2>1, <2>2, <2>3, CountedMoves
  <1>7. CASE CloseOther(c) \/ CloseStatus(c)
    <2>1. Goto(c, "closing") /\ pc[c] = "open" /\ UNCHANGED irq
      BY <1>7 DEF CloseOther, CloseStatus, Release
    <2> QED BY <1>1, <1>2, <2>1, CountedMoves
  <1>8. CASE FreeNothing(c)
    <2>1. Goto(c, "closed") /\ pc[c] = "closing"
          /\ UNCHANGED <<nclients, useInterrupts, installed, failed, irqMutex>>
      BY <1>8 DEF FreeNothing
    <2>2. /\ IsFiniteSet(Counted)' /\ Cardinality(Counted) \in Nat
          /\ Cardinality(Counted)' = Cardinality(Counted) - 1
      BY <1>2, <2>1, CountedMoves
    <2>3. nclients' >= Cardinality(Counted)'
      BY <2>1, <2>2 DEF TypeOK
    <2> QED BY <1>1, <2>1, <2>2, <2>3
  <1>9. CASE FreeIrq(c)
    <2>1. /\ pc[c] = "closing" /\ irqMutex = Nobody /\ irqMutex' = c
          /\ nclients' = nclients - 1 /\ UNCHANGED <<installed, failed>>
          /\ \A d \in Clients : pc[d] \notin {"irq", "freeing", "freed"}
      BY <1>9 DEF FreeIrq
    <2>2. PICK b \in {"freeing", "freed"} : Goto(c, b)
      BY <1>9 DEF FreeIrq
    <2>3. /\ IsFiniteSet(Counted)' /\ nclients' >= Cardinality(Counted)'
          /\ nclients > 0 /\ nclients' \in Nat
      BY <1>2, <2>1, <2>2, CountedMoves, SMTT(30) DEF TypeOK
    <2>4. CASE nclients' = 0
      <3>1. pc'[c] = (IF useInterrupts THEN "freeing" ELSE "freed") /\ useInterrupts' = FALSE
        BY <1>1, <1>9, <2>4 DEF FreeIrq
      <3> QED BY <1>1, <2>1, <2>2, <2>3, <2>4, <3>1
    <2>5. CASE nclients' # 0
      <3>1. pc'[c] = "freed" /\ UNCHANGED useInterrupts
        BY <1>1, <1>9, <2>5 DEF FreeIrq
      <3> QED BY <1>1, <2>1, <2>2, <2>3, <2>5, <3>1
    <2> QED BY <2>4, <2>5
  <1>10. CASE FreeDone(c)
    <2>1. /\ pc[c] \in {"freeing", "freed"} /\ irqMutex = c /\ irqMutex' = Nobody
          /\ installed' = (installed /\ pc[c] # "freeing")
          /\ UNCHANGED <<nclients, useInterrupts, failed>> /\ Goto(c, "closed")
      BY <1>10 DEF FreeDone
    <2>2. IsFiniteSet(Counted)' /\ nclients' >= Cardinality(Counted)'
      BY <1>2, <2>1, CountedMoves, SMTT(30) DEF TypeOK
    <2>3. \A d \in Clients : d # c => pc[d] \notin {"irq", "freeing", "freed"}
      BY <2>1
    <2>4. \A d \in Clients : pc'[d] \notin {"irq", "freeing", "freed"}
      BY <1>1, <2>1, <2>3
    <2>5. CASE pc[c] = "freeing"
      <3>1. nclients = 0 /\ installed' = FALSE /\ ~ useInterrupts
        BY <2>1, <2>5
      <3> QED BY <2>1, <2>2, <2>4, <3>1
    <2>6. CASE pc[c] = "freed"
      BY <2>1, <2>2, <2>3, <2>4, <2>6
    <2> QED BY <2>1, <2>5, <2>6
  <1> QED BY <1>3, <1>4, <1>5, <1>6, <1>7, <1>8, <1>9, <1>10
       DEF Open, Close, InCall

-----------------------------------------------------------------------------
(* The slots.                                                              *)

\* Those who listen, when one client comes to b.
LEMMA ListeningMoves ==
  ASSUME TypeOK, NEW c \in Clients, NEW b, Goto(c, b)
  PROVE  Listening' = IF c \in StatusClients /\ b \in {"opening", "irq", "open"}
                      THEN Listening \cup {c} ELSE Listening \ {c}
  BY DEF Goto, TypeOK, Listening, Clients

\* Nothing to do with the slots.
LEMMA SlotsStay ==
  ASSUME SlotInv, UNCHANGED slots, Listening' = Listening
  PROVE  SlotInv'
  BY DEF SlotInv, SlotsSound, InSlot, slots

LEMMA SlotStep ==
  ASSUME TypeOK, SlotInv, NEW c \in Clients, Open(c) \/ Close(c) \/ InCall(c)
  PROVE  SlotInv'
  <1> USE ClientsAssumption
  <1>1. c \in Listening <=> c \in StatusClients /\ pc[c] \in {"opening", "irq", "open"}
    BY DEF Listening
  <1>2. CASE OpenOther(c) \/ CloseOther(c)
    <2>1. /\ c \notin StatusClients /\ UNCHANGED slots
          /\ Goto(c, "opening") \/ Goto(c, "closing")
      BY <1>2 DEF OpenOther, CloseOther
    <2>2. Listening' = Listening
      BY <1>1, <2>1, ListeningMoves
    <2> QED BY <2>1, <2>2, SlotsStay
  <1>3. CASE OpenRefused(c)
    <2>1. UNCHANGED <<pc, slots>>
      BY <1>3 DEF OpenRefused, NewPath, slots
    <2> QED BY <2>1, SlotsStay DEF Listening
  <1>4. CASE RequestIrq(c) \/ OpenDone(c) \/ FreeNothing(c) \/ FreeIrq(c) \/ FreeDone(c)
    <2>1. UNCHANGED slots
      BY <1>4 DEF RequestIrq, OpenDone, FreeNothing, FreeIrq, FreeDone, FreePath
    <2>2. \/ /\ pc[c] \in {"opening", "irq"}
             /\ Goto(c, "irq") \/ Goto(c, "open")
          \/ /\ pc[c] \in {"closing", "freeing", "freed"}
             /\ Goto(c, "freeing") \/ Goto(c, "freed") \/ Goto(c, "closed")
      BY <1>4 DEF RequestIrq, OpenDone, FreeNothing, FreeIrq, FreeDone, FreePath
    <2>3. Listening' = Listening
      BY <1>1, <2>2, ListeningMoves
    <2> QED BY <2>1, <2>3, SlotsStay
  <1>5. CASE OpenStatus(c)
    <2>1. /\ c \in StatusClients /\ pc[c] = "closed" /\ Goto(c, "opening")
          /\ enable < MaxCosPaths /\ enable' = enable + 1
          /\ slot' = [slot EXCEPT ![c] = enable]
          /\ files' = [files EXCEPT ![enable] = c]
          /\ shuffled' = shuffled
      BY <1>5 DEF OpenStatus, NewPath
    <2>2. c \notin Listening /\ Listening' = Listening \cup {c} /\ enable \in Slots
      BY <1>1, <2>1, ListeningMoves DEF TypeOK, Slots
    <2>3. IsFiniteSet(Listening)' /\ enable' = Cardinality(Listening)'
      BY <2>1, <2>2, FS_AddElement DEF SlotInv, SlotsSound
    <2>4. \A i \in Slots : files'[i] # Nobody => /\ files'[i] \in Listening'
                                               /\ slot'[files'[i]] = i
      BY <2>1, <2>2 DEF SlotInv, SlotsSound, TypeOK
    <2>5. \A d \in Clients : slot'[d] # NoSlot <=> d \in Listening'
      BY <2>1, <2>2, SMTT(30) DEF SlotInv, SlotsSound, TypeOK, NoSlot, Slots
    <2>6. shuffled' \/ \A d \in Listening' : InSlot(d)' /\ slot'[d] < enable'
      <3> SUFFICES ASSUME ~ shuffled, NEW d \in Listening'
                   PROVE  InSlot(d)' /\ slot'[d] < enable'
        BY <2>1
      <3>1. CASE d = c
        BY <2>1, <2>2, <3>1 DEF InSlot, TypeOK, Slots
      <3>2. CASE d # c
        <4>1. d \in Clients /\ InSlot(d) /\ slot[d] < enable
          BY <2>2, <3>2 DEF SlotInv, Listening, Clients
        <4> QED BY <2>1, <2>2, <3>2, <4>1 DEF InSlot, TypeOK, Slots
      <3> QED BY <3>1, <3>2
    <2> QED BY <2>3, <2>4, <2>5, <2>6 DEF SlotInv, SlotsSound
  <1>6. CASE CloseStatus(c)
    <2>1. /\ c \in StatusClients /\ pc[c] = "open" /\ Goto(c, "closing")
          /\ enable' = enable - 1
          /\ slot' = [slot EXCEPT ![c] = NoSlot]
          /\ files' = [files EXCEPT ![slot[c]] = Nobody]
          /\ shuffled' = (shuffled \/ LaterSlot(c))
      BY <1>6 DEF CloseStatus, Release
    <2>2. c \in Listening /\ Listening' = Listening \ {c}
      BY <1>1, <2>1, ListeningMoves
    <2>3. slot[c] \in Slots
      BY <2>2 DEF SlotInv, SlotsSound, TypeOK
    <2>4. IsFiniteSet(Listening)' /\ enable' = Cardinality(Listening)'
      BY <2>1, <2>2, FS_RemoveElement DEF SlotInv, SlotsSound
    <2>5. \A i \in Slots : files'[i] # Nobody => /\ files'[i] \in Listening'
                                               /\ slot'[files'[i]] = i
      <3> SUFFICES ASSUME NEW i \in Slots, files'[i] # Nobody
                   PROVE  files'[i] \in Listening' /\ slot'[files'[i]] = i
        OBVIOUS
      <3>1. i # slot[c] /\ files'[i] = files[i]
        BY <2>1, <2>3 DEF TypeOK
      <3>2. files[i] \in Listening /\ slot[files[i]] = i
        BY <3>1 DEF SlotInv, SlotsSound
      <3>3. files[i] # c /\ files[i] \in Clients
        BY <3>1, <3>2 DEF Listening, Clients
      <3> QED BY <2>1, <2>2, <3>1, <3>2, <3>3 DEF TypeOK
    <2>6. \A d \in Clients : slot'[d] # NoSlot <=> d \in Listening'
      BY <2>1, <2>2 DEF SlotInv, SlotsSound, TypeOK
    <2>7. shuffled' \/ \A d \in Listening' : InSlot(d)' /\ slot'[d] < enable'
      <3> SUFFICES ASSUME ~ shuffled, ~ LaterSlot(c), NEW d \in Listening \ {c}
                   PROVE  InSlot(d)' /\ slot'[d] < enable'
        BY <2>1, <2>2
      <3>1. d \in Clients /\ slot'[d] = slot[d]
        BY <2>1 DEF Listening, Clients, TypeOK
      <3>2. InSlot(d) /\ InSlot(c) /\ slot[c] < enable
        BY <2>2 DEF SlotInv
      <3>3. slot[d] # slot[c] /\ slot[d] \in Slots
        BY <3>2 DEF InSlot
      <3>4. slot[d] <= slot[c]
        BY <2>3, <3>1, <3>3 DEF LaterSlot, Slots
      <3>5. files'[slot[d]] = d
        BY <2>1, <2>3, <3>2, <3>3 DEF InSlot, TypeOK
      <3>6. slot[d] < enable - 1
        <4>1. slot[d] \in Nat /\ slot[c] \in Nat /\ enable \in Nat
          BY <2>3, <3>3 DEF TypeOK, Slots
        <4> QED BY <3>2, <3>3, <3>4, <4>1
      <3> QED BY <2>1, <3>1, <3>3, <3>5, <3>6 DEF InSlot
    <2> QED BY <2>4, <2>5, <2>6, <2>7 DEF SlotInv, SlotsSound
  <1> QED BY <1>2, <1>3, <1>4, <1>5, <1>6 DEF Open, Close, InCall

-----------------------------------------------------------------------------
(* The theorems.                                                           *)
Inv == TypeOK /\ IrqInv /\ SlotInv

LEMMA InvInit == Init => Inv
  <1> SUFFICES ASSUME Init
               PROVE  Inv
    OBVIOUS
  <1> USE ClientsAssumption DEF Init
  <1>1. Counted = {} /\ Listening = {}
    BY DEF Counted, Listening, Clients
  <1>2. TypeOK
    <2>1. /\ slot \in [Clients -> Slots \cup {NoSlot}] /\ enable \in 0 .. MaxCosPaths
          /\ files \in [Slots -> Clients \cup {Nobody}]
      OBVIOUS
    <2>2. /\ buf \in [Clients -> Seq(Nat)] /\ \A c \in Clients : Len(buf[c]) <= PathRoom
          /\ statusbuf \in Seq(Nat) /\ Len(statusbuf) <= StatusRoom
      OBVIOUS
    <2> QED BY <2>1, <2>2 DEF TypeOK, Pcs
  <1>3. IrqInv
    BY <1>1, FS_EmptySet DEF IrqInv
  <1>4. SlotInv
    BY <1>1, FS_EmptySet DEF SlotInv, SlotsSound, NoSlot
  <1> QED BY <1>2, <1>3, <1>4 DEF Inv

LEMMA InvStep == Inv /\ [Next]_vars => Inv'
  <1> SUFFICES ASSUME Inv, [Next]_vars
               PROVE  Inv'
    OBVIOUS
  <1>1. ASSUME UNCHANGED <<pc, irq, slots>>
        PROVE  IrqInv' /\ SlotInv'
    <2>1. Counted' = Counted /\ Listening' = Listening
      BY <1>1 DEF Counted, Listening
    <2>2. SlotInv'
      BY <1>1, <2>1, SlotsStay DEF Inv
    <2>3. IrqInv'
      BY <1>1, <2>1 DEF Inv, IrqInv, irq
    <2> QED BY <2>2, <2>3
  <1>2. CASE Card \/ Isr \/ CosTask \/ Inhibit \/ Allow
    <2>1. UNCHANGED <<pc, irq, slots>>
      BY <1>2 DEF Card, Isr, CosTask, CardStore, CardRing, IsrRead, IsrEnd, CosStart,
         CosGet, CosEmpty, CosWake, CosOnly, Inhibit, Allow
    <2> QED BY <1>1, <1>2, <2>1, DeliveryType DEF Inv
  <1>3. ASSUME NEW c \in Clients,
               StartRead(c) \/ InRead(c) \/ Signal(c)
        PROVE  Inv'
    <2>1. UNCHANGED <<pc, irq, slots>>
      BY <1>3 DEF StartRead, InRead, ReadReturns, ReadSleeps, Signal, ReadOnly
    <2> QED BY <1>1, <1>3, <2>1, ReadType DEF Inv
  <1>4. ASSUME NEW c \in Clients, Open(c) \/ Close(c) \/ InCall(c)
        PROVE  Inv'
    BY <1>4, CallType, IrqStep, SlotStep DEF Inv
  <1>5. CASE UNCHANGED vars
    <2>1. TypeOK'
      BY <1>5 DEF Inv, TypeOK, vars, irq, slots, card, host, paths
    <2>2. UNCHANGED <<pc, irq, slots>>
      BY <1>5 DEF vars
    <2> QED BY <1>1, <2>1, <2>2 DEF Inv
  <1> QED BY <1>2, <1>3, <1>4, <1>5 DEF Next

LEMMA SpecInv == Spec => []Inv
  BY InvInit, InvStep, PTL DEF Spec

\* Counts, slots, buffers and the places of clients keep to their ranges for any
\* number of clients: enable stays within the table of slots.
THEOREM TypeCorrect == Spec => []TypeOK
  BY SpecInv, PTL DEF Inv

\* The interrupt is held while an open client needs it and freed with the last
\* one that is counted, in whatever order any number of clients open and close.
THEOREM IrqIsHeld == Spec => []IrqHeld
  <1>1. Inv => IrqHeld
    <2> SUFFICES ASSUME Inv
                 PROVE  IrqHeld
      OBVIOUS
    <2>1. ASSUME NEW c \in Clients, pc[c] \notin Uncounted
          PROVE  nclients > 0 /\ (installed \/ failed)
      <3>1. c \in Counted
        BY <2>1 DEF Uncounted, Counted, Inv, TypeOK, Pcs
      <3>2. Cardinality(Counted) \in Nat /\ Cardinality(Counted) # 0
        BY <3>1, FS_EmptySet, FS_CardinalityType DEF Inv, IrqInv
      <3> QED BY <3>2 DEF Inv, IrqInv, TypeOK
    <2> QED BY <2>1 DEF Inv, IrqInv, IrqHeld
  <1> QED BY <1>1, SpecInv, PTL

\* No slot refers to a client that has closed, and enable counts the clients.
THEOREM SlotsAreSound == Spec => []SlotsSound
  BY SpecInv, PTL DEF Inv, SlotInv

\* Clients that close in the reverse order of their opens keep their slots.
THEOREM SlotsAreOwn == Spec => []OwnSlot
  <1>1. Inv => OwnSlot
    BY DEF Inv, SlotInv, OwnSlot
  <1> QED BY <1>1, SpecInv, PTL
=============================================================================
