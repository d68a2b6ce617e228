--------------------------- MODULE StreamBufProofs ---------------------------
(***************************************************************************)
(* The ring implements the bounded queue with put back, for every size of  *)
(* ring and every set of entries.                                          *)
(***************************************************************************)
EXTENDS StreamBuf, SequenceTheorems, TLAPS

\* At most one entry is kept for a put back, the kept slot and the queued ones
\* do not overlap, and a consumer that saw an entry still has it.
RingInv ==
  /\ TypeOK
  /\ iget = iputback \/ iget = Inc(iputback)
  /\ Count(iputback, iget) + Count(iget, iput) <= NBUF - 1
  /\ cpc = "take" => ~ IsEmpty
  /\ \A k \in 1 .. Count(iputback, iput) : buffers[At(iputback, k - 1)] \in Data

-----------------------------------------------------------------------------
\* The masked increment goes round the ring.
LEMMA IncDef ==
  ASSUME NEW i \in Slots
  PROVE  /\ Inc(i) \in Slots
         /\ Inc(i) = IF i = NBUF - 1 THEN 0 ELSE i + 1
  BY StreamBufAssumption DEF Slots, Inc, StreamBufAssumption

\* Counting slots round the ring.
LEMMA CountFacts ==
  ASSUME NEW a \in Slots, NEW b \in Slots
  PROVE  /\ Count(a, b) \in 0 .. NBUF - 1
         /\ Count(a, b) = 0 <=> a = b
         /\ Inc(b) # a => Count(a, Inc(b)) = Count(a, b) + 1
         /\ Inc(b) = a <=> Count(a, b) = NBUF - 1
         /\ a # b => Count(Inc(a), b) = Count(a, b) - 1
         /\ At(a, Count(a, b)) = b
         /\ \A k \in 0 .. NBUF - 1 : At(a, k) \in Slots
         /\ \A k \in 0 .. NBUF - 1 : At(a, k) = b => k = Count(a, b)
  BY StreamBufAssumption, IncDef DEF Slots, Count, At, StreamBufAssumption

\* Sequences of one length that agree everywhere are one sequence.
LEMMA SameSequence ==
  ASSUME NEW S, NEW s \in Seq(S), NEW t \in Seq(S), Len(s) = Len(t),
         \A k \in 1 .. Len(s) : s[k] = t[k]
  PROVE  s = t
  <1>1. s \in [1 .. Len(s) -> S] /\ t \in [1 .. Len(s) -> S]
    BY LenProperties
  <1> QED BY <1>1

\* A sequence that holds another and one more element is its append.
LEMMA AppendBy ==
  ASSUME NEW S, NEW s \in Seq(S), NEW e \in S,
         NEW t \in Seq(S), Len(t) = Len(s) + 1,
         \A k \in 1 .. Len(s) : t[k] = s[k],
         t[Len(s) + 1] = e
  PROVE  t = Append(s, e)
  <1>1. /\ Append(s, e) \in Seq(S) /\ Len(Append(s, e)) = Len(s) + 1
        /\ \A k \in 1 .. Len(s) : Append(s, e)[k] = s[k]
        /\ Append(s, e)[Len(s) + 1] = e
    BY AppendProperties
  <1>2. \A k \in 1 .. Len(s) + 1 : t[k] = Append(s, e)[k]
    BY <1>1
  <1> QED BY <1>1, <1>2, SameSequence

\* A sequence that holds all but the first element of another is its tail.
LEMMA TailBy ==
  ASSUME NEW S, NEW s \in Seq(S), s # << >>,
         NEW t, t = [k \in 1 .. Len(s) - 1 |-> s[k + 1]]
  PROVE  t = Tail(s)
  <1>1. /\ Tail(s) \in Seq(S) /\ Len(Tail(s)) = Len(s) - 1
        /\ \A k \in 1 .. Len(s) - 1 : Tail(s)[k] = s[k + 1]
    BY HeadTailProperties
  <1>2. \A k \in 1 .. Len(s) - 1 : s[k + 1] \in S
    BY ElementOfSeq
  <1>3. t \in Seq(S) /\ Len(t) = Len(s) - 1
    BY <1>2, <1>1
  <1> QED BY <1>1, <1>3, SameSequence

\* A sequence that holds one and then another is their concatenation.
LEMMA ConcatBy ==
  ASSUME NEW S, NEW s \in Seq(S), NEW u \in Seq(S),
         NEW t \in Seq(S), Len(t) = Len(s) + Len(u),
         \A k \in 1 .. Len(s) : t[k] = s[k],
         \A k \in 1 .. Len(u) : t[Len(s) + k] = u[k]
  PROVE  t = s \o u
  <1>1. /\ s \o u \in Seq(S) /\ Len(s \o u) = Len(s) + Len(u)
        /\ \A k \in 1 .. Len(s) + Len(u) :
             (s \o u)[k] = IF k <= Len(s) THEN s[k] ELSE u[k - Len(s)]
    BY ConcatProperties
  <1>2. ASSUME NEW k \in 1 .. Len(s) + Len(u) PROVE t[k] = (s \o u)[k]
    <2>1. CASE k <= Len(s)
      <3>1. k \in 1 .. Len(s)
        BY <2>1
      <3>2. (s \o u)[k] = s[k]
        BY <1>1, <2>1
      <3> QED BY <3>1, <3>2
    <2>2. CASE k > Len(s)
      <3>1. k - Len(s) \in 1 .. Len(u) /\ Len(s) + (k - Len(s)) = k
        BY <2>2
      <3>2. (s \o u)[k] = u[k - Len(s)]
        BY <1>1, <2>2
      <3>3. t[Len(s) + (k - Len(s))] = u[k - Len(s)]
        BY <3>1
      <3> QED BY <3>1, <3>2, <3>3
    <2> QED BY <2>1, <2>2
  <1> QED BY <1>1, <1>2, SameSequence

\* A span, slot by slot.
LEMMA SpanAt ==
  ASSUME NEW a \in Slots, NEW b \in Slots
  PROVE  /\ \A k \in 1 .. Count(a, b) : Span(a, b)[k] = buffers[At(a, k - 1)]
         /\ Span(a, b) = [k \in 1 .. Count(a, b) |-> Span(a, b)[k]]
  BY DEF Span

\* The part of the ring in use holds entries.
LEMMA SpanType ==
  ASSUME RingInv
  PROVE  /\ Span(iget, iput) \in Seq(Data)
         /\ Span(iputback, iget) \in Seq(Data)
         /\ Len(Span(iget, iput)) = Count(iget, iput)
         /\ Len(Span(iputback, iget)) = Count(iputback, iget)
  <1> USE StreamBufAssumption DEF StreamBufAssumption, RingInv, TypeOK
  <1>1. /\ Count(iget, iput) \in Nat /\ Count(iputback, iget) \in Nat
        /\ Count(iputback, iput) = Count(iputback, iget) + Count(iget, iput)
    BY DEF Slots, Count
  <1>2. \A k \in 1 .. Count(iputback, iget) :
          buffers[At(iputback, k - 1)] \in Data
    BY <1>1
  <1>3. \A k \in 1 .. Count(iget, iput) : buffers[At(iget, k - 1)] \in Data
    <2> SUFFICES ASSUME NEW k \in 1 .. Count(iget, iput)
                 PROVE  buffers[At(iget, k - 1)] \in Data
      OBVIOUS
    <2> DEFINE m == k + Count(iputback, iget)
    <2>1. m \in 1 .. Count(iputback, iput)
      BY <1>1
    <2>2. At(iputback, m - 1) = At(iget, k - 1)
      BY <1>1 DEF Slots, Count, At
    <2> QED BY <2>1, <2>2
  <1> QED BY <1>1, <1>2, <1>3 DEF Span

\* A put extends the queued part of the ring by its entry and moves nothing.
LEMMA PutSpan ==
  ASSUME RingInv, NEW d \in Data, ~ IsFull, Put(d)
  PROVE  /\ Span(iget, iput)' = Append(Span(iget, iput), d)
         /\ Span(iputback, iget)' = Span(iputback, iget)
         /\ RingInv'
  <1> USE StreamBufAssumption DEF StreamBufAssumption
  <1>0. /\ iput \in Slots /\ iget \in Slots /\ iputback \in Slots
        /\ buffers' = [buffers EXCEPT ![iput] = d] /\ iput' = Inc(iput)
        /\ UNCHANGED <<iget, iputback, cpc, got>> /\ put' = "ok"
        /\ buffers \in [Slots -> Data \cup {Invalid}]
    BY DEF RingInv, TypeOK, Put
  <1>1. /\ Count(iget, iput) \in Nat /\ Count(iputback, iget) \in Nat
        /\ Count(iputback, iput) = Count(iputback, iget) + Count(iget, iput)
        /\ Count(iputback, iput) < NBUF - 1
        /\ Inc(iput) # iget
        /\ Count(iputback, iput') = Count(iputback, iput) + 1
        /\ Count(iget, iput') = Count(iget, iput) + 1
    <2>1. Count(iget, iput) \in Nat /\ Count(iputback, iget) \in Nat
          /\ Count(iputback, iput) \in 0 .. NBUF - 1
      BY <1>0 DEF Slots, Count
    <2>2. Count(iputback, iput) = Count(iputback, iget) + Count(iget, iput)
      BY <1>0 DEF RingInv, Slots, Count
    <2>3. Inc(iput) # iputback /\ Count(iputback, iput) # NBUF - 1
      BY <1>0, CountFacts DEF IsFull
    <2>4. Count(iget, iput) # NBUF - 1
      BY <2>1, <2>2, <2>3
    <2>5. Inc(iput) # iget
      BY <1>0, <2>4, CountFacts
    <2> QED BY <1>0, <2>1, <2>2, <2>3, <2>5, CountFacts
  <1>2. \A k \in 1 .. Count(iget, iput) :
          buffers'[At(iget, k - 1)] = buffers[At(iget, k - 1)]
    BY <1>0, <1>1 DEF Slots, Count, At
  <1>3. \A k \in 1 .. Count(iputback, iget) :
          buffers'[At(iputback, k - 1)] = buffers[At(iputback, k - 1)]
    BY <1>0, <1>1 DEF Slots, Count, At
  <1>4. At(iget, Count(iget, iput)) = iput /\ buffers'[iput] = d
    BY <1>0, CountFacts
  <1>5. Span(iputback, iget)' = Span(iputback, iget)
    BY <1>0, <1>1, <1>3 DEF Span, Count, At
  <1>6. Span(iget, iput)' = Append(Span(iget, iput), d)
    <2> DEFINE s == Span(iget, iput)
               t == Span(iget, iput)'
               n == Count(iget, iput)
    <2>1. s \in Seq(Data) /\ Len(s) = n
      BY SpanType
    <2>2. t = [k \in 1 .. n + 1 |-> buffers'[At(iget, k - 1)]]
      BY <1>0, <1>1 DEF Span, Count, At
    <2>3. t[n + 1] = d
      BY <2>2, <1>1, <1>4
    <2>4. \A k \in 1 .. n : t[k] = s[k]
      <3>1. \A k \in 1 .. n : t[k] = buffers'[At(iget, k - 1)]
        BY <2>2, <1>1
      <3>2. \A k \in 1 .. n : s[k] = buffers[At(iget, k - 1)]
        BY <1>0, SpanAt
      <3> HIDE DEF s, t
      <3> QED BY <3>1, <3>2, <1>2
    <2>5. t \in Seq(Data) /\ Len(t) = Len(s) + 1
      <3>1. \A k \in 1 .. n : s[k] \in Data
        <4> HIDE DEF s, n
        <4> QED BY <2>1
      <3>2. \A k \in 1 .. n + 1 : t[k] \in Data
        <4> HIDE DEF s, t
        <4> QED BY <3>1, <2>3, <2>4, <1>1
      <3>3. n + 1 \in Nat
        BY <1>1
      <3>4. t \in Seq(Data) /\ Len(t) = n + 1
        BY <2>2, <3>2, <3>3
      <3> QED BY <3>4, <2>1
    <2>6. t = Append(s, d)
      <3> HIDE DEF s, t, n
      <3> QED BY <2>1, <2>3, <2>4, <2>5, AppendBy
    <2> QED BY <2>6
  <1>7. RingInv'
    <2>1. TypeOK'
      BY <1>0, IncDef DEF RingInv, TypeOK
    <2>2. \A k \in 1 .. Count(iputback, iput) :
            buffers'[At(iputback, k - 1)] \in Data
      BY <1>0, <1>1, CountFacts DEF RingInv
    <2>3. At(iputback, Count(iputback, iput)) = iput
      BY <1>0, CountFacts
    <2>4. \A k \in 1 .. Count(iputback, iput) + 1 :
            buffers'[At(iputback, k - 1)] \in Data
      BY <1>0, <1>1, <2>2, <2>3
    <2>5. Count(iputback, iget) + Count(iget, iput) + 1 <= NBUF - 1
      BY <1>1
    <2>6. iget # iput'
      BY <1>0, <1>1
    <2>7. /\ (iget = iputback \/ iget = Inc(iputback))'
          /\ (Count(iputback, iget) + Count(iget, iput) <= NBUF - 1)'
          /\ (cpc = "take" => ~ IsEmpty)'
      BY <1>0, <1>1, <2>5, <2>6 DEF RingInv, IsEmpty, Count, Inc
    <2>8. (\A k \in 1 .. Count(iputback, iput) :
             buffers[At(iputback, k - 1)] \in Data)'
      BY <1>0, <1>1, <2>4 DEF Count, At
    <2> QED BY <2>1, <2>7, <2>8 DEF RingInv
  <1> QED BY <1>5, <1>6, <1>7

\* Taking the oldest entry: it leaves the queued part and is the kept one.
LEMMA TakeSpan ==
  ASSUME RingInv, GetTake
  PROVE  /\ Span(iget, iput) # << >>
         /\ got' = Head(Span(iget, iput))
         /\ Span(iget, iput)' = Tail(Span(iget, iput))
         /\ Span(iputback, iget)' = <<Head(Span(iget, iput))>>
         /\ RingInv'
  <1> USE StreamBufAssumption DEF StreamBufAssumption
  <1> DEFINE s == Span(iget, iput)
             t == Span(iget, iput)'
             n == Count(iget, iput)
  <1>0. /\ iput \in Slots /\ iget \in Slots /\ iputback \in Slots
        /\ UNCHANGED <<buffers, iput, put>> /\ iputback' = iget
        /\ got' = buffers[iget] /\ iget' = Inc(iget) /\ cpc' = "idle"
        /\ iget # iput
        /\ buffers \in [Slots -> Data \cup {Invalid}]
    BY DEF RingInv, TypeOK, GetTake, IsEmpty
  <1>1. /\ n \in 1 .. NBUF - 1 /\ iget' \in Slots
        /\ Count(iget', iput) = n - 1
        /\ Count(iget, iget') = 1
        /\ At(iget, 0) = iget
        /\ \A k \in 1 .. n - 1 : At(iget', k - 1) = At(iget, k)
    <2>1. iget' \in Slots /\ iget' = IF iget = NBUF - 1 THEN 0 ELSE iget + 1
      BY <1>0, IncDef
    <2>2. n \in 1 .. NBUF - 1
      BY <1>0 DEF Slots, Count
    <2>3. Count(iget', iput) = n - 1 /\ Count(iget, iget') = 1
      BY <1>0, <2>1 DEF Slots, Count
    <2>4. \A k \in 1 .. n - 1 : At(iget', k - 1) = At(iget, k)
      BY <1>0, <2>1, <2>2 DEF Slots, At
    <2> QED BY <1>0, <2>1, <2>2, <2>3, <2>4 DEF Slots, At
  <1>2. s \in Seq(Data) /\ Len(s) = n
    BY SpanType
  <1>3. s # << >> /\ s[1] = buffers[iget]
    BY <1>1, <1>2 DEF Span
  <1>4. Head(s) = buffers[iget]
    BY <1>3
  <1>5. t = [k \in 1 .. n - 1 |-> s[k + 1]]
    BY <1>0, <1>1 DEF Span, Count, At
  <1>6. t = Tail(s)
    <2> HIDE DEF s, t, n
    <2> QED BY <1>2, <1>3, <1>5, TailBy
  <1>7. Span(iputback, iget)' = <<buffers[iget]>>
    BY <1>0, <1>1 DEF Span, Count, At
  <1>8. RingInv'
    <2>1. TypeOK'
      BY <1>0, <1>1 DEF RingInv, TypeOK
    <2>2. \A k \in 1 .. n : buffers[At(iget, k - 1)] \in Data
      <3>1. \A k \in 1 .. n : s[k] \in Data
        <4> HIDE DEF s
        <4> QED BY <1>2
      <3> QED BY <3>1, <1>0, SpanAt
    <2> QED BY <1>0, <1>1, <2>1, <2>2 DEF RingInv, Count, At, Inc
  <1> QED BY <1>0, <1>3, <1>4, <1>6, <1>7, <1>8

\* Putting the kept entry back: it is again the oldest queued one.
LEMMA PutBackSpan ==
  ASSUME RingInv, PutBack
  PROVE  /\ Span(iget, iput)' = Span(iputback, iget) \o Span(iget, iput)
         /\ Span(iputback, iget)' = << >>
         /\ RingInv'
  <1> USE StreamBufAssumption DEF StreamBufAssumption
  <1> DEFINE s == Span(iputback, iget)
             u == Span(iget, iput)
             t == Span(iputback, iput)
  <1>0. /\ iput \in Slots /\ iget \in Slots /\ iputback \in Slots
        /\ UNCHANGED <<buffers, iput, iputback, cpc, got, put>>
        /\ iget' = iputback /\ cpc = "idle"
    BY DEF RingInv, TypeOK, PutBack
  <1>1. /\ s \in Seq(Data) /\ Len(s) = Count(iputback, iget)
        /\ u \in Seq(Data) /\ Len(u) = Count(iget, iput)
    BY SpanType
  <1>2. /\ Count(iget, iput) \in Nat /\ Count(iputback, iget) \in Nat
        /\ Count(iputback, iput) = Count(iputback, iget) + Count(iget, iput)
        /\ Count(iputback, iputback) = 0
    BY <1>0 DEF RingInv, Slots, Count
  <1>3. \A k \in 1 .. Count(iputback, iput) : t[k] = buffers[At(iputback, k - 1)]
    BY <1>0, SpanAt
  <1>4. \A k \in 1 .. Len(s) : t[k] = s[k]
    <2>1. \A k \in 1 .. Count(iputback, iget) :
            s[k] = buffers[At(iputback, k - 1)]
      BY <1>0, SpanAt
    <2> HIDE DEF s, t
    <2> QED BY <1>1, <1>2, <1>3, <2>1
  <1>5. \A k \in 1 .. Len(u) : t[Len(s) + k] = u[k]
    <2> DEFINE n == Count(iputback, iget)
               w == Count(iget, iput)
               z == Count(iputback, iput)
    <2>1. \A k \in 1 .. w : u[k] = buffers[At(iget, k - 1)]
      BY <1>0, SpanAt
    <2>2. \A k \in 1 .. w : At(iputback, (n + k) - 1) = At(iget, k - 1)
      BY <1>0, <1>2 DEF Slots, Count, At
    <2>3. n \in Nat /\ w \in Nat /\ z = n + w /\ Len(s) = n /\ Len(u) = w
      BY <1>1, <1>2
    <2>4. \A k \in 1 .. z : t[k] = buffers[At(iputback, k - 1)]
      BY <1>3
    <2> HIDE DEF s, t, u, n, w, z
    <2> SUFFICES ASSUME NEW k \in 1 .. w PROVE t[n + k] = u[k]
      BY <2>3
    <2>5. n + k \in 1 .. z
      BY <2>3
    <2>6. t[n + k] = buffers[At(iputback, (n + k) - 1)]
      BY <2>4, <2>5
    <2> QED BY <2>1, <2>2, <2>6
  <1>6. t \in Seq(Data) /\ Len(t) = Len(s) + Len(u)
    <2>1. \A k \in 1 .. Count(iputback, iput) :
            buffers[At(iputback, k - 1)] \in Data
      BY DEF RingInv
    <2>2. t \in Seq(Data) /\ Len(t) = Count(iputback, iput)
      BY <1>2, <2>1 DEF Span
    <2> QED BY <1>1, <1>2, <2>2
  <1>7. t = s \o u
    <2> HIDE DEF s, t, u
    <2> QED BY <1>1, <1>4, <1>5, <1>6, ConcatBy
  <1>8. Span(iget, iput)' = t /\ Span(iputback, iget)' = << >>
    BY <1>0, <1>2 DEF Span, Count, At
  <1>9. RingInv'
    <2>1. TypeOK'
      BY <1>0 DEF RingInv, TypeOK
    <2> QED BY <1>0, <1>2, <2>1 DEF RingInv, Count, At, IsEmpty
  <1> QED BY <1>7, <1>8, <1>9

-----------------------------------------------------------------------------
\* The empty ring is the empty queue.
LEMMA InitRing == Init => RingInv /\ Queue!Init
  <1> SUFFICES ASSUME Init PROVE RingInv /\ Queue!Init
    OBVIOUS
  <1> USE StreamBufAssumption DEF StreamBufAssumption, Init
  <1>1. 0 \in Slots /\ Count(0, 0) = 0
    BY DEF Slots, Count
  <1>2. RingInv
    BY <1>1 DEF RingInv, TypeOK
  <1>3. Span(0, 0) = << >>
    BY <1>1 DEF Span
  <1>4. Queue!Init
    BY <1>3 DEF Queue!Init
  <1> QED BY <1>2, <1>4

\* The ring counts its room as the queue does: one slot stays unused.
LEMMA FullMeansFull ==
  ASSUME RingInv
  PROVE  ~ IsFull <=>
           Len(Span(iputback, iget)) + Len(Span(iget, iput)) < NBUF - 1
  <1>1. /\ iput \in Slots /\ iget \in Slots /\ iputback \in Slots
        /\ NBUF \in Nat /\ NBUF > 1
    BY StreamBufAssumption DEF RingInv, TypeOK, StreamBufAssumption
  <1>2. /\ Count(iputback, iput) = Count(iputback, iget) + Count(iget, iput)
        /\ Count(iputback, iput) \in 0 .. NBUF - 1
    BY <1>1 DEF RingInv, Slots, Count
  <1>3. IsFull <=> Count(iputback, iput) = NBUF - 1
    BY <1>1, CountFacts DEF IsFull
  <1> QED BY <1>1, <1>2, <1>3, SpanType

\* Every step of the ring is a step of the queue, or changes nothing of it.
LEMMA StepRing ==
  ASSUME RingInv, [Next]_vars
  PROVE  RingInv' /\ [Queue!Next]_Queue!vars
  <1> USE DEF Queue!Next, Queue!vars
  <1>1. ASSUME NEW d \in Data, Put(d), IsFull
        PROVE  RingInv' /\ [Queue!Next]_Queue!vars
    <2>1. put' = "full" /\ UNCHANGED <<buffers, iput, iget, iputback, cpc, got>>
      BY <1>1 DEF Put
    <2>2. RingInv'
      BY <2>1 DEF RingInv, TypeOK, Count, At, IsEmpty
    <2>3. /\ UNCHANGED <<Span(iget, iput), Span(iputback, iget), got>>
          /\ ~ (Len(Span(iputback, iget)) + Len(Span(iget, iput)) < NBUF - 1)
      BY <1>1, <2>1, FullMeansFull DEF Span, Count, At
    <2>4. Queue!Put(d)
      BY <2>1, <2>3 DEF Queue!Put
    <2> QED BY <2>2, <2>4
  <1>2. ASSUME NEW d \in Data, Put(d), ~ IsFull
        PROVE  RingInv' /\ [Queue!Next]_Queue!vars
    <2>1. put' = "ok" /\ UNCHANGED got
      BY <1>2 DEF Put
    <2>2. /\ Span(iget, iput)' = Append(Span(iget, iput), d)
          /\ Span(iputback, iget)' = Span(iputback, iget)
          /\ RingInv'
      BY <1>2, PutSpan
    <2>3. Len(Span(iputback, iget)) + Len(Span(iget, iput)) < NBUF - 1
      BY <1>2, FullMeansFull
    <2>4. Queue!Put(d)
      BY <2>1, <2>2, <2>3 DEF Queue!Put
    <2> QED BY <2>2, <2>4
  <1>3. CASE GetEmpty
    <2>1. /\ got' = Invalid /\ iget = iput
          /\ UNCHANGED <<buffers, iput, iget, iputback, cpc, put>>
      BY <1>3 DEF GetEmpty, IsEmpty
    <2>2. RingInv'
      BY <2>1 DEF RingInv, TypeOK, Count, At, IsEmpty
    <2>3. UNCHANGED <<Span(iget, iput), Span(iputback, iget)>>
      BY <2>1 DEF Span, Count, At
    <2>4. Span(iget, iput) = << >>
      <3>1. Len(Span(iget, iput)) = 0 /\ Span(iget, iput) \in Seq(Data)
        BY <2>1, SpanType, CountFacts DEF RingInv, TypeOK
      <3> QED BY <3>1, EmptySeq
    <2>5. Queue!Get
      BY <2>1, <2>3, <2>4 DEF Queue!Get
    <2> QED BY <2>2, <2>5
  <1>4. CASE GetCheck
    <2>1. /\ cpc' = "take" /\ ~ IsEmpty
          /\ UNCHANGED <<buffers, iput, iget, iputback, got, put>>
      BY <1>4 DEF GetCheck
    <2>2. buffers[iget] \in Data
      <3> USE StreamBufAssumption DEF StreamBufAssumption
      <3>1. /\ iget \in Slots /\ iput \in Slots
            /\ Span(iget, iput) \in Seq(Data)
            /\ Len(Span(iget, iput)) = Count(iget, iput)
        BY SpanType DEF RingInv, TypeOK
      <3>2. Count(iget, iput) \in 1 .. NBUF - 1
        BY <2>1, <3>1 DEF IsEmpty, Slots, Count
      <3>3. Span(iget, iput)[1] = buffers[iget]
        BY <3>1, <3>2 DEF Span, Slots, At
      <3>4. Span(iget, iput)[1] \in Data
        <4> DEFINE s == Span(iget, iput)
        <4>1. s \in Seq(Data) /\ 1 \in 1 .. Len(s)
          BY <3>1, <3>2
        <4>2. s[1] \in Data
          <5> HIDE DEF s
          <5> QED BY <4>1
        <4> QED BY <4>2
      <3> QED BY <3>3, <3>4
    <2>3. RingInv'
      BY <2>1, <2>2 DEF RingInv, TypeOK, Count, At, IsEmpty
    <2>4. UNCHANGED <<Span(iget, iput), Span(iputback, iget), got, put>>
      BY <2>1 DEF Span, Count, At
    <2> QED BY <2>3, <2>4
  <1>5. CASE GetTake
    <2>1. UNCHANGED put
      BY <1>5 DEF GetTake
    <2>2. Queue!Get
      BY <1>5, <2>1, TakeSpan DEF Queue!Get
    <2> QED BY <1>5, <2>2, TakeSpan
  <1>6. CASE PutBack
    <2>1. UNCHANGED <<got, put>>
      BY <1>6 DEF PutBack
    <2>2. Queue!PutBack
      BY <1>6, <2>1, PutBackSpan DEF Queue!PutBack
    <2> QED BY <1>6, <2>2, PutBackSpan
  <1>7. CASE UNCHANGED vars
    <2>1. RingInv'
      BY <1>7 DEF vars, RingInv, TypeOK, Count, At, IsEmpty
    <2>2. UNCHANGED <<Span(iget, iput), Span(iputback, iget), got, put>>
      BY <1>7 DEF vars, Span, Count, At
    <2> QED BY <2>1, <2>2
  <1> QED BY <1>1, <1>2, <1>3, <1>4, <1>5, <1>6, <1>7 DEF Next

\* The indices stay in the ring, and the slot a get takes after it has seen an
\* entry is in use, whatever is put meanwhile, for every size of ring.
THEOREM RingTypeCorrect == Spec => []TypeOK
  <1>1. Init => RingInv
    BY InitRing
  <1>2. RingInv /\ [Next]_vars => RingInv'
    BY StepRing
  <1>3. RingInv => TypeOK
    BY DEF RingInv
  <1> QED BY <1>1, <1>2, <1>3, PTL DEF Spec

\* The ring of acq32.h is a bounded queue with put back: for every size of ring
\* and whatever is put while a get is under way, entries leave it once and in
\* order, and an entry put back is the next to be got.
THEOREM RingIsQueue == Spec => IsQueue
  <1>1. Init => RingInv /\ Queue!Init
    BY InitRing
  <1>2. RingInv /\ [Next]_vars => RingInv' /\ [Queue!Next]_Queue!vars
    BY StepRing
  <1> QED BY <1>1, <1>2, PTL DEF Spec, IsQueue, Queue!Spec
=============================================================================
