--------------------------- MODULE HandlerListProofs ---------------------------
(***************************************************************************)
(* Proofs about HandlerList, for any set of handlers: pointers keep their  *)
(* type, and outside the windows that Tears names the handlers form one    *)
(* ring in both directions, whatever the bottom half removes between two   *)
(* stores of a process, and its walk finds every one of them.              *)
(***************************************************************************)
EXTENDS HandlerList, WellFoundedInduction, TLAPS

\* The entry at position i of the list s, and the one after it.
NodeOf(s, i) == IF i = 0 THEN First ELSE s[i]
SuccOf(s, i) == IF i = Len(s) THEN First ELSE s[i + 1]

Distinct ==
  \A i, j \in 1 .. Len(order) : order[i] = order[j] => i = j

\* An update under way is of a handler, of the right kind.
OpOK ==
  /\ op.kind = "none" => op = NoOp
  /\ op.kind # "none" => op.h \in Handlers /\ op.pc \in 1 .. 4
  /\ op.kind \in {"insert", "remove"} => op.h \in Fetchers
  /\ op.kind = "remove" => op.pc \in {1, 2}

\* What an update has done so far, and where its handler stands.
AppendOK ==
  op.kind = "append" =>
    /\ op.h \notin Listed
    /\ op.pc >= 2 => prev[op.h] = NodeOf(order, Len(order))
    /\ op.pc \in {2, 3} => op.saw = NodeOf(order, Len(order))
    /\ op.pc >= 3 => next[op.h] = First

InsertOK ==
  op.kind = "insert" =>
    /\ op.h \notin Listed
    /\ op.pc >= 2 => prev[op.h] = First
    /\ op.pc >= 3 => next[op.h] = SuccOf(order, 0)
    /\ op.pc = 3 => op.saw = SuccOf(order, 0)

RemoveOK ==
  op.kind = "remove" =>
    /\ op.pc = 1 => op.h \in Listed
    /\ op.pc = 2 =>
         /\ op.h \notin Listed
         /\ \E i \in 0 .. Len(order) :
              /\ prev[op.h] = NodeOf(order, i)
              /\ next[op.h] = SuccOf(order, i)

\* The ring, with the one link that differs while an update is half done.
Forwards ==
  \A i \in 0 .. Len(order) :
    next[NodeOf(order, i)] =
      IF At("append", 4) /\ i = Len(order) THEN op.h ELSE SuccOf(order, i)

Backwards ==
  \A i \in 0 .. Len(order) :
    ~ (At("append", 4) /\ i = Len(order)) =>
      prev[SuccOf(order, i)] =
        IF \/ At("insert", 4) /\ i = 0
           \/ At("remove", 2) /\ prev[op.h] = NodeOf(order, i)
          THEN op.h ELSE NodeOf(order, i)

Ring ==
  /\ Distinct
  /\ AppendOK /\ InsertOK /\ RemoveOK
  /\ Forwards /\ Backwards
  /\ prev[First] # Nil

IInv == TypeOK /\ OpOK /\ (~ torn => Ring /\ op.saw # Nil)

-----------------------------------------------------------------------------
(* Lists. *)

\* Positions and entries determine each other.
LEMMA NodeFacts ==
  ASSUME NEW s \in Seq(Handlers),
         \A i, j \in 1 .. Len(s) : s[i] = s[j] => i = j
  PROVE  /\ \A i \in 0 .. Len(s) :
              /\ NodeOf(s, i) \in Nodes /\ SuccOf(s, i) \in Nodes
              /\ NodeOf(s, i) # Nil /\ SuccOf(s, i) # Nil
         /\ \A i, j \in 0 .. Len(s) : NodeOf(s, i) = NodeOf(s, j) => i = j
         /\ \A i, j \in 0 .. Len(s) : SuccOf(s, i) = SuccOf(s, j) => i = j
<1>1. \A i \in 1 .. Len(s) : s[i] \in Handlers
  OBVIOUS
<1>2. \A i \in 0 .. Len(s) - 1 : i + 1 \in 1 .. Len(s)
  OBVIOUS
<1> QED
  BY <1>1, <1>2, HandlerListAssumption DEF NodeOf, SuccOf, Nodes

\* An entry that is not on the list is at no position.
LEMMA Unlisted ==
  ASSUME NEW s \in Seq(Handlers), NEW h \in Handlers,
         h \notin {s[i] : i \in 1 .. Len(s)}
  PROVE  \A i \in 0 .. Len(s) : NodeOf(s, i) # h /\ SuccOf(s, i) # h
<1>1. \A i \in 0 .. Len(s) - 1 : i + 1 \in 1 .. Len(s)
  OBVIOUS
<1> QED
  BY <1>1, HandlerListAssumption DEF NodeOf, SuccOf

\* The list without one entry.
LEMMA WithoutFacts ==
  ASSUME order \in Seq(Handlers), NEW k \in 1 .. Len(order),
         NEW t, t = Without(k),
         \A i, j \in 1 .. Len(order) : order[i] = order[j] => i = j
  PROVE  /\ t \in Seq(Handlers) /\ Len(t) = Len(order) - 1
         /\ \A i \in 0 .. Len(t) :
              /\ NodeOf(t, i) = NodeOf(order, IF i < k THEN i ELSE i + 1)
              /\ SuccOf(t, i) = SuccOf(order, IF i < k - 1 THEN i ELSE i + 1)
         /\ \A x : x \in {t[i] : i \in 1 .. Len(t)}
                  <=> x \in Listed /\ x # order[k]
         /\ \A i, j \in 1 .. Len(t) : t[i] = t[j] => i = j
<1>1. Len(order) \in Nat /\ \A i \in 1 .. Len(order) : order[i] \in Handlers
  OBVIOUS
<1>2. \A i \in 1 .. Len(order) - 1 : i \in 1 .. Len(order) /\ i + 1 \in 1 .. Len(order)
  BY <1>1
<1>3. t = [i \in 1 .. Len(order) - 1 |-> IF i < k THEN order[i] ELSE order[i + 1]]
      /\ t \in [1 .. Len(order) - 1 -> Handlers]
  BY <1>1, <1>2 DEF Without
<1>4. t \in Seq(Handlers) /\ Len(t) = Len(order) - 1
  BY <1>1, <1>3
<1>5. \A i \in 1 .. Len(t) : t[i] = IF i < k THEN order[i] ELSE order[i + 1]
  BY <1>3, <1>4
<1>6. ASSUME NEW i \in 0 .. Len(t)
      PROVE  /\ NodeOf(t, i) = NodeOf(order, IF i < k THEN i ELSE i + 1)
             /\ SuccOf(t, i) = SuccOf(order, IF i < k - 1 THEN i ELSE i + 1)
  <2>1. NodeOf(t, i) = NodeOf(order, IF i < k THEN i ELSE i + 1)
    BY <1>1, <1>4, <1>5 DEF NodeOf
  <2>2. SuccOf(t, i) = SuccOf(order, IF i < k - 1 THEN i ELSE i + 1)
    BY <1>1, <1>4, <1>5 DEF SuccOf
  <2> QED
    BY <2>1, <2>2
<1>7. ASSUME NEW x
      PROVE  x \in {t[i] : i \in 1 .. Len(t)} <=> x \in Listed /\ x # order[k]
  <2>1. ASSUME NEW i \in 1 .. Len(t)
        PROVE  t[i] # order[k] /\ \E j \in 1 .. Len(order) : order[j] = t[i]
    BY <1>1, <1>2, <1>4, <1>5
  <2>2. ASSUME NEW j \in 1 .. Len(order), j # k
        PROVE  \E i \in 1 .. Len(t) : t[i] = order[j]
    <3>1. CASE j < k
      BY <1>1, <1>4, <1>5, <3>1
    <3>2. CASE j > k
      <4>1. j - 1 \in 1 .. Len(t) /\ ~ (j - 1 < k) /\ (j - 1) + 1 = j
        BY <1>1, <1>4, <3>2
      <4> QED
        BY <1>5, <4>1
    <3>3. j < k \/ j > k
      BY <1>1, <2>2
    <3> QED
      BY <3>1, <3>2, <3>3
  <2>3. ASSUME NEW i \in 1 .. Len(t), x = t[i]
        PROVE  x \in Listed /\ x # order[k]
    BY <2>1, <2>3 DEF Listed
  <2>4. ASSUME x \in Listed, x # order[k]
        PROVE  \E i \in 1 .. Len(t) : x = t[i]
    <3>1. PICK j \in 1 .. Len(order) : x = order[j]
      BY <2>4 DEF Listed
    <3> QED
      BY <2>2, <2>4, <3>1
  <2> QED
    BY <2>3, <2>4
<1>8. \A i, j \in 1 .. Len(t) : t[i] = t[j] => i = j
  BY <1>1, <1>2, <1>4, <1>5
<1> QED
  BY <1>4, <1>6, <1>7, <1>8

-----------------------------------------------------------------------------
(* Types. *)

\* Taking any entry out leaves a list of handlers.
LEMMA WithoutType ==
  ASSUME order \in Seq(Handlers), NEW k \in 1 .. Len(order)
  PROVE  Without(k) \in Seq(Handlers)
<1>1. Len(order) \in Nat /\ \A i \in 1 .. Len(order) : order[i] \in Handlers
  OBVIOUS
<1>2. \A i \in 1 .. Len(order) - 1 : i \in 1 .. Len(order) /\ i + 1 \in 1 .. Len(order)
  BY <1>1
<1>3. Without(k) \in [1 .. Len(order) - 1 -> Handlers]
  BY <1>1, <1>2 DEF Without
<1> QED
  BY <1>1, <1>3

LEMMA TypeStep ==
  ASSUME TypeOK, OpOK, [Next]_vars
  PROVE  TypeOK' /\ OpOK'
<1> USE HandlerListAssumption DEF TypeOK, OpOK, Ops, Pointers, Nodes
<1>1. ASSUME NEW kind \in {"append", "insert", "remove"}, NEW h \in Handlers,
             Begin(kind, h)
      PROVE  TypeOK' /\ OpOK'
  <2>1. kind \in {"insert", "remove"} => h \in Fetchers
    BY <1>1 DEF Begin
  <2> QED
    BY <1>1, <2>1 DEF Begin
<1>2. CASE AppendPrev
  <2>1. prev[First] \in Pointers
    OBVIOUS
  <2>2. op' = [kind |-> "append", h |-> op.h, pc |-> 2, saw |-> prev[First]]
    BY <1>2 DEF AppendPrev, At
  <2>3. op' \in [kind : Ops, h : Nodes, pc : 0 .. 4, saw : Pointers]
    BY <2>1, <2>2
  <2>4. prev' = [prev EXCEPT ![op.h] = prev[First]]
    BY <1>2 DEF AppendPrev, Store
  <2>5. prev' \in [Nodes -> Pointers]
    BY <2>1, <2>4
  <2> QED
    BY <1>2, <2>2, <2>3, <2>5 DEF AppendPrev, At
<1>3. CASE AppendNext
  BY <1>3 DEF AppendNext, At, Store, Onward
<1>4. CASE AppendLink
  BY <1>4 DEF AppendLink, At, Store, Onward
<1>5. CASE AppendLast
  <2>1. order' \in Seq(Handlers)
    BY <1>5 DEF AppendLast, At
  <2> QED
    BY <1>5, <2>1 DEF AppendLast, At, Store, NoOp
<1>6. CASE InsertPrev
  BY <1>6 DEF InsertPrev, At, Store, Onward
<1>7. CASE InsertNext
  <2>1. next[First] \in Pointers
    OBVIOUS
  <2>2. op' = [kind |-> "insert", h |-> op.h, pc |-> 3, saw |-> next[First]]
    BY <1>7 DEF InsertNext, At
  <2>3. op' \in [kind : Ops, h : Nodes, pc : 0 .. 4, saw : Pointers]
    BY <2>1, <2>2
  <2>4. next' = [next EXCEPT ![op.h] = next[First]]
    BY <1>7 DEF InsertNext, Store
  <2>5. next' \in [Nodes -> Pointers]
    BY <2>1, <2>4
  <2> QED
    BY <1>7, <2>2, <2>3, <2>5 DEF InsertNext, At
<1>8. CASE InsertLink
  BY <1>8 DEF InsertLink, At, Store, Onward
<1>9. CASE InsertFirst
  <2>1. order' \in Seq(Handlers)
    BY <1>9 DEF InsertFirst, At
  <2> QED
    BY <1>9, <2>1 DEF InsertFirst, At, Store, NoOp
<1>10. CASE RemoveNext
  <2>1. order' \in Seq(Handlers)
    <3>1. CASE op.h \in Listed
      <4>1. PICK k \in 1 .. Len(order) :
              k = CHOOSE j \in 1 .. Len(order) : order[j] = op.h
        BY <3>1 DEF Listed
      <4> QED
        BY <1>10, <3>1, <4>1, WithoutType DEF RemoveNext
    <3>2. CASE op.h \notin Listed
      BY <1>10, <3>2 DEF RemoveNext
    <3> QED
      BY <3>1, <3>2
  <2> QED
    BY <1>10, <2>1 DEF RemoveNext, At, Store, Onward
<1>11. CASE RemovePrev
  BY <1>11 DEF RemovePrev, At, NoOp
<1>12. ASSUME NEW h \in Handlers, Handle(h)
       PROVE  TypeOK' /\ OpOK'
  <2>1. CASE Found(h) /\ prev[h] # Nil /\ next[h] # Nil
    <3>1. order' \in Seq(Handlers)
      BY <1>12, <2>1, WithoutType DEF Handle
    <3>2. next' \in [Nodes -> Pointers] /\ prev' \in [Nodes -> Pointers]
      BY <1>12, <2>1 DEF Handle, Remove, Cleared
    <3>3. torn' \in BOOLEAN
      BY <1>12, <2>1 DEF Handle, Tears
    <3> QED
      BY <1>12, <2>1, <3>1, <3>2, <3>3 DEF Handle
  <2>2. CASE ~ (Found(h) /\ prev[h] # Nil /\ next[h] # Nil)
    BY <1>12, <2>2 DEF Handle
  <2> QED
    BY <2>1, <2>2
<1>13. CASE UNCHANGED vars
  BY <1>13 DEF vars
<1> QED
  BY <1>1, <1>2, <1>3, <1>4, <1>5, <1>6, <1>7, <1>8, <1>9, <1>10, <1>11,
     <1>12, <1>13 DEF Next, Process

-----------------------------------------------------------------------------
(* The ring. *)

\* Positions on the list, and what is not on it.
LEMMA OnList ==
  ASSUME TypeOK, Distinct
  PROVE  /\ Len(order) \in Nat
         /\ \A i \in 0 .. Len(order) :
              /\ NodeOf(order, i) \in Nodes /\ SuccOf(order, i) \in Nodes
              /\ NodeOf(order, i) # Nil /\ SuccOf(order, i) # Nil
         /\ \A i, j \in 0 .. Len(order) :
              NodeOf(order, i) = NodeOf(order, j) => i = j
         /\ \A i, j \in 0 .. Len(order) :
              SuccOf(order, i) = SuccOf(order, j) => i = j
         /\ \A h \in Handlers \ Listed, i \in 0 .. Len(order) :
              NodeOf(order, i) # h /\ SuccOf(order, i) # h
         /\ \A k \in 1 .. Len(order) :
              /\ k \in 0 .. Len(order) /\ k - 1 \in 0 .. Len(order)
              /\ NodeOf(order, k) = order[k] /\ SuccOf(order, k - 1) = order[k]
         /\ NodeOf(order, 0) = First /\ SuccOf(order, Len(order)) = First
<1>1. order \in Seq(Handlers) /\ Len(order) \in Nat
  BY DEF TypeOK
<1>2. \A k \in 1 .. Len(order) :
        /\ k \in 0 .. Len(order) /\ k - 1 \in 0 .. Len(order)
        /\ NodeOf(order, k) = order[k] /\ SuccOf(order, k - 1) = order[k]
  BY <1>1 DEF NodeOf, SuccOf
<1>3. \A h \in Handlers \ Listed, i \in 0 .. Len(order) :
        NodeOf(order, i) # h /\ SuccOf(order, i) # h
  BY <1>1, Unlisted DEF Listed
<1>4. NodeOf(order, 0) = First /\ SuccOf(order, Len(order)) = First
  BY DEF NodeOf, SuccOf
<1> QED
  BY <1>1, <1>2, <1>3, <1>4, NodeFacts DEF Distinct

\* A listed handler has a successor, so that the fetch path does not insert it.
LEMMA BeginRing ==
  ASSUME TypeOK, OpOK, Ring,
         NEW kind \in {"append", "insert", "remove"}, NEW h \in Handlers,
         Begin(kind, h)
  PROVE  Ring'
<1>1. op = NoOp /\ UNCHANGED <<next, prev, order>>
      /\ op' = [kind |-> kind, h |-> h, pc |-> 1, saw |-> First]
  BY DEF Begin
<1>2. ASSUME kind = "insert"
      PROVE  h \notin Listed
  <2>1. next[h] = Nil
    BY <1>2 DEF Begin
  <2>2. ASSUME NEW k \in 1 .. Len(order), order[k] = h
        PROVE  FALSE
    <3>1. k \in 0 .. Len(order) /\ NodeOf(order, k) = h /\ SuccOf(order, k) # Nil
      BY <2>2, OnList DEF Ring
    <3>2. next[h] = SuccOf(order, k)
      BY <1>1, <3>1 DEF Ring, Forwards, At, NoOp
    <3> QED
      BY <2>1, <3>1, <3>2
  <2> QED
    BY <2>2 DEF Listed
<1>3. (kind = "append" => h \notin Listed) /\ (kind = "remove" => h \in Listed)
  BY DEF Begin
<1>4. AppendOK' /\ InsertOK' /\ RemoveOK'
  BY <1>1, <1>2, <1>3 DEF AppendOK, InsertOK, RemoveOK, Listed
<1>5. Forwards' /\ Backwards'
  BY <1>1 DEF Ring, Forwards, Backwards, At, NoOp
<1> QED
  BY <1>1, <1>4, <1>5 DEF Ring, Distinct

\* The stores that prepare the new entry, and those that link one neighbour.
LEMMA AppendRing ==
  ASSUME TypeOK, OpOK, Ring, AppendPrev \/ AppendNext \/ AppendLink
  PROVE  Ring'
<1> DEFINE N == Len(order)
<1>1. op.kind = "append" /\ op.h \in Handlers \ Listed /\ op.h # First
      /\ op.h \in Nodes /\ First \in Nodes
  BY HandlerListAssumption
     DEF AppendPrev, AppendNext, AppendLink, At, OpOK, Ring, AppendOK, Nodes
<1>2. op.pc \in {1, 2, 3} => prev[First] = NodeOf(order, N)
  BY <1>1, OnList DEF Ring, Backwards, At
<1>3. UNCHANGED order /\ op'.kind = "append" /\ op'.h = op.h
      /\ Listed' = Listed /\ Distinct' /\ InsertOK' /\ RemoveOK'
  <2>1. UNCHANGED order /\ op'.kind = "append" /\ op'.h = op.h
    BY <1>1 DEF AppendPrev, AppendNext, AppendLink, Onward, At, TypeOK
  <2> QED
    BY <2>1 DEF Ring, Distinct, InsertOK, RemoveOK, Listed
<1>4. next \in [Nodes -> Pointers] /\ prev \in [Nodes -> Pointers]
  BY DEF TypeOK
<1>5. \A i \in 0 .. N : /\ NodeOf(order, i) # op.h /\ SuccOf(order, i) # op.h
                        /\ NodeOf(order, i) \in Nodes /\ SuccOf(order, i) \in Nodes
                        /\ NodeOf(order, i) # Nil
  BY <1>1, OnList DEF Ring
<1>6. CASE AppendPrev
  <2>1. op.pc = 1 /\ op'.pc = 2 /\ op'.saw = prev[First] /\ next' = next
        /\ prev' = [prev EXCEPT ![op.h] = prev[First]]
    BY <1>6 DEF AppendPrev, At, Store, TypeOK
  <2>2. AppendOK'
    BY <1>1, <1>2, <1>3, <1>4, <2>1 DEF AppendOK, Ring
  <2>3. Forwards' /\ Backwards'
    BY <1>1, <1>3, <1>4, <1>5, <2>1 DEF Ring, Forwards, Backwards, At
  <2> QED
    BY <1>1, <1>3, <1>4, <2>1, <2>2, <2>3 DEF Ring
<1>7. CASE AppendNext
  <2>1. op.pc = 2 /\ op'.pc = 3 /\ op'.saw = op.saw /\ prev' = prev
        /\ next' = [next EXCEPT ![op.h] = First]
    BY <1>7 DEF AppendNext, At, Store, Onward, TypeOK
  <2>2. AppendOK'
    BY <1>1, <1>3, <1>4, <2>1 DEF AppendOK, Ring
  <2>3. Forwards' /\ Backwards'
    BY <1>1, <1>3, <1>4, <1>5, <2>1 DEF Ring, Forwards, Backwards, At
  <2> QED
    BY <1>3, <2>1, <2>2, <2>3 DEF Ring
<1>8. CASE AppendLink
  <2>1. op.pc = 3 /\ op'.pc = 4 /\ prev' = prev
    BY <1>8 DEF AppendLink, At, Store, Onward, TypeOK
  <2>2. op.saw = NodeOf(order, N) /\ next[op.h] = First
        /\ prev[op.h] = NodeOf(order, N)
    BY <1>1, <2>1 DEF Ring, AppendOK
  <2>3. next' = [next EXCEPT ![NodeOf(order, N)] = op.h]
    BY <1>2, <1>8, <2>1, <2>2 DEF AppendLink, Store
  <2>4. N \in 0 .. N
    BY OnList DEF Ring
  <2>5. AppendOK'
    BY <1>1, <1>3, <1>4, <1>5, <2>1, <2>2, <2>3, <2>4 DEF AppendOK, Ring
  <2>6. Forwards'
    BY <1>1, <1>3, <1>4, <1>5, <2>1, <2>3, <2>4, OnList DEF Ring, Forwards, At
  <2>7. Backwards'
    BY <1>1, <1>3, <2>1 DEF Ring, Backwards, At
  <2> QED
    BY <1>3, <2>1, <2>5, <2>6, <2>7 DEF Ring
<1> QED
  BY <1>6, <1>7, <1>8

LEMMA InsertRing ==
  ASSUME TypeOK, OpOK, Ring, InsertPrev \/ InsertNext \/ InsertLink
  PROVE  Ring'
<1> DEFINE N == Len(order)
<1>1. op.kind = "insert" /\ op.h \in Handlers \ Listed /\ op.h # First
      /\ op.h \in Nodes /\ First \in Nodes
  BY HandlerListAssumption
     DEF InsertPrev, InsertNext, InsertLink, At, OpOK, Ring, InsertOK, Nodes
<1>2. 0 \in 0 .. N /\ next[First] = SuccOf(order, 0)
  BY <1>1, OnList DEF Ring, Forwards, At
<1>3. UNCHANGED order /\ op'.kind = "insert" /\ op'.h = op.h
      /\ Listed' = Listed /\ Distinct' /\ AppendOK' /\ RemoveOK'
  <2>1. UNCHANGED order /\ op'.kind = "insert" /\ op'.h = op.h
    BY <1>1 DEF InsertPrev, InsertNext, InsertLink, Onward, At, TypeOK
  <2> QED
    BY <2>1 DEF Ring, Distinct, AppendOK, RemoveOK, Listed
<1>4. next \in [Nodes -> Pointers] /\ prev \in [Nodes -> Pointers]
  BY DEF TypeOK
<1>5. \A i \in 0 .. N : /\ NodeOf(order, i) # op.h /\ SuccOf(order, i) # op.h
                        /\ NodeOf(order, i) \in Nodes /\ SuccOf(order, i) \in Nodes
                        /\ NodeOf(order, i) # Nil
  BY <1>1, OnList DEF Ring
<1>6. CASE InsertPrev
  <2>1. op.pc = 1 /\ op'.pc = 2 /\ next' = next
        /\ prev' = [prev EXCEPT ![op.h] = First]
    BY <1>6 DEF InsertPrev, At, Store, Onward, TypeOK
  <2>2. InsertOK'
    BY <1>1, <1>3, <1>4, <2>1 DEF InsertOK, Ring
  <2>3. Forwards' /\ Backwards'
    BY <1>1, <1>3, <1>4, <1>5, <2>1 DEF Ring, Forwards, Backwards, At
  <2> QED
    BY <1>1, <1>3, <1>4, <2>1, <2>2, <2>3 DEF Ring
<1>7. CASE InsertNext
  <2>1. op.pc = 2 /\ op'.pc = 3 /\ op'.saw = next[First] /\ prev' = prev
        /\ next' = [next EXCEPT ![op.h] = next[First]]
    BY <1>7 DEF InsertNext, At, Store, TypeOK
  <2>2. InsertOK'
    BY <1>1, <1>2, <1>3, <1>4, <2>1 DEF InsertOK, Ring
  <2>3. Forwards' /\ Backwards'
    BY <1>1, <1>3, <1>4, <1>5, <2>1 DEF Ring, Forwards, Backwards, At
  <2> QED
    BY <1>3, <2>1, <2>2, <2>3 DEF Ring
<1>8. CASE InsertLink
  <2>1. op.pc = 3 /\ op'.pc = 4 /\ next' = next
    BY <1>8 DEF InsertLink, At, Store, Onward, TypeOK
  <2>2. op.saw = SuccOf(order, 0) /\ prev[op.h] = First
        /\ next[op.h] = SuccOf(order, 0)
    BY <1>1, <2>1 DEF Ring, InsertOK
  <2>3. prev' = [prev EXCEPT ![SuccOf(order, 0)] = op.h]
    BY <1>2, <1>8, <2>1, <2>2 DEF InsertLink, Store
  <2>4. InsertOK'
    BY <1>1, <1>2, <1>3, <1>4, <1>5, <2>1, <2>2, <2>3 DEF InsertOK, Ring
  <2>5. Forwards'
    BY <1>1, <1>3, <2>1 DEF Ring, Forwards, At
  <2>6. Backwards'
    BY <1>1, <1>2, <1>3, <1>4, <1>5, <2>1, <2>3, OnList DEF Ring, Backwards, At
  <2>7. prev'[First] # Nil
    BY <1>1, <1>4, <2>3, HandlerListAssumption DEF Ring
  <2> QED
    BY <1>3, <2>4, <2>5, <2>6, <2>7 DEF Ring
<1> QED
  BY <1>6, <1>7, <1>8

\* The last store of an append puts the handler at the end of the ring.
LEMMA AppendLastRing ==
  ASSUME TypeOK, OpOK, Ring, AppendLast
  PROVE  Ring'
<1> DEFINE N == Len(order)
<1>1. /\ op.kind = "append" /\ op.pc = 4 /\ op.h \in Handlers \ Listed
      /\ op.h # First /\ op.h \in Nodes /\ First \in Nodes /\ op.h # Nil
      /\ prev[op.h] = NodeOf(order, N) /\ next[op.h] = First
  BY HandlerListAssumption DEF AppendLast, At, OpOK, Ring, AppendOK, Nodes
<1>2. /\ next' = next /\ prev' = [prev EXCEPT ![First] = op.h] /\ op' = NoOp
      /\ order' = Append(order, op.h)
  BY DEF AppendLast, Store
<1>3. /\ prev \in [Nodes -> Pointers] /\ N \in Nat /\ Len(order') = N + 1
      /\ \A i \in 1 .. N : order'[i] = order[i] /\ order[i] \in Handlers
      /\ order'[N + 1] = op.h
  BY <1>1, <1>2 DEF TypeOK
<1>4. Distinct'
  BY <1>1, <1>3 DEF Ring, Distinct, Listed
<1>5. AppendOK' /\ InsertOK' /\ RemoveOK'
  BY <1>2 DEF AppendOK, InsertOK, RemoveOK, NoOp
<1>6. /\ \A i \in 0 .. N : NodeOf(order', i) = NodeOf(order, i)
      /\ NodeOf(order', N + 1) = op.h
  BY <1>3 DEF NodeOf
<1>7. /\ \A i \in 0 .. N - 1 :
           /\ SuccOf(order', i) = SuccOf(order, i)
           /\ SuccOf(order, i) # First /\ SuccOf(order, i) \in Nodes
      /\ SuccOf(order', N) = op.h /\ SuccOf(order', N + 1) = First
  <2>1. \A i \in 0 .. N - 1 : i + 1 \in 1 .. N
    BY <1>3
  <2> QED
    BY <1>3, <2>1, HandlerListAssumption DEF SuccOf, Nodes
<1>8. \A i \in 0 .. N + 1 : i \in 0 .. N - 1 \/ i = N \/ i = N + 1
  BY <1>3
<1>9. Forwards'
  <2>1. \A i \in 0 .. N + 1 : next[NodeOf(order', i)] = SuccOf(order', i)
    <3>1. next[NodeOf(order', N + 1)] = SuccOf(order', N + 1)
      BY <1>1, <1>6, <1>7
    <3>2. next[NodeOf(order', N)] = SuccOf(order', N)
      BY <1>1, <1>3, <1>6, <1>7 DEF Ring, Forwards, At
    <3>3. \A i \in 0 .. N - 1 : next[NodeOf(order', i)] = SuccOf(order', i)
      BY <1>1, <1>3, <1>6, <1>7 DEF Ring, Forwards, At
    <3> QED
      BY <1>8, <3>1, <3>2, <3>3
  <2> QED
    BY <1>2, <1>3, <2>1 DEF Forwards, At, NoOp
<1>10. Backwards'
  <2>1. \A i \in 0 .. N + 1 : prev'[SuccOf(order', i)] = NodeOf(order', i)
    <3>1. prev'[SuccOf(order', N + 1)] = NodeOf(order', N + 1)
      BY <1>1, <1>2, <1>3, <1>6, <1>7
    <3>2. prev'[SuccOf(order', N)] = NodeOf(order', N)
      BY <1>1, <1>2, <1>3, <1>6, <1>7
    <3>3. \A i \in 0 .. N - 1 : prev'[SuccOf(order', i)] = NodeOf(order', i)
      BY <1>1, <1>2, <1>3, <1>6, <1>7 DEF Ring, Backwards, At
    <3> QED
      BY <1>8, <3>1, <3>2, <3>3
  <2> QED
    BY <1>2, <1>3, <2>1 DEF Backwards, At, NoOp
<1> QED
  BY <1>1, <1>2, <1>3, <1>4, <1>5, <1>9, <1>10 DEF Ring

\* The last store of an insert puts the handler at the front.
LEMMA InsertFirstRing ==
  ASSUME TypeOK, OpOK, Ring, InsertFirst
  PROVE  Ring'
<1> DEFINE N == Len(order)
<1>1. /\ op.kind = "insert" /\ op.pc = 4 /\ op.h \in Handlers \ Listed
      /\ op.h # First /\ op.h \in Nodes /\ First \in Nodes /\ op.h # Nil
      /\ prev[op.h] = First /\ next[op.h] = SuccOf(order, 0)
  BY HandlerListAssumption DEF InsertFirst, At, OpOK, Ring, InsertOK, Nodes
<1>2. /\ prev' = prev /\ next' = [next EXCEPT ![First] = op.h] /\ op' = NoOp
      /\ order' = <<op.h>> \o order
  BY DEF InsertFirst, Store
<1>3. /\ next \in [Nodes -> Pointers] /\ N \in Nat /\ Len(order') = N + 1
      /\ \A i \in 1 .. N : order'[i + 1] = order[i] /\ order[i] \in Handlers
      /\ order'[1] = op.h
  BY <1>1, <1>2 DEF TypeOK
<1>4. Distinct'
  <2>1. \A i \in 1 .. N + 1 : i = 1 \/ (i - 1 \in 1 .. N /\ order'[i] = order[i - 1])
    BY <1>3
  <2>2. \A i \in 1 .. N : order[i] # op.h
    BY <1>1 DEF Listed
  <2>3. \A i, j \in 1 .. N : order[i] = order[j] => i = j
    BY DEF Ring, Distinct
  <2>4. ASSUME NEW i \in 1 .. N + 1, NEW j \in 1 .. N + 1, order'[i] = order'[j]
        PROVE  i = j
    <3>1. CASE i = 1
      BY <1>3, <2>1, <2>2, <2>4, <3>1
    <3>2. CASE j = 1
      BY <1>3, <2>1, <2>2, <2>4, <3>2
    <3>3. CASE i # 1 /\ j # 1
      <4>1. i - 1 \in 1 .. N /\ j - 1 \in 1 .. N /\ order[i - 1] = order[j - 1]
        BY <2>1, <2>4, <3>3
      <4>2. i - 1 = j - 1
        BY <2>3, <4>1
      <4> QED
        BY <4>2
    <3> QED
      BY <3>1, <3>2, <3>3
  <2> QED
    BY <1>3, <2>4 DEF Distinct
<1>5. AppendOK' /\ InsertOK' /\ RemoveOK'
  BY <1>2 DEF AppendOK, InsertOK, RemoveOK, NoOp
<1>6. /\ \A i \in 1 .. N : NodeOf(order', i + 1) = NodeOf(order, i)
      /\ NodeOf(order', 1) = op.h /\ NodeOf(order', 0) = First
  BY <1>3 DEF NodeOf
<1>7. /\ \A i \in 0 .. N : SuccOf(order', i + 1) = SuccOf(order, i)
      /\ SuccOf(order', 0) = op.h
  BY <1>3 DEF SuccOf
<1>8. \A i \in 0 .. N + 1 : i = 0 \/ i = 1 \/ (i - 1 \in 1 .. N /\ i = (i - 1) + 1)
  BY <1>3
<1>9. Forwards'
  <2>1. next'[NodeOf(order', 0)] = SuccOf(order', 0)
    BY <1>1, <1>2, <1>3, <1>6, <1>7
  <2>2. next'[NodeOf(order', 1)] = SuccOf(order', 1)
    <3>1. SuccOf(order', 0 + 1) = SuccOf(order, 0)
      BY <1>3, <1>7
    <3> QED
      BY <1>1, <1>2, <1>3, <1>6, <3>1
  <2>3. \A i \in 1 .. N : next'[NodeOf(order', i + 1)] = SuccOf(order', i + 1)
    <3> TAKE i \in 1 .. N
    <3>1. i \in 0 .. N /\ NodeOf(order, i) # First /\ NodeOf(order, i) \in Nodes
      BY <1>3, HandlerListAssumption DEF NodeOf, Nodes
    <3>2. next[NodeOf(order, i)] = SuccOf(order, i)
      BY <1>1, <3>1 DEF Ring, Forwards, At
    <3> QED
      BY <1>2, <1>3, <1>6, <1>7, <3>1, <3>2
  <2>4. \A i \in 0 .. N + 1 : next'[NodeOf(order', i)] = SuccOf(order', i)
    BY <1>8, <2>1, <2>2, <2>3
  <2> QED
    BY <1>2, <1>3, <2>4 DEF Forwards, At, NoOp
<1>10. Backwards'
  <2>1. prev[SuccOf(order', 0)] = NodeOf(order', 0)
    BY <1>1, <1>6, <1>7
  <2>2. prev[SuccOf(order', 1)] = NodeOf(order', 1)
    <3>1. 0 \in 0 .. N /\ SuccOf(order', 0 + 1) = SuccOf(order, 0)
      BY <1>3, <1>7
    <3>2. prev[SuccOf(order, 0)] = op.h
      BY <1>1, <3>1 DEF Ring, Backwards, At
    <3> QED
      BY <1>6, <3>1, <3>2
  <2>3. \A i \in 1 .. N : prev[SuccOf(order', i + 1)] = NodeOf(order', i + 1)
    <3> TAKE i \in 1 .. N
    <3>1. i \in 0 .. N /\ i # 0
      BY <1>3
    <3>2. prev[SuccOf(order, i)] = NodeOf(order, i)
      BY <1>1, <3>1 DEF Ring, Backwards, At
    <3> QED
      BY <1>6, <1>7, <3>1, <3>2
  <2>4. \A i \in 0 .. N + 1 : prev[SuccOf(order', i)] = NodeOf(order', i)
    BY <1>8, <2>1, <2>2, <2>3
  <2> QED
    BY <1>2, <1>3, <2>4 DEF Backwards, At, NoOp
<1> QED
  BY <1>2, <1>4, <1>5, <1>9, <1>10 DEF Ring

\* The fetch that timed out closes the ring over its entry: forwards first.
LEMMA RemoveNextRing ==
  ASSUME TypeOK, OpOK, Ring, RemoveNext
  PROVE  Ring'
<1> DEFINE N == Len(order)
<1>1. /\ op.kind = "remove" /\ op.pc = 1 /\ op.h \in Listed /\ op.h \in Handlers
      /\ op'.kind = "remove" /\ op'.pc = 2 /\ op'.h = op.h
      /\ prev' = prev /\ next' = [next EXCEPT ![prev[op.h]] = next[op.h]]
  BY DEF RemoveNext, At, OpOK, Ring, RemoveOK, Onward, Store, TypeOK
<1>2. PICK k \in 1 .. N : order[k] = op.h /\ order' = Without(k)
  <2>1. \E j \in 1 .. N : order[j] = op.h
    BY <1>1 DEF Listed
  <2> DEFINE k == CHOOSE j \in 1 .. N : order[j] = op.h
  <2>2. k \in 1 .. N /\ order[k] = op.h
    BY <2>1
  <2>3. order' = Without(k)
    BY <1>1 DEF RemoveNext
  <2> QED
    BY <2>2, <2>3
<1>3. /\ N \in Nat /\ Len(order') = N - 1
      /\ \A i \in 0 .. N - 1 :
           /\ NodeOf(order', i) = NodeOf(order, IF i < k THEN i ELSE i + 1)
           /\ SuccOf(order', i) = SuccOf(order, IF i < k - 1 THEN i ELSE i + 1)
      /\ Listed' = Listed \ {op.h} /\ Distinct'
  <2>1. order \in Seq(Handlers) /\ N \in Nat /\ Distinct
    BY DEF TypeOK, Ring
  <2>2. order' = Without(k)
    BY <1>2
  <2>3. \A i, j \in 1 .. N : order[i] = order[j] => i = j
    BY <2>1 DEF Distinct
  <2>4. /\ Len(order') = N - 1
        /\ \A i \in 0 .. Len(order') :
             /\ NodeOf(order', i) = NodeOf(order, IF i < k THEN i ELSE i + 1)
             /\ SuccOf(order', i) = SuccOf(order, IF i < k - 1 THEN i ELSE i + 1)
        /\ \A x : x \in {order'[i] : i \in 1 .. Len(order')}
                 <=> x \in Listed /\ x # order[k]
        /\ \A i, j \in 1 .. Len(order') : order'[i] = order'[j] => i = j
    BY <1>2, <2>1, <2>2, <2>3, WithoutFacts
  <2> QED
    BY <1>2, <2>1, <2>4 DEF Distinct, Listed
<1>4. /\ k \in 0 .. N /\ k - 1 \in 0 .. N
      /\ NodeOf(order, k) = op.h /\ SuccOf(order, k - 1) = op.h
      /\ \A i, j \in 0 .. N : NodeOf(order, i) = NodeOf(order, j) => i = j
      /\ \A i, j \in 0 .. N : SuccOf(order, i) = SuccOf(order, j) => i = j
      /\ \A i \in 0 .. N : NodeOf(order, i) \in Nodes
  BY <1>2, OnList DEF Ring
<1>5. /\ \A i \in 0 .. N : /\ next[NodeOf(order, i)] = SuccOf(order, i)
                           /\ prev[SuccOf(order, i)] = NodeOf(order, i)
  BY <1>1 DEF Ring, Forwards, Backwards, At
<1>6. /\ prev[op.h] = NodeOf(order, k - 1) /\ next[op.h] = SuccOf(order, k)
      /\ op.h # NodeOf(order, k - 1)
  BY <1>3, <1>4, <1>5
<1>7. /\ \A i \in 0 .. N : next'[NodeOf(order, i)] =
           IF i = k - 1 THEN SuccOf(order, k) ELSE SuccOf(order, i)
      /\ next'[op.h] = SuccOf(order, k)
  <2>1. next \in [Nodes -> Pointers]
    BY DEF TypeOK
  <2> QED
    BY <1>1, <1>4, <1>5, <1>6, <2>1
<1>8. k - 1 \in 0 .. N - 1 /\ NodeOf(order', k - 1) = NodeOf(order, k - 1)
      /\ SuccOf(order', k - 1) = SuccOf(order, k)
  BY <1>3
<1>9. Forwards'
  <2>1. \A i \in 0 .. N - 1 : next'[NodeOf(order', i)] = SuccOf(order', i)
    <3> TAKE i \in 0 .. N - 1
    <3>1. i \in 0 .. N /\ i + 1 \in 0 .. N
      BY <1>3
    <3>2. CASE i < k - 1
      BY <1>3, <1>7, <3>1, <3>2
    <3>3. CASE i = k - 1
      BY <1>3, <1>7, <1>8, <3>1, <3>3
    <3>4. CASE i > k - 1
      BY <1>3, <1>7, <3>1, <3>4
    <3> QED
      BY <1>3, <3>2, <3>3, <3>4
  <2> QED
    BY <1>1, <1>3, <2>1 DEF Forwards, At
<1>10. Backwards'
  <2>1. \A i \in 0 .. N - 1 : prev[SuccOf(order', i)] =
          IF prev[op.h] = NodeOf(order', i) THEN op.h ELSE NodeOf(order', i)
    <3> TAKE i \in 0 .. N - 1
    <3>1. i \in 0 .. N /\ i + 1 \in 0 .. N
      BY <1>3
    <3>2. CASE i < k - 1
      BY <1>3, <1>4, <1>5, <1>6, <3>1, <3>2
    <3>3. CASE i = k - 1
      BY <1>4, <1>5, <1>6, <1>8, <3>1, <3>3
    <3>4. CASE i > k - 1
      BY <1>3, <1>4, <1>5, <1>6, <3>1, <3>4
    <3> QED
      BY <1>3, <3>2, <3>3, <3>4
  <2> QED
    BY <1>1, <1>3, <2>1 DEF Backwards, At
<1>11. RemoveOK'
  <2>1. op.h \notin Listed'
    BY <1>3
  <2>2. \E i \in 0 .. Len(order') :
          prev'[op.h] = NodeOf(order', i) /\ next'[op.h] = SuccOf(order', i)
    BY <1>1, <1>3, <1>6, <1>7, <1>8
  <2> QED
    BY <1>1, <2>1, <2>2 DEF RemoveOK
<1>12. AppendOK' /\ InsertOK' /\ prev'[First] # Nil
  BY <1>1 DEF AppendOK, InsertOK, Ring
<1> QED
  BY <1>3, <1>9, <1>10, <1>11, <1>12 DEF Ring

\* Then backwards, and the entry is cleared.
LEMMA RemovePrevRing ==
  ASSUME TypeOK, OpOK, Ring, RemovePrev
  PROVE  Ring'
<1> DEFINE N == Len(order)
<1>1. /\ op.kind = "remove" /\ op.pc = 2 /\ op.h \in Handlers \ Listed
      /\ op.h # First /\ First \in Nodes
      /\ op' = NoOp /\ UNCHANGED order
      /\ prev' = [prev EXCEPT ![next[op.h]] = prev[op.h], ![op.h] = Nil]
      /\ next' = [next EXCEPT ![op.h] = Nil]
  BY HandlerListAssumption DEF RemovePrev, At, OpOK, Ring, RemoveOK, Nodes
<1>2. PICK j \in 0 .. N : prev[op.h] = NodeOf(order, j) /\ next[op.h] = SuccOf(order, j)
  BY <1>1 DEF Ring, RemoveOK
<1>3. next \in [Nodes -> Pointers] /\ prev \in [Nodes -> Pointers]
  BY DEF TypeOK
<1>4. \A i \in 0 .. N :
        /\ NodeOf(order, i) # op.h /\ SuccOf(order, i) # op.h
        /\ NodeOf(order, i) \in Nodes /\ SuccOf(order, i) \in Nodes
        /\ NodeOf(order, i) # Nil
  BY <1>1, OnList DEF Ring
<1>5. \A i \in 0 .. N : next'[NodeOf(order, i)] = SuccOf(order, i)
  BY <1>1, <1>3, <1>4 DEF Ring, Forwards, At
<1>6. \A i \in 0 .. N : prev'[SuccOf(order, i)] = NodeOf(order, i)
  <2> TAKE i \in 0 .. N
  <2>1. CASE i = j
    BY <1>1, <1>2, <1>3, <1>4, <2>1
  <2>2. CASE i # j
    <3>1. SuccOf(order, i) # SuccOf(order, j) /\ NodeOf(order, i) # NodeOf(order, j)
      BY <2>2, OnList DEF Ring
    <3>2. prev[SuccOf(order, i)] = NodeOf(order, i)
      BY <1>1, <1>2, <3>1 DEF Ring, Backwards, At
    <3> QED
      BY <1>1, <1>2, <1>3, <1>4, <3>1, <3>2
  <2> QED
    BY <2>1, <2>2
<1>7. prev'[First] # Nil
  BY <1>1, <1>2, <1>3, <1>4 DEF Ring
<1> QED
  BY <1>1, <1>5, <1>6, <1>7, ZenonT(40)
     DEF Ring, Distinct, AppendOK, InsertOK, RemoveOK, Forwards, Backwards, At, NoOp

\* The bottom half takes the kth handler off: between its neighbours' pointers
\* only an append's new entry can stand, and nothing else holds them.
LEMMA HandleRing ==
  ASSUME TypeOK, OpOK, Ring, NEW k \in 1 .. Len(order), NEW h, h = order[k],
         Remove(h), order' = Without(k), ~ Tears(h), UNCHANGED op
  PROVE  Ring'
<1> DEFINE N    == Len(order)
           Last == At("append", 4) /\ k = N
<1>1. /\ N \in Nat /\ Len(order') = N - 1 /\ 0 \in 0 .. N - 1
      /\ \A i \in 0 .. N - 1 :
           /\ NodeOf(order', i) = NodeOf(order, IF i < k THEN i ELSE i + 1)
           /\ SuccOf(order', i) = SuccOf(order, IF i < k - 1 THEN i ELSE i + 1)
           /\ i \in 0 .. N /\ i + 1 \in 0 .. N
      /\ Distinct' /\ \A x : x \in Listed' <=> x \in Listed /\ x # h
  <2>1. order \in Seq(Handlers) /\ N \in Nat
        /\ \A i, j \in 1 .. N : order[i] = order[j] => i = j
    BY DEF TypeOK, Ring, Distinct
  <2>2. k \in 1 .. N /\ order' = Without(k)
    OBVIOUS
  <2>3. /\ Len(order') = N - 1
        /\ \A i \in 0 .. Len(order') :
             /\ NodeOf(order', i) = NodeOf(order, IF i < k THEN i ELSE i + 1)
             /\ SuccOf(order', i) = SuccOf(order, IF i < k - 1 THEN i ELSE i + 1)
        /\ \A x : x \in {order'[i] : i \in 1 .. Len(order')}
                 <=> x \in Listed /\ x # order[k]
        /\ \A i, j \in 1 .. Len(order') : order'[i] = order'[j] => i = j
    BY <2>1, <2>2, WithoutFacts
  <2> QED
    BY <2>1, <2>2, <2>3 DEF Distinct, Listed
<1>3. /\ k \in 0 .. N /\ k - 1 \in 0 .. N
      /\ NodeOf(order, k) = h /\ SuccOf(order, k - 1) = h
      /\ \A i, j \in 0 .. N : NodeOf(order, i) = NodeOf(order, j) => i = j
      /\ \A i, j \in 0 .. N : SuccOf(order, i) = SuccOf(order, j) => i = j
      /\ \A i \in 0 .. N :
           /\ NodeOf(order, i) \in Nodes /\ SuccOf(order, i) \in Nodes
           /\ NodeOf(order, i) # Nil
      /\ h \in Listed /\ h \in Handlers /\ h # First /\ First \in Nodes
  <2>1. h \in Listed /\ h \in Handlers
    BY DEF Listed, TypeOK
  <2> QED
    BY <2>1, OnList, HandlerListAssumption DEF Ring, Nodes
<1>4. /\ op.kind \in {"append", "insert"} =>
           op.h \in Handlers \ Listed /\ op.h # h /\ op.h \in Nodes
      /\ op.kind = "remove" /\ op.pc = 2 => op.h \in Handlers \ Listed /\ op.h \in Nodes
      /\ op.kind = "remove" => op.h # h
  BY <1>3 DEF OpOK, Ring, AppendOK, InsertOK, RemoveOK, Tears, Nodes
<1>5. \A i \in 0 .. N :
        op.kind \in {"append", "insert"} \/ (op.kind = "remove" /\ op.pc = 2) =>
          NodeOf(order, i) # op.h /\ SuccOf(order, i) # op.h
  <2>1. \A x \in Handlers \ Listed, i \in 0 .. N :
          NodeOf(order, i) # x /\ SuccOf(order, i) # x
    BY OnList DEF Ring
  <2> QED
    BY <1>4, <2>1
<1>6. ~ (At("insert", 4) /\ k = 1)
  <2> SUFFICES ASSUME At("insert", 4), k = 1
               PROVE  FALSE
    OBVIOUS
  <2>1. 0 \in 0 .. N /\ SuccOf(order, 0) = h
    BY <1>1, <1>3
  <2>2. next[First] = h
    BY <2>1, OnList DEF Ring, Forwards, At
  <2> QED
    BY <2>2 DEF At, Tears
<1>7. At("remove", 2) => prev[op.h] # NodeOf(order, k - 1) /\ prev[op.h] # NodeOf(order, k)
  <2> SUFFICES ASSUME At("remove", 2)
               PROVE  /\ prev[op.h] # NodeOf(order, k - 1)
                      /\ prev[op.h] # NodeOf(order, k)
    OBVIOUS
  <2>1. PICK i \in 0 .. N : prev[op.h] = NodeOf(order, i) /\ next[op.h] = SuccOf(order, i)
    BY DEF At, Ring, RemoveOK
  <2>2. prev[op.h] # h /\ next[op.h] # h
    BY DEF At, Tears
  <2> QED
    BY <1>3, <2>1, <2>2
<1>8. prev[h] = NodeOf(order, k - 1)
  <2>1. ~ (At("append", 4) /\ k - 1 = N) /\ ~ (At("insert", 4) /\ k - 1 = 0)
    BY <1>1, <1>6
  <2> QED
    BY <1>3, <1>7, <2>1 DEF Ring, Backwards
<1>9. next[h] = IF Last THEN op.h ELSE SuccOf(order, k)
  BY <1>3 DEF Ring, Forwards
<1>10. /\ next[h] \in Nodes /\ next[h] # h /\ prev[h] \in Nodes /\ prev[h] # h
       /\ prev[h] # Nil
  BY <1>1, <1>3, <1>4, <1>8, <1>9 DEF At
<1>11. /\ \A x \in Nodes : x # h => /\ next'[x] = IF x = prev[h] THEN next[h] ELSE next[x]
                                    /\ prev'[x] = IF x = next[h] THEN prev[h] ELSE prev[x]
  <2>1. next \in [Nodes -> Pointers] /\ prev \in [Nodes -> Pointers]
    BY DEF TypeOK
  <2> QED
    BY <1>3, <1>10, <2>1 DEF Remove, Cleared
<1>12. UNCHANGED op /\ \A kind, pc : At(kind, pc)' <=> At(kind, pc)
  BY DEF At
<1>13. Forwards'
  <2>1. \A i \in 0 .. N - 1 : next'[NodeOf(order', i)] =
          IF At("append", 4) /\ i = N - 1 THEN op.h ELSE SuccOf(order', i)
    <3> TAKE i \in 0 .. N - 1
    <3>1. \A j \in 0 .. N : j # k => next'[NodeOf(order, j)] =
            IF j = k - 1 THEN next[h] ELSE next[NodeOf(order, j)]
      BY <1>3, <1>8, <1>11
    <3>2. \A j \in 0 .. N : next[NodeOf(order, j)] =
            IF At("append", 4) /\ j = N THEN op.h ELSE SuccOf(order, j)
      BY DEF Ring, Forwards
    <3>3. CASE i < k - 1
      BY <1>1, <3>1, <3>2, <3>3
    <3>4. CASE i = k - 1
      BY <1>1, <1>9, <3>1, <3>4
    <3>5. CASE i > k - 1
      BY <1>1, <3>1, <3>2, <3>5
    <3> QED
      BY <1>1, <3>3, <3>4, <3>5
  <2> QED
    BY <1>1, <1>12, <2>1 DEF Forwards
<1>14. At("remove", 2) => prev'[op.h] = prev[op.h] /\ next'[op.h] = next[op.h]
  BY <1>3, <1>4, <1>5, <1>8, <1>9, <1>11 DEF At
<1>15. Backwards'
  <2>1. \A i \in 0 .. N - 1 : ~ (At("append", 4) /\ i = N - 1) =>
          prev'[SuccOf(order', i)] =
            IF \/ At("insert", 4) /\ i = 0
               \/ At("remove", 2) /\ prev[op.h] = NodeOf(order', i)
              THEN op.h ELSE NodeOf(order', i)
    <3> SUFFICES ASSUME NEW i \in 0 .. N - 1, ~ (At("append", 4) /\ i = N - 1)
                 PROVE  prev'[SuccOf(order', i)] =
                          IF \/ At("insert", 4) /\ i = 0
                             \/ At("remove", 2) /\ prev[op.h] = NodeOf(order', i)
                            THEN op.h ELSE NodeOf(order', i)
      OBVIOUS
    <3>1. \A j \in 0 .. N : j # k - 1 /\ ~ Last => prev'[SuccOf(order, j)] =
            IF j = k THEN prev[h] ELSE prev[SuccOf(order, j)]
      BY <1>3, <1>9, <1>11
    <3>2. \A j \in 0 .. N : j # k - 1 /\ Last => prev'[SuccOf(order, j)] =
            prev[SuccOf(order, j)]
      BY <1>3, <1>5, <1>9, <1>11 DEF At
    <3>3. \A j \in 0 .. N : ~ (At("append", 4) /\ j = N) => prev[SuccOf(order, j)] =
            IF \/ At("insert", 4) /\ j = 0
               \/ At("remove", 2) /\ prev[op.h] = NodeOf(order, j)
              THEN op.h ELSE NodeOf(order, j)
      BY DEF Ring, Backwards
    <3>4. CASE i < k - 1
      <4>1. /\ SuccOf(order', i) = SuccOf(order, i) /\ NodeOf(order', i) = NodeOf(order, i)
            /\ i \in 0 .. N /\ i # k - 1 /\ i # k /\ i # N
        BY <1>1, <3>4
      <4>2. prev'[SuccOf(order, i)] = prev[SuccOf(order, i)]
        BY <3>1, <3>2, <4>1
      <4>3. prev[SuccOf(order, i)] =
              IF \/ At("insert", 4) /\ i = 0
                 \/ At("remove", 2) /\ prev[op.h] = NodeOf(order, i)
                THEN op.h ELSE NodeOf(order, i)
        BY <3>3, <4>1
      <4> QED
        BY <4>1, <4>2, <4>3
    <3>5. CASE i = k - 1
      <4>1. ~ Last /\ SuccOf(order', i) = SuccOf(order, k)
            /\ NodeOf(order', i) = NodeOf(order, k - 1)
        BY <1>1, <3>5
      <4>2. prev'[SuccOf(order, k)] = NodeOf(order, k - 1)
        BY <1>3, <1>8, <3>1, <4>1
      <4> QED
        BY <1>6, <1>7, <3>5, <4>1, <4>2
    <3>6. CASE i > k - 1
      <4>1. /\ SuccOf(order', i) = SuccOf(order, i + 1)
            /\ NodeOf(order', i) = NodeOf(order, i + 1)
            /\ i + 1 \in 0 .. N /\ i + 1 # k - 1 /\ i + 1 # k
            /\ i + 1 # 0 /\ i # 0 /\ (i + 1 = N => i = N - 1)
        BY <1>1, <3>6
      <4>2. prev'[SuccOf(order, i + 1)] = prev[SuccOf(order, i + 1)]
        BY <3>1, <3>2, <4>1
      <4>3. prev[SuccOf(order, i + 1)] =
              IF \/ At("insert", 4) /\ i + 1 = 0
                 \/ At("remove", 2) /\ prev[op.h] = NodeOf(order, i + 1)
                THEN op.h ELSE NodeOf(order, i + 1)
        BY <3>3, <4>1
      <4> QED
        BY <4>1, <4>2, <4>3
    <3> QED
      BY <1>1, <3>4, <3>5, <3>6
  <2> QED
    BY <1>1, <1>12, <1>14, <2>1 DEF Backwards, At
<1>16. AppendOK'
  <2> SUFFICES ASSUME op.kind = "append"
               PROVE  /\ op.h \notin Listed'
                      /\ op.pc >= 2 => prev'[op.h] = NodeOf(order', N - 1)
                      /\ op.pc \in {2, 3} => op.saw = NodeOf(order', N - 1)
                      /\ op.pc >= 3 => next'[op.h] = First
    BY <1>1, <1>12 DEF AppendOK
  <2>1. op.pc \in 1 .. 4
    BY DEF OpOK
  <2>2. op.h \notin Listed'
    BY <1>1, <1>4
  <2>3. op.pc >= 3 => next'[op.h] = First
    BY <1>3, <1>4, <1>5, <1>8, <1>11 DEF Ring, AppendOK
  <2>4. op.pc \in {2, 3} => k # N
    <3> SUFFICES ASSUME op.pc \in {2, 3}, k = N
                 PROVE  FALSE
      OBVIOUS
    <3>1. N \in 0 .. N /\ SuccOf(order, N) = First
      BY <1>1, <1>3 DEF SuccOf
    <3>2. prev[First] = NodeOf(order, N)
      BY <3>1 DEF Ring, Backwards, At
    <3> QED
      BY <1>3, <3>2 DEF Tears
  <2>5. k # N => NodeOf(order', N - 1) = NodeOf(order, N)
    BY <1>1
  <2>6. k # N => prev'[op.h] = prev[op.h]
    BY <1>3, <1>4, <1>5, <1>9, <1>11
  <2>7. op.pc = 4 /\ k = N => prev'[op.h] = NodeOf(order', N - 1)
    BY <1>1, <1>4, <1>8, <1>9, <1>11 DEF At
  <2> QED
    BY <2>1, <2>2, <2>3, <2>4, <2>5, <2>6, <2>7 DEF Ring, AppendOK
<1>17. InsertOK'
  <2> SUFFICES ASSUME op.kind = "insert"
               PROVE  /\ op.h \notin Listed'
                      /\ op.pc >= 2 => prev'[op.h] = First
                      /\ op.pc >= 3 => next'[op.h] = SuccOf(order', 0)
                      /\ op.pc = 3 => op.saw = SuccOf(order', 0)
    BY <1>12 DEF InsertOK
  <2>1. op.pc \in 1 .. 4
    BY DEF OpOK
  <2>2. op.h \notin Listed'
    BY <1>1, <1>4
  <2>3. prev'[op.h] = prev[op.h] /\ next'[op.h] = next[op.h]
    BY <1>3, <1>4, <1>5, <1>8, <1>9, <1>11 DEF At
  <2>4. op.pc \in {3, 4} => k # 1
    <3>1. 0 \in 0 .. N /\ next[First] = SuccOf(order, 0)
      BY <1>1, OnList DEF Ring, Forwards, At
    <3> QED
      BY <1>3, <3>1 DEF Tears
  <2>5. k # 1 => SuccOf(order', 0) = SuccOf(order, 0)
    BY <1>1
  <2> QED
    BY <2>1, <2>2, <2>3, <2>4, <2>5 DEF Ring, InsertOK
<1>18. RemoveOK'
  <2>1. op.kind = "remove" /\ op.pc = 1 => op.h \in Listed'
    BY <1>1, <1>4 DEF Ring, RemoveOK
  <2>2. ASSUME op.kind = "remove", op.pc = 2
        PROVE  /\ op.h \notin Listed'
               /\ \E i \in 0 .. N - 1 : prev'[op.h] = NodeOf(order', i)
                                     /\ next'[op.h] = SuccOf(order', i)
    <3>1. PICK i \in 0 .. N :
            prev[op.h] = NodeOf(order, i) /\ next[op.h] = SuccOf(order, i)
      BY <2>2 DEF Ring, RemoveOK
    <3>2. i # k /\ i # k - 1 /\ prev'[op.h] = prev[op.h] /\ next'[op.h] = next[op.h]
      BY <1>7, <1>14, <2>2, <3>1 DEF At
    <3>3. CASE i < k - 1
      <4>1. i \in 0 .. N - 1
        BY <1>1, <3>3
      <4> QED
        BY <1>1, <1>4, <2>2, <3>1, <3>2, <3>3, <4>1
    <3>4. CASE i > k
      <4>1. i - 1 \in 0 .. N - 1 /\ ~ (i - 1 < k - 1) /\ ~ (i - 1 < k)
            /\ (i - 1) + 1 = i
        BY <1>1, <3>4
      <4>2. NodeOf(order', i - 1) = NodeOf(order, i)
            /\ SuccOf(order', i - 1) = SuccOf(order, i)
        BY <1>1, <4>1
      <4> QED
        BY <1>1, <1>4, <2>2, <3>1, <3>2, <4>1, <4>2
    <3> QED
      BY <1>1, <3>2, <3>3, <3>4
  <2> QED
    BY <1>1, <1>12, <2>1, <2>2 DEF RemoveOK, OpOK
<1>19. prev'[First] # Nil
  BY <1>3, <1>10, <1>11 DEF Ring
<1> QED
  BY <1>1, <1>13, <1>15, <1>16, <1>17, <1>18, <1>19 DEF Ring

-----------------------------------------------------------------------------
(* The invariant. *)

LEMMA InitIInv == Init => IInv
<1> SUFFICES ASSUME Init PROVE IInv
  OBVIOUS
<1>1. order = << >> /\ Len(order) = 0 /\ order \in Seq(Handlers)
  BY DEF Init
<1>2. First \in Nodes /\ First # Nil
  BY HandlerListAssumption DEF Nodes
<1>3. TypeOK
  <2>1. op \in [kind : Ops, h : Nodes, pc : 0 .. 4, saw : Pointers]
    BY <1>2 DEF Init, Pointers, Ops, NoOp
  <2>2. next \in [Nodes -> Pointers] /\ prev \in [Nodes -> Pointers]
    BY <1>2 DEF Init, Pointers
  <2> QED
    BY <1>1, <2>1, <2>2 DEF Init, TypeOK
<1>4. OpOK /\ op.saw # Nil
  BY <1>2 DEF Init, OpOK, NoOp
<1>5. NodeOf(order, 0) = First /\ SuccOf(order, 0) = First
      /\ next[First] = First /\ prev[First] = First
  BY <1>1, <1>2 DEF Init, NodeOf, SuccOf
<1>6. Ring
  BY <1>1, <1>2, <1>5 DEF Init, Ring, Distinct, AppendOK, InsertOK, RemoveOK,
                          Forwards, Backwards, At, NoOp
<1> QED
  BY <1>3, <1>4, <1>6 DEF IInv

\* What a process keeps in a register is the address of an entry.
LEMMA SawStep ==
  ASSUME TypeOK, OpOK, Ring, op.saw # Nil, Next
  PROVE  op'.saw # Nil
<1>1. First # Nil
  BY HandlerListAssumption
<1>2. ASSUME NEW kind \in {"append", "insert", "remove"}, NEW h \in Handlers,
             Begin(kind, h)
      PROVE  op'.saw # Nil
  BY <1>1, <1>2 DEF Begin
<1>3. CASE AppendPrev
  BY <1>3 DEF AppendPrev, Ring, TypeOK
<1>4. CASE InsertNext
  <2>1. next[First] # Nil
    BY <1>4, OnList DEF InsertNext, At, Ring, Forwards
  <2> QED
    BY <1>4, <2>1 DEF InsertNext, TypeOK
<1>5. CASE AppendNext \/ AppendLink \/ InsertPrev \/ InsertLink \/ RemoveNext
  BY <1>5 DEF AppendNext, AppendLink, InsertPrev, InsertLink, RemoveNext,
              Onward, TypeOK
<1>6. CASE AppendLast \/ InsertFirst \/ RemovePrev
  BY <1>1, <1>6 DEF AppendLast, InsertFirst, RemovePrev, NoOp
<1>7. ASSUME NEW h \in Handlers, Handle(h)
      PROVE  op'.saw # Nil
  BY <1>7 DEF Handle
<1> QED
  BY <1>2, <1>3, <1>4, <1>5, <1>6, <1>7 DEF Next, Process

LEMMA RingStep ==
  ASSUME TypeOK, OpOK, Ring, Next, ~ torn'
  PROVE  Ring'
<1>1. ASSUME NEW h \in Handlers, Handle(h)
      PROVE  Ring'
  <2>1. CASE Found(h) /\ prev[h] # Nil /\ next[h] # Nil
    <3>1. PICK k \in 1 .. Len(order) : order[k] = h /\ order' = Without(k)
      BY <1>1, <2>1 DEF Handle
    <3>2. Remove(h) /\ UNCHANGED op /\ torn' = (torn \/ Tears(h))
      BY <1>1, <2>1 DEF Handle
    <3>3. ~ Tears(h)
      BY <3>2
    <3> QED
      BY <3>1, <3>2, <3>3, HandleRing
  <2>2. CASE ~ (Found(h) /\ prev[h] # Nil /\ next[h] # Nil)
    BY <1>1, <2>2
       DEF Handle, Ring, Distinct, AppendOK, InsertOK, RemoveOK, Forwards,
           Backwards, At, Listed
  <2> QED
    BY <2>1, <2>2
<1>2. ASSUME NEW kind \in {"append", "insert", "remove"}, NEW h \in Handlers,
             Begin(kind, h)
      PROVE  Ring'
  BY <1>2, BeginRing
<1>3. ASSUME Process
      PROVE  Ring'
  <2>1. CASE AppendPrev \/ AppendNext \/ AppendLink
    BY <2>1, AppendRing
  <2>2. CASE InsertPrev \/ InsertNext \/ InsertLink
    BY <2>2, InsertRing
  <2>3. CASE AppendLast \/ InsertFirst
    BY <2>3, AppendLastRing, InsertFirstRing
  <2>4. CASE RemoveNext \/ RemovePrev
    BY <2>4, RemoveNextRing, RemovePrevRing
  <2> QED
    BY <1>3, <2>1, <2>2, <2>3, <2>4 DEF Process
<1> QED
  BY <1>1, <1>2, <1>3 DEF Next

\* Once torn, always torn.
LEMMA TornStays == ASSUME Next, torn \in BOOLEAN PROVE torn => torn'
<1>1. ASSUME NEW h \in Handlers, Handle(h), torn
      PROVE  torn'
  BY <1>1 DEF Handle
<1> QED
  BY <1>1 DEF Next, Begin, Process, AppendPrev, AppendNext, AppendLink,
              AppendLast, InsertPrev, InsertNext, InsertLink, InsertFirst,
              RemoveNext, RemovePrev

LEMMA StepIInv == IInv /\ [Next]_vars => IInv'
<1> SUFFICES ASSUME IInv, [Next]_vars PROVE IInv'
  OBVIOUS
<1>1. TypeOK' /\ OpOK'
  BY TypeStep DEF IInv
<1>2. CASE Next
  <2>1. ~ torn' => Ring' /\ op'.saw # Nil
    BY <1>2, RingStep, SawStep, TornStays DEF IInv, TypeOK
  <2> QED
    BY <1>1, <2>1 DEF IInv
<1>3. CASE UNCHANGED vars
  BY <1>1, <1>3
     DEF vars, IInv, Ring, Distinct, AppendOK, InsertOK, RemoveOK, Forwards,
         Backwards, At, Listed
<1> QED
  BY <1>2, <1>3

LEMMA Invariance == Spec => []IInv
<1> QED
  BY InitIInv, StepIInv, PTL DEF Spec

-----------------------------------------------------------------------------
(* Theorems. *)

\* Pointers are entries or null whatever the bottom half interrupts.
THEOREM TypeCorrect == Spec => []TypeOK
<1>1. IInv => TypeOK
  BY DEF IInv
<1> QED
  BY <1>1, Invariance, PTL

\* Outside the windows of Tears the handlers form one ring in both directions,
\* in the order of the updates (rchAppend, rchInsert, rchRemove).
THEOREM ListOrder == Spec => []ListSound
<1>1. IInv => ListSound
  <2> SUFFICES ASSUME IInv, ~ torn, op = NoOp
               PROVE  /\ \A i \in 0 .. Len(order) - 1 :
                           /\ next[Node(i)] = Node(i + 1)
                           /\ prev[Node(i + 1)] = Node(i)
                      /\ next[Node(Len(order))] = First
                      /\ prev[First] = Node(Len(order))
    BY DEF ListSound
  <2>1. /\ Ring /\ TypeOK /\ Len(order) \in Nat
        /\ \A kind, pc : At(kind, pc) => kind = "none"
    BY DEF IInv, At, NoOp, TypeOK
  <2>2. \A i \in 0 .. Len(order) :
          /\ next[NodeOf(order, i)] = SuccOf(order, i)
          /\ prev[SuccOf(order, i)] = NodeOf(order, i)
    BY <2>1 DEF Ring, Forwards, Backwards
  <2>3. \A i \in 0 .. Len(order) : NodeOf(order, i) = Node(i)
    BY DEF Node, NodeOf
  <2>4. /\ \A i \in 0 .. Len(order) - 1 :
             SuccOf(order, i) = Node(i + 1) /\ i \in 0 .. Len(order)
        /\ SuccOf(order, Len(order)) = First
        /\ Len(order) \in 0 .. Len(order)
    BY <2>1 DEF Node, SuccOf
  <2> QED
    BY <2>2, <2>3, <2>4
<1> QED
  BY <1>1, Invariance, PTL

\* Outside those windows no update stores through a null pointer.
THEOREM StoresSafe == Spec => []NoNullStore
<1>1. IInv => NoNullStore
  <2> SUFFICES ASSUME IInv, ~ torn
               PROVE  /\ op.kind = "append" => prev[First] # Nil /\ op.saw # Nil
                      /\ op.kind = "insert" => next[First] # Nil /\ op.saw # Nil
                      /\ op.kind = "remove" => next[op.h] # Nil /\ prev[op.h] # Nil
    BY DEF NoNullStore
  <2>1. Ring /\ TypeOK /\ OpOK /\ op.saw # Nil
    BY DEF IInv
  <2>2. op.kind = "insert" => next[First] # Nil
    BY <2>1, OnList DEF Ring, Forwards, At
  <2>3. ASSUME op.kind = "remove", op.pc = 1
        PROVE  next[op.h] # Nil /\ prev[op.h] # Nil
    <3>1. PICK k \in 1 .. Len(order) : order[k] = op.h
      BY <2>1, <2>3 DEF Ring, RemoveOK, Listed
    <3>2. /\ k \in 0 .. Len(order) /\ k - 1 \in 0 .. Len(order)
          /\ NodeOf(order, k) = op.h /\ SuccOf(order, k - 1) = op.h
          /\ SuccOf(order, k) # Nil /\ NodeOf(order, k - 1) # Nil
      BY <2>1, <3>1, OnList DEF Ring
    <3> QED
      BY <2>1, <2>3, <3>2 DEF Ring, Forwards, Backwards, At
  <2>4. ASSUME op.kind = "remove", op.pc = 2
        PROVE  next[op.h] # Nil /\ prev[op.h] # Nil
    BY <2>1, <2>4, OnList DEF Ring, RemoveOK
  <2> QED
    BY <2>1, <2>2, <2>3, <2>4 DEF Ring, OpOK
<1> QED
  BY <1>1, Invariance, PTL
-----------------------------------------------------------------------------
(* The walk. *)

\* A set of numbers with a member has a least one.
LEMMA LeastOf ==
  ASSUME NEW S, S \subseteq Nat, S # {}
  PROVE  \E m \in S : \A n \in S : m <= n
<1> DEFINE less == {ss \in Nat \X Nat : ss[1] < ss[2]}
<1>1. IsWellFoundedOn(less, Nat)
  BY NatLessThanWellFounded, Zenon DEF OpToRel
<1>2. \A x, y \in Nat : y < x => <<y, x>> \in less
  OBVIOUS
<1> HIDE DEF less
<1>3. PICK m \in S : \A n \in S : ~ (<<n, m>> \in less)
  BY <1>1, WFMin
<1>4. ASSUME NEW n \in S
      PROVE  m <= n
  <2>1. m \in Nat /\ n \in Nat /\ ~ (n < m)
    BY <1>2, <1>3
  <2> QED
    BY <2>1
<1> QED
  BY <1>4

\* The first n steps of the walk, as a function: f[k] is where k steps lead.
IsWalk(f, n) ==
  /\ f \in [0 .. n -> Pointers]
  /\ f[0] = First
  /\ \A k \in 1 .. n : f[k] = IF f[k - 1] = Nil THEN Nil ELSE next[f[k - 1]]

Walks(n) == \E f : IsWalk(f, n)

\* One step more.
LEMMA WalkOn ==
  ASSUME TypeOK, NEW n \in Nat, NEW f, IsWalk(f, n)
  PROVE  Walks(n + 1)
<1> DEFINE last == IF f[n] = Nil THEN Nil ELSE next[f[n]]
           g == [k \in 0 .. n + 1 |-> IF k = n + 1 THEN last ELSE f[k]]
<1>1. f[n] \in Pointers
  BY DEF IsWalk
<1>2. last \in Pointers
  BY <1>1 DEF TypeOK, Pointers
<1> HIDE DEF last
<1>3. \A k \in 0 .. n : k \in 0 .. n + 1 /\ k # n + 1 /\ g[k] = f[k]
  OBVIOUS
<1>4. g \in [0 .. n + 1 -> Pointers]
  BY <1>2 DEF IsWalk
<1>5. g[0] = First
  BY <1>3 DEF IsWalk
<1>6. ASSUME NEW k \in 1 .. n + 1
      PROVE  g[k] = IF g[k - 1] = Nil THEN Nil ELSE next[g[k - 1]]
  <2>1. k - 1 \in 0 .. n /\ g[k - 1] = f[k - 1]
    BY <1>3
  <2>2. CASE k = n + 1
    <3>1. g[k] = last /\ k - 1 = n
      BY <2>2
    <3> QED
      BY <2>1, <3>1 DEF last
  <2>3. CASE k # n + 1
    <3>1. k \in 1 .. n /\ g[k] = f[k]
      BY <1>3, <2>3
    <3> QED
      BY <2>1, <3>1 DEF IsWalk
  <2> QED
    BY <2>2, <2>3
<1> HIDE DEF g
<1> QED
  BY <1>4, <1>5, <1>6 DEF IsWalk, Walks

LEMMA WalkExists == ASSUME TypeOK, NEW n \in Nat PROVE Walks(n)
<1> DEFINE S == {k \in Nat : ~ Walks(k)}
<1> SUFFICES ASSUME S # {}
             PROVE  FALSE
  OBVIOUS
<1>1. PICK m \in S : \A k \in S : m <= k
  BY LeastOf
<1>2. m # 0
  <2> DEFINE f == [k \in 0 .. 0 |-> First]
  <2>1. IsWalk(f, 0)
    BY DEF IsWalk, Pointers, Nodes
  <2> HIDE DEF f
  <2> QED
    BY <1>1, <2>1 DEF Walks
<1>3. m - 1 \in Nat /\ m - 1 \notin S /\ (m - 1) + 1 = m
  BY <1>1, <1>2
<1>4. PICK f : IsWalk(f, m - 1)
  BY <1>3 DEF Walks
<1>5. Walks((m - 1) + 1)
  BY <1>3, <1>4, WalkOn
<1> QED
  BY <1>1, <1>3, <1>5

\* Two walks agree as far as they go.
LEMMA WalksAgree ==
  ASSUME NEW m \in Nat, NEW n \in Nat, NEW f, NEW g, IsWalk(f, m), IsWalk(g, n),
         NEW k \in 0 .. m, k <= n
  PROVE  f[k] = g[k]
<1> DEFINE S == {j \in 0 .. m : j <= n /\ f[j] # g[j]}
<1> SUFFICES ASSUME S # {}
             PROVE  FALSE
  OBVIOUS
<1>0. S \subseteq Nat
  OBVIOUS
<1>1. PICK j \in S : \A i \in S : j <= i
  <2> HIDE DEF S
  <2> QED
    BY <1>0, LeastOf
<1>2. j # 0
  BY <1>1 DEF IsWalk
<1>3. j - 1 \in 0 .. m /\ j - 1 \notin S /\ j - 1 <= n
  BY <1>1, <1>2
<1>4. f[j - 1] = g[j - 1]
  BY <1>3
<1>5. j \in 1 .. m /\ j \in 1 .. n
  BY <1>1, <1>2
<1> QED
  BY <1>1, <1>4, <1>5 DEF IsWalk

\* Walk is the walk: it is where its definition says that it is.
LEMMA WalkUnfolds ==
  ASSUME TypeOK
  PROVE  \A k \in Nat : Walk[k] = IF k = 0 THEN First
                                  ELSE IF Walk[k - 1] = Nil THEN Nil ELSE next[Walk[k - 1]]
<1> DEFINE Is(g) == g = [k \in Nat |-> IF k = 0 THEN First
                                       ELSE IF g[k - 1] = Nil THEN Nil ELSE next[g[k - 1]]]
           w(n) == CHOOSE f : IsWalk(f, n)
           g0 == [k \in Nat |-> w(k)[k]]
<1>1. \A n \in Nat : IsWalk(w(n), n)
  BY WalkExists DEF Walks
<1> HIDE DEF w
<1>2. ASSUME NEW k \in Nat
      PROVE  g0[k] = IF k = 0 THEN First ELSE IF g0[k - 1] = Nil THEN Nil ELSE next[g0[k - 1]]
  <2>1. g0[k] = w(k)[k] /\ IsWalk(w(k), k)
    BY <1>1
  <2>2. CASE k = 0
    BY <2>1, <2>2 DEF IsWalk
  <2>3. CASE k # 0
    <3>1. k - 1 \in Nat /\ IsWalk(w(k - 1), k - 1) /\ g0[k - 1] = w(k - 1)[k - 1]
      BY <1>1, <2>3
    <3>2. w(k - 1)[k - 1] = w(k)[k - 1]
      <4>1. k - 1 \in 0 .. k - 1 /\ k - 1 <= k
        BY <3>1
      <4> QED
        BY <2>1, <3>1, <4>1, WalksAgree
    <3>3. k \in 1 .. k
      BY <2>3
    <3> QED
      BY <2>1, <2>3, <3>1, <3>2, <3>3 DEF IsWalk
  <2> QED
    BY <2>2, <2>3
<1>3. Is(g0)
  BY <1>2
<1>4. Walk = CHOOSE g : Is(g)
  BY DEF Walk
<1>5. Is(Walk)
  <2> HIDE DEF Is, g0
  <2> QED
    BY <1>3, <1>4
<1> QED
  BY <1>5
-----------------------------------------------------------------------------
\* From the first entry the walk goes along the list, to its end.
LEMMA WalkAlong ==
  ASSUME TypeOK, Ring, NEW k \in 0 .. Len(order)
  PROVE  Walk[k] = NodeOf(order, k)
<1> DEFINE S == {j \in 0 .. Len(order) : Walk[j] # NodeOf(order, j)}
<1> SUFFICES ASSUME S # {}
             PROVE  FALSE
  OBVIOUS
<1>1. Len(order) \in Nat /\ S \subseteq Nat
  BY DEF TypeOK
<1>2. PICK j \in S : \A i \in S : j <= i
  <2> HIDE DEF S
  <2> QED
    BY <1>1, LeastOf
<1>3. j # 0
  <2>1. Walk[0] = First
    BY WalkUnfolds
  <2> QED
    BY <1>2, <2>1 DEF NodeOf
<1>4. /\ j \in Nat /\ j - 1 \in 0 .. Len(order) /\ j - 1 # Len(order) /\ j - 1 \notin S
      /\ (j - 1) + 1 = j
  BY <1>1, <1>2, <1>3
<1>5. Walk[j - 1] = NodeOf(order, j - 1)
  BY <1>4
<1>6. NodeOf(order, j - 1) # Nil /\ next[NodeOf(order, j - 1)] = SuccOf(order, j - 1)
  BY <1>4, OnList DEF Ring, Forwards
<1>7. Walk[j] = SuccOf(order, j - 1)
  BY <1>3, <1>4, <1>5, <1>6, WalkUnfolds
<1>8. SuccOf(order, j - 1) = NodeOf(order, j)
  BY <1>3, <1>4 DEF SuccOf, NodeOf
<1> QED
  BY <1>2, <1>7, <1>8

\* A handler on the list is met, and has both its neighbours.
LEMMA ListedFound ==
  ASSUME TypeOK, OpOK, Ring, NEW h \in Listed
  PROVE  Found(h) /\ prev[h] # Nil /\ next[h] # Nil
<1>1. PICK k \in 1 .. Len(order) : order[k] = h
  BY DEF Listed
<1>2. /\ Len(order) \in Nat /\ k \in 0 .. Len(order) /\ k - 1 \in 0 .. Len(order)
      /\ NodeOf(order, k) = h /\ SuccOf(order, k - 1) = h /\ k - 1 # Len(order)
      /\ SuccOf(order, k) # Nil /\ NodeOf(order, k - 1) # Nil
  BY <1>1, OnList DEF Ring
<1>3. op.kind # "none" => op.h # Nil
  BY HandlerListAssumption DEF OpOK
<1>4. next[h] # Nil
  BY <1>2, <1>3 DEF Ring, Forwards, At
<1>5. prev[h] # Nil
  BY <1>2, <1>3 DEF Ring, Backwards, At
<1>6. \A j \in 1 .. k : Walk[j] \notin {First, Nil}
  <2> SUFFICES ASSUME NEW j \in 1 .. k
               PROVE  Walk[j] \notin {First, Nil}
    OBVIOUS
  <2>1. j \in 1 .. Len(order) /\ j \in 0 .. Len(order)
    BY <1>2
  <2>2. order[j] \in Handlers /\ Walk[j] = order[j]
    BY <2>1, WalkAlong DEF TypeOK, NodeOf
  <2> QED
    BY <2>2, HandlerListAssumption
<1>7. k \in 1 .. Len(order) + 2 /\ Walk[k] = h
  BY <1>2, WalkAlong
<1> QED
  BY <1>4, <1>5, <1>6, <1>7 DEF Found

\* Outside those windows a reply that arrives in the middle of an update finds
\* its handler, however long the list (acq32_processCommandMessageReturn).
THEOREM RepliesAreFound == Spec => []RepliesFound
<1>1. Init => RepliesFound
  BY DEF Init, RepliesFound
<1>2. IInv /\ RepliesFound /\ [Next]_vars => RepliesFound'
  <2> SUFFICES ASSUME IInv, RepliesFound, [Next]_vars, ~ torn'
               PROVE  ~ discarded'
    BY DEF RepliesFound
  <2>1. CASE UNCHANGED <<torn, discarded>>
    BY <2>1 DEF RepliesFound
  <2>2. ASSUME NEW h \in Handlers, Handle(h)
        PROVE  ~ discarded'
    <3>1. ~ torn
      BY <2>2, TornStays DEF Next, IInv, TypeOK
    <3>2. Found(h) /\ prev[h] # Nil /\ next[h] # Nil
      BY <2>2, <3>1, ListedFound DEF Handle, IInv
    <3> QED
      BY <2>2, <3>1, <3>2 DEF Handle, RepliesFound
  <2>3. Process \/ UNCHANGED vars \/ (\E kind \in {"append", "insert", "remove"}, h \in Handlers :
          Begin(kind, h)) => UNCHANGED <<torn, discarded>>
    BY DEF Process, Begin, AppendPrev, AppendNext, AppendLink, AppendLast, InsertPrev, InsertNext,
           InsertLink, InsertFirst, RemoveNext, RemovePrev, vars
  <2> QED
    BY <2>1, <2>2, <2>3 DEF Next
<1> QED
  BY <1>1, <1>2, Invariance, PTL DEF Spec
=============================================================================
