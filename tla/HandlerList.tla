----------------------------- MODULE HandlerList -----------------------------
(***************************************************************************)
(* The list of return handlers (acq32.h): a circular doubly linked list    *)
(* through the device's own first entry.  A process that is about to send  *)
(* a message appends its handler (acq200 bridge) or inserts it (fetch),    *)
(* and takes it off again if no reply came in time (fetch).  The bottom    *)
(* half walks the list for a reply's handler, which removes itself.        *)
(*                                                                         *)
(* Each update is a few pointer stores under a spin lock.  On the          *)
(* uniprocessor the driver is built for the lock is nothing, so that the   *)
(* bottom half runs between any two stores of a process; no process runs   *)
(* between the stores of another, nor inside the bottom half.              *)
(***************************************************************************)
EXTENDS Naturals, Sequences

CONSTANTS
  Handlers,    \* struct ReturnCommandHandler
  Fetchers,    \* those of the fetch path, cleared when they are done
  First,       \* m_dpd.__first_handler
  Nil          \* the null pointer

ASSUME HandlerListAssumption ==
  /\ Fetchers \subseteq Handlers
  /\ First \notin Handlers
  /\ Nil \notin Handlers \cup {First}

Nodes == Handlers \cup {First}

VARIABLES
  next, prev,  \* the pointers of each entry
  op,          \* a process's update under way: kind, handler, the store that
               \* comes next, and a pointer it may have kept in a register
  order,       \* the handlers on the list, from the first on
  torn,        \* the bottom half removed an entry whose pointers were in use
  discarded    \* a reply's handler was on the list and was not found

vars == <<next, prev, op, order, torn, discarded>>

NoOp == [kind |-> "none", h |-> First, pc |-> 0, saw |-> First]

Init ==
  /\ next = [n \in Nodes |-> IF n = First THEN First ELSE Nil]
  /\ prev = [n \in Nodes |-> IF n = First THEN First ELSE Nil]
  /\ op = NoOp
  /\ order = << >>
  /\ torn = FALSE
  /\ discarded = FALSE

Listed == {order[i] : i \in 1 .. Len(order)}

\* The list without its kth entry.
Without(k) ==
  [i \in 1 .. Len(order) - 1 |-> IF i < k THEN order[i] ELSE order[i + 1]]

-----------------------------------------------------------------------------
(* Processes: rchAppend, rchInsert and rchRemove, one store at a time.     *)

Begin(kind, h) ==
  /\ op = NoOp
  /\ CASE kind = "append" -> h \in Handlers \ (Listed \cup Fetchers)
       [] kind = "insert" -> h \in Fetchers /\ next[h] = Nil
       [] kind = "remove" -> h \in Fetchers \cap Listed
  /\ op' = [kind |-> kind, h |-> h, pc |-> 1, saw |-> First]
  /\ UNCHANGED <<next, prev, order, torn, discarded>>

At(kind, pc) == op.kind = kind /\ op.pc = pc
Onward       == op' = [op EXCEPT !.pc = @ + 1]

\* A store through a null pointer stops the machine.
Store(f, n, m) == n # Nil /\ f' = [f EXCEPT ![n] = m]

AppendPrev ==
  /\ At("append", 1)
  /\ Store(prev, op.h, prev[First])
  /\ op' = [op EXCEPT !.pc = 2, !.saw = prev[First]]
  /\ UNCHANGED <<next, order, torn, discarded>>

AppendNext ==
  /\ At("append", 2)
  /\ Store(next, op.h, First)
  /\ Onward
  /\ UNCHANGED <<prev, order, torn, discarded>>

\* Variant: the old last entry is not linked to the new one.
AppendNoLink ==
  /\ At("append", 3)
  /\ Onward
  /\ UNCHANGED <<next, prev, order, torn, discarded>>

\* The last entry is looked up again, or taken from a register.
AppendLink ==
  /\ At("append", 3)
  /\ Store(next, prev[First], op.h) \/ Store(next, op.saw, op.h)
  /\ Onward
  /\ UNCHANGED <<prev, order, torn, discarded>>

\* Variant: the update does not end.
AppendLastNoEnd ==
  /\ At("append", 4)
  /\ Store(prev, First, op.h)
  /\ Onward
  /\ order' = Append(order, op.h)
  /\ UNCHANGED <<next, torn, discarded>>

AppendLast ==
  /\ At("append", 4)
  /\ Store(prev, First, op.h)
  /\ op' = NoOp
  /\ order' = Append(order, op.h)
  /\ UNCHANGED <<next, torn, discarded>>

InsertPrev ==
  /\ At("insert", 1)
  /\ Store(prev, op.h, First)
  /\ Onward
  /\ UNCHANGED <<next, order, torn, discarded>>

InsertNext ==
  /\ At("insert", 2)
  /\ Store(next, op.h, next[First])
  /\ op' = [op EXCEPT !.pc = 3, !.saw = next[First]]
  /\ UNCHANGED <<prev, order, torn, discarded>>

InsertLink ==
  /\ At("insert", 3)
  /\ Store(prev, next[First], op.h) \/ Store(prev, op.saw, op.h)
  /\ Onward
  /\ UNCHANGED <<next, order, torn, discarded>>

InsertFirst ==
  /\ At("insert", 4)
  /\ Store(next, First, op.h)
  /\ op' = NoOp
  /\ order' = <<op.h>> \o order
  /\ UNCHANGED <<prev, torn, discarded>>

\* The fetch timed out.  Its entry may be gone by now.
RemoveNext ==
  /\ At("remove", 1)
  /\ Store(next, prev[op.h], next[op.h])
  /\ Onward
  /\ order' = IF op.h \in Listed
                THEN Without(CHOOSE k \in 1 .. Len(order) : order[k] = op.h)
                ELSE order
  /\ UNCHANGED <<prev, torn, discarded>>

\* Off the list, the entry is cleared.
RemovePrev ==
  /\ At("remove", 2)
  /\ next[op.h] # Nil
  /\ prev' = [prev EXCEPT ![next[op.h]] = prev[op.h], ![op.h] = Nil]
  /\ next' = [next EXCEPT ![op.h] = Nil]
  /\ op' = NoOp
  /\ UNCHANGED <<order, torn, discarded>>

Process ==
  \/ AppendPrev \/ AppendNext \/ AppendLink \/ AppendLast
  \/ InsertPrev \/ InsertNext \/ InsertLink \/ InsertFirst
  \/ RemoveNext \/ RemovePrev

-----------------------------------------------------------------------------
(* The bottom half. *)

\* Where k steps along the list lead.
Walk[k \in Nat] ==
  IF k = 0 THEN First
  ELSE IF Walk[k - 1] = Nil THEN Nil ELSE next[Walk[k - 1]]

\* The handler h is met before the walk is back at the first entry, or off it.
Found(h) ==
  \E k \in 1 .. Len(order) + 2 :
    /\ Walk[k] = h
    /\ \A j \in 1 .. k : Walk[j] \notin {First, Nil}

\* What a process holds pointers to that removing h makes stale.
Tears(h) ==
  \/ op.kind = "append" /\ op.pc \in {2, 3} /\ prev[First] = h
  \/ op.kind = "insert" /\ op.pc \in {3, 4} /\ next[First] = h
  \/ op.kind = "remove" /\ op.h = h
  \/ op.kind = "remove" /\ op.pc = 2 /\ h \in {prev[op.h], next[op.h]}

Cleared(h, f) == IF h \in Fetchers THEN [f EXCEPT ![h] = Nil] ELSE f

\* Variant: the entry is cleared before it is unlinked.
RemoveCleared(h) ==
  /\ next' = [Cleared(h, next) EXCEPT ![prev[h]] = Cleared(h, next)[h]]
  /\ prev' = Cleared(h, prev)

\* Variant: only the forward link is closed.
RemoveOneWay(h) ==
  /\ next' = Cleared(h, [next EXCEPT ![prev[h]] = next[h]])
  /\ prev' = Cleared(h, prev)

\* rchRemove, and the fetch handler's memset.
Remove(h) ==
  /\ next' = Cleared(h, [next EXCEPT ![prev[h]] = next[h]])
  /\ prev' = Cleared(h, [prev EXCEPT ![next[h]] = prev[h]])

\* The reply for h arrives.
Handle(h) ==
  /\ h \in Listed
  /\ IF Found(h) /\ prev[h] # Nil /\ next[h] # Nil
       THEN /\ Remove(h)
            /\ \E k \in 1 .. Len(order) : order[k] = h /\ order' = Without(k)
            /\ torn' = (torn \/ Tears(h))
            /\ UNCHANGED discarded
       ELSE /\ discarded' = TRUE
            /\ UNCHANGED <<next, prev, order, torn>>
  /\ UNCHANGED op

Next ==
  \/ \E kind \in {"append", "insert", "remove"}, h \in Handlers : Begin(kind, h)
  \/ Process
  \/ \E h \in Handlers : Handle(h)

Spec == Init /\ [][Next]_vars

-----------------------------------------------------------------------------
Ops == {"none", "append", "insert", "remove"}
Pointers == Nodes \cup {Nil}

\* Pointers are entries or null, and an update is at one of its stores.
TypeOK ==
  /\ next \in [Nodes -> Pointers] /\ prev \in [Nodes -> Pointers]
  /\ op \in [kind : Ops, h : Nodes, pc : 0 .. 4, saw : Pointers]
  /\ order \in Seq(Handlers)
  /\ torn \in BOOLEAN /\ discarded \in BOOLEAN

Node(i) == IF i = 0 THEN First ELSE order[i]

\* Unless the bottom half has removed an entry that the process it interrupted
\* was linking or unlinking next to, the pointers of the handlers on the list
\* form one ring through the first entry, in the order of the updates, read
\* forwards and backwards, whenever no update is under way.
ListSound ==
  ~ torn /\ op = NoOp =>
    LET n == Len(order) IN
    /\ \A i \in 0 .. n - 1 :
         /\ next[Node(i)] = Node(i + 1)
         /\ prev[Node(i + 1)] = Node(i)
    /\ next[Node(n)] = First /\ prev[First] = Node(n)

\* With the same exception no store goes through a null pointer.
NoNullStore ==
  ~ torn =>
    /\ op.kind = "append" => prev[First] # Nil /\ op.saw # Nil
    /\ op.kind = "insert" => next[First] # Nil /\ op.saw # Nil
    /\ op.kind = "remove" => next[op.h] # Nil /\ prev[op.h] # Nil

\* With the same exception a reply finds its handler, even in the middle of an
\* update.
RepliesFound == ~ torn => ~ discarded
=============================================================================
