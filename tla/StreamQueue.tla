----------------------------- MODULE StreamQueue -----------------------------
(***************************************************************************)
(* What the driver's ring buffers promise: a bounded queue whose consumer  *)
(* may take its last get back.  The entry last got keeps its room until    *)
(* the next get, so that putting it back never fails.                      *)
(***************************************************************************)
EXTENDS Naturals, Sequences

CONSTANTS Data,      \* what is queued: message frames, statuses
          Invalid,   \* what a get from an empty queue returns
          Capacity   \* room for queued entries and the one last got

VARIABLES q,         \* entries waiting, oldest first
          kept,      \* the entry last got, while it can be put back
          got,       \* what the last get returned
          put        \* what the last put returned

vars == <<q, kept, got, put>>

Init ==
  /\ q = << >>
  /\ kept = << >>
  /\ got = Invalid
  /\ put = "ok"

Put(d) ==
  /\ IF Len(kept) + Len(q) < Capacity
       THEN q' = Append(q, d) /\ put' = "ok"
       ELSE UNCHANGED q       /\ put' = "full"
  /\ UNCHANGED <<kept, got>>

Get ==
  /\ IF q = << >>
       THEN got' = Invalid /\ UNCHANGED <<q, kept>>
       ELSE got' = Head(q) /\ q' = Tail(q) /\ kept' = <<Head(q)>>
  /\ UNCHANGED put

PutBack ==
  /\ q' = kept \o q
  /\ kept' = << >>
  /\ UNCHANGED <<got, put>>

Next == (\E d \in Data : Put(d)) \/ Get \/ PutBack

Spec == Init /\ [][Next]_vars
=============================================================================
