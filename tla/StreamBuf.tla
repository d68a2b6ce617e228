------------------------------ MODULE StreamBuf ------------------------------
(***************************************************************************)
(* GenericIntBuf of acq32.h: the ring behind streambuf (filled by the      *)
(* interrupt, emptied by the bottom half), downstreambuf (filled by the    *)
(* bottom half, emptied by a reading process) and statusbuf (filled by the *)
(* interrupt, emptied by cos_task).                                        *)
(*                                                                         *)
(* The producer interrupts the consumer, never the other way round, so a   *)
(* put is one step.  A get looks for an entry first and takes it with      *)
(* interrupts off afterwards: two steps, with puts in between.             *)
(***************************************************************************)
EXTENDS Naturals, Sequences

CONSTANTS Data,      \* what is queued
          Invalid,   \* STREAM_MFA_INVALID
          NBUF       \* number of slots, buffer_mask + 1

ASSUME StreamBufAssumption ==
  /\ NBUF \in Nat /\ NBUF > 1
  /\ Invalid \notin Data

VARIABLES buffers, iput, iget, iputback,
          cpc,       \* the consumer: "idle", or "take" after it saw an entry
          got, put   \* what the last get and the last put returned

vars == <<buffers, iput, iget, iputback, cpc, got, put>>

Slots == 0 .. NBUF - 1

Init ==
  /\ buffers \in [Slots -> {Invalid}]
  /\ iput = 0
  /\ iget = 0
  /\ iputback = 0
  /\ cpc = "idle"
  /\ got = Invalid
  /\ put = "ok"

Inc(ii) == (ii + 1) % NBUF

\* Variant: the slot kept for a put back is given away.
IsFullAtGet == Inc(iput) = iget
IsFull == Inc(iput) = iputback

\* Variant: the entry kept for a put back counts as one there is to get.
IsEmptyWithKept == iputback = iput
IsEmpty == iget = iput

Put(d) ==
  /\ IF IsFull
       THEN put' = "full" /\ UNCHANGED <<buffers, iput>>
       ELSE /\ buffers' = [buffers EXCEPT ![iput] = d]
            /\ iput' = Inc(iput)
            /\ put' = "ok"
  /\ UNCHANGED <<iget, iputback, cpc, got>>

GetEmpty ==
  /\ cpc = "idle"
  /\ IsEmpty
  /\ got' = Invalid
  /\ UNCHANGED <<buffers, iput, iget, iputback, cpc, put>>

GetCheck ==
  /\ cpc = "idle"
  /\ ~ IsEmpty
  /\ cpc' = "take"
  /\ UNCHANGED <<buffers, iput, iget, iputback, got, put>>

GetTake ==
  /\ cpc = "take"
  /\ cpc' = "idle"
  /\ got' = buffers[iget]
  /\ iputback' = iget
  /\ iget' = Inc(iget)
  /\ UNCHANGED <<buffers, iput, put>>

PutBack ==
  /\ cpc = "idle"
  /\ iget' = iputback
  /\ UNCHANGED <<buffers, iput, iputback, cpc, got, put>>

Next == (\E d \in Data : Put(d)) \/ GetEmpty \/ GetCheck \/ GetTake \/ PutBack

Spec == Init /\ [][Next]_vars

-----------------------------------------------------------------------------
\* The indices stay inside the ring, and the slot of a get that has seen an entry
\* is in use until it is taken: a get never takes an unused slot.
TypeOK ==
  /\ buffers \in [Slots -> Data \cup {Invalid}]
  /\ iput \in Slots /\ iget \in Slots /\ iputback \in Slots
  /\ cpc \in {"idle", "take"}
  /\ cpc = "take" => buffers[iget] \in Data
  /\ got \in Data \cup {Invalid}
  /\ put \in {"ok", "full"}

\* Slots from a up to, not including, b, and what they hold.
Count(a, b) == IF a <= b THEN b - a ELSE b + NBUF - a
At(a, k)    == IF a + k < NBUF THEN a + k ELSE a + k - NBUF
Span(a, b)  == [k \in 1 .. Count(a, b) |-> buffers[At(a, k - 1)]]

Queue == INSTANCE StreamQueue WITH
  Capacity <- NBUF - 1,
  q        <- Span(iget, iput),
  kept     <- Span(iputback, iget)

\* The ring is the bounded queue with put back: entries come out once, in the
\* order they went in, a put fails only when the room is gone, and what is put
\* back is what was got, whatever was put meanwhile.
IsQueue == Queue!Spec
=============================================================================
