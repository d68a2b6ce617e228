------------------------------- MODULE MCClients -------------------------------
(***************************************************************************)
(* An instance of Clients for TLC.  Each behaviour follows one of the      *)
(* plans, so that what may happen is the union and not the product of what *)
(* the plans allow.                                                        *)
(***************************************************************************)
EXTENDS Clients, TLC

CONSTANTS s1, s2, s3, m1

\* Clients that come and go in any order, one too many for the slots, and with
\* one of another node; a slot that is used again while the state changes; a
\* client that comes late; one that stays while the state changes faster than
\* it reads, with an arm.
MCPlans ==
  LET None == [w \in Clients \cup {"change", "inhibit"} |-> 0]
  IN {s1 :> 2 @@ s2 :> 1 @@ s3 :> 1 @@ None,
      s1 :> 2 @@ s2 :> 1 @@ m1 :> 2 @@ None,
      s1 :> 2 @@ s2 :> 1 @@ "change" :> 1 @@ None,
      s1 :> 1 @@ s2 :> 1 @@ "change" :> 2 @@ None,
      s1 :> 1 @@ "change" :> 3 @@ "inhibit" :> 1 @@ None}
=============================================================================
