------------------------------ MODULE MCBridge ------------------------------
(* Instances of Bridge for TLC. *)
EXTENDS Bridge

\* Clients and files are interchangeable: nothing in Bridge names one.
Interchange == Permutations(Clients) \cup Permutations(Files)
=============================================================================
