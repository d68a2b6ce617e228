---------------------------- MODULE MCHandlerList ----------------------------
(* Instances of HandlerList for TLC. *)
EXTENDS HandlerList, TLC

Interchange == Permutations(Handlers \ Fetchers) \cup Permutations(Fetchers)
=============================================================================
