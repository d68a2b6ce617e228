----------------------------- MODULE MCStreamBuf -----------------------------
(* Instances of StreamBuf for TLC. *)
EXTENDS StreamBuf
=============================================================================
