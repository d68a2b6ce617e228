---------------------------- MODULE MCHostMessages ----------------------------
(***************************************************************************)
(* Instances of HostMessages for TLC.  Each behaviour follows one of six   *)
(* plans, so that what may happen is the union and not the product of what *)
(* the plans allow.                                                        *)
(***************************************************************************)
EXTENDS HostMessages, TLC

None == [w \in {"stream", "garbled", "ask", "dump", "command", "switch",
                "timeout", "signal", "read"} |-> 0]

\* A stream that outruns its reader, a garbled message and reads cut short by a
\* full buffer; the stream turned off; a stream with a command, and with a query,
\* under way; queries that time out or are interrupted; queries and a dump.
MCPlans ==
  {"stream" :> 2 @@ "garbled" :> 1 @@ "switch" :> 1 @@ "read" :> 2 @@ None,
   "stream" :> 2 @@ "switch" :> 2 @@ "read" :> 1 @@ None,
   "stream" :> 3 @@ "switch" :> 1 @@ "read" :> 1 @@ "command" :> 1 @@ None,
   "stream" :> 2 @@ "switch" :> 1 @@ "command" :> 1 @@ "ask" :> 1 @@ None,
   "ask" :> 3 @@ "timeout" :> 2 @@ "signal" :> 1 @@ None,
   "ask" :> 2 @@ "dump" :> 1 @@ "timeout" :> 1 @@ "signal" :> 1 @@ None}
=============================================================================
