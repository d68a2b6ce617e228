------------------------------- MODULE MCArming -------------------------------
(***************************************************************************)
(* An instance of Arming for TLC.  Each behaviour follows one of the plans,*)
(* so that what may happen is the union and not the product of what the    *)
(* plans allow.                                                            *)
(***************************************************************************)
EXTENDS Arming, TLC

None == [t \in Things |-> 0]

MCPlans ==
  { \* a double tap that gives up, and one that follows it at once
   "tap" :> 1 @@ "go" :> 2 @@ "arm" :> 5 @@ "abort" :> 3 @@ None,
    \* a double tap with another process that aborts, or arms that overlap on
    \* the card
   "tap" :> 1 @@ "go" :> 1 @@ "arm" :> 3 @@ "abort" :> 2 @@ "ioctl" :> 1 @@ None,
   "tap" :> 1 @@ "go" :> 1 @@ "arm" :> 2 @@ "abort" :> 1 @@ "overlap" :> 1 @@ None,
    \* a double tap whose capture is triggered on the way, or a capture that is
    \* triggered and aborted by another process
   "tap" :> 1 @@ "go" :> 1 @@ "arm" :> 2 @@ "abort" :> 1 @@ "trigger" :> 1 @@ None,
   "go" :> 1 @@ "arm" :> 1 @@ "abort" :> 1 @@ "ioctl" :> 1 @@ "trigger" :> 1 @@ None,
    \* a double tap with another process that sets the mode, with a command given
    \* up that the card is slow to answer, or without a process to be had
   "tap" :> 1 @@ "go" :> 1 @@ "arm" :> 2 @@ "abort" :> 1 @@ "ioctl" :> 1
     @@ "mode" :> 1 @@ "armed" :> 14 @@ None,
   "tap" :> 1 @@ "go" :> 1 @@ "arm" :> 2 @@ "abort" :> 1 @@ "giveup" :> 1 @@ None,
   "ioctl" :> 1 @@ "mode" :> 1 @@ "giveup" :> 1 @@ None,
   "tap" :> 1 @@ "go" :> 1 @@ "arm" :> 2 @@ "abort" :> 1 @@ "nofork" :> 1 @@ None,
    \* the watchdog, with another process that arms
   "tap" :> 2 @@ "block" :> 1 @@ "go" :> 1 @@ "arm" :> 1 @@ "trigger" :> 1 @@ None,
    \* a blocking arm that is aborted, or gives up
   "block" :> 1 @@ "arm" :> 1 @@ "abort" :> 1 @@ "ioctl" :> 1 @@ "signal" :> 1 @@ None,
    \* two arms and no double tap
   "block" :> 1 @@ "go" :> 1 @@ "arm" :> 2 @@ None,
    \* local commands, whose arms may overlap
   "local" :> 2 @@ "overlap" :> 1 @@ None,
   "go" :> 1 @@ "arm" :> 1 @@ "local" :> 1 @@ "overlap" :> 1 @@ None,
   "local" :> 1 @@ "trigger" :> 1 @@ "job" :> 1 @@ "nofork" :> 1 @@ None}
=============================================================================
