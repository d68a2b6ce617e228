-------------------------------- MODULE Capture --------------------------------
(***************************************************************************)
(* A capture on the card, as the firmware (acq200control) drives it.  A    *)
(* SET_ARM forks a manager and a child; the child opens the board driver's *)
(* "oneshot" and is gone when the capture ends; the manager then has the   *)
(* data postprocessed and sets the driver's state back to STOP.  The       *)
(* driver's state is copied to the STATUS mailbox by whoever reports it:   *)
(* the mailbox thread, the thread of local commands, and the managers,     *)
(* which are processes of their own.  Nothing locks STATUS: a report       *)
(* samples the state, loads the word and stores it in three steps, and the *)
(* heartbeat, and a SET_MODE that reports the mode, load it and store it   *)
(* in two.                                                                 *)
(*                                                                         *)
(* The board driver is not part of the repository: its captures start,     *)
(* trigger and end as the firmware expects of it.                          *)
(***************************************************************************)
EXTENDS Naturals, FiniteSets

CONSTANTS
  Managers,     \* arm managers that may be about at a time
  Mbox, Local,  \* the two threads
  Plans         \* bound: how often each thing may happen, one plan per behaviour,
                \* and three settings: acq32_double_tap, whether there is a
                \* postprocessing job, and how often the card was armed before

Things    == {"tap", "job", "armed", "go", "block", "arm", "abort", "mode", "ioctl",
              "giveup", "signal", "trigger", "local", "overlap", "nofork"}
Reporters == Managers \cup {Mbox, Local}
CYCLES    == 16

ASSUME CaptureAssumption ==
  /\ Mbox # Local /\ Mbox \notin Managers /\ Local \notin Managers
  /\ Plans \subseteq [Things -> Nat]

States   == {"STOP", "ARM", "RUN", "CAPDONE", "POSTPROCESS"}
Words    == [st : States, cycle : 0 .. CYCLES - 1]
NoWord   == [st |-> "STOP", cycle |-> 0]
Silent   == [pc |-> "idle", st |-> "STOP", word |-> NoWord]
Commands == {"arm", "abort", "mode"}
Answers  == {"acked", "nacked"}

VARIABLES
  (* board driver *)
  drv,      \* its state, which the firmware may also set
  phase,    \* the capture under way
  success,  \* cap_status is OK
  (* mailboxes *)
  status,   \* STATUS: the state and CYCLE
  command,  \* COMMAND: one to be taken, or what became of the last
  ackbell,  \* BP_INT_COMMAND_ACK is up
  (* firmware *)
  manager,
  report,   \* each reporter in the middle of its report
  mboxPc, localPc,
  beat,     \* STATUS as the heartbeat, or a report of the mode, has loaded it
  left,     \* how often each thing may still happen
  (* what happened *)
  begun,    \* captures that began since a process took to arming, 2 or more as 2
  unseen,   \* then a capture had begun that STATUS did not show yet
  moded,    \* CYCLE was set to nought since, or a word from before that was
            \* still to be stored then
  overlapped, \* a capture was armed with a manager of another about
  locally,  \* a local command was given
  late      \* ARM was reported when the driver was no longer at ARM

driver   == <<drv, phase, success>>
mailbox  == <<command, ackbell>>
firmware == <<manager, report, mboxPc, beat, localPc>>
history  == <<begun, unseen, moded, overlapped, locally, late>>
card     == <<driver, status, mailbox, firmware, left, history>>

CardInit ==
  /\ drv = "STOP" /\ phase = "none" /\ success = FALSE
  /\ command = "acked"
  /\ ackbell = FALSE
  /\ manager = [m \in Managers |-> "none"]
  /\ report = [r \in Reporters |-> Silent]
  /\ mboxPc = "poll" /\ beat = NoWord /\ localPc = "idle"
  /\ left \in Plans
  /\ status = [NoWord EXCEPT !.cycle = left["armed"] % CYCLES]
  /\ begun = 0 /\ unseen = FALSE /\ moded = FALSE
  /\ overlapped = FALSE /\ locally = FALSE /\ late = FALSE

\* Happens once more.
Spend(what) ==
  /\ left[what] > 0
  /\ left' = [left EXCEPT ![what] = @ - 1]

-----------------------------------------------------------------------------
(* Reporting the state. *)
Reporting(r) ==
  CASE r = Mbox  -> mboxPc \in {"poll", "arming"}
    [] r = Local -> localPc \in {"arming", "getting"}
    [] OTHER     -> manager[r] \in {"postprocess", "stopping"}

\* What r does after it has reported st.
Reported(r, st) ==
  /\ report' = [report EXCEPT ![r] = Silent]
  /\ mboxPc' = IF r # Mbox THEN mboxPc
               ELSE IF mboxPc = "arming" THEN "fork"
               ELSE IF st \in {"ARM", "RUN"} THEN "short" ELSE "long"
  /\ localPc' = IF r # Local THEN localPc
                ELSE IF localPc = "arming" THEN "fork" ELSE "idle"
  /\ manager' = IF r \notin Managers THEN manager
                ELSE [manager EXCEPT ![r] =
                        IF @ = "stopping" THEN "none"
                        ELSE IF left["job"] > 0 THEN "spawn" ELSE "stop"]

ReportOnly == UNCHANGED <<driver, mailbox, beat, left, begun, unseen, moded,
                          overlapped, locally>>

Sample(r) ==
  /\ Reporting(r)
  /\ report[r].pc = "idle"
  /\ report' = [report EXCEPT ![r] = [pc |-> "sampled", st |-> drv, word |-> NoWord]]
  /\ ReportOnly /\ UNCHANGED <<status, manager, mboxPc, localPc, late>>

\* Variant: the mailbox thread asks for the state and does not report it.
LoadNotPolling(r) ==
  /\ report[r].pc = "sampled"
  /\ \/ /\ status.st = report[r].st \/ (r = Mbox /\ mboxPc = "poll")
        /\ Reported(r, report[r].st)
     \/ /\ status.st # report[r].st /\ ~ (r = Mbox /\ mboxPc = "poll")
        /\ report' = [report EXCEPT ![r].pc = "loaded", ![r].word = status]
        /\ UNCHANGED <<manager, mboxPc, localPc>>
  /\ ReportOnly /\ UNCHANGED <<status, late>>

\* Variant: STATUS is stored whether the state has changed or not.
LoadAlways(r) ==
  /\ report[r].pc = "sampled"
  /\ report' = [report EXCEPT ![r].pc = "loaded", ![r].word = status]
  /\ ReportOnly /\ UNCHANGED <<status, manager, mboxPc, localPc, late>>

\* Nothing more to do if STATUS has that state.
Load(r) ==
  /\ report[r].pc = "sampled"
  /\ \/ /\ status.st = report[r].st
        /\ Reported(r, report[r].st)
     \/ /\ status.st # report[r].st
        /\ report' = [report EXCEPT ![r].pc = "loaded", ![r].word = status]
        /\ UNCHANGED <<manager, mboxPc, localPc>>
  /\ ReportOnly /\ UNCHANGED <<status, late>>

\* A report of ARM is a new cycle.
Store(r) ==
  /\ report[r].pc = "loaded"
  /\ status' = [st    |-> report[r].st,
                cycle |-> IF report[r].st = "ARM"
                          THEN (report[r].word.cycle + 1) % CYCLES
                          ELSE report[r].word.cycle]
  /\ late' = (late \/ (report[r].st = "ARM" /\ drv # "ARM"))
  /\ Reported(r, report[r].st)
  /\ ReportOnly

-----------------------------------------------------------------------------
(* Arming and aborting. *)
About(m) == manager[m] # "none"

\* A manager is forked, which may be before the last is done, or there is no
\* process for it, which is only logged.
Fork ==
  \/ /\ \E m \in Managers : ~ About(m)
     /\ manager' = [manager EXCEPT ![CHOOSE m \in Managers : ~ About(m)] = "forked"]
     /\ \/ /\ \E m \in Managers : About(m)
           /\ Spend("overlap")
           /\ overlapped' = TRUE
        \/ /\ \A m \in Managers : ~ About(m)
           /\ UNCHANGED <<left, overlapped>>
  \/ Spend("nofork") /\ UNCHANGED <<manager, overlapped>>

\* user_abort ends the capture, if there is one.
EndCapture ==
  \/ /\ phase # "none"
     /\ phase' = "none" /\ success' = FALSE
     /\ drv' \in {"STOP", "CAPDONE"}
     /\ manager' = [m \in Managers |-> IF manager[m] = "capture" THEN "ended"
                                       ELSE manager[m]]
  \/ phase = "none" /\ UNCHANGED <<driver, manager>>

\* The acknowledge bit is set in COMMAND: whatever ack() loaded, what it stores
\* is acknowledged.  A command that is there for the mailbox thread to take is
\* then not taken any more.
Ack == command' = "acked" /\ ackbell' = TRUE

(* The mailbox thread: report, command, heartbeat. *)
MboxOnly == UNCHANGED <<status, report, localPc>>

NoCommand ==
  /\ mboxPc \in {"short", "long"}
  /\ command \in Answers
  /\ mboxPc' = "beat"
  /\ MboxOnly /\ UNCHANGED <<driver, mailbox, manager, beat, left, history>>

\* An abort is taken at any time.
TakeAbort ==
  /\ mboxPc \in {"short", "long"}
  /\ command = "abort"
  /\ Ack
  /\ EndCapture
  /\ mboxPc' = "beat"
  /\ MboxOnly /\ UNCHANGED <<beat, left, history>>

\* An arm or a mode is refused with no acknowledgement while the card is armed or
\* runs ...
RefuseLong ==
  /\ mboxPc = "short"
  /\ command \in {"arm", "mode"}
  /\ command' = "nacked" /\ ackbell' = TRUE
  /\ mboxPc' = "beat"
  /\ MboxOnly /\ UNCHANGED <<driver, manager, beat, left, history>>

\* ... otherwise an arm is acknowledged before anything else is done ...
TakeArm ==
  /\ mboxPc = "long"
  /\ command = "arm"
  /\ Ack
  /\ mboxPc' = "arming"
  /\ MboxOnly /\ UNCHANGED <<driver, manager, beat, left, history>>

\* ... and a mode when it has been set, and reported in STATUS.
TakeMode ==
  /\ mboxPc = "long"
  /\ command = "mode"
  /\ mboxPc' = "mode"
  /\ MboxOnly /\ UNCHANGED <<driver, mailbox, manager, beat, left, history>>

ModeLoad ==
  /\ mboxPc = "mode"
  /\ beat' = status
  /\ mboxPc' = "moding"
  /\ MboxOnly /\ UNCHANGED <<driver, mailbox, manager, left, history>>

\* mbox_reportMode: CYCLE is nought again.
ModeStore ==
  /\ mboxPc = "moding"
  /\ status' = [st |-> beat.st, cycle |-> 0] /\ beat' = NoWord
  /\ moded' = TRUE
  /\ mboxPc' = "ack"
  /\ UNCHANGED <<driver, mailbox, manager, report, localPc, left, begun, unseen,
                 overlapped, locally, late>>

MboxFork ==
  /\ mboxPc = "fork"
  /\ Fork
  /\ mboxPc' = "ack"
  /\ MboxOnly
  /\ UNCHANGED <<driver, mailbox, beat, begun, unseen, moded, locally, late>>

\* The acknowledgement of a mode, and the second of an arm, is for whatever
\* COMMAND holds by now.
AckAgain ==
  /\ mboxPc = "ack"
  /\ Ack
  /\ mboxPc' = "beat"
  /\ MboxOnly /\ UNCHANGED <<driver, manager, beat, left, history>>

BeatLoad ==
  /\ mboxPc = "beat"
  /\ beat' = status
  /\ mboxPc' = "beating"
  /\ MboxOnly /\ UNCHANGED <<driver, mailbox, manager, left, history>>

BeatStore ==
  /\ mboxPc = "beating"
  /\ status' = beat /\ beat' = NoWord
  /\ mboxPc' = "poll"
  /\ UNCHANGED <<driver, mailbox, manager, report, localPc, left, history>>

(* The thread of local commands. *)
LocalOnly ==
  /\ Spend("local") /\ locally' = TRUE
  /\ UNCHANGED <<status, report, mboxPc, beat, begun, unseen, moded, overlapped,
                 late>>

LocalGetState ==
  /\ localPc = "idle"
  /\ localPc' = "getting"
  /\ LocalOnly /\ UNCHANGED <<driver, mailbox, manager>>

\* Only with the driver at STOP ...
LocalSetArm ==
  /\ localPc = "idle"
  /\ drv = "STOP"
  /\ localPc' = "acking"
  /\ LocalOnly /\ UNCHANGED <<driver, mailbox, manager>>

\* ... COMMAND is acknowledged, whatever it holds.
LocalAck ==
  /\ localPc = "acking"
  /\ Ack
  /\ localPc' = "arming"
  /\ UNCHANGED <<driver, status, manager, report, mboxPc, beat, left, history>>

LocalSetAbort ==
  /\ localPc = "idle"
  /\ EndCapture
  /\ localPc' = "getting"
  /\ LocalOnly /\ UNCHANGED mailbox

LocalFork ==
  /\ localPc = "fork"
  /\ Fork
  /\ localPc' = "idle"
  /\ UNCHANGED <<driver, status, mailbox, report, mboxPc, beat, begun, unseen,
                 moded, locally, late>>

-----------------------------------------------------------------------------
(* The child and the board driver. *)
ManagerOnly == UNCHANGED <<status, mailbox, report, mboxPc, beat, localPc>>

To(m, where) == manager' = [manager EXCEPT ![m] = where]

\* One capture at a time: a child that cannot open the driver exits.
OpenOneshot(m) ==
  /\ manager[m] = "forked"
  /\ \/ /\ phase = "none"
        /\ drv' = "ARM" /\ phase' = "armed" /\ success' = FALSE
        /\ begun' = IF begun < 2 THEN begun + 1 ELSE 2
        /\ To(m, "capture")
     \/ /\ phase # "none"
        /\ To(m, "ended")
        /\ UNCHANGED <<driver, begun>>
  /\ ManagerOnly /\ UNCHANGED <<left, unseen, moded, overlapped, locally, late>>

\* There is no process for the child, and nothing to wait for.
NoChild(m) ==
  /\ manager[m] = "forked"
  /\ Spend("nofork")
  /\ To(m, "ended")
  /\ ManagerOnly /\ UNCHANGED <<driver, history>>

Trigger ==
  /\ phase = "armed"
  /\ Spend("trigger")
  /\ phase' = "triggered" /\ drv' = "RUN"
  /\ ManagerOnly /\ UNCHANGED <<manager, success, history>>

CaptureDone(m) ==
  /\ manager[m] = "capture" /\ phase = "triggered"
  /\ phase' = "none" /\ drv' = "CAPDONE" /\ success' = TRUE
  /\ To(m, "ended")
  /\ ManagerOnly /\ UNCHANGED <<left, history>>

(* The manager: goPostamble. *)
Postamble(m) ==
  /\ manager[m] = "ended"
  /\ \/ /\ success
        /\ drv' = "POSTPROCESS"
        /\ To(m, "postprocess")
     \/ /\ ~ success
        /\ To(m, "stop")
        /\ UNCHANGED drv
  /\ ManagerOnly /\ UNCHANGED <<phase, success, left, history>>

\* Variant: the manager does not leave the rest to the one it spawned.
SpawnPpGoesOn(m) ==
  /\ manager[m] = "spawn"
  /\ \/ /\ \E n \in Managers :
             /\ ~ About(n)
             /\ manager' = [manager EXCEPT ![m] = "stop", ![n] = "job"]
        /\ UNCHANGED left
     \/ To(m, "none") /\ Spend("nofork")
  /\ ManagerOnly /\ UNCHANGED <<driver, history>>

\* spawnPp: the job has a manager of its own, if there is a process for it.
SpawnPp(m) ==
  /\ manager[m] = "spawn"
  /\ \/ To(m, "job") /\ UNCHANGED left
     \/ To(m, "none") /\ Spend("nofork")
  /\ ManagerOnly /\ UNCHANGED <<driver, history>>

JobEnds(m) ==
  /\ manager[m] = "job"
  /\ To(m, "stop")
  /\ ManagerOnly /\ UNCHANGED <<driver, left, history>>

OnStop(m) ==
  /\ manager[m] = "stop"
  /\ drv' = "STOP"
  /\ To(m, "stopping")
  /\ ManagerOnly /\ UNCHANGED <<phase, success, left, history>>

-----------------------------------------------------------------------------
Report(r) == Sample(r) \/ Load(r) \/ Store(r)

MboxThread ==
  \/ Report(Mbox)
  \/ NoCommand \/ TakeAbort \/ RefuseLong \/ TakeArm \/ MboxFork
  \/ TakeMode \/ ModeLoad \/ ModeStore \/ AckAgain
  \/ BeatLoad \/ BeatStore

LocalCommand == LocalGetState \/ LocalSetArm \/ LocalSetAbort
LocalThread  == Report(Local) \/ LocalAck \/ LocalFork

Manager(m) ==
  \/ Report(m)
  \/ OpenOneshot(m) \/ NoChild(m) \/ CaptureDone(m) \/ Postamble(m)
  \/ SpawnPp(m) \/ JobEnds(m) \/ OnStop(m)

CardNext ==
  \/ MboxThread
  \/ LocalCommand \/ LocalThread
  \/ Trigger
  \/ \E m \in Managers : Manager(m)

MboxPcs ==
  {"poll", "short", "long", "arming", "fork", "mode", "moding", "ack", "beat",
   "beating"}
LocalPcs   == {"idle", "acking", "arming", "getting", "fork"}
ManagerPcs ==
  {"none", "forked", "capture", "ended", "postprocess", "spawn", "job", "stop",
   "stopping"}

CardTypeOK ==
  /\ drv \in States /\ phase \in {"none", "armed", "triggered"}
  /\ success \in BOOLEAN /\ ackbell \in BOOLEAN
  /\ status \in Words /\ beat \in Words
  /\ command \in Commands \cup Answers
  /\ manager \in [Managers -> ManagerPcs]
  /\ report \in [Reporters -> [pc : {"idle", "sampled", "loaded"}, st : States,
                               word : Words]]
  /\ mboxPc \in MboxPcs /\ localPc \in LocalPcs
  /\ begun \in 0 .. 2
  /\ unseen \in BOOLEAN /\ moded \in BOOLEAN /\ overlapped \in BOOLEAN
  /\ locally \in BOOLEAN /\ late \in BOOLEAN

\* STOP means stopped: while each capture is armed with no manager of another
\* about, the driver's state is STOP neither during a capture nor while its data
\* is postprocessed.
StopMeansStopped ==
  ~ overlapped =>
    \A m \in Managers :
      /\ manager[m] = "capture" => drv \in {"ARM", "RUN"}
      /\ manager[m] \in {"spawn", "job"} => drv = "POSTPROCESS"

\* A fork waits for a manager that Managers or the plan does not give.
Starved ==
  /\ mboxPc = "fork" \/ localPc = "fork"
  /\ \E m \in Managers : About(m)
  /\ left["overlap"] = 0 \/ \A m \in Managers : About(m)
  /\ left["nofork"] = 0

\* STATUS follows the driver: though nothing locks it, so that a report or a
\* heartbeat may put back what another has replaced, it has the driver's state
\* for good once that changes no more.  (Not where the bounds stop the card.)
StatusFollows == <>[](status.st = drv \/ Starved)
=============================================================================
