-------------------------------- MODULE Arming --------------------------------
(***************************************************************************)
(* Arming a card from the host, with the card of Capture at the other end. *)
(* acq32_GoAll takes the flag set_arm.busy, sends SET_ARM, and with        *)
(* acq32_double_tap & 1 aborts that capture, waits for STOP and arms       *)
(* again, up to twice, until CYCLE shows two arms; with & 2 it leaves the  *)
(* flag to a watchdog task that clears it a second later.  A blocking      *)
(* caller then waits for STOP: a timer task polls STATUS and wakes it.     *)
(*                                                                         *)
(* A command is on the way from its store in COMMAND to its answer, one at *)
(* a time (mbox_mutex).  A refused one times out, and so may one that the  *)
(* card is slow to answer, which it may yet carry out.  The host is a      *)
(* uniprocessor whose kernel is not preempted: interrupts, timer tasks and *)
(* the card move between any two steps.                                    *)
(***************************************************************************)
EXTENDS Capture

CONSTANTS
  Armers,     \* processes that arm or abort
  Blocking    \* those whose path is_blocking

ASSUME ArmingAssumption == Blocking \subseteq Armers

VARIABLES
  armer,     \* each process: where it is, its cycles and retries
  busy,      \* set_arm.busy
  inhibit,   \* cos.inhibit
  watchdog,  \* set_arm_wdt is queued
  work,      \* the polling task is on tq_timer
  (* what happened *)
  refused,   \* a first arm failed: nobody clears busy
  stray      \* a waiter was woken by something other than the task

host      == <<armer, busy, inhibit, watchdog, work, refused, stray>>
vars      == <<card, host>>

Idle == [pc |-> "idle", next |-> "idle", c0 |-> 0, c1 |-> 0, retry |-> 0]

Init ==
  /\ CardInit
  /\ armer = [p \in Armers |-> Idle]
  /\ busy = FALSE /\ inhibit = FALSE /\ watchdog = FALSE /\ work = FALSE
  /\ refused = FALSE /\ stray = FALSE

-----------------------------------------------------------------------------
Tap(bit) == (left["tap"] \div bit) % 2 = 1

At(p, where)   == armer[p].pc = where
Goto(p, where) == armer' = [armer EXCEPT ![p].pc = where]

CardStays == UNCHANGED <<driver, status, mailbox, firmware, history>>

\* Captures and cycles are counted from here.
CountAnew ==
  /\ begun' = 0
  /\ unseen' = (drv = "ARM" /\ status.st # "ARM")
  /\ moded' = \/ \E r \in Reporters :
                   report[r].pc = "loaded" /\ report[r].word.cycle # status.cycle
              \/ mboxPc = "beating" /\ beat.cycle # status.cycle
  /\ UNCHANGED <<driver, status, mailbox, firmware, overlapped, locally, late>>

\* Variant: the flag is tested, and set after the arm.
GoAllTakesLate(p) ==
  /\ At(p, "idle") /\ ~ busy
  /\ Spend(IF p \in Blocking THEN "block" ELSE "go")
  /\ armer' = [armer EXCEPT ![p] = [Idle EXCEPT !.pc = "first", !.c0 = status.cycle]]
  /\ inhibit' = (left["tap"] > 0)
  /\ CountAnew
  /\ UNCHANGED <<busy, watchdog, work, refused, stray>>

\* acq32_GoAll, up to its first arm.  (While the flag is taken: EBUSY.)
GoAll(p) ==
  /\ At(p, "idle") /\ ~ busy
  /\ Spend(IF p \in Blocking THEN "block" ELSE "go")
  /\ busy' = TRUE
  /\ armer' = [armer EXCEPT ![p] = [Idle EXCEPT !.pc = "first", !.c0 = status.cycle]]
  /\ inhibit' = (left["tap"] > 0)
  /\ CountAnew
  /\ UNCHANGED <<watchdog, work, refused, stray>>

\* Another command on its own.
Ioctl(p, to) ==
  /\ At(p, "idle")
  /\ Spend("ioctl")
  /\ Goto(p, to)
  /\ CardStays /\ UNCHANGED <<busy, inhibit, watchdog, work, refused, stray>>

\* acq32_SetAbortAll, acq32_SetModeAll.
Abort(p)   == Ioctl(p, "ioctl")
SetMode(p) == Ioctl(p, "mode")

(* Commands. *)
Sent == {"firstSent", "abortSent", "secondSent", "ioctlSent", "modeSent"}

\* mbox_mutex.
Free == \A p \in Armers : armer[p].pc \notin Sent

Send(p, from, what, to) ==
  /\ At(p, from)
  /\ Free
  /\ command' = what
  /\ Spend(what)
  /\ Goto(p, to)
  /\ UNCHANGED <<driver, status, ackbell, firmware, history, busy, inhibit,
                 watchdog, work, refused, stray>>

SendCommand(p) ==
  \/ Send(p, "first", "arm", "firstSent")
  \/ Send(p, "abort", "abort", "abortSent")
  \/ Send(p, "second", "arm", "secondSent")
  \/ Send(p, "ioctl", "abort", "ioctlSent")
  \/ Send(p, "mode", "mode", "modeSent")

Acked(p, where) == At(p, where) /\ command = "acked" /\ UNCHANGED left

\* MAXTIMEOUT polls and no acknowledgement: there will be none, or it is late
\* and the command is still in COMMAND.
TimesOut(p, where) ==
  /\ At(p, where)
  /\ \/ command = "nacked" /\ UNCHANGED left
     \/ command \in Commands /\ Spend("giveup")

HostOnly == CardStays /\ UNCHANGED <<watchdog, work, stray>>

FirstArmed(p) ==
  /\ Acked(p, "firstSent")
  /\ armer' = [armer EXCEPT ![p].c1 = IF Tap(1) THEN status.cycle ELSE 0,
                            ![p].pc = IF Tap(1) THEN "abort" ELSE "launch"]
  /\ HostOnly /\ UNCHANGED <<busy, inhibit, refused>>

\* The return that clears neither flag.
FirstRefused(p) ==
  /\ TimesOut(p, "firstSent")
  /\ armer' = [armer EXCEPT ![p] = Idle]
  /\ refused' = TRUE
  /\ HostOnly /\ UNCHANGED <<busy, inhibit>>

Aborted(p) ==
  /\ Acked(p, "abortSent")
  /\ armer' = [armer EXCEPT ![p].pc = "wait", ![p].next = "second"]
  /\ HostOnly /\ UNCHANGED <<busy, inhibit, refused>>

\* An abort that fails ends the retries.
AbortFailed(p) ==
  /\ TimesOut(p, "abortSent")
  /\ Goto(p, "launch")
  /\ HostOnly /\ UNCHANGED <<busy, inhibit, refused>>

IoctlDone(p) ==
  /\ \E where \in {"ioctlSent", "modeSent"} : Acked(p, where) \/ TimesOut(p, where)
  /\ armer' = [armer EXCEPT ![p] = Idle]
  /\ HostOnly /\ UNCHANGED <<busy, inhibit, refused>>

CycInc(n) == (n + 1) % CYCLES

\* startok, if c2 is the third reading.
StartOk(a, c2) == CycInc(a.c0) = a.c1 /\ CycInc(a.c1) = c2

\* Variant: the retries are counted from nought.
SecondArmedOnceMore(p) ==
  /\ Acked(p, "secondSent")
  /\ armer' = [armer EXCEPT
                 ![p].retry = IF StartOk(armer[p], status.cycle) THEN @ ELSE @ + 1,
                 ![p].pc = IF StartOk(armer[p], status.cycle) THEN "started"
                           ELSE IF armer[p].retry < 2 THEN "abort" ELSE "launch"]
  /\ HostOnly /\ UNCHANGED <<busy, inhibit, refused>>

\* The second arm is in: again from the abort unless CYCLE went up twice.
SecondArmed(p) ==
  /\ Acked(p, "secondSent")
  /\ armer' = [armer EXCEPT
                 ![p].retry = IF StartOk(armer[p], status.cycle) THEN @ ELSE @ + 1,
                 ![p].pc = IF StartOk(armer[p], status.cycle) THEN "started"
                           ELSE IF armer[p].retry + 1 < 2 THEN "abort" ELSE "launch"]
  /\ HostOnly /\ UNCHANGED <<busy, inhibit, refused>>

\* Variant: a refused second arm returns the way the first does.
SecondRefusedReturns(p) ==
  /\ TimesOut(p, "secondSent")
  /\ armer' = [armer EXCEPT ![p] = Idle]
  /\ HostOnly /\ UNCHANGED <<busy, inhibit, refused>>

\* A refused second arm ends the retries.
SecondRefused(p) ==
  /\ TimesOut(p, "secondSent")
  /\ Goto(p, "launch")
  /\ HostOnly /\ UNCHANGED <<busy, inhibit, refused>>

\* The flag is given back, or left to the watchdog.
Launch(p) ==
  /\ At(p, "launch") \/ At(p, "started")
  /\ inhibit' = FALSE
  /\ watchdog' = (watchdog \/ Tap(2))
  /\ busy' = (busy /\ Tap(2))
  /\ armer' = [armer EXCEPT ![p] = IF p \in Blocking THEN [Idle EXCEPT !.pc = "wait"]
                                   ELSE Idle]
  /\ CardStays /\ UNCHANGED <<left, work, refused, stray>>

\* set_arm_wdt signs off; STATUS never has its error bit set by this firmware.
SignOff ==
  /\ watchdog
  /\ watchdog' = FALSE
  /\ busy' = FALSE
  /\ CardStays /\ UNCHANGED <<left, armer, inhibit, work, refused, stray>>

-----------------------------------------------------------------------------
(* BlockTillStopped. *)
\* The wait is over.
GoOn(a) == IF a.next = "idle" THEN Idle ELSE [a EXCEPT !.pc = a.next, !.next = "idle"]

WaitOnly == CardStays /\ UNCHANGED <<left, busy, watchdog, refused>>

\* Waits between the two arms end with the delivery of state changes allowed.
Over(p) ==
  /\ armer' = [armer EXCEPT ![p] = GoOn(armer[p])]
  /\ inhibit' = (inhibit /\ armer[p].next # "second")

AlreadyStopped(p) ==
  /\ At(p, "wait")
  /\ status.st = "STOP"
  /\ Over(p)
  /\ WaitOnly /\ UNCHANGED <<work, stray>>

QueueTask(p) ==
  /\ At(p, "wait")
  /\ status.st # "STOP"
  /\ work' = TRUE
  /\ Goto(p, "queued")
  /\ WaitOnly /\ UNCHANGED <<inhibit, stray>>

Sleep(p) ==
  /\ At(p, "queued")
  /\ Goto(p, "asleep")
  /\ WaitOnly /\ UNCHANGED <<inhibit, work, stray>>

WakeAll ==
  armer' = [p \in Armers |-> IF At(p, "asleep") THEN [armer[p] EXCEPT !.pc = "woken"]
                             ELSE armer[p]]

\* Variant: the task is queued again although it has woken the waiters.
PollAgain ==
  /\ work
  /\ status.st = "STOP"
  /\ WakeAll
  /\ WaitOnly /\ UNCHANGED <<inhibit, work, stray>>

\* The task runs at each tick until it sees STOP; a process that has not gone
\* to sleep yet is not woken.
PollStopped ==
  /\ work
  /\ status.st = "STOP"
  /\ WakeAll
  /\ work' = FALSE
  /\ WaitOnly /\ UNCHANGED <<inhibit, stray>>

\* An acknowledgement wakes those who wait for STOP as well.
AckIsr ==
  /\ ackbell
  /\ ackbell' = FALSE
  /\ WakeAll
  /\ stray' = (stray \/ \E p \in Armers : At(p, "asleep"))
  /\ UNCHANGED <<driver, status, command, firmware, left, history, busy, inhibit,
                 watchdog, work, refused>>

Signal(p) ==
  /\ At(p, "asleep")
  /\ Spend("signal")
  /\ Goto(p, "woken")
  /\ stray' = TRUE
  /\ CardStays /\ UNCHANGED <<busy, inhibit, watchdog, work, refused>>

Woken(p) ==
  /\ At(p, "woken")
  /\ Over(p)
  /\ WaitOnly /\ UNCHANGED <<work, stray>>

-----------------------------------------------------------------------------
Armer(p) ==
  \/ SendCommand(p)
  \/ FirstArmed(p) \/ FirstRefused(p) \/ Aborted(p) \/ AbortFailed(p) \/ IoctlDone(p)
  \/ SecondArmed(p) \/ SecondRefused(p) \/ Launch(p)
  \/ AlreadyStopped(p) \/ QueueTask(p) \/ Sleep(p) \/ Woken(p)

Next ==
  \/ CardNext /\ UNCHANGED host
  \/ \E p \in Armers : GoAll(p) \/ Abort(p) \/ SetMode(p) \/ Signal(p) \/ Armer(p)
  \/ SignOff \/ PollStopped \/ AckIsr

Spec == Init /\ [][Next]_vars

\* The card's threads and managers are scheduled, and a postprocessing job ends.
\* Nothing is asked of the host, and a trigger may never come.
Fairness ==
  /\ WF_vars(MboxThread /\ UNCHANGED host)
  /\ WF_vars(LocalThread /\ UNCHANGED host)
  /\ \A m \in Managers : WF_vars(Manager(m) /\ UNCHANGED host)

FairSpec == Spec /\ Fairness

-----------------------------------------------------------------------------
ArmerPcs ==
  {"idle", "first", "abort", "second", "ioctl", "mode", "launch", "started", "wait",
   "queued", "asleep", "woken"} \cup Sent

\* Card and host are somewhere in their code, and a process arms three times at
\* most in one call.
TypeOK ==
  /\ CardTypeOK
  /\ armer \in [Armers -> [pc : ArmerPcs, next : {"idle", "second"},
                           c0 : 0 .. CYCLES - 1, c1 : 0 .. CYCLES - 1,
                           retry : 0 .. 2]]
  /\ \A p \in Armers : At(p, "abort") => armer[p].retry < 2
  /\ busy \in BOOLEAN /\ inhibit \in BOOLEAN /\ watchdog \in BOOLEAN
  /\ work \in BOOLEAN /\ refused \in BOOLEAN /\ stray \in BOOLEAN

\* In the middle of arming, before the flag is given back or left to the watchdog.
Arms(p) ==
  \/ armer[p].pc \in {"first", "firstSent", "abort", "abortSent", "second",
                      "secondSent", "launch", "started"}
  \/ armer[p].next = "second"

\* One process arms at a time, or the watchdog of one that has armed is queued,
\* and set_arm.busy is set meanwhile: no arm starts between the two arms of
\* another process, and the watchdog's task is never set up again while queued.
OneArmer ==
  /\ \A p, q \in Armers : Arms(p) /\ Arms(q) => p = q
  /\ watchdog => \A p \in Armers : ~ Arms(p)
  /\ watchdog \/ (\E p \in Armers : Arms(p)) => busy

\* Two cycles are two captures: GoAll is satisfied with its double tap only if
\* two captures have begun since it took the flag, although it reads CYCLE
\* while the card reports in its own time.  (Unless a capture that began before
\* has still to be reported, a SET_MODE sets CYCLE to nought, arms overlap on the
\* card, a local command reports besides, or a report of ARM comes too late: each
\* breaks it.)
DoubleTapTrue ==
  \A p \in Armers :
    At(p, "started") /\ ~ unseen /\ ~ moded /\ ~ overlapped /\ ~ locally /\ ~ late
      => begun = 2

\* The polling task is queued only while a process waits for it, until one is
\* woken by something else: then the task stays queued, and the next wait sets
\* it up again under the timer queue's feet.
TaskHasWaiter ==
  work /\ ~ stray => \E p \in Armers : At(p, "queued") \/ At(p, "asleep")

\* The flags of an arm are not left behind: set_arm.busy is taken and the state
\* changes are inhibited only while a process arms, or the watchdog is to clear
\* the first, except that a first arm that is refused leaves both for good.
FlagsOwned ==
  /\ busy => watchdog \/ refused \/ \E p \in Armers : Arms(p)
  /\ inhibit => refused \/ \E p \in Armers : Arms(p)
=============================================================================
