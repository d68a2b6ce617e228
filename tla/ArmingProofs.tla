----------------------------- MODULE ArmingProofs -----------------------------
(***************************************************************************)
(* Theorems about Arming and the card of Capture: types, the owners of     *)
(* set_arm.busy and cos.inhibit, the waiter of the polling task, STOP, and *)
(* the double tap.                                                         *)
(***************************************************************************)
EXTENDS Arming, TLAPS

-----------------------------------------------------------------------------
(* The types of the card.                                                  *)

\* What a report leaves behind, whoever made it.
LEMMA ReportedType ==
  ASSUME CardTypeOK, NEW r \in Reporters, NEW st \in States, Reported(r, st)
  PROVE  /\ report' \in [Reporters -> [pc : {"idle", "sampled", "loaded"},
                                       st : States, word : Words]]
         /\ mboxPc' \in MboxPcs /\ localPc' \in LocalPcs
         /\ manager' \in [Managers -> ManagerPcs]
  <1> USE DEF CardTypeOK, Reported, ManagerPcs
  <1>1. Silent \in [pc : {"idle", "sampled", "loaded"}, st : States, word : Words]
    BY DEF Silent, States, Words, NoWord, CYCLES
  <1>2. report' \in [Reporters -> [pc : {"idle", "sampled", "loaded"},
                                   st : States, word : Words]]
    BY <1>1
  <1>3. mboxPc' \in MboxPcs
    BY DEF MboxPcs
  <1>4. localPc' \in LocalPcs
    BY DEF LocalPcs
  <1>5. manager' \in [Managers -> ManagerPcs]
    OBVIOUS
  <1> QED BY <1>2, <1>3, <1>4, <1>5

\* A step of a report, by any of its four kinds of reporter.
LEMMA ReportType ==
  ASSUME CardTypeOK, NEW r \in Reporters, Report(r)
  PROVE  CardTypeOK'
  <1> USE DEF ReportOnly, driver, mailbox
  <1>1. report[r] \in [pc : {"idle", "sampled", "loaded"}, st : States, word : Words]
    BY DEF CardTypeOK
  <1>2. CASE Sample(r)
    <2>1. [pc |-> "sampled", st |-> drv, word |-> NoWord]
            \in [pc : {"idle", "sampled", "loaded"}, st : States, word : Words]
      BY DEF CardTypeOK, States, Words, NoWord, CYCLES
    <2> QED BY <1>2, <2>1 DEF Sample, CardTypeOK
  <1>3. CASE Load(r)
    <2>1. CASE status.st = report[r].st /\ Reported(r, report[r].st)
      BY <1>1, <1>3, <2>1, ReportedType DEF Load, CardTypeOK
    <2>2. CASE /\ report' = [report EXCEPT ![r].pc = "loaded", ![r].word = status]
               /\ UNCHANGED <<manager, mboxPc, localPc>>
      <3>1. [report[r] EXCEPT !.pc = "loaded", !.word = status]
              \in [pc : {"idle", "sampled", "loaded"}, st : States, word : Words]
        BY <1>1 DEF CardTypeOK
      <3>2. report' = [report EXCEPT ![r] = [report[r] EXCEPT !.pc = "loaded",
                                                              !.word = status]]
        BY <1>1, <2>2 DEF CardTypeOK
      <3>3. report' \in [Reporters -> [pc : {"idle", "sampled", "loaded"},
                                       st : States, word : Words]]
        BY <3>1, <3>2 DEF CardTypeOK
      <3> QED BY <1>3, <2>2, <3>3 DEF Load, CardTypeOK
    <2> QED BY <1>3, <2>1, <2>2 DEF Load
  <1>4. CASE Store(r)
    <2>1. status' \in Words
      BY <1>1, <1>4 DEF Store, CardTypeOK, Words, CYCLES
    <2> QED BY <1>1, <1>4, <2>1, ReportedType DEF Store, CardTypeOK
  <1> QED BY <1>2, <1>3, <1>4 DEF Report

LEMMA EndCaptureType ==
  ASSUME CardTypeOK, EndCapture
  PROVE  /\ drv' \in States /\ phase' \in {"none", "armed", "triggered"}
         /\ success' \in BOOLEAN /\ manager' \in [Managers -> ManagerPcs]
  BY DEF CardTypeOK, EndCapture, driver, States, ManagerPcs

LEMMA ForkType ==
  ASSUME CardTypeOK, Fork
  PROVE  manager' \in [Managers -> ManagerPcs] /\ overlapped' \in BOOLEAN
  <1>1. CASE UNCHANGED <<manager, overlapped>>
    BY <1>1 DEF CardTypeOK
  <1>2. CASE ~ UNCHANGED <<manager, overlapped>>
    BY <1>2 DEF CardTypeOK, Fork, ManagerPcs
  <1> QED BY <1>1, <1>2

\* The mailbox thread.
LEMMA MboxType ==
  ASSUME CardTypeOK, MboxThread
  PROVE  CardTypeOK'
  <1> USE DEF MboxOnly, driver, mailbox, history, Answers, Ack, MboxPcs
  <1>1. CASE Report(Mbox)
    BY <1>1, ReportType DEF Reporters
  <1>2. CASE NoCommand
    BY <1>2 DEF NoCommand, CardTypeOK
  <1>3. CASE TakeAbort
    BY <1>3, EndCaptureType DEF TakeAbort, CardTypeOK
  <1>4. CASE RefuseLong
    BY <1>4 DEF RefuseLong, CardTypeOK
  <1>5. CASE TakeArm
    BY <1>5 DEF TakeArm, CardTypeOK
  <1>6. CASE MboxFork
    BY <1>6, ForkType DEF MboxFork, CardTypeOK
  <1>7. CASE AckAgain
    BY <1>7 DEF AckAgain, CardTypeOK
  <1>8. CASE BeatLoad
    BY <1>8 DEF BeatLoad, CardTypeOK
  <1>9. CASE BeatStore
    BY <1>9 DEF BeatStore, CardTypeOK, Words, NoWord, States, CYCLES
  <1>10. CASE TakeMode \/ ModeLoad
    BY <1>10 DEF TakeMode, ModeLoad, CardTypeOK
  <1>11. CASE ModeStore
    BY <1>11 DEF ModeStore, CardTypeOK, Words, NoWord, States, CYCLES
  <1> QED BY <1>1, <1>2, <1>3, <1>4, <1>5, <1>6, <1>7, <1>8, <1>9, <1>10, <1>11
     DEF MboxThread

\* The thread of local commands.
LEMMA LocalType ==
  ASSUME CardTypeOK, LocalCommand \/ LocalThread
  PROVE  CardTypeOK'
  <1> USE DEF LocalOnly, driver, mailbox, history, Answers, Ack, LocalPcs
  <1>1. CASE LocalGetState
    BY <1>1 DEF LocalGetState, CardTypeOK
  <1>2. CASE LocalSetArm
    BY <1>2 DEF LocalSetArm, CardTypeOK
  <1>3. CASE LocalSetAbort
    BY <1>3, EndCaptureType DEF LocalSetAbort, CardTypeOK
  <1>4. CASE Report(Local)
    BY <1>4, ReportType DEF Reporters
  <1>5. CASE LocalFork
    BY <1>5, ForkType DEF LocalFork, CardTypeOK
  <1>6. CASE LocalAck
    BY <1>6 DEF LocalAck, CardTypeOK
  <1> QED BY <1>1, <1>2, <1>3, <1>4, <1>5, <1>6 DEF LocalCommand, LocalThread

\* A manager and its child.
LEMMA ManagerType ==
  ASSUME CardTypeOK, NEW m \in Managers, Manager(m)
  PROVE  CardTypeOK'
  <1> USE DEF ManagerOnly, driver, mailbox, history, To, ManagerPcs
  <1>1. CASE Report(m)
    BY <1>1, ReportType DEF Reporters
  <1>2. CASE OpenOneshot(m)
    <2>1. begun' \in 0 .. 2
      BY <1>2 DEF OpenOneshot, CardTypeOK
    <2>2. /\ drv' \in States /\ phase' \in {"none", "armed", "triggered"}
          /\ success' \in BOOLEAN
      BY <1>2 DEF OpenOneshot, CardTypeOK, States
    <2>3. manager' \in [Managers -> ManagerPcs]
      BY <1>2 DEF OpenOneshot, CardTypeOK
    <2> QED BY <1>2, <2>1, <2>2, <2>3 DEF OpenOneshot, CardTypeOK
  <1>3. CASE CaptureDone(m)
    BY <1>3 DEF CaptureDone, CardTypeOK, States
  <1>4. CASE Postamble(m)
    <2>1. manager' \in [Managers -> ManagerPcs] /\ drv' \in States
      BY <1>4 DEF Postamble, CardTypeOK, States
    <2> QED BY <1>4, <2>1 DEF Postamble, CardTypeOK
  <1>5. CASE SpawnPp(m)
    <2>1. manager' \in [Managers -> ManagerPcs]
      BY <1>5 DEF SpawnPp, CardTypeOK
    <2> QED BY <1>5, <2>1 DEF SpawnPp, CardTypeOK
  <1>6. CASE JobEnds(m)
    BY <1>6 DEF JobEnds, CardTypeOK
  <1>7. CASE OnStop(m)
    BY <1>7 DEF OnStop, CardTypeOK, States
  <1>8. CASE NoChild(m)
    BY <1>8 DEF NoChild, CardTypeOK
  <1> QED BY <1>1, <1>2, <1>3, <1>4, <1>5, <1>6, <1>7, <1>8 DEF Manager

LEMMA CardType ==
  ASSUME CardTypeOK, CardNext
  PROVE  CardTypeOK'
  <1>1. CASE Trigger
    BY <1>1 DEF Trigger, ManagerOnly, mailbox, history, CardTypeOK, States
  <1> QED BY <1>1, MboxType, LocalType, ManagerType DEF CardNext

-----------------------------------------------------------------------------
(* The types of the host, with what they rest on: a process is in the wait *)
(* between its two arms only while it waits, and arms again only after     *)
(* fewer than two retries.                                                 *)
ArmerType == [pc : ArmerPcs, next : {"idle", "second"}, c0 : 0 .. CYCLES - 1,
              c1 : 0 .. CYCLES - 1, retry : 0 .. 2]

Waits == {"wait", "queued", "asleep", "woken"}

Sound(a) ==
  /\ a \in ArmerType
  /\ a.next = "second" => a.pc \in Waits
  /\ \/ a.pc \in {"first", "firstSent", "abort", "abortSent", "second", "secondSent"}
     \/ a.next = "second"
     => a.retry < 2

FlagsType ==
  /\ busy \in BOOLEAN /\ inhibit \in BOOLEAN /\ watchdog \in BOOLEAN
  /\ work \in BOOLEAN /\ refused \in BOOLEAN /\ stray \in BOOLEAN

TypeInv ==
  /\ CardTypeOK
  /\ armer \in [Armers -> ArmerType]
  /\ \A p \in Armers : Sound(armer[p])
  /\ FlagsType

LEMMA TypeInvType ==
  ASSUME TypeInv
  PROVE  TypeOK
  BY DEF TypeInv, TypeOK, ArmerType, Sound, FlagsType, At

LEMMA IdleSound == Sound(Idle) /\ Idle.pc = "idle" /\ Idle.next = "idle"
  BY DEF Sound, Idle, ArmerType, ArmerPcs, CYCLES

\* A step in which one process comes to a, and the card stays well-typed.
LEMMA StepType ==
  ASSUME TypeInv, NEW p \in Armers, NEW a, Sound(a),
         armer' = [armer EXCEPT ![p] = a], CardTypeOK', FlagsType'
  PROVE  TypeInv'
  <1>1. a \in ArmerType
    BY DEF Sound
  <1> QED BY <1>1 DEF TypeInv

\* A step of the host that leaves the card alone.
LEMMA CardStaysType ==
  ASSUME CardTypeOK, CardStays
  PROVE  CardTypeOK'
  BY DEF CardTypeOK, CardStays, driver, mailbox, firmware, history

\* A command is sent.
LEMMA SendType ==
  ASSUME TypeInv, NEW p \in Armers, SendCommand(p)
  PROVE  TypeInv'
  <1>1. ASSUME NEW from, NEW what \in Commands, NEW to \in ArmerPcs,
               Send(p, from, what, to), Sound([armer[p] EXCEPT !.pc = to])
        PROVE  TypeInv'
    <2>1. CardTypeOK'
      BY <1>1 DEF Send, TypeInv, CardTypeOK, driver, firmware, history
    <2>2. FlagsType'
      BY <1>1 DEF Send, TypeInv, FlagsType, history
    <2>3. armer' = [armer EXCEPT ![p] = [armer[p] EXCEPT !.pc = to]]
      BY <1>1 DEF Send, Goto, TypeInv
    <2> QED BY <1>1, <2>1, <2>2, <2>3, StepType
  <1>2. armer[p] \in ArmerType /\ Sound(armer[p])
    BY DEF TypeInv
  <1>3. /\ At(p, "first") => Sound([armer[p] EXCEPT !.pc = "firstSent"])
        /\ At(p, "abort") => Sound([armer[p] EXCEPT !.pc = "abortSent"])
        /\ At(p, "second") => Sound([armer[p] EXCEPT !.pc = "secondSent"])
        /\ At(p, "ioctl") => Sound([armer[p] EXCEPT !.pc = "ioctlSent"])
        /\ At(p, "mode") => Sound([armer[p] EXCEPT !.pc = "modeSent"])
    BY <1>2 DEF At, Sound, ArmerType, ArmerPcs, Sent, Waits
  <1>4. {"firstSent", "abortSent", "secondSent", "ioctlSent", "modeSent"} \subseteq ArmerPcs
    BY DEF ArmerPcs, Sent
  <1> QED BY <1>1, <1>3, <1>4 DEF SendCommand, Commands, Send

\* The steps of one process after its commands, and in its waits.
LEMMA ArmerStepType ==
  ASSUME TypeInv, NEW p \in Armers, Armer(p)
  PROVE  TypeInv'
  <1> USE DEF HostOnly, WaitOnly
  <1>1. armer[p] \in ArmerType /\ Sound(armer[p])
    BY DEF TypeInv
  <1>2. FlagsType /\ CardTypeOK
    BY DEF TypeInv
  <1>3. status.cycle \in 0 .. CYCLES - 1
    BY DEF TypeInv, CardTypeOK, Words
  <1>4. ASSUME NEW a, Sound(a), armer' = [armer EXCEPT ![p] = a], FlagsType',
               CardStays
        PROVE  TypeInv'
    BY <1>2, <1>4, StepType, CardStaysType
  <1>5. CASE SendCommand(p)
    BY <1>5, SendType
  <1>6. CASE FirstArmed(p)
    <2> DEFINE a == [armer[p] EXCEPT !.c1 = IF Tap(1) THEN status.cycle ELSE 0,
                                     !.pc = IF Tap(1) THEN "abort" ELSE "launch"]
    <2>0. armer[p].retry < 2 /\ armer[p].next = "idle"
      BY <1>1, <1>6 DEF FirstArmed, Acked, At, Sound, ArmerType, Waits
    <2>1. Sound(a)
      <3> DEFINE c == IF Tap(1) THEN status.cycle ELSE 0
      <3>1. c \in 0 .. CYCLES - 1
        BY <1>3 DEF CYCLES
      <3> HIDE DEF c
      <3>2. /\ [armer[p] EXCEPT !.c1 = c, !.pc = "abort"] \in ArmerType
            /\ [armer[p] EXCEPT !.c1 = c, !.pc = "launch"] \in ArmerType
        BY <1>1, <3>1 DEF ArmerType, ArmerPcs
      <3>3. /\ Sound([armer[p] EXCEPT !.c1 = c, !.pc = "abort"])
            /\ Sound([armer[p] EXCEPT !.c1 = c, !.pc = "launch"])
        BY <1>1, <2>0, <3>2 DEF Sound, ArmerType
      <3> QED BY <3>3 DEF c
    <2>2. armer' = [armer EXCEPT ![p] = a] /\ FlagsType' /\ CardStays
      BY <1>2, <1>6 DEF FirstArmed, TypeInv, FlagsType
    <2> QED BY <1>4, <2>1, <2>2
  <1>7. CASE FirstRefused(p) \/ IoctlDone(p)
    BY <1>2, <1>4, <1>7, IdleSound DEF FirstRefused, IoctlDone, FlagsType
  <1>8. CASE Aborted(p)
    <2> DEFINE a == [armer[p] EXCEPT !.pc = "wait", !.next = "second"]
    <2>1. Sound(a)
      BY <1>1, <1>8 DEF Aborted, Acked, At, Sound, ArmerType, ArmerPcs, Waits
    <2>2. armer' = [armer EXCEPT ![p] = a] /\ FlagsType' /\ CardStays
      BY <1>2, <1>8 DEF Aborted, TypeInv, FlagsType
    <2> QED BY <1>4, <2>1, <2>2
  <1>9. CASE SecondArmed(p)
    <2> DEFINE ok == StartOk(armer[p], status.cycle)
               a  == [armer[p] EXCEPT !.retry = IF ok THEN @ ELSE @ + 1,
                        !.pc = IF ok THEN "started"
                               ELSE IF armer[p].retry + 1 < 2 THEN "abort"
                               ELSE "launch"]
    <2>1. armer' = [armer EXCEPT ![p] = a] /\ FlagsType' /\ CardStays
      BY <1>2, <1>9 DEF SecondArmed, TypeInv, FlagsType
    <2>2. armer[p].retry \in 0 .. 1 /\ armer[p].next = "idle"
      BY <1>1, <1>9 DEF SecondArmed, Acked, At, Sound, ArmerType, Waits
    <2>3. Sound(a)
      <3> DEFINE r == IF ok THEN armer[p].retry ELSE armer[p].retry + 1
                 w == IF ok THEN "started"
                      ELSE IF armer[p].retry + 1 < 2 THEN "abort" ELSE "launch"
      <3>1. r \in 0 .. 2 /\ w \in {"started", "abort", "launch"} /\ (w = "abort" => r < 2)
        BY <2>2
      <3>2. a = [armer[p] EXCEPT !.retry = r, !.pc = w]
        BY <1>1 DEF ArmerType
      <3> HIDE DEF r, w, a
      <3>3. /\ a \in ArmerType /\ a.pc = w /\ a.retry = r
            /\ a.next = "idle"
        BY <1>1, <2>2, <3>1, <3>2 DEF ArmerType, ArmerPcs
      <3> QED BY <3>1, <3>3 DEF Sound
    <2> QED BY <1>4, <2>1, <2>3
  <1>10. CASE SecondRefused(p) \/ AbortFailed(p)
    <2> DEFINE a == [armer[p] EXCEPT !.pc = "launch"]
    <2>1. Sound(a)
      BY <1>1, <1>10 DEF SecondRefused, AbortFailed, TimesOut, At, Sound, ArmerType,
         ArmerPcs, Waits
    <2>2. armer' = [armer EXCEPT ![p] = a] /\ FlagsType' /\ CardStays
      BY <1>2, <1>10 DEF SecondRefused, AbortFailed, Goto, TypeInv, FlagsType
    <2> QED BY <1>4, <2>1, <2>2
  <1>11. CASE Launch(p)
    <2> DEFINE a == IF p \in Blocking THEN [Idle EXCEPT !.pc = "wait"] ELSE Idle
    <2>1. Sound(a)
      BY IdleSound DEF Sound, Idle, ArmerType, ArmerPcs
    <2>2. armer' = [armer EXCEPT ![p] = a] /\ FlagsType' /\ CardStays
      BY <1>2, <1>11 DEF Launch, FlagsType, Tap
    <2> QED BY <1>4, <2>1, <2>2
  <1>12. CASE AlreadyStopped(p) \/ Woken(p)
    <2>1. Sound(GoOn(armer[p]))
      BY <1>1, IdleSound DEF GoOn, Sound, ArmerType, ArmerPcs, Waits
    <2>2. armer' = [armer EXCEPT ![p] = GoOn(armer[p])] /\ FlagsType' /\ CardStays
      BY <1>2, <1>12 DEF AlreadyStopped, Woken, Over, FlagsType
    <2> QED BY <1>4, <2>1, <2>2
  <1>13. ASSUME NEW to \in {"queued", "asleep"}, armer[p].pc \in Waits, Goto(p, to),
                FlagsType', CardStays
         PROVE  TypeInv'
    <2> DEFINE a == [armer[p] EXCEPT !.pc = to]
    <2>1. Sound(a)
      BY <1>1, <1>13 DEF Sound, ArmerType, ArmerPcs, Waits
    <2>2. armer' = [armer EXCEPT ![p] = a]
      BY <1>13 DEF Goto, TypeInv
    <2> QED BY <1>4, <1>13, <2>1, <2>2
  <1>14. CASE QueueTask(p) \/ Sleep(p)
    BY <1>2, <1>13, <1>14 DEF QueueTask, Sleep, At, Waits, FlagsType
  <1> QED BY <1>5, <1>6, <1>7, <1>8, <1>9, <1>10, <1>11, <1>12, <1>14 DEF Armer

\* A process takes to arming or aborting, or a signal wakes it.
LEMMA CallType ==
  ASSUME TypeInv, NEW p \in Armers, GoAll(p) \/ Abort(p) \/ SetMode(p) \/ Signal(p)
  PROVE  TypeInv'
  <1>1. armer[p] \in ArmerType /\ Sound(armer[p])
    BY DEF TypeInv
  <1>2. CASE GoAll(p)
    <2> DEFINE a == [Idle EXCEPT !.pc = "first", !.c0 = status.cycle]
    <2>1. Sound(a)
      <3>1. status.cycle \in 0 .. CYCLES - 1
        BY DEF TypeInv, CardTypeOK, Words
      <3>2. a \in ArmerType
        <4>1. ASSUME NEW c \in 0 .. CYCLES - 1
              PROVE  [[Idle EXCEPT !.pc = "first"] EXCEPT !.c0 = c] \in ArmerType
          <5>1. "first" \in ArmerPcs
            BY DEF ArmerPcs
          <5> QED BY <5>1, IdleSound DEF ArmerType, Sound
        <4> QED BY <3>1, <4>1
      <3>3. a.pc = "first" /\ a.next = "idle" /\ a.retry = 0
        BY DEF Idle
      <3> QED BY <3>2, <3>3 DEF Sound
    <2>2. CardTypeOK'
      BY <1>2 DEF GoAll, CountAnew, TypeInv, CardTypeOK, driver, mailbox, firmware
    <2>3. FlagsType'
      BY <1>2 DEF GoAll, TypeInv, FlagsType
    <2> QED BY <1>2, <2>1, <2>2, <2>3, StepType DEF GoAll
  <1>3. CASE Abort(p) \/ SetMode(p) \/ Signal(p)
    <2> USE DEF Abort, SetMode, Ioctl, Signal
    <2>1. PICK to \in {"ioctl", "mode", "woken"} :
            /\ Goto(p, to)
            /\ IF to = "woken" THEN At(p, "asleep") ELSE At(p, "idle")
      BY <1>3
    <2> DEFINE a == [armer[p] EXCEPT !.pc = to]
    <2>2. armer' = [armer EXCEPT ![p] = a]
      BY <2>1 DEF Goto, TypeInv
    <2>3. Sound(a)
      BY <1>1, <2>1 DEF At, Sound, ArmerType, ArmerPcs, Waits
    <2>4. CardTypeOK'
      BY <1>3, CardStaysType DEF TypeInv
    <2>5. FlagsType'
      BY <1>3 DEF TypeInv, FlagsType
    <2> QED BY <2>2, <2>3, <2>4, <2>5, StepType
  <1> QED BY <1>2, <1>3

LEMMA WakeType ==
  ASSUME TypeInv, WakeAll
  PROVE  armer' \in [Armers -> ArmerType] /\ \A p \in Armers : Sound(armer'[p])
  <1>1. ASSUME NEW p \in Armers
        PROVE  Sound(armer'[p])
    <2>1. Sound(armer[p])
      BY DEF TypeInv
    <2>2. CASE At(p, "asleep")
      <3>1. armer'[p] = [armer[p] EXCEPT !.pc = "woken"]
        BY <2>2 DEF WakeAll
      <3> QED BY <2>1, <2>2, <3>1 DEF Sound, At, ArmerType, ArmerPcs, Waits
    <2>3. CASE ~ At(p, "asleep")
      BY <2>1, <2>3 DEF WakeAll
    <2> QED BY <2>2, <2>3
  <1>2. \A p \in Armers : armer'[p] \in ArmerType
    BY <1>1 DEF Sound
  <1> QED BY <1>1, <1>2 DEF WakeAll

LEMMA TypeStep == TypeInv /\ [Next]_vars => TypeInv'
  <1> SUFFICES ASSUME TypeInv, [Next]_vars
               PROVE  TypeInv'
    OBVIOUS
  <1>1. CASE CardNext /\ UNCHANGED host
    BY <1>1, CardType DEF TypeInv, FlagsType, host
  <1>2. ASSUME NEW p \in Armers, GoAll(p) \/ Abort(p) \/ SetMode(p) \/ Signal(p) \/ Armer(p)
        PROVE  TypeInv'
    BY <1>2, CallType, ArmerStepType
  <1>3. CASE SignOff
    BY <1>3, CardStaysType DEF SignOff, TypeInv, FlagsType
  <1>4. CASE PollStopped
    BY <1>4, CardStaysType, WakeType DEF PollStopped, WaitOnly, TypeInv, FlagsType
  <1>5. CASE AckIsr
    <2> USE DEF AckIsr, driver, firmware, history
    <2>1. CardTypeOK /\ ackbell' \in BOOLEAN
      BY <1>5 DEF TypeInv
    <2>2. /\ UNCHANGED <<drv, phase, success, status, command, manager, report>>
          /\ UNCHANGED <<mboxPc, beat, localPc, begun, unseen, moded, overlapped,
                         locally, late>>
      BY <1>5
    <2>3. CardTypeOK'
      BY <2>1, <2>2 DEF CardTypeOK
    <2>4. FlagsType'
      BY <1>5 DEF TypeInv, FlagsType
    <2> QED BY <1>5, <2>3, <2>4, WakeType DEF TypeInv
  <1>6. CASE UNCHANGED vars
    BY <1>6, CardStaysType DEF vars, host, card, CardStays, TypeInv, FlagsType
  <1> QED BY <1>1, <1>2, <1>3, <1>4, <1>5, <1>6 DEF Next

\* The host reads the card and writes COMMAND; what is counted of the card starts
\* afresh with GoAll.
LEMMA HostFrame ==
  ASSUME [Next]_vars, ~ (CardNext /\ UNCHANGED host)
  PROVE  /\ UNCHANGED <<drv, phase, success, status, manager, report, mboxPc, beat,
                        localPc, overlapped, locally, late>>
         /\ (\A p \in Armers : ~ GoAll(p)) => UNCHANGED <<begun, unseen, moded>>
  <1> USE DEF driver, firmware, history, CardStays
  <1>1. ASSUME NEW p \in Armers, GoAll(p)
        PROVE  UNCHANGED <<drv, phase, success, status, manager, report, mboxPc, beat,
                           localPc, overlapped, locally, late>>
    BY <1>1 DEF GoAll, CountAnew
  <1>2. ASSUME NEW p \in Armers, Abort(p) \/ SetMode(p) \/ Signal(p) \/ Armer(p)
        PROVE  UNCHANGED <<driver, status, firmware, history>>
    <2>1. CASE Abort(p) \/ SetMode(p) \/ Signal(p) \/ SendCommand(p)
      BY <2>1 DEF Abort, SetMode, Ioctl, Signal, SendCommand, Send
    <2>2. CASE ~ (Abort(p) \/ SetMode(p) \/ Signal(p) \/ SendCommand(p))
      BY <1>2, <2>2 DEF Armer, FirstArmed, FirstRefused, Aborted, AbortFailed, IoctlDone,
         SecondArmed, SecondRefused, Launch, AlreadyStopped, QueueTask, Sleep, Woken,
         HostOnly, WaitOnly
    <2> QED BY <2>1, <2>2
  <1>3. ASSUME SignOff \/ PollStopped \/ AckIsr \/ UNCHANGED vars
        PROVE  UNCHANGED <<driver, status, firmware, history>>
    BY <1>3 DEF SignOff, PollStopped, AckIsr, WaitOnly, vars, card
  <1> QED BY <1>1, <1>2, <1>3 DEF Next

LEMMA TypeInit == Init => TypeInv
  <1> SUFFICES ASSUME Init
               PROVE  TypeInv
    OBVIOUS
  <1>1. CardTypeOK
    <2>1. NoWord \in Words
      BY DEF NoWord, Words, States, CYCLES
    <2>2. Silent \in [pc : {"idle", "sampled", "loaded"}, st : States, word : Words]
      BY <2>1 DEF Silent, States
    <2>3. report \in [Reporters -> [pc : {"idle", "sampled", "loaded"}, st : States,
                                    word : Words]]
      BY <2>2 DEF Init, CardInit
    <2>4. manager \in [Managers -> ManagerPcs]
      BY DEF Init, CardInit, ManagerPcs
    <2>5. /\ success \in BOOLEAN /\ ackbell \in BOOLEAN
          /\ unseen \in BOOLEAN /\ moded \in BOOLEAN /\ overlapped \in BOOLEAN
          /\ locally \in BOOLEAN /\ late \in BOOLEAN
      BY DEF Init, CardInit
    <2>6. drv \in States /\ beat \in Words /\ command \in Commands \cup Answers
      BY <2>1 DEF Init, CardInit, States, Answers
    <2>7. /\ phase \in {"none", "armed", "triggered"} /\ begun \in 0 .. 2
          /\ mboxPc \in MboxPcs /\ localPc \in LocalPcs
      BY DEF Init, CardInit, MboxPcs, LocalPcs
    <2>8. status \in Words
      <3>1. left["armed"] \in Nat
        BY CaptureAssumption DEF Init, CardInit, Things
      <3>2. left["armed"] % CYCLES \in 0 .. CYCLES - 1
        BY <3>1 DEF CYCLES
      <3> QED BY <3>2 DEF Init, CardInit, NoWord, Words, States
    <2> QED BY <2>3, <2>4, <2>5, <2>6, <2>7, <2>8 DEF CardTypeOK
  <1>2. armer \in [Armers -> ArmerType] /\ \A p \in Armers : Sound(armer[p])
    BY IdleSound DEF Init, Sound
  <1> QED BY <1>1, <1>2 DEF Init, TypeInv, FlagsType

\* Card and host keep to their types whatever arms, aborts, signals and local
\* commands come, and one call arms three times at most: its retries stay below
\* the bound of acq32_GoAll.
THEOREM TypeCorrect == Spec => []TypeOK
  <1>1. Spec => []TypeInv
    BY TypeInit, TypeStep, PTL DEF Spec
  <1> QED BY <1>1, TypeInvType, PTL

-----------------------------------------------------------------------------
(* The flags and their owners.                                             *)

\* Arms(p), of a record.
ArmsRec(a) ==
  \/ a.pc \in {"first", "firstSent", "abort", "abortSent", "second", "secondSent",
               "launch", "started"}
  \/ a.next = "second"

Owned == OneArmer /\ FlagsOwned

\* Neither flag changes hands in a step of a process that goes on arming, or
\* goes on doing something else.
LEMMA KeepsOwned ==
  ASSUME TypeInv, Owned, NEW p \in Armers, NEW a, armer' = [armer EXCEPT ![p] = a],
         ArmsRec(a) <=> Arms(p), inhibit' => inhibit,
         UNCHANGED <<busy, watchdog, refused>>
  PROVE  Owned'
  <1>1. \A q \in Armers : Arms(q)' <=> Arms(q)
    BY DEF Arms, ArmsRec, TypeInv
  <1> QED BY <1>1 DEF Owned, OneArmer, FlagsOwned

\* The same, with a's pc and next only.
LEMMA KeepsOwnedAt ==
  ASSUME TypeInv, Owned, NEW p \in Armers,
         \A q \in Armers : q # p => armer'[q] = armer[q],
         Arms(p)' <=> Arms(p), inhibit' => inhibit,
         UNCHANGED <<busy, watchdog, refused>>
  PROVE  Owned'
  <1>1. \A q \in Armers : Arms(q)' <=> Arms(q)
    BY DEF Arms
  <1> QED BY <1>1 DEF Owned, OneArmer, FlagsOwned

LEMMA SendOwned ==
  ASSUME TypeInv, Owned, NEW p \in Armers, SendCommand(p)
  PROVE  Owned'
  <1>1. /\ UNCHANGED <<busy, watchdog, refused, inhibit>>
        /\ \A q \in Armers : q # p => armer'[q] = armer[q]
    BY DEF SendCommand, Send, Goto, TypeInv, history
  <1>2. Arms(p)' <=> Arms(p)
    BY DEF SendCommand, Send, Goto, TypeInv, Arms, ArmerType, At
  <1> QED BY <1>1, <1>2, KeepsOwnedAt

LEMMA ArmerOwned ==
  ASSUME TypeInv, Owned, NEW p \in Armers, Armer(p)
  PROVE  Owned'
  <1> USE DEF HostOnly, WaitOnly
  <1>1. armer[p] \in ArmerType /\ Sound(armer[p]) /\ armer \in [Armers -> ArmerType]
    BY DEF TypeInv
  <1>2. CASE SendCommand(p)
    BY <1>2, SendOwned
  <1>3. CASE \/ FirstArmed(p) \/ Aborted(p) \/ AbortFailed(p) \/ IoctlDone(p)
             \/ SecondArmed(p) \/ SecondRefused(p)
    <2>1. /\ UNCHANGED <<busy, watchdog, refused, inhibit>>
          /\ \A q \in Armers : q # p => armer'[q] = armer[q]
      BY <1>1, <1>3 DEF FirstArmed, Aborted, AbortFailed, IoctlDone, SecondArmed,
         SecondRefused, Goto
    <2>2. CASE FirstArmed(p)
      BY <1>1, <2>1, <2>2, KeepsOwnedAt DEF FirstArmed, Acked, At, Arms, ArmerType
    <2>3. CASE Aborted(p)
      BY <1>1, <2>1, <2>3, KeepsOwnedAt DEF Aborted, Acked, At, Arms, ArmerType
    <2>4. CASE IoctlDone(p)
      <3>1. armer[p].pc \in {"ioctlSent", "modeSent"} /\ armer'[p] = Idle
        BY <1>1, <2>4 DEF IoctlDone, Acked, TimesOut, At
      <3>2. ~ Arms(p) /\ ~ Arms(p)'
        BY <1>1, <3>1 DEF Arms, Idle, Sound, Waits
      <3> QED BY <2>1, <3>2, KeepsOwnedAt
    <2>5. CASE SecondArmed(p)
      <3>1. armer'[p].pc \in {"started", "abort", "launch"}
        BY <1>1, <2>5 DEF SecondArmed, ArmerType
      <3>2. Arms(p) /\ Arms(p)'
        BY <2>5, <3>1 DEF SecondArmed, Acked, At, Arms
      <3> QED BY <2>1, <3>2, KeepsOwnedAt
    <2>6. CASE SecondRefused(p) \/ AbortFailed(p)
      BY <1>1, <2>1, <2>6, KeepsOwnedAt DEF SecondRefused, AbortFailed, TimesOut, Goto,
         At, Arms, ArmerType
    <2> QED BY <1>3, <2>2, <2>3, <2>4, <2>5, <2>6
  <1>4. CASE FirstRefused(p)
    <2>1. Arms(p) /\ refused'
      BY <1>4 DEF FirstRefused, TimesOut, At, Arms
    <2>2. \A q \in Armers : ~ Arms(q)'
      BY <1>1, <1>4, <2>1 DEF FirstRefused, Owned, OneArmer, Arms, Idle
    <2> QED BY <1>4, <2>1, <2>2 DEF FirstRefused, Owned, OneArmer, FlagsOwned
  <1>5. CASE Launch(p)
    <2>1. Arms(p) /\ busy /\ ~ watchdog
      BY <1>5 DEF Launch, At, Arms, Owned, OneArmer
    <2>2. \A q \in Armers : ~ Arms(q)'
      BY <1>1, <1>5, <2>1 DEF Launch, Owned, OneArmer, Arms, Idle
    <2>3. (watchdog' <=> Tap(2)) /\ (busy' <=> Tap(2)) /\ inhibit' = FALSE
      BY <1>5, <2>1 DEF Launch
    <2> QED BY <2>2, <2>3 DEF Owned, OneArmer, FlagsOwned
  <1>6. CASE AlreadyStopped(p) \/ Woken(p)
    <2>1. armer[p].pc \in Waits /\ armer' = [armer EXCEPT ![p] = GoOn(armer[p])]
      BY <1>6 DEF AlreadyStopped, Woken, At, Waits, Over
    <2>2. ArmsRec(GoOn(armer[p])) <=> Arms(p)
      BY <1>1, <2>1 DEF GoOn, ArmsRec, Arms, ArmerType, Waits, Idle
    <2> QED BY <1>6, <2>1, <2>2, KeepsOwned DEF AlreadyStopped, Woken, Over
  <1>7. CASE QueueTask(p) \/ Sleep(p)
    <2>1. /\ UNCHANGED <<busy, watchdog, refused, inhibit>>
          /\ \A q \in Armers : q # p => armer'[q] = armer[q]
      BY <1>1, <1>7 DEF QueueTask, Sleep, Goto
    <2>2. Arms(p)' <=> Arms(p)
      BY <1>1, <1>7 DEF QueueTask, Sleep, Goto, At, Arms, ArmerType
    <2> QED BY <2>1, <2>2, KeepsOwnedAt
  <1> QED BY <1>2, <1>3, <1>4, <1>5, <1>6, <1>7 DEF Armer

LEMMA OwnedStep == TypeInv /\ Owned /\ [Next]_vars => Owned'
  <1> SUFFICES ASSUME TypeInv, Owned, [Next]_vars
               PROVE  Owned'
    OBVIOUS
  <1>1. armer \in [Armers -> ArmerType] /\ \A p \in Armers : Sound(armer[p])
    BY DEF TypeInv
  <1>2. CASE UNCHANGED host
    BY <1>2 DEF host, Owned, OneArmer, FlagsOwned, Arms
  <1>3. ASSUME NEW p \in Armers, GoAll(p)
        PROVE  Owned'
    <2>1. \A q \in Armers : ~ Arms(q) /\ ~ watchdog
      BY <1>3 DEF GoAll, Owned, OneArmer
    <2>2. \A q \in Armers : Arms(q)' <=> q = p
      BY <1>1, <1>3, <2>1 DEF GoAll, Arms, Idle
    <2> QED BY <1>3, <2>1, <2>2 DEF GoAll, Owned, OneArmer, FlagsOwned
  <1>4. ASSUME NEW p \in Armers, Abort(p) \/ SetMode(p) \/ Signal(p)
        PROVE  Owned'
    <2> USE DEF Abort, SetMode, Ioctl, Signal
    <2>1. /\ UNCHANGED <<busy, watchdog, refused, inhibit>>
          /\ \A q \in Armers : q # p => armer'[q] = armer[q]
      BY <1>1, <1>4 DEF Goto
    <2>2. Arms(p)' <=> Arms(p)
      BY <1>1, <1>4 DEF Goto, At, Arms, ArmerType, Sound
    <2> QED BY <2>1, <2>2, KeepsOwnedAt
  <1>5. CASE SignOff
    BY <1>5 DEF SignOff, Owned, OneArmer, FlagsOwned, Arms
  <1>6. CASE PollStopped \/ AckIsr
    <2>1. WakeAll /\ UNCHANGED <<busy, watchdog, refused, inhibit>>
      BY <1>6 DEF PollStopped, AckIsr, WaitOnly
    <2>2. ASSUME NEW q \in Armers
          PROVE  Arms(q)' <=> Arms(q)
      BY <1>1, <2>1 DEF WakeAll, At, Arms, ArmerType
    <2> QED BY <2>1, <2>2 DEF Owned, OneArmer, FlagsOwned
  <1>7. CASE UNCHANGED vars
    BY <1>2, <1>7 DEF vars
  <1> QED BY <1>2, <1>3, <1>4, <1>5, <1>6, <1>7, ArmerOwned DEF Next

LEMMA OwnedInit == Init => Owned
  BY DEF Init, Owned, OneArmer, FlagsOwned, Arms, Idle

LEMMA SpecOwned == Spec => []Owned
  BY TypeInit, TypeStep, OwnedInit, OwnedStep, PTL DEF Spec

\* However many processes arm and abort, one at a time is between the first arm
\* and the last, set_arm.busy is set meanwhile, and it is still set while the
\* watchdog's task is queued.
THEOREM SetArmExclusive == Spec => []OneArmer
  BY SpecOwned, PTL DEF Owned

\* Neither set_arm.busy nor cos.inhibit outlives the arm it belongs to and its
\* watchdog, unless a first arm was refused.
THEOREM FlagsGivenBack == Spec => []FlagsOwned
  BY SpecOwned, PTL DEF Owned

-----------------------------------------------------------------------------
(* The polling task and its waiters.                                       *)
LEMMA WaiterStep == TypeInv /\ TaskHasWaiter /\ [Next]_vars => TaskHasWaiter'
  <1> SUFFICES ASSUME TypeInv, TaskHasWaiter, [Next]_vars, work', ~ stray'
               PROVE  \E p \in Armers : At(p, "queued")' \/ At(p, "asleep")'
    BY DEF TaskHasWaiter
  <1>1. armer \in [Armers -> ArmerType]
    BY DEF TypeInv
  <1>2. CASE UNCHANGED <<work, stray>> /\ \A p \in Armers :
               At(p, "queued") \/ At(p, "asleep") => At(p, "queued")' \/ At(p, "asleep")'
    BY <1>2 DEF TaskHasWaiter
  <1>3. CASE UNCHANGED host
    BY <1>2, <1>3 DEF host, At
  <1>4. ASSUME NEW p \in Armers, GoAll(p) \/ Abort(p) \/ SetMode(p)
        PROVE  \E q \in Armers : At(q, "queued")' \/ At(q, "asleep")'
    <2>1. /\ UNCHANGED <<work, stray>> /\ At(p, "idle")
          /\ \A q \in Armers : q # p => armer'[q] = armer[q]
      BY <1>1, <1>4 DEF GoAll, Abort, SetMode, Ioctl, Goto
    <2> QED BY <1>2, <2>1 DEF At
  <1>5. ASSUME NEW p \in Armers, Armer(p)
        PROVE  \E q \in Armers : At(q, "queued")' \/ At(q, "asleep")'
    <2>1. CASE QueueTask(p) \/ Sleep(p)
      <3>1. armer'[p].pc \in {"queued", "asleep"}
        BY <1>1, <2>1, ZenonT(40) DEF QueueTask, Sleep, Goto, ArmerType
      <3> QED BY <3>1 DEF At
    <2>2. CASE ~ (QueueTask(p) \/ Sleep(p))
      <3> USE DEF HostOnly, WaitOnly, Goto, Acked, TimesOut, At, history
      <3>1. CASE SendCommand(p)
        BY <1>1, <1>2, <3>1 DEF SendCommand, Send
      <3>2. CASE \/ FirstArmed(p) \/ FirstRefused(p) \/ Aborted(p) \/ AbortFailed(p)
                 \/ IoctlDone(p)
        BY <1>1, <1>2, <3>2 DEF FirstArmed, FirstRefused, Aborted, AbortFailed, IoctlDone
      <3>3. CASE SecondArmed(p) \/ SecondRefused(p) \/ Launch(p)
        BY <1>1, <1>2, <3>3 DEF SecondArmed, SecondRefused, Launch
      <3>4. CASE AlreadyStopped(p) \/ Woken(p)
        BY <1>1, <1>2, <3>4 DEF AlreadyStopped, Woken, Over
      <3> QED BY <1>5, <2>2, <3>1, <3>2, <3>3, <3>4 DEF Armer
    <2> QED BY <2>1, <2>2
  <1>6. ASSUME NEW p \in Armers, Signal(p)
        PROVE  FALSE
    BY <1>6 DEF Signal
  <1>7. CASE SignOff
    BY <1>2, <1>7 DEF SignOff, At
  <1>8. CASE PollStopped
    BY <1>8 DEF PollStopped
  <1>9. CASE AckIsr
    <2>1. \A p \in Armers : ~ At(p, "asleep")
      BY <1>9 DEF AckIsr
    <2>2. \A p \in Armers : armer'[p] = armer[p]
      BY <1>9, <2>1 DEF AckIsr, WakeAll
    <2>3. work /\ ~ stray
      BY <1>9 DEF AckIsr
    <2> QED BY <2>1, <2>2, <2>3 DEF TaskHasWaiter, At
  <1>10. CASE UNCHANGED vars
    BY <1>3, <1>10 DEF vars
  <1> QED BY <1>3, <1>4, <1>5, <1>6, <1>7, <1>8, <1>9, <1>10 DEF Next

\* The polling task is on the timer queue only while a process waits for it,
\* until a waiter has been woken by an acknowledgement or a signal.
THEOREM PollHasWaiter == Spec => []TaskHasWaiter
  <1>1. Init => TaskHasWaiter
    BY DEF Init, TaskHasWaiter
  <1> QED BY <1>1, TypeInit, TypeStep, WaiterStep, PTL DEF Spec

-----------------------------------------------------------------------------
(* STOP.  A manager reports only where its code does, so that the end of a *)
(* report finds it where the report began; and while no arm has overlapped,*)
(* one manager is about, whose place and the driver's state agree.         *)
ReportsFit ==
  \A m \in Managers :
    report[m].pc # "idle" => manager[m] \in {"postprocess", "stopping"}

OneCapture ==
  ~ overlapped =>
    /\ \A m, n \in Managers : About(m) /\ About(n) => m = n
    /\ phase # "none" <=> \E m \in Managers : manager[m] = "capture"
    /\ phase = "armed" => drv = "ARM"
    /\ phase = "triggered" => drv = "RUN"
    /\ \A m \in Managers : manager[m] \in {"postprocess", "spawn", "job"}
                            => drv = "POSTPROCESS"

StopInv == ReportsFit /\ OneCapture

\* A step of a report.
LEMMA ReportStop ==
  ASSUME CardTypeOK, StopInv, NEW r \in Reporters, Report(r)
  PROVE  StopInv'
  <1>1. /\ UNCHANGED <<drv, phase, overlapped>>
        /\ \A m \in Managers : m # r => UNCHANGED <<report[m], manager[m]>>
    BY DEF Report, Sample, Load, Store, Reported, ReportOnly, CardTypeOK, driver,
       Reporters
  <1>2. r \in Managers =>
          \/ /\ manager'[r] = manager[r]
             /\ manager[r] \in {"postprocess", "stopping"}
          \/ /\ report'[r].pc = "idle"
             /\ \/ manager[r] = "stopping" /\ manager'[r] = "none"
                \/ manager[r] = "postprocess" /\ manager'[r] \in {"spawn", "stop"}
    <2> SUFFICES ASSUME r \in Managers
                 PROVE  <1>2!2
      OBVIOUS
    <2>1. r # Mbox /\ r # Local
      BY CaptureAssumption
    <2>2. CASE Sample(r)
      BY <2>1, <2>2 DEF Sample, Reporting
    <2>3. ASSUME Reported(r, report[r].st), report[r].pc # "idle"
          PROVE  <1>2!2
      BY <2>3 DEF Reported, StopInv, ReportsFit, CardTypeOK, Silent, Reporters
    <2>4. CASE Load(r)
      BY <2>3, <2>4 DEF Load, StopInv, ReportsFit
    <2>5. CASE Store(r)
      BY <2>3, <2>5 DEF Store
    <2> QED BY <2>2, <2>4, <2>5 DEF Report
  <1>3. ReportsFit'
    BY <1>1, <1>2 DEF StopInv, ReportsFit
  <1>4. OneCapture'
    <2> SUFFICES ASSUME ~ overlapped'
                 PROVE  OneCapture'
      BY DEF OneCapture
    <2>1. \A m \in Managers : About(m)' => About(m)
      BY <1>1, <1>2 DEF About
    <2>2. \A m \in Managers : manager'[m] = "capture" <=> manager[m] = "capture"
      BY <1>1, <1>2
    <2>3. \A m \in Managers :
            manager'[m] \in {"postprocess", "spawn", "job"}
              => manager[m] \in {"postprocess", "spawn", "job"}
      BY <1>1, <1>2
    <2> QED BY <1>1, <2>1, <2>2, <2>3 DEF StopInv, OneCapture
  <1> QED BY <1>3, <1>4 DEF StopInv

\* A fork, which fails, overlaps or finds nobody about.
LEMMA ForkStop ==
  ASSUME CardTypeOK, StopInv, Fork, UNCHANGED <<drv, phase, report>>
  PROVE  StopInv'
  <1>0. CASE UNCHANGED <<manager, overlapped>>
    BY <1>0 DEF StopInv, ReportsFit, OneCapture, About
  <1> SUFFICES ASSUME ~ UNCHANGED <<manager, overlapped>>
               PROVE  StopInv'
    BY <1>0
  <1> DEFINE f == CHOOSE m \in Managers : ~ About(m)
  <1>1. f \in Managers /\ ~ About(f)
    BY DEF Fork
  <1>2. manager' = [manager EXCEPT ![f] = "forked"]
    BY DEF Fork
  <1> HIDE DEF f
  <1>3. ReportsFit'
    BY <1>1, <1>2 DEF StopInv, ReportsFit, CardTypeOK, About
  <1>4. OneCapture'
    <2> SUFFICES ASSUME ~ overlapped'
                 PROVE  OneCapture'
      BY DEF OneCapture
    <2>1. ~ overlapped /\ \A m \in Managers : ~ About(m)
      BY DEF Fork
    <2>2. phase = "none"
      BY <2>1 DEF StopInv, OneCapture, About, CardTypeOK
    <2>3. \A m \in Managers : manager'[m] = IF m = f THEN "forked" ELSE "none"
      BY <1>1, <1>2, <2>1 DEF About, CardTypeOK
    <2> QED BY <2>2, <2>3 DEF OneCapture, About
  <1> QED BY <1>3, <1>4 DEF StopInv

\* The capture is ended.
LEMMA EndCaptureStop ==
  ASSUME CardTypeOK, StopInv, EndCapture, UNCHANGED <<report, overlapped>>
  PROVE  StopInv'
  <1>1. CASE phase = "none"
    BY <1>1 DEF EndCapture, driver, StopInv, ReportsFit, OneCapture, About
  <1>2. CASE phase # "none"
    <2>1. /\ phase' = "none"
          /\ \A m \in Managers :
               manager'[m] = IF manager[m] = "capture" THEN "ended" ELSE manager[m]
      BY <1>2 DEF EndCapture
    <2>2. ReportsFit'
      BY <2>1 DEF StopInv, ReportsFit
    <2>3. OneCapture'
      <3> SUFFICES ASSUME ~ overlapped
                   PROVE  OneCapture'
        BY DEF OneCapture
      <3>1. PICK n \in Managers : manager[n] = "capture"
        BY <1>2 DEF StopInv, OneCapture
      <3>2. \A m \in Managers : m # n => manager[m] = "none"
        BY <3>1 DEF StopInv, OneCapture, About
      <3>3. \A m \in Managers : manager'[m] = IF m = n THEN "ended" ELSE "none"
        BY <2>1, <3>1, <3>2
      <3> QED BY <2>1, <3>3 DEF OneCapture, About
    <2> QED BY <2>2, <2>3 DEF StopInv
  <1> QED BY <1>1, <1>2

\* The thread of the mailbox and that of local commands.
LEMMA ThreadStop ==
  ASSUME CardTypeOK, StopInv, MboxThread \/ LocalCommand \/ LocalThread
  PROVE  StopInv'
  <1>1. CASE Report(Mbox) \/ Report(Local)
    BY <1>1, ReportStop DEF Reporters
  <1>2. CASE MboxFork \/ LocalFork
    BY <1>2, ForkStop DEF MboxFork, LocalFork, MboxOnly, driver
  <1>3. CASE TakeAbort \/ LocalSetAbort
    BY <1>3, EndCaptureStop DEF TakeAbort, LocalSetAbort, MboxOnly, LocalOnly, history
  <1>4. CASE \/ NoCommand \/ RefuseLong \/ TakeArm \/ AckAgain \/ BeatLoad \/ BeatStore
             \/ TakeMode \/ ModeLoad \/ ModeStore
             \/ LocalGetState \/ LocalSetArm \/ LocalAck
    <2>1. UNCHANGED <<drv, phase, manager, report, overlapped>>
      BY <1>4 DEF NoCommand, RefuseLong, TakeArm, AckAgain, BeatLoad, BeatStore, TakeMode,
         ModeLoad, ModeStore, LocalGetState, LocalSetArm, LocalAck, MboxOnly, LocalOnly,
         driver, history
    <2> QED BY <2>1 DEF StopInv, ReportsFit, OneCapture, About
  <1> QED BY <1>1, <1>2, <1>3, <1>4 DEF MboxThread, LocalCommand, LocalThread

\* A manager that was about alone goes from one place to another, which agrees
\* with what the driver comes to.
LEMMA ManagerMoves ==
  ASSUME CardTypeOK, StopInv, NEW m \in Managers, NEW to, To(m, to),
         About(m), report[m].pc = "idle",
         UNCHANGED <<report, overlapped>>,
         ~ overlapped /\ (\A n \in Managers : n # m => ~ About(n)) =>
           /\ phase' # "none" <=> to = "capture"
           /\ phase' = "armed" => drv' = "ARM"
           /\ phase' = "triggered" => drv' = "RUN"
           /\ to \in {"postprocess", "spawn", "job"} => drv' = "POSTPROCESS"
  PROVE  StopInv'
  <1>1. \A n \in Managers : manager'[n] = IF n = m THEN to ELSE manager[n]
    BY DEF To, CardTypeOK
  <1>2. ReportsFit'
    BY <1>1 DEF StopInv, ReportsFit
  <1>3. OneCapture'
    <2> SUFFICES ASSUME ~ overlapped
                 PROVE  OneCapture'
      BY DEF OneCapture
    <2>1. \A n \in Managers : n # m => ~ About(n)
      BY DEF StopInv, OneCapture
    <2>2. \A n \in Managers : manager'[n] = IF n = m THEN to ELSE "none"
      BY <1>1, <2>1 DEF About
    <2> QED BY <2>1, <2>2 DEF OneCapture, About
  <1> QED BY <1>2, <1>3 DEF StopInv

LEMMA ManagerStop ==
  ASSUME CardTypeOK, StopInv, NEW m \in Managers, Manager(m)
  PROVE  StopInv'
  <1> USE DEF ManagerOnly, driver, history
  <1>1. CASE Report(m)
    BY <1>1, ReportStop DEF Reporters
  <1>2. ASSUME ~ Report(m)
        PROVE  /\ About(m) /\ report[m].pc = "idle"
               /\ UNCHANGED <<report, overlapped>>
    <2>1. manager[m] \in {"forked", "capture", "ended", "spawn", "job", "stop"}
      BY <1>2 DEF Manager, OpenOneshot, NoChild, CaptureDone, Postamble, SpawnPp, JobEnds,
         OnStop
    <2>2. report[m].pc = "idle"
      BY <2>1 DEF StopInv, ReportsFit
    <2> QED BY <1>2, <2>1, <2>2 DEF About, Manager, OpenOneshot, NoChild, CaptureDone,
         Postamble, SpawnPp, JobEnds, OnStop
  <1>3. ASSUME ~ overlapped, \A n \in Managers : n # m => ~ About(n)
        PROVE  phase # "none" <=> manager[m] = "capture"
    BY <1>3 DEF StopInv, OneCapture, About
  <1>4. CASE OpenOneshot(m) /\ ~ Report(m)
    <2>1. CASE phase = "none"
      BY <1>2, <1>4, <2>1, ManagerMoves DEF OpenOneshot
    <2>2. CASE phase # "none"
      BY <1>2, <1>3, <1>4, <2>2, ManagerMoves DEF OpenOneshot
    <2> QED BY <2>1, <2>2
  <1>5. CASE CaptureDone(m) /\ ~ Report(m)
    BY <1>2, <1>5, ManagerMoves DEF CaptureDone
  <1>6. CASE Postamble(m) /\ ~ Report(m)
    <2>1. CASE success
      BY <1>2, <1>3, <1>6, <2>1, ManagerMoves DEF Postamble
    <2>2. CASE ~ success
      BY <1>2, <1>3, <1>6, <2>2, ManagerMoves DEF Postamble
    <2> QED BY <2>1, <2>2
  <1>7. CASE SpawnPp(m) /\ ~ Report(m)
    <2>1. manager[m] = "spawn" /\ UNCHANGED <<drv, phase>>
      BY <1>7 DEF SpawnPp
    <2>2. ~ overlapped => drv = "POSTPROCESS"
      BY <2>1 DEF StopInv, OneCapture
    <2>3. CASE To(m, "job")
      BY <1>2, <1>3, <1>7, <2>1, <2>2, <2>3, ManagerMoves
    <2>4. CASE To(m, "none")
      BY <1>2, <1>3, <1>7, <2>1, <2>4, ManagerMoves
    <2> QED BY <1>7, <2>3, <2>4 DEF SpawnPp
  <1>8. CASE JobEnds(m) /\ ~ Report(m)
    BY <1>2, <1>3, <1>8, ManagerMoves DEF JobEnds
  <1>9. CASE OnStop(m) /\ ~ Report(m)
    BY <1>2, <1>3, <1>9, ManagerMoves DEF OnStop
  <1>10. CASE NoChild(m) /\ ~ Report(m)
    <2>1. ~ overlapped => phase # "triggered" /\ phase # "armed"
      BY <1>10, CaptureAssumption DEF NoChild, StopInv, OneCapture, About
    <2> QED BY <1>2, <1>3, <1>10, <2>1, ManagerMoves DEF NoChild
  <1> QED BY <1>1, <1>4, <1>5, <1>6, <1>7, <1>8, <1>9, <1>10 DEF Manager

LEMMA StopStep == TypeInv /\ StopInv /\ [Next]_vars => StopInv'
  <1> SUFFICES ASSUME CardTypeOK, StopInv, [Next]_vars
               PROVE  StopInv'
    BY DEF TypeInv
  <1>1. CASE UNCHANGED <<drv, phase, manager, report, overlapped>>
    BY <1>1 DEF StopInv, ReportsFit, OneCapture, About
  <1>2. CASE CardNext
    <2>1. CASE Trigger
      <3>1. ReportsFit'
        BY <2>1 DEF Trigger, ManagerOnly, StopInv, ReportsFit
      <3>2. OneCapture'
        BY <2>1 DEF Trigger, history, StopInv, OneCapture, About
      <3> QED BY <3>1, <3>2 DEF StopInv
    <2> QED BY <1>2, <2>1, ThreadStop, ManagerStop DEF CardNext
  <1> QED BY <1>1, <1>2, HostFrame

\* The driver's state is not STOP while a capture is armed, runs or has its data
\* postprocessed, as long as no capture is armed with the manager of another
\* about: the host, which waits for STOP between its two arms, relies on it.
THEOREM StopIsStopped == Spec => []StopMeansStopped
  <1>1. Init => StopInv
    BY DEF Init, CardInit, StopInv, ReportsFit, OneCapture, About, Silent, Reporters
  <1>2. CardTypeOK /\ StopInv => StopMeansStopped
    BY DEF StopInv, OneCapture, StopMeansStopped, CardTypeOK
  <1>3. TypeInv => CardTypeOK
    BY DEF TypeInv
  <1> QED BY <1>1, <1>2, <1>3, TypeInit, TypeStep, StopStep, PTL DEF Spec
-----------------------------------------------------------------------------
(* The double tap.  While no arm overlaps, no local command reports and no *)
(* report of ARM comes late, CYCLE goes up at most once for each capture,  *)
(* until it is set to nought: every word that is about to be stored has    *)
(* the CYCLE that STATUS has, only the mailbox thread ever holds ARM, and  *)
(* it stores ARM only while the capture it saw is still armed and STATUS   *)
(* does not show it.                                                       *)
Orderly == ~ overlapped /\ ~ locally /\ ~ late

\* The two threads report only where their code does.
ThreadsFit ==
  /\ report[Mbox].pc # "idle" => mboxPc \in {"poll", "arming"}
  /\ ~ locally => localPc = "idle" /\ report[Local].pc = "idle"

ArmIsArmed == drv = "ARM" => phase = "armed"

\* The mailbox thread has STATUS loaded outside a report.
Beating == mboxPc \in {"beating", "moding"}

WordsFresh ==
  ~ moded =>
    /\ \A r \in Reporters :
         report[r].pc = "loaded" => report[r].word.cycle = status.cycle
    /\ mboxPc = "beating" => beat.cycle = status.cycle

ManagersPast == \A m \in Managers : report[m].pc # "idle" => report[m].st # "ARM"

\* Nothing that was written or is to be written before a capture begins says ARM.
ForkQuiet ==
  \A m \in Managers :
    manager[m] = "forked" =>
      /\ status.st # "ARM"
      /\ report[Mbox].pc # "idle" => report[Mbox].st # "ARM"
      /\ Beating => beat.st # "ARM"

\* A manager that has STATUS to set to STOP before it goes.
ToReport == {"capture", "ended", "postprocess", "stop", "stopping"}

LongQuiet ==
  mboxPc \in {"long", "arming", "fork"} =>
    status.st # "ARM" \/ \E m \in Managers : manager[m] \in ToReport

\* Once STATUS shows the capture it shows it until that is over.
ShownStays ==
  drv = "ARM" /\ status.st = "ARM" =>
    /\ report[Mbox].pc # "idle" => report[Mbox].st = "ARM"
    /\ Beating => beat.st = "ARM"

NotTwice ==
  drv = "ARM" /\ report[Mbox].pc = "loaded" /\ report[Mbox].st = "ARM"
    => status.st # "ARM"

OneCycle ==
  /\ ArmIsArmed /\ WordsFresh /\ ManagersPast
  /\ ForkQuiet /\ LongQuiet /\ ShownStays /\ NotTwice

CycleInv == ThreadsFit /\ (Orderly => OneCycle)

CardInv == CardTypeOK /\ StopInv /\ CycleInv

\* While a capture is armed, or about to be, no manager reports.
LEMMA ArmedAlone ==
  ASSUME CardInv, Orderly, drv = "ARM" \/ \E m \in Managers : manager[m] = "forked"
  PROVE  \A m \in Managers : report[m].pc = "idle"
  <1>1. PICK n \in Managers : manager[n] \in {"forked", "capture"}
    BY DEF CardInv, CycleInv, OneCycle, ArmIsArmed, Orderly, StopInv, OneCapture
  <1>2. \A m \in Managers : m # n => manager[m] = "none"
    BY <1>1 DEF CardInv, Orderly, StopInv, OneCapture, About
  <1> QED BY <1>1, <1>2 DEF CardInv, StopInv, ReportsFit

LEMMA ForkedNotArmed ==
  ASSUME CardInv, Orderly, NEW m \in Managers, manager[m] = "forked"
  PROVE  drv # "ARM" /\ phase = "none"
  BY DEF CardInv, CycleInv, OneCycle, ArmIsArmed, Orderly, StopInv, OneCapture, About,
     CardTypeOK

\* A manager that reports is the only one about, and the driver is past ARM.
LEMMA ReportsAlone ==
  ASSUME CardInv, Orderly, NEW m \in Managers,
         manager[m] \in {"postprocess", "stopping"}
  PROVE  drv # "ARM" /\ \A n \in Managers : n # m => manager[n] = "none"
  <1>1. \A n \in Managers : n # m => manager[n] = "none"
    BY DEF CardInv, Orderly, StopInv, OneCapture, About
  <1>2. phase # "armed"
    BY <1>1 DEF CardInv, Orderly, StopInv, OneCapture
  <1> QED BY <1>1, <1>2 DEF CardInv, CycleInv, OneCycle, ArmIsArmed

\* What was not in order stays so.
LEMMA OrderlyBefore ==
  ASSUME TypeInv, [Next]_vars, Orderly'
  PROVE  Orderly
  <1> USE DEF Orderly
  <1>1. CASE UNCHANGED <<overlapped, locally, late>>
    BY <1>1
  <1>2. CASE CardNext
    <2>1. ASSUME NEW r \in Reporters, Report(r)
          PROVE  Orderly
      <3>1. UNCHANGED <<overlapped, locally>>
        BY <2>1 DEF Report, Sample, Load, Store, ReportOnly
      <3>2. late' = late \/ late' = (late \/ (report[r].st = "ARM" /\ drv # "ARM"))
        BY <2>1 DEF Report, Sample, Load, Store
      <3>3. ~ late
        BY <3>2, Zenon DEF Orderly
      <3> QED BY <3>1, <3>3
    <2>2. CASE MboxThread
      BY <2>1, <2>2 DEF MboxThread, Reporters, NoCommand, TakeAbort, RefuseLong, TakeArm,
         MboxFork, Fork, TakeMode, ModeLoad, ModeStore, AckAgain, BeatLoad, BeatStore,
         history
    <2>3. CASE LocalCommand \/ LocalThread
      BY <2>1, <2>3 DEF LocalCommand, LocalThread, Reporters, LocalGetState, LocalSetArm,
         LocalSetAbort, LocalOnly, LocalAck, LocalFork, Fork, history
    <2>4. CASE Trigger
      BY <2>4 DEF Trigger, history
    <2>5. ASSUME NEW m \in Managers, Manager(m)
          PROVE  Orderly
      BY <2>1, <2>5 DEF Manager, Reporters, OpenOneshot, NoChild, CaptureDone, Postamble,
         SpawnPp, JobEnds, OnStop, history
    <2> QED BY <1>2, <2>2, <2>3, <2>4, <2>5 DEF CardNext
  <1> QED BY <1>1, <1>2, HostFrame

LEMMA ReportersDiffer ==
  /\ Mbox \in Reporters /\ Local \in Reporters /\ Managers \subseteq Reporters
  /\ Mbox # Local /\ Mbox \notin Managers /\ Local \notin Managers
  BY CaptureAssumption DEF Reporters

\* A report leaves those of the others alone, and the places of the threads.
LEMMA ReportFrame ==
  ASSUME CardTypeOK, NEW r \in Reporters, Report(r)
  PROVE  /\ \A s \in Reporters : s # r => report'[s] = report[s]
         /\ r # Mbox => mboxPc' = mboxPc
         /\ r # Local => localPc' = localPc
         /\ r \notin Managers => manager' = manager
         /\ \A m \in Managers : m # r => manager'[m] = manager[m]
         /\ UNCHANGED <<driver, beat, begun, unseen, moded, overlapped, locally>>
  BY ReportersDiffer DEF Report, Sample, Load, Store, Reported, ReportOnly, CardTypeOK

\* What a step of a report does to its own.
LEMMA ReportOwn ==
  ASSUME CardTypeOK, NEW r \in Reporters, Report(r)
  PROVE  \/ /\ report[r].pc = "idle" /\ Reporting(r)
            /\ report'[r].pc = "sampled" /\ report'[r].st = drv
            /\ UNCHANGED <<status, manager, mboxPc, localPc>>
         \/ /\ report[r].pc = "sampled" /\ status.st # report[r].st
            /\ report'[r].pc = "loaded" /\ report'[r].st = report[r].st
            /\ report'[r].word = status
            /\ UNCHANGED <<status, manager, mboxPc, localPc>>
         \/ /\ report[r].pc = "sampled" /\ status.st = report[r].st
            /\ report'[r].pc = "idle" /\ Reported(r, report[r].st)
            /\ UNCHANGED status
         \/ /\ report[r].pc = "loaded" /\ Store(r)
            /\ report'[r].pc = "idle" /\ Reported(r, report[r].st)
            /\ status'.st = report[r].st
  <1> USE DEF ReportOnly
  <1>1. report \in [Reporters -> [pc : {"idle", "sampled", "loaded"}, st : States,
                                  word : Words]]
    BY DEF CardTypeOK
  <1>2. CASE Sample(r)
    BY <1>1, <1>2 DEF Sample
  <1>3. Reported(r, report[r].st) => report'[r].pc = "idle"
    BY <1>1 DEF Reported, Silent
  <1>4. CASE Load(r)
    BY <1>1, <1>3, <1>4 DEF Load
  <1>5. CASE Store(r)
    BY <1>1, <1>3, <1>5 DEF Store
  <1> QED BY <1>2, <1>4, <1>5 DEF Report

LEMMA ThreadsFitStep == TypeInv /\ ThreadsFit /\ [Next]_vars => ThreadsFit'
  <1> SUFFICES ASSUME CardTypeOK, ThreadsFit, [Next]_vars
               PROVE  ThreadsFit'
    BY DEF TypeInv
  <1> USE ReportersDiffer
  <1>1. CASE UNCHANGED <<report, mboxPc, localPc, locally>>
    BY <1>1 DEF ThreadsFit
  <1>2. ASSUME NEW r \in Reporters, Report(r)
        PROVE  ThreadsFit'
    <2>1. CASE r = Mbox
      <3>1. report'[Mbox].pc # "idle" => mboxPc' \in {"poll", "arming"}
        BY <1>2, <2>1, ReportOwn DEF ThreadsFit, Reporting
      <3>2. UNCHANGED <<report[Local], localPc, locally>>
        BY <1>2, <2>1, ReportFrame
      <3> QED BY <3>1, <3>2 DEF ThreadsFit
    <2>2. CASE r = Local
      <3>1. locally' = locally /\ UNCHANGED <<report[Mbox], mboxPc>>
        BY <1>2, <2>2, ReportFrame
      <3>2. locally
        BY <1>2, <2>2, ReportOwn DEF ThreadsFit, Reporting
      <3> QED BY <3>1, <3>2 DEF ThreadsFit
    <2>3. CASE r # Mbox /\ r # Local
      <3>1. UNCHANGED <<report[Mbox], report[Local], mboxPc, localPc, locally>>
        BY <1>2, <2>3, ReportFrame
      <3> QED BY <3>1 DEF ThreadsFit
    <2> QED BY <2>1, <2>2, <2>3
  <1>3. CASE MboxThread
    <2>1. ASSUME ~ Report(Mbox)
          PROVE  /\ UNCHANGED <<report, localPc, locally>>
                 /\ mboxPc \notin {"poll", "arming"}
      BY <1>3, <2>1 DEF MboxThread, NoCommand, TakeAbort, RefuseLong, TakeArm, MboxFork,
         TakeMode, ModeLoad, ModeStore, AckAgain, BeatLoad, BeatStore, MboxOnly, history
    <2> QED BY <1>2, <2>1 DEF ThreadsFit
  <1>4. CASE LocalCommand \/ LocalThread
    <2>1. CASE LocalCommand
      BY <2>1 DEF LocalCommand, LocalGetState, LocalSetArm, LocalSetAbort, LocalOnly,
         ThreadsFit
    <2>2. CASE LocalAck \/ LocalFork
      BY <2>2 DEF LocalAck, LocalFork, history, ThreadsFit
    <2> QED BY <1>2, <1>4, <2>1, <2>2 DEF LocalThread
  <1>5. CASE Trigger
    BY <1>1, <1>5 DEF Trigger, ManagerOnly, history
  <1>6. ASSUME NEW m \in Managers, Manager(m)
        PROVE  ThreadsFit'
    <2>1. ASSUME ~ Report(m)
          PROVE  UNCHANGED <<report, mboxPc, localPc, locally>>
      BY <1>6, <2>1 DEF Manager, OpenOneshot, NoChild, CaptureDone, Postamble, SpawnPp,
         JobEnds, OnStop, ManagerOnly, history
    <2> QED BY <1>1, <1>2, <2>1
  <1> QED BY <1>1, <1>3, <1>4, <1>5, <1>6, HostFrame DEF CardNext

\* A report of ARM is stored only while the driver is at ARM; the CYCLE of any
\* other stays as it is.
LEMMA StoreOrderly ==
  ASSUME CardInv, Orderly, Orderly', NEW r \in Reporters, Store(r)
  PROVE  /\ report[r].st = "ARM" => drv = "ARM"
         /\ ~ moded =>
              status'.cycle = IF report[r].st = "ARM" THEN (status.cycle + 1) % CYCLES
                              ELSE status.cycle
         /\ status'.st = report[r].st
  <1>1. ~ moded => report[r].word.cycle = status.cycle
    BY DEF Store, CardInv, CycleInv, OneCycle, WordsFresh
  <1>2. ~ (late \/ (report[r].st = "ARM" /\ drv # "ARM"))
    BY Zenon DEF Store, Orderly
  <1> QED BY <1>1, <1>2 DEF Store

\* The mailbox thread reports.
LEMMA MboxReportCycle ==
  ASSUME CardInv, Orderly, Orderly', Report(Mbox)
  PROVE  OneCycle'
  <1> USE ReportersDiffer DEF Beating
  <1>1. /\ CardTypeOK /\ ThreadsFit /\ ArmIsArmed /\ WordsFresh /\ ManagersPast
        /\ ForkQuiet /\ LongQuiet /\ ShownStays /\ NotTwice
    BY DEF CardInv, CycleInv, OneCycle
  <1>2. /\ \A r \in Reporters : r # Mbox => report'[r] = report[r]
        /\ UNCHANGED <<manager, drv, phase, beat, moded>>
    BY <1>1, ReportFrame DEF driver
  <1>3. mboxPc \in {"poll", "arming"}
    BY <1>1, ReportOwn DEF ThreadsFit, Reporting
  <1>4. ArmIsArmed' /\ ManagersPast'
    BY <1>1, <1>2 DEF ArmIsArmed, ManagersPast
  <1>5. CASE /\ report[Mbox].pc = "idle"
             /\ report'[Mbox].pc = "sampled" /\ report'[Mbox].st = drv
             /\ UNCHANGED <<status, mboxPc>>
    <2>1. WordsFresh'
      BY <1>1, <1>2, <1>5 DEF WordsFresh
    <2>2. ForkQuiet'
      BY <1>1, <1>2, <1>5, ForkedNotArmed DEF ForkQuiet
    <2>3. LongQuiet' /\ ShownStays' /\ NotTwice'
      BY <1>1, <1>2, <1>5 DEF LongQuiet, ShownStays, NotTwice
    <2> QED BY <1>4, <2>1, <2>2, <2>3 DEF OneCycle
  <1>6. CASE /\ report[Mbox].pc = "sampled" /\ status.st # report[Mbox].st
             /\ report'[Mbox].pc = "loaded" /\ report'[Mbox].st = report[Mbox].st
             /\ report'[Mbox].word = status
             /\ UNCHANGED <<status, mboxPc>>
    <2>1. WordsFresh'
      BY <1>1, <1>2, <1>6 DEF WordsFresh
    <2>2. ForkQuiet'
      BY <1>1, <1>2, <1>6 DEF ForkQuiet
    <2>3. LongQuiet' /\ ShownStays' /\ NotTwice'
      BY <1>1, <1>2, <1>6 DEF LongQuiet, ShownStays, NotTwice
    <2> QED BY <1>4, <2>1, <2>2, <2>3 DEF OneCycle
  <1>7. ASSUME report'[Mbox].pc = "idle", Reported(Mbox, report[Mbox].st)
        PROVE  /\ mboxPc' \in {"fork", "short", "long"}
               /\ mboxPc' = "long" => report[Mbox].st # "ARM"
               /\ mboxPc' = "fork" => mboxPc = "arming"
    BY <1>3, <1>7 DEF Reported
  <1>8. CASE /\ report[Mbox].pc = "sampled" /\ status.st = report[Mbox].st
             /\ report'[Mbox].pc = "idle" /\ Reported(Mbox, report[Mbox].st)
             /\ UNCHANGED status
    <2>1. WordsFresh'
      BY <1>1, <1>2, <1>7, <1>8 DEF WordsFresh
    <2>2. ForkQuiet'
      BY <1>1, <1>2, <1>7, <1>8 DEF ForkQuiet
    <2>3. LongQuiet' /\ ShownStays' /\ NotTwice'
      BY <1>1, <1>2, <1>7, <1>8 DEF LongQuiet, ShownStays, NotTwice
    <2> QED BY <1>4, <2>1, <2>2, <2>3 DEF OneCycle
  <1>9. CASE /\ report[Mbox].pc = "loaded" /\ Store(Mbox)
             /\ report'[Mbox].pc = "idle" /\ Reported(Mbox, report[Mbox].st)
    <2>1. CASE report[Mbox].st = "ARM"
      <3>1. drv = "ARM" /\ \A m \in Managers : report[m].pc = "idle"
        BY <1>9, <2>1, StoreOrderly, ArmedAlone
      <3>2. PICK n \in Managers : manager[n] = "capture"
        BY <1>1, <3>1 DEF ArmIsArmed, CardInv, StopInv, OneCapture, Orderly
      <3>3. \A m \in Managers : manager[m] # "forked"
        BY <3>1, ForkedNotArmed
      <3>4. report[Local].pc = "idle"
        BY <1>1 DEF ThreadsFit, Orderly
      <3>5. WordsFresh'
        BY <1>2, <1>7, <1>9, <3>1, <3>4 DEF WordsFresh, Reporters
      <3>6. ForkQuiet' /\ LongQuiet'
        BY <1>2, <3>2, <3>3 DEF ForkQuiet, LongQuiet, ToReport
      <3>7. ShownStays' /\ NotTwice'
        BY <1>7, <1>9 DEF ShownStays, NotTwice
      <3> QED BY <1>4, <3>5, <3>6, <3>7 DEF OneCycle
    <2>2. CASE report[Mbox].st # "ARM"
      <3>1. status'.st # "ARM" /\ (~ moded => status'.cycle = status.cycle)
        BY <1>9, <2>2, StoreOrderly
      <3>2. WordsFresh'
        BY <1>1, <1>2, <1>7, <1>9, <3>1 DEF WordsFresh
      <3>3. ForkQuiet' /\ LongQuiet' /\ ShownStays' /\ NotTwice'
        BY <1>7, <1>9, <3>1 DEF ForkQuiet, LongQuiet, ShownStays, NotTwice
      <3> QED BY <1>4, <3>2, <3>3 DEF OneCycle
    <2> QED BY <2>1, <2>2
  <1> QED BY <1>1, <1>5, <1>6, <1>8, <1>9, ReportOwn

\* A manager reports.
LEMMA ManagerReportCycle ==
  ASSUME CardInv, Orderly, Orderly', NEW m \in Managers, Report(m)
  PROVE  OneCycle'
  <1> USE ReportersDiffer DEF Beating
  <1>1. /\ CardTypeOK /\ ThreadsFit /\ ArmIsArmed /\ WordsFresh /\ ManagersPast
        /\ ForkQuiet /\ LongQuiet /\ ShownStays /\ NotTwice
    BY DEF CardInv, CycleInv, OneCycle
  <1>2. /\ \A r \in Reporters : r # m => report'[r] = report[r]
        /\ \A n \in Managers : n # m => manager'[n] = manager[n]
        /\ UNCHANGED <<mboxPc, drv, phase, beat, moded>>
    BY <1>1, ReportFrame DEF driver
  <1>3. manager[m] \in {"postprocess", "stopping"}
    BY <1>1, ReportOwn DEF Reporting, CardInv, StopInv, ReportsFit
  <1>4. drv # "ARM" /\ \A n \in Managers : n # m => manager[n] = "none"
    BY <1>3, ReportsAlone
  <1>5. manager'[m] # "forked"
    BY <1>1, <1>3, ReportOwn DEF Reported, CardTypeOK
  <1>6. ArmIsArmed' /\ ForkQuiet' /\ ShownStays' /\ NotTwice'
    BY <1>2, <1>4, <1>5 DEF ArmIsArmed, ForkQuiet, ShownStays, NotTwice
  <1>7. ManagersPast'
    BY <1>1, <1>2, <1>4, ReportOwn DEF ManagersPast
  <1>8. WordsFresh'
    <2>1. CASE UNCHANGED status
      BY <1>1, <1>2, <2>1, ReportOwn DEF WordsFresh
    <2>2. CASE Store(m)
      <3>1. report[m].pc = "loaded" /\ report[m].st # "ARM"
        BY <1>1, <2>2 DEF Store, ManagersPast
      <3>2. ~ moded => status'.cycle = status.cycle
        BY <2>2, <3>1, StoreOrderly
      <3>3. report'[m].pc = "idle"
        BY <1>1, <3>1, ReportOwn
      <3> QED BY <1>1, <1>2, <3>2, <3>3 DEF WordsFresh
    <2> QED BY <1>1, <2>1, <2>2, ReportOwn
  <1>9. LongQuiet'
    <2>1. CASE UNCHANGED <<status, manager>>
      BY <1>1, <1>2, <2>1 DEF LongQuiet
    <2>2. CASE status'.st # "ARM"
      BY <2>2 DEF LongQuiet
    <2> QED BY <1>1, <2>1, <2>2, ReportOwn DEF ManagersPast
  <1> QED BY <1>6, <1>7, <1>8, <1>9 DEF OneCycle

\* The rest of the mailbox thread.
LEMMA MboxCycle ==
  ASSUME CardInv, Orderly, Orderly', MboxThread, ~ Report(Mbox)
  PROVE  OneCycle'
  <1> USE ReportersDiffer DEF MboxOnly, Beating
  <1>1. /\ CardTypeOK /\ ThreadsFit /\ ArmIsArmed /\ WordsFresh /\ ManagersPast
        /\ ForkQuiet /\ LongQuiet /\ ShownStays /\ NotTwice
    BY DEF CardInv, CycleInv, OneCycle
  <1>2. CASE NoCommand \/ RefuseLong \/ TakeArm \/ TakeMode \/ AckAgain
    <2>1. /\ UNCHANGED <<drv, phase, manager, report, status, moded>>
          /\ \/ mboxPc' \in {"mode", "beat"}
             \/ mboxPc = "long" /\ mboxPc' = "arming"
      BY <1>2 DEF NoCommand, RefuseLong, TakeArm, TakeMode, AckAgain, driver, history
    <2> QED BY <1>1, <2>1 DEF OneCycle, ArmIsArmed, WordsFresh, ManagersPast, ForkQuiet,
         LongQuiet, ShownStays, NotTwice
  <1>3. CASE TakeAbort
    <2>1. /\ UNCHANGED <<report, status, moded>>
          /\ mboxPc' = "beat"
          /\ EndCapture
      BY <1>3 DEF TakeAbort, history
    <2>2. UNCHANGED <<drv, phase>> \/ drv' # "ARM"
      BY <2>1 DEF EndCapture, driver
    <2>3. \A m \in Managers : manager'[m] = "forked" => manager[m] = "forked"
      BY <2>1 DEF EndCapture
    <2> QED BY <1>1, <2>1, <2>2, <2>3 DEF OneCycle, ArmIsArmed, WordsFresh,
         ManagersPast, ForkQuiet, LongQuiet, ShownStays, NotTwice
  <1>4. CASE MboxFork
    <2>1. /\ UNCHANGED <<drv, phase, report, status, moded>>
          /\ mboxPc = "fork" /\ mboxPc' = "ack"
      BY <1>4 DEF MboxFork, driver
    <2>2. UNCHANGED manager \/ \A m \in Managers : manager[m] = "none"
      BY <1>4 DEF MboxFork, Fork, About, Orderly
    <2>3. report[Mbox].pc = "idle" /\ (UNCHANGED manager \/ status.st # "ARM")
      BY <1>1, <2>1, <2>2 DEF ThreadsFit, LongQuiet, ToReport
    <2> QED BY <1>1, <2>1, <2>3 DEF OneCycle, ArmIsArmed, WordsFresh, ManagersPast,
         ForkQuiet, LongQuiet, ShownStays, NotTwice
  <1>5. CASE BeatLoad \/ ModeLoad
    <2>1. /\ UNCHANGED <<drv, phase, manager, report, status, moded>>
          /\ mboxPc' \in {"beating", "moding"} /\ beat' = status
      BY <1>5 DEF BeatLoad, ModeLoad, driver, history
    <2> QED BY <1>1, <2>1 DEF OneCycle, ArmIsArmed, WordsFresh, ManagersPast, ForkQuiet,
         LongQuiet, ShownStays, NotTwice
  <1>6. CASE BeatStore \/ ModeStore
    <2>1. /\ UNCHANGED <<drv, phase, manager, report>>
          /\ Beating /\ mboxPc' \in {"poll", "ack"} /\ status'.st = beat.st
          /\ moded' \/ (UNCHANGED moded /\ mboxPc = "beating" /\ status' = beat)
      BY <1>6 DEF BeatStore, ModeStore, driver, history
    <2>2. report[Mbox].pc = "idle"
      BY <1>1, <2>1 DEF ThreadsFit
    <2> QED BY <1>1, <2>1, <2>2 DEF OneCycle, ArmIsArmed, WordsFresh, ManagersPast,
         ForkQuiet, LongQuiet, ShownStays, NotTwice
  <1> QED BY <1>2, <1>3, <1>4, <1>5, <1>6 DEF MboxThread

\* The rest of a manager, and its child.
LEMMA ManagerCycle ==
  ASSUME CardInv, Orderly, Orderly', NEW m \in Managers, Manager(m), ~ Report(m)
  PROVE  OneCycle'
  <1> USE DEF Beating
  <1>1. /\ CardTypeOK /\ ThreadsFit /\ ArmIsArmed /\ WordsFresh /\ ManagersPast
        /\ ForkQuiet /\ LongQuiet /\ ShownStays /\ NotTwice
    BY DEF CardInv, CycleInv, OneCycle
  <1>2. UNCHANGED <<status, report, mboxPc, beat, moded>>
    BY DEF Manager, OpenOneshot, NoChild, CaptureDone, Postamble, SpawnPp, JobEnds,
       OnStop, ManagerOnly, history
  <1>3. WordsFresh' /\ ManagersPast'
    BY <1>1, <1>2 DEF WordsFresh, ManagersPast
  <1>4. /\ \A n \in Managers : n # m => manager'[n] = manager[n]
        /\ manager'[m] # "forked"
        /\ manager[m] \in ToReport \cup {"job"} =>
             manager'[m] \in ToReport
    BY <1>1 DEF Manager, OpenOneshot, NoChild, CaptureDone, Postamble, SpawnPp, JobEnds,
       OnStop, To, CardTypeOK, ToReport
  <1>5. ForkQuiet'
    BY <1>1, <1>2, <1>4 DEF ForkQuiet
  <1>6. CASE OpenOneshot(m)
    <2>1. manager[m] = "forked" /\ status.st # "ARM"
      BY <1>1, <1>6 DEF OpenOneshot, ForkQuiet
    <2>2. drv' = "ARM" /\ phase' = "armed"
      BY <1>6, <2>1, ForkedNotArmed DEF OpenOneshot
    <2> QED BY <1>2, <1>3, <1>5, <2>1, <2>2 DEF OneCycle, ArmIsArmed, LongQuiet,
         ShownStays, NotTwice
  <1>7. CASE ~ OpenOneshot(m)
    <2>1. drv' # "ARM" \/ UNCHANGED <<drv, phase>>
      BY <1>7 DEF Manager, NoChild, CaptureDone, Postamble, SpawnPp, JobEnds, OnStop,
         driver
    <2>2. ArmIsArmed' /\ ShownStays' /\ NotTwice'
      BY <1>1, <1>2, <2>1 DEF ArmIsArmed, ShownStays, NotTwice
    <2>3. LongQuiet'
      BY <1>1, <1>2, <1>4 DEF LongQuiet
    <2> QED BY <1>3, <1>5, <2>2, <2>3 DEF OneCycle
  <1> QED BY <1>6, <1>7

LEMMA CycleStep == TypeInv /\ StopInv /\ CycleInv /\ [Next]_vars => CycleInv'
  <1> SUFFICES ASSUME TypeInv, StopInv, CycleInv, [Next]_vars, Orderly'
               PROVE  OneCycle'
    BY ThreadsFitStep DEF CycleInv
  <1>1. CardInv /\ Orderly /\ OneCycle /\ ThreadsFit /\ CardTypeOK
    BY OrderlyBefore DEF CardInv, TypeInv, CycleInv
  <1>2. CASE CardNext
    <2>1. CASE MboxThread
      BY <1>1, <2>1, MboxReportCycle, MboxCycle
    <2>2. CASE LocalCommand \/ LocalThread
      <3>1. ~ LocalCommand
        BY DEF LocalCommand, LocalGetState, LocalSetArm, LocalSetAbort, LocalOnly, Orderly
      <3>2. localPc = "idle" /\ report[Local].pc = "idle"
        BY <1>1 DEF ThreadsFit, Orderly
      <3>3. ~ Report(Local)
        BY <1>1, <3>2, ReportOwn, ReportersDiffer DEF Reporting
      <3> QED BY <2>2, <3>1, <3>2, <3>3 DEF LocalThread, LocalAck, LocalFork
    <2>3. CASE Trigger
      <3>1. /\ UNCHANGED <<status, manager, report, mboxPc, beat, moded>>
            /\ drv' = "RUN"
        BY <2>3 DEF Trigger, ManagerOnly, history
      <3> QED BY <1>1, <3>1 DEF OneCycle, Beating, ArmIsArmed, WordsFresh, ManagersPast,
           ForkQuiet, LongQuiet, ShownStays, NotTwice
    <2>4. ASSUME NEW m \in Managers, Manager(m)
          PROVE  OneCycle'
      BY <1>1, <2>4, ManagerReportCycle, ManagerCycle
    <2> QED BY <1>2, <2>1, <2>2, <2>3, <2>4 DEF CardNext
  <1> DEFINE Rest == ArmIsArmed /\ ManagersPast /\ ForkQuiet /\ LongQuiet /\ ShownStays
                     /\ NotTwice
  <1>3. CASE ~ CardNext
    <2>0. UNCHANGED <<drv, phase, status, manager, report, mboxPc, beat>>
      BY <1>3, HostFrame
    <2>1. Rest'
      BY <1>1, <2>0 DEF OneCycle, ArmIsArmed, ManagersPast, ForkQuiet, Beating, LongQuiet,
         ShownStays, NotTwice
    <2>2. CASE UNCHANGED moded
      BY <1>1, <2>0, <2>1, <2>2 DEF OneCycle, WordsFresh
    <2>3. CASE \E p \in Armers : GoAll(p)
      <3>1. WordsFresh'
        BY <2>0, <2>3 DEF GoAll, CountAnew, WordsFresh
      <3> QED BY <2>1, <3>1 DEF OneCycle
    <2> QED BY <1>3, <2>2, <2>3, HostFrame
  <1> QED BY <1>2, <1>3

\* How often CYCLE has gone up since it was c: as often at most as captures have
\* begun, and no more for the one under way once STATUS shows it.
Shown == drv = "ARM" => status.st = "ARM"

Tally(c) ==
  /\ begun = 0 => status.cycle = c /\ Shown
  /\ begun = 1 => \/ status.cycle = c
                  \/ status.cycle = CycInc(c) /\ Shown

TallyInv ==
  ~ unseen /\ ~ moded /\ Orderly =>
    \A p \in Armers : /\ Arms(p) => Tally(armer[p].c0)
                      /\ At(p, "started") => begun = 2

\* CYCLE was set to nought before, if it was.
LEMMA ModedBefore ==
  ASSUME CardNext, ~ moded'
  PROVE  ~ moded
  <1>1. \A r \in Reporters : Report(r) => moded' = moded
    BY DEF Report, Sample, Load, Store, ReportOnly
  <1>2. CASE MboxThread
    BY <1>1, <1>2 DEF MboxThread, Reporters, NoCommand, TakeAbort, RefuseLong, TakeArm,
       MboxFork, TakeMode, ModeLoad, ModeStore, AckAgain, BeatLoad, BeatStore, history
  <1>3. CASE LocalCommand \/ LocalThread \/ Trigger
    BY <1>1, <1>3 DEF LocalCommand, LocalThread, Reporters, LocalGetState, LocalSetArm,
       LocalSetAbort, LocalOnly, LocalAck, LocalFork, Trigger, history
  <1>4. ASSUME NEW m \in Managers, Manager(m)
        PROVE  ~ moded
    BY <1>1, <1>4 DEF Manager, Reporters, OpenOneshot, NoChild, CaptureDone, Postamble,
       SpawnPp, JobEnds, OnStop, history
  <1> QED BY <1>2, <1>3, <1>4 DEF CardNext

\* The card keeps the tally.
LEMMA CardTally ==
  ASSUME CardInv, Orderly, Orderly', CardNext, NEW c, ~ moded'
  PROVE  /\ Tally(c) => Tally(c)'
         /\ begun = 2 => begun' = 2
         /\ unseen' = unseen
  <1> USE ReportersDiffer
  <1>0. ~ moded
    BY ModedBefore
  <1>1. /\ CardTypeOK /\ ThreadsFit /\ ArmIsArmed /\ WordsFresh /\ ManagersPast
        /\ ForkQuiet /\ LongQuiet /\ ShownStays /\ NotTwice
    BY DEF CardInv, CycleInv, OneCycle
  <1>2. CASE UNCHANGED <<drv, status, begun, unseen>>
    BY <1>2 DEF Tally, Shown
  <1>3. CASE drv' # "ARM" /\ UNCHANGED <<status, begun, unseen>>
    BY <1>3 DEF Tally, Shown
  <1>4. ASSUME NEW r \in Managers \cup {Mbox}, Report(r)
        PROVE  /\ Tally(c) => Tally(c)'
               /\ begun = 2 => begun' = 2
               /\ unseen' = unseen
    <2>1. UNCHANGED <<drv, begun, unseen>>
      BY <1>1, <1>4, ReportFrame DEF driver
    <2>2. CASE UNCHANGED status
      BY <1>2, <2>1, <2>2
    <2>3. CASE Store(r) /\ report[r].pc = "loaded"
      <3>1. CASE report[r].st = "ARM"
        <4>1. r = Mbox /\ drv = "ARM"
          BY <1>1, <2>3, <3>1, StoreOrderly DEF ManagersPast
        <4>2. /\ status'.cycle = CycInc(status.cycle) /\ status'.st = "ARM"
          BY <1>0, <2>3, <3>1, StoreOrderly DEF CycInc
        <4>3. ~ Shown
          BY <1>1, <2>3, <3>1, <4>1 DEF NotTwice, Shown
        <4> QED BY <2>1, <4>2, <4>3 DEF Tally, Shown
      <3>2. CASE report[r].st # "ARM"
        <4>1. status'.cycle = status.cycle
          BY <1>0, <2>3, <3>2, StoreOrderly
        <4>2. drv = "ARM" => ~ Shown
          <5>1. CASE r = Mbox
            BY <1>1, <2>3, <3>2, <5>1 DEF ShownStays, Shown
          <5>2. CASE r \in Managers
            BY <2>3, <5>2, ArmedAlone
          <5> QED BY <5>1, <5>2
        <4> QED BY <2>1, <4>1, <4>2 DEF Tally, Shown
      <3> QED BY <3>1, <3>2
    <2> QED BY <1>1, <1>4, <2>2, <2>3, ReportOwn
  <1>5. CASE MboxThread
    <2>1. CASE \/ NoCommand \/ RefuseLong \/ TakeArm \/ MboxFork
               \/ TakeMode \/ ModeLoad \/ AckAgain \/ BeatLoad
      BY <1>2, <2>1 DEF NoCommand, RefuseLong, TakeArm, MboxFork, TakeMode, ModeLoad,
         AckAgain, BeatLoad, MboxOnly, driver, history
    <2>2. CASE TakeAbort
      <3>1. UNCHANGED <<status, begun, unseen>> /\ (drv' = drv \/ drv' # "ARM")
        BY <2>2 DEF TakeAbort, EndCapture, MboxOnly, driver, history
      <3> QED BY <1>2, <1>3, <3>1
    <2>3. CASE BeatStore
      <3>1. UNCHANGED <<drv, begun, unseen>> /\ mboxPc = "beating" /\ status' = beat
        BY <2>3 DEF BeatStore, driver, history
      <3>2. status'.cycle = status.cycle /\ (Shown => Shown')
        BY <1>0, <1>1, <3>1 DEF WordsFresh, ShownStays, Beating, Shown
      <3> QED BY <3>1, <3>2 DEF Tally
    <2>4. ~ ModeStore
      BY DEF ModeStore
    <2> QED BY <1>4, <1>5, <2>1, <2>2, <2>3, <2>4 DEF MboxThread
  <1>6. ~ LocalCommand
    BY DEF LocalCommand, LocalGetState, LocalSetArm, LocalSetAbort, LocalOnly, Orderly
  <1>7. ~ LocalThread
    <2>1. localPc = "idle" /\ report[Local].pc = "idle"
      BY <1>1 DEF ThreadsFit, Orderly
    <2>2. ~ Report(Local)
      BY <1>1, <2>1, ReportOwn DEF Reporting
    <2> QED BY <2>1, <2>2 DEF LocalThread, LocalAck, LocalFork
  <1>8. CASE Trigger
    BY <1>3, <1>8 DEF Trigger, ManagerOnly, history
  <1>9. ASSUME NEW m \in Managers, Manager(m)
        PROVE  /\ Tally(c) => Tally(c)'
               /\ begun = 2 => begun' = 2
               /\ unseen' = unseen
    <2>1. CASE OpenOneshot(m)
      <3>1. UNCHANGED <<status, unseen>> /\ phase = "none"
        BY <2>1, ForkedNotArmed DEF OpenOneshot, ManagerOnly
      <3>2. begun' = IF begun < 2 THEN begun + 1 ELSE 2
        BY <2>1, <3>1 DEF OpenOneshot
      <3>3. begun \in 0 .. 2
        BY <1>1 DEF CardTypeOK
      <3> QED BY <3>1, <3>2, <3>3 DEF Tally
    <2>2. CASE \/ NoChild(m) \/ CaptureDone(m) \/ Postamble(m) \/ SpawnPp(m)
               \/ JobEnds(m) \/ OnStop(m)
      <3>1. UNCHANGED <<status, begun, unseen>> /\ (drv' = drv \/ drv' # "ARM")
        BY <2>2 DEF NoChild, CaptureDone, Postamble, SpawnPp, JobEnds, OnStop, ManagerOnly,
           driver, history
      <3> QED BY <1>2, <1>3, <3>1
    <2> QED BY <1>4, <1>9, <2>1, <2>2 DEF Manager
  <1> QED BY <1>5, <1>6, <1>7, <1>8, <1>9 DEF CardNext

\* Two cycles more is neither none nor one.
LEMMA TwoCycles ==
  ASSUME NEW a, NEW c \in 0 .. CYCLES - 1, CardTypeOK, a.c0 = c, StartOk(a, status.cycle),
         Tally(c)
  PROVE  begun = 2
  <1>1. status.cycle = CycInc(CycInc(c))
    BY DEF StartOk
  <1>2. CycInc(CycInc(c)) # c /\ CycInc(CycInc(c)) # CycInc(c)
    BY DEF CycInc, CYCLES
  <1>3. begun \in 0 .. 2
    BY DEF CardTypeOK
  <1> QED BY <1>1, <1>2, <1>3 DEF Tally

\* A process that arms after a step armed before it, with the same first cycle,
\* and is satisfied only by two cycles.
Continues(p) ==
  /\ Arms(p)' => Arms(p) /\ armer'[p].c0 = armer[p].c0
  /\ At(p, "started")' => \/ At(p, "started")
                          \/ Arms(p) /\ StartOk(armer[p], status.cycle)

LEMMA ArmerContinues ==
  ASSUME TypeInv, NEW p \in Armers, Armer(p)
  PROVE  /\ \A q \in Armers : q # p => armer'[q] = armer[q]
         /\ Continues(p)
  <1> USE DEF Continues
  <1>1. armer \in [Armers -> ArmerType] /\ armer[p] \in ArmerType /\ Sound(armer[p])
    BY DEF TypeInv
  <1>2. CASE SendCommand(p)
    <2>1. armer[p].pc \in {"first", "abort", "second", "ioctl", "mode"}
      BY <1>2 DEF SendCommand, Send, At
    <2>2. CASE At(p, "ioctl") \/ At(p, "mode")
      BY <1>1, <1>2, <2>2 DEF SendCommand, Send, Goto, At, Arms, ArmerType, Sound, Waits
    <2>3. CASE ~ At(p, "ioctl") /\ ~ At(p, "mode")
      BY <1>1, <1>2, <2>1, <2>3 DEF SendCommand, Send, Goto, At, Arms, ArmerType
    <2> QED BY <2>2, <2>3
  <1>3. CASE FirstArmed(p)
    BY <1>1, <1>3 DEF FirstArmed, Acked, At, Arms, ArmerType
  <1>4. CASE FirstRefused(p) \/ IoctlDone(p)
    BY <1>1, <1>4 DEF FirstRefused, IoctlDone, At, Arms, ArmerType, Idle
  <1>5. CASE Aborted(p)
    BY <1>1, <1>5 DEF Aborted, Acked, At, Arms, ArmerType
  <1>6. CASE SecondArmed(p)
    <2>1. /\ \A q \in Armers : q # p => armer'[q] = armer[q]
          /\ armer'[p].c0 = armer[p].c0
          /\ armer'[p].pc = "started" => StartOk(armer[p], status.cycle)
      BY <1>1, <1>6 DEF SecondArmed, ArmerType
    <2>2. Arms(p)
      BY <1>6 DEF SecondArmed, Acked, At, Arms
    <2> QED BY <2>1, <2>2 DEF At
  <1>7. CASE SecondRefused(p) \/ AbortFailed(p)
    BY <1>1, <1>7 DEF SecondRefused, AbortFailed, TimesOut, Goto, At, Arms, ArmerType
  <1>8. CASE Launch(p)
    BY <1>1, <1>8 DEF Launch, At, Arms, ArmerType, Idle
  <1>9. CASE AlreadyStopped(p) \/ Woken(p)
    <2>1. armer' = [armer EXCEPT ![p] = GoOn(armer[p])]
      BY <1>9 DEF AlreadyStopped, Woken, Over
    <2>2. CASE armer[p].next = "idle"
      BY <1>1, <2>1, <2>2 DEF GoOn, At, Arms, Idle
    <2>3. CASE armer[p].next # "idle"
      BY <1>1, <2>1, <2>3 DEF GoOn, At, Arms, ArmerType
    <2> QED BY <2>2, <2>3
  <1>10. CASE QueueTask(p) \/ Sleep(p)
    BY <1>1, <1>10 DEF QueueTask, Sleep, Goto, At, Arms, ArmerType
  <1> QED BY <1>2, <1>3, <1>4, <1>5, <1>6, <1>7, <1>8, <1>9, <1>10 DEF Armer

LEMMA TallyStep ==
  TypeInv /\ Owned /\ StopInv /\ CycleInv /\ TallyInv /\ [Next]_vars => TallyInv'
  <1> SUFFICES ASSUME TypeInv, Owned, StopInv, CycleInv, TallyInv, [Next]_vars,
                      ~ unseen', ~ moded', Orderly'
               PROVE  \A p \in Armers : /\ Arms(p)' => Tally(armer[p].c0)'
                                        /\ At(p, "started")' => begun' = 2
    BY DEF TallyInv
  <1>1. CardInv /\ Orderly /\ CardTypeOK /\ armer \in [Armers -> ArmerType]
    BY OrderlyBefore DEF CardInv, TypeInv
  <1>2. ASSUME UNCHANGED <<drv, status, begun, unseen, moded>>,
               \A q \in Armers : Continues(q)
        PROVE  \A p \in Armers : /\ Arms(p)' => Tally(armer[p].c0)'
                                 /\ At(p, "started")' => begun' = 2
    <2> SUFFICES ASSUME NEW p \in Armers
                 PROVE  /\ Arms(p)' => Tally(armer[p].c0)'
                        /\ At(p, "started")' => begun' = 2
      OBVIOUS
    <2>1. /\ Arms(p) => Tally(armer[p].c0)
          /\ At(p, "started") => begun = 2
      BY <1>1, <1>2 DEF TallyInv
    <2>2. Arms(p)' => Tally(armer[p].c0)'
      BY <1>2, <2>1 DEF Continues, Tally, Shown
    <2>3. armer[p].c0 \in 0 .. CYCLES - 1
      BY <1>1 DEF ArmerType
    <2>4. At(p, "started")' => begun = 2
      BY <1>1, <1>2, <2>1, <2>3, TwoCycles DEF Continues
    <2> QED BY <1>2, <2>2, <2>4
  <1>3. CASE CardNext /\ UNCHANGED host
    <2>1. ~ unseen /\ ~ moded
      BY <1>1, <1>3, CardTally, ModedBefore
    <2> SUFFICES ASSUME NEW p \in Armers
                 PROVE  /\ Arms(p)' => Tally(armer[p].c0)'
                        /\ At(p, "started")' => begun' = 2
      OBVIOUS
    <2>2. /\ Arms(p) => Tally(armer[p].c0)
          /\ At(p, "started") => begun = 2
      BY <1>1, <2>1 DEF TallyInv
    <2>3. armer' = armer
      BY <1>3 DEF host
    <2> DEFINE c == armer[p].c0
    <2>4. c' = c
      BY <2>3
    <2> HIDE DEF c
    <2>5. Tally(c) => Tally(c)'
      BY <1>1, <1>3, <2>4, CardTally DEF Tally
    <2> QED BY <1>1, <1>3, <2>2, <2>3, <2>5, CardTally DEF c, Arms, At
  <1>4. ASSUME NEW p \in Armers, GoAll(p)
        PROVE  \A q \in Armers : /\ Arms(q)' => Tally(armer[q].c0)'
                                 /\ At(q, "started")' => begun' = 2
    <2>1. \A q \in Armers : ~ Arms(q)
      BY <1>4 DEF GoAll, Owned, OneArmer
    <2>2. /\ \A q \in Armers : q # p => armer'[q] = armer[q]
          /\ armer'[p].c0 = status.cycle /\ armer'[p].pc = "first"
      BY <1>1, <1>4 DEF GoAll, Idle
    <2>3. begun' = 0 /\ UNCHANGED <<status, drv>> /\ Shown
      BY <1>4 DEF GoAll, CountAnew, driver, Shown
    <2>4. Tally(armer[p].c0)'
      BY <2>2, <2>3 DEF Tally, Shown
    <2> QED BY <2>1, <2>2, <2>4 DEF Arms, At
  <1>5. ASSUME ~ (CardNext /\ UNCHANGED host), \A p \in Armers : ~ GoAll(p)
        PROVE  UNCHANGED <<drv, status, begun, unseen, moded>>
    BY <1>5, HostFrame
  <1>6. ASSUME NEW p \in Armers, Abort(p) \/ SetMode(p) \/ Signal(p)
        PROVE  \A q \in Armers : Continues(q)
    <2> USE DEF Abort, SetMode, Ioctl, Signal, Goto
    <2>1. \A q \in Armers : q # p => armer'[q] = armer[q]
      BY <1>1, <1>6
    <2>2. Continues(p)
      BY <1>1, <1>6 DEF At, Arms, ArmerType, Continues
    <2> QED BY <2>1, <2>2 DEF Continues, Arms, At
  <1>7. ASSUME NEW p \in Armers, Armer(p)
        PROVE  \A q \in Armers : Continues(q)
    <2>1. Continues(p) /\ \A q \in Armers : q # p => armer'[q] = armer[q]
      BY <1>7, ArmerContinues
    <2> QED BY <2>1 DEF Continues, Arms, At
  <1>8. ASSUME SignOff \/ PollStopped \/ AckIsr \/ UNCHANGED vars
        PROVE  \A q \in Armers : Continues(q)
    <2>1. CASE armer' = armer
      BY <2>1 DEF Continues, Arms, At
    <2>2. CASE WakeAll
      BY <1>1, <2>2 DEF WakeAll, Continues, Arms, At, ArmerType
    <2> QED BY <1>8, <2>1, <2>2 DEF SignOff, PollStopped, AckIsr, vars, host
  <1> QED BY <1>2, <1>3, <1>4, <1>5, <1>6, <1>7, <1>8 DEF Next

\* However many processes arm and abort, and whatever the retries and the
\* heartbeats: acq32_GoAll is satisfied with its double tap only if two captures
\* have begun since it took the flag, unless one that had begun before was still
\* to be reported, a SET_MODE sets CYCLE to nought, arms overlap on the card, a
\* local command reports besides or a report of ARM is stored too late.
THEOREM DoubleTapIsTwo == Spec => []DoubleTapTrue
  <1>1. Init => CycleInv /\ TallyInv
    BY ReportersDiffer DEF Init, CardInit, CycleInv, ThreadsFit, OneCycle, ArmIsArmed,
       WordsFresh, ManagersPast, ForkQuiet, Beating, LongQuiet, ShownStays, NotTwice,
       TallyInv, Arms, At, Idle, Silent, NoWord
  <1>2. Init => StopInv
    BY DEF Init, CardInit, StopInv, ReportsFit, OneCapture, About, Silent, Reporters
  <1>3. TallyInv => DoubleTapTrue
    BY DEF TallyInv, Orderly, DoubleTapTrue
  <1> QED BY <1>1, <1>2, <1>3, TypeInit, TypeStep, OwnedInit, OwnedStep, StopStep,
       CycleStep, TallyStep, PTL DEF Spec
=============================================================================
