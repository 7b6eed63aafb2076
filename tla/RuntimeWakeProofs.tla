------------------------- MODULE RuntimeWakeProofs -------------------------
EXTENDS RuntimeWake, TLAPS

-----------------------------------------------------------------------------
(* Type correctness.  Changes of the limits under way count as requests.    *)

LimitsCounted == limits + (IF admin = "idle" THEN 0 ELSE 1) <= requests

TypeInv == TypeOK /\ LimitsCounted

\* The shared parts of handlers and requests.

LEMMA EndedTyped ==
  ASSUME NEW s \in State
  PROVE  Ended(s) \in RowType
  BY DEF Ended, RowType, Key, NoKey

LEMMA DownTyped ==
  ASSUME limits \in 0..MaxRequests, NEW i \in {"none", "exited"}
  PROVE  Down(i) \in BoxType
  <1>1. 0 \in 0..limits
    BY WakeAssumption
  <1>2. QED
    BY <1>1 DEF Down, BoxType, Key, NoKey

LEMMA LeaveTyped ==
  ASSUME Leave, BoxTyped, UNCHANGED <<limits, admin>>,
         box' \in BoxType
  PROVE  HandlerTyped' /\ BoxTyped'
  <1>1. plan' \in 0..limits
    BY WakeAssumption DEF Leave, BoxTyped
  <1>2. QED
    BY <1>1 DEF Leave, HandlerTyped, BoxTyped, BoxType, Step

LEMMA ThrowTyped ==
  ASSUME TypeOK, exec \in Job, Throw, UNCHANGED <<limits, admin>>,
         box' \in BoxType
  PROVE  /\ HandlerTyped' /\ BoxTyped' /\ VisitsTyped'
         /\ job' \in [Job -> JobStatus]
         /\ late' \in {"none", "remove", "record"}
  <1>0. VisitsTyped'
    <2>1. awaited' \in [Job -> SUBSET Visitor]
      BY DEF TypeOK, VisitsTyped, Throw, Wakened
    <2>2. QED
      BY <2>1 DEF TypeOK, VisitsTyped, Throw
  <1>1. CASE exec = "render"
    BY <1>0, <1>1 DEF TypeOK, Throw, Goto, HandlerTyped, BoxTyped, BoxType, Step
  <1>2. CASE exec # "render"
    <2>1. HandlerTyped' /\ BoxTyped'
      BY <1>2, LeaveTyped DEF TypeOK, Throw
    <2>2. QED
      BY <1>0, <1>2, <2>1 DEF TypeOK, Throw, Finished, JobStatus
  <1>3. QED
    BY <1>0, <1>1, <1>2

LEMMA TellTyped ==
  ASSUME VisitsTyped, NEW j \in Job, Tell(j)
  PROVE  VisitsTyped'
  BY DEF VisitsTyped, Tell, Wakened

LEMMA AnswerTyped ==
  ASSUME VisitsTyped, NEW v \in Visitor, Answer(v)
  PROVE  VisitsTyped'
  BY DEF VisitsTyped, Answer, Awake, Become

LEMMA DispatchTyped ==
  ASSUME TypeInv,
         (\E j \in Job : Claim(j) \/ SweepLease(j)) \/ Succeed \/ HandlerFails \/ Crash
  PROVE  TypeInv'
  <1> USE DEF TypeInv, TypeOK, LimitsCounted
  <1>1. ASSUME NEW j \in Job, Claim(j) PROVE TypeInv'
    BY <1>1, WakeAssumption DEF Claim, Trouble, FirstStep, HandlerTyped, BoxTyped, BoxType,
       VisitsTyped, Step, Job, JobStatus, world, housekeeping, visits, verdicts, settings, bounds
  <1>2. ASSUME NEW j \in Job, SweepLease(j) PROVE TypeInv'
    BY <1>2 DEF SweepLease, HandlerTyped, BoxTyped, BoxType, VisitsTyped, JobStatus, world, handler,
       housekeeping, visits, verdicts, settings, bounds
  <1>3. CASE Succeed
    <2>1. HandlerTyped' /\ BoxTyped'
      BY <1>3, LeaveTyped DEF Succeed, world, settings, BoxTyped
    <2>2. QED
      BY <1>3, <2>1 DEF Succeed, Finished, VisitsTyped, JobStatus, world,
         housekeeping, visits, verdicts, settings, bounds
  <1>4. CASE HandlerFails
    <2>1. box' \in BoxType
      BY <1>4, DownTyped DEF HandlerFails, BoxTyped
    <2>2. /\ HandlerTyped' /\ BoxTyped' /\ VisitsTyped'
          /\ job' \in [Job -> JobStatus]
          /\ late' \in {"none", "remove", "record"}
      BY <1>4, <2>1, ThrowTyped DEF HandlerFails, HandlerTyped, settings
    <2>3. QED
      BY <1>4, <2>2, WakeAssumption DEF HandlerFails, Trouble,
         housekeeping, settings
  <1>5. CASE Crash
    <2>1. HandlerTyped' /\ BoxTyped'
      BY <1>5, LeaveTyped DEF Crash, world, settings, BoxTyped, BoxType
    <2>2. VisitsTyped' /\ keeper' = "idle" /\ listed' = FALSE /\ late' = "none"
      BY <1>5 DEF Crash, VisitsTyped
    <2>3. requests' \in 0..MaxRequests /\ troubles' \in 0..MaxTroubles
      BY <1>5, WakeAssumption DEF Crash, Trouble
    <2>4. QED
      BY <1>5, <2>1, <2>2, <2>3 DEF Crash, Trouble, world, settings
  <1>6. QED
    BY <1>1, <1>2, <1>3, <1>4, <1>5

LEMMA HandlerStepTyped ==
  ASSUME TypeInv, StartRuntime \/ StopRuntime \/ FailSubject
  PROVE  TypeInv'
  <1> USE DEF TypeInv, TypeOK, LimitsCounted, HandlerTyped, BoxTyped, VisitsTyped, Step, At, Goto,
      world, handler, housekeeping, visits, verdicts, settings, bounds
  <1>1. CASE EnsureStarted
    <2>1. row' \in RowType
      BY <1>1 DEF EnsureStarted, RowType
    <2>2. QED
      BY <1>1, <2>1 DEF EnsureStarted, BoxType
  <1>2. CASE ReadProject
    BY <1>2 DEF ReadProject, BoxType
  <1>3. CASE MarkStarting
    BY <1>3, EndedTyped DEF MarkStarting, State, BoxType
  <1>4. CASE Launch
    <2>1. key' \in Key
      BY <1>4 DEF Launch, Key
    <2>2. QED
      BY <1>4, <2>1 DEF Launch, BoxType
  <1>5. CASE Probe
    <2>1. CASE Up
      BY <1>5, <2>1 DEF Probe, BoxType
    <2>2. CASE ~Up
      <3>1. /\ HandlerTyped' /\ BoxTyped' /\ VisitsTyped'
            /\ job' \in [Job -> JobStatus]
            /\ late' \in {"none", "remove", "record"}
        BY <1>5, <2>2, ThrowTyped DEF Probe
      <3>2. QED
        BY <1>5, <2>2, <3>1 DEF Probe, BoxType
    <2>3. QED
      BY <2>1, <2>2
  <1>6. CASE RecordRunning
    BY <1>6 DEF RecordRunning, RowType, State, BoxType
  <1>7. CASE StopContainer \/ RemoveContainers
    BY <1>7, DownTyped DEF StopContainer, RemoveContainers, BoxType
  <1>8. CASE Activate \/ RecordStopped
    BY <1>8, EndedTyped DEF Activate, RecordStopped, State, BoxType
  <1>9. CASE FailedContainer
    BY <1>9, DownTyped DEF FailedContainer, BoxType
  <1>10. CASE FailedRow
    <2>1. VisitsTyped'
      BY <1>10, TellTyped DEF FailedRow, Job
    <2>2. QED
      BY <1>10, <2>1, EndedTyped DEF FailedRow, State, BoxType
  <1>11. QED
    BY <1>1, <1>2, <1>3, <1>4, <1>5, <1>6, <1>7, <1>8, <1>9, <1>10
       DEF StartRuntime, StopRuntime, FailSubject

LEMMA WorldStepTyped ==
  ASSUME TypeInv, Housekeeping \/ NextHour \/ GrowOld \/ Die
                    \/ Deploy \/ Render \/ ReadLimits \/ CommitLimits
  PROVE  TypeInv'
  <1> USE WakeAssumption DEF TypeInv, TypeOK, LimitsCounted, HandlerTyped, BoxTyped,
      VisitsTyped, Trouble, Request, EnqueueRerunnable, JobStatus,
      world, handler, housekeeping, visits, verdicts, settings, bounds
  <1>1. CASE ListContainers
    <2>1. listed' \in BOOLEAN
      BY <1>1 DEF ListContainers, Up
    <2>2. keeper' \in {"idle", "listed", "sweep"}
      BY <1>1 DEF ListContainers
    <2>3. QED
      BY <1>1, <2>1, <2>2 DEF ListContainers, BoxType
  <1>2. CASE Reconcile
    BY <1>2, EndedTyped DEF Reconcile, State, BoxType
  <1>3. CASE SweepIdle
    BY <1>3 DEF SweepIdle, BoxType
  <1>4. CASE NextHour
    BY <1>4 DEF NextHour, BoxType
  <1>5. CASE GrowOld
    BY <1>5 DEF GrowOld, RowType, BoxType
  <1>6. CASE Die
    BY <1>6, DownTyped DEF Die, BoxType
  <1>7. CASE Deploy \/ Render
    BY <1>7 DEF Deploy, Render, BoxType
  <1>8. CASE ReadLimits
    BY <1>8 DEF ReadLimits, BoxType
  <1>9. CASE CommitLimits
    BY <1>9 DEF CommitLimits, BoxType
  <1>10. QED
    BY <1>1, <1>2, <1>3, <1>4, <1>5, <1>6, <1>7, <1>8, <1>9 DEF Housekeeping

LEMMA VisitTyped ==
  ASSUME TypeInv, NEW v \in Visitor, Visit(v) \/ Wake(v)
  PROVE  TypeInv'
  <1> USE WakeAssumption DEF TypeInv, TypeOK, LimitsCounted, HandlerTyped, BoxTyped, BoxType,
      world, handler, housekeeping, verdicts, settings, bounds
  <1>1. CASE Visit(v)
    BY <1>1 DEF Visit, VisitsTyped, Become
  <1>2. CASE Clear(v)
    BY <1>2 DEF Clear, VisitsTyped, Become, State, RowType, BoxType
  <1>3. CASE AskStart(v)
    BY <1>3 DEF AskStart, EnqueueStart, EnqueueRerunnable, JobStatus, VisitsTyped, Become
  <1>4. CASE Poll(v)
    <2>1. VisitsTyped'
      BY <1>4, AnswerTyped DEF Poll, Awake, VisitsTyped, Become
    <2>2. QED
      BY <1>4, <2>1 DEF Poll
  <1>5. CASE GiveUp(v)
    <2>1. VisitsTyped'
      BY <1>5, AnswerTyped DEF GiveUp
    <2>2. QED
      BY <1>5, <2>1 DEF GiveUp, Trouble
  <1>6. CASE Reach(v)
    <2>1. ASSUME Answer(v) PROVE VisitsTyped'
      BY <2>1, AnswerTyped
    <2>2. ASSUME Become(v, "gone"), UNCHANGED <<row, retry, verdicts>>
          PROVE  VisitsTyped'
      BY <2>2 DEF VisitsTyped, Become
    <2>3. VisitsTyped'
      BY <1>6, <2>1, <2>2 DEF Reach
    <2>4. row' \in RowType
      BY <1>6 DEF Reach, RowType
    <2>5. QED
      BY <1>6, <2>3, <2>4 DEF Reach
  <1>7. CASE MarkGone(v)
    <2>1. VisitsTyped'
      BY <1>7, AnswerTyped DEF MarkGone, VisitsTyped, Become
    <2>2. QED
      BY <1>7, <2>1, EndedTyped DEF MarkGone, State, BoxType
  <1>8. QED
    BY <1>1, <1>2, <1>3, <1>4, <1>5, <1>6, <1>7 DEF Wake

LEMMA TypeInit == Init => TypeInv
  <1> SUFFICES ASSUME Init PROVE TypeInv
    OBVIOUS
  <1>1. BoxTyped
    BY WakeAssumption, DownTyped DEF Init, BoxTyped
  <1>2. row \in RowType
    BY EndedTyped DEF Init, State
  <1>3. HandlerTyped /\ VisitsTyped
    BY DEF Init, HandlerTyped, VisitsTyped, Step
  <1>4. LimitsCounted
    BY DEF Init, LimitsCounted
  <1>5. QED
    <2>1. requests \in 0..MaxRequests /\ troubles \in 0..MaxTroubles
      BY WakeAssumption DEF Init
    <2>2. QED
      BY <1>1, <1>2, <1>3, <1>4, <2>1 DEF Init, TypeInv, TypeOK, JobStatus

LEMMA TypeStep == TypeInv /\ [Next]_vars => TypeInv'
  <1> SUFFICES ASSUME TypeInv, [Next]_vars PROVE TypeInv'
    OBVIOUS
  <1>1. CASE UNCHANGED vars
    BY <1>1 DEF vars, TypeInv, TypeOK, LimitsCounted, HandlerTyped, BoxTyped, BoxType, VisitsTyped,
       world, handler, housekeeping, visits, verdicts, settings, bounds
  <1>2. QED
    BY <1>1, DispatchTyped, HandlerStepTyped, WorldStepTyped, VisitTyped DEF Next

\* The row keeps to the states of the schema, and no container or handler has
\* limits the project never had (schema.ts 363-376).
THEOREM TypeCorrect == Spec => []TypeOK
  <1>1. TypeInv => TypeOK
    BY DEF TypeInv
  <1>2. QED
    BY <1>1, TypeInit, TypeStep, PTL DEF Spec

-----------------------------------------------------------------------------
(* Secrets.  Between the mark and the record of a start the row is not      *)
(* running, so that a new container cannot disagree with it, and what is up *)
(* is what the handler launched.                                            *)

Launching == step \in {"launch", "probe", "record"}

SecretInv ==
    /\ SecretMatches
    /\ Launching => row.state # "running"
    /\ step \in {"probe", "record"} => key # NoKey /\ (Up => box.key = key)

LEMMA LeaveKeepsSecret ==
  ASSUME SecretInv, Leave, UNCHANGED row, UNCHANGED box \/ ~Up'
  PROVE  SecretInv'
  BY DEF SecretInv, SecretMatches, Up, Launching, Leave

LEMMA ThrowKeepsSecret ==
  ASSUME SecretInv, Throw, UNCHANGED row, UNCHANGED box \/ ~Up'
  PROVE  SecretInv'
  <1>1. CASE Leave
    BY <1>1, LeaveKeepsSecret
  <1>2. CASE Goto("undo") \/ Goto("use")
    BY <1>2 DEF SecretInv, SecretMatches, Up, Launching, Goto
  <1>3. QED
    BY <1>1, <1>2 DEF Throw

\* Neither a new container nor a new handler: the row is left alone or ended.
LEMMA EndingKeepsSecret ==
  ASSUME SecretInv, NEW s \in State \ {"running"}, UNCHANGED row \/ row' = Ended(s),
         UNCHANGED box \/ ~Up',
         UNCHANGED key, UNCHANGED step \/ ~Launching'
  PROVE  SecretInv'
  BY DEF SecretInv, SecretMatches, Up, Launching, Ended

LEMMA LaunchKeepsSecret ==
  ASSUME SecretInv, Launch
  PROVE  SecretInv'
  <1>1. key' \in Key
    BY DEF Launch, Key
  <1>2. key' # NoKey
    BY <1>1 DEF Key, NoKey
  <1>3. QED
    BY <1>2 DEF SecretInv, SecretMatches, Up, Launching, Launch, At

LEMMA SecretStep == TypeInv /\ SecretInv /\ [Next]_vars => SecretInv'
  <1> SUFFICES ASSUME TypeInv, SecretInv, [Next]_vars PROVE SecretInv'
    OBVIOUS
  <1> USE DEF At, Goto
  <1>1. ASSUME NEW j \in Job, Claim(j) PROVE SecretInv'
    <2>1. ~Launching' /\ UNCHANGED world
      BY <1>1 DEF Claim, FirstStep, Launching, Job
    <2>2. QED
      BY <2>1 DEF SecretInv, SecretMatches, Up, Launching, world
  <1>2. CASE Succeed \/ Crash
    BY <1>2, LeaveKeepsSecret DEF Succeed, Crash, world
  <1>3. CASE HandlerFails
    BY <1>3, ThrowKeepsSecret DEF HandlerFails, Up, Down
  <1>4. CASE Launch
    BY <1>4, LaunchKeepsSecret
  <1>5. CASE Probe
    <2>1. CASE Up
      BY <1>5, <2>1 DEF Probe, SecretInv, SecretMatches, Up, Launching, world
    <2>2. CASE ~Up
      BY <1>5, <2>2, ThrowKeepsSecret DEF Probe, world
    <2>3. QED
      BY <2>1, <2>2
  <1>6. CASE RecordRunning
    BY <1>6 DEF RecordRunning, SecretInv, SecretMatches, Up, Launching
  <1>7. CASE EnsureStarted
    <2>1. row'.state = row.state /\ row'.key = row.key /\ ~Launching'
      BY <1>7 DEF EnsureStarted, TypeInv, TypeOK, RowType, Launching
    <2>2. QED
      BY <1>7, <2>1 DEF EnsureStarted, SecretInv, SecretMatches, Up, Launching
  <1>8. CASE ReadProject
    BY <1>8 DEF ReadProject, SecretInv, SecretMatches, Up, Launching, world
  <1>9. CASE MarkStarting
    BY <1>9 DEF MarkStarting, SecretInv, SecretMatches, Up, Launching, Ended
  <1>10. CASE StopRuntime \/ FailSubject
    BY <1>10, EndingKeepsSecret DEF Up, Down, StopRuntime, FailSubject, StopContainer, Activate,
       RemoveContainers, RecordStopped, FailedContainer, FailedRow, Launching, State,
       handler
  <1>11. CASE Reconcile \/ Die \/ (\E v \in Visitor : MarkGone(v))
    BY <1>11, EndingKeepsSecret DEF Up, Down, Reconcile, Die, MarkGone, State, handler
  <1>12. CASE GrowOld \/ (\E v \in Visitor : Reach(v))
    <2>1. row'.state = row.state /\ row'.key = row.key /\ UNCHANGED <<box, handler>>
      BY <1>12 DEF GrowOld, Reach, TypeInv, TypeOK, RowType
    <2>2. QED
      BY <2>1 DEF SecretInv, SecretMatches, Up, Launching, handler
  <1>13. ASSUME NEW v \in Visitor, Clear(v) PROVE SecretInv'
    <2>1. /\ row'.key = row.key /\ UNCHANGED <<box, handler>>
          /\ row'.state = row.state \/ (row.state = "failed" /\ row'.state = "stopped")
      BY <1>13 DEF Clear, TypeInv, TypeOK, RowType
    <2>2. QED
      BY <2>1 DEF SecretInv, SecretMatches, Up, Launching, handler
  <1>14. CASE UNCHANGED <<world, handler>>
    BY <1>14 DEF SecretInv, SecretMatches, Up, Launching, world, handler
  <1>15. QED
    BY <1>1, <1>2, <1>3, <1>4, <1>5, <1>6, <1>7, <1>8, <1>9, <1>10, <1>11, <1>12,
       <1>13, <1>14
       DEF Next, vars, StartRuntime, Housekeeping, Wake, SweepLease, ListContainers, SweepIdle,
       NextHour, Deploy, Render, ReadLimits, CommitLimits, Visit, AskStart, Poll, GiveUp

\* The gateway never sends a secret that the runtime it reaches was not started
\* with: not after a failed, crashed or overtaken start, nor after a failure
\* report that comes late (executor.ts 796-908, 2570-2590; gateway.ts 435-440).
THEOREM SecretsMatch == Spec => []SecretMatches
  <1>1. Init => TypeInv /\ SecretInv
    BY TypeInit DEF Init, SecretInv, SecretMatches, Up, Launching, Ended, Down
  <1>2. TypeInv /\ SecretInv /\ [Next]_vars => (TypeInv /\ SecretInv)'
    BY TypeStep, SecretStep
  <1>3. SecretInv => SecretMatches
    BY DEF SecretInv
  <1>4. QED
    BY <1>1, <1>2, <1>3, PTL DEF Spec

-----------------------------------------------------------------------------
(* Verdicts.  Between the clearing and the wait a failure may be recorded,  *)
(* of which the visitor then has been told too.                             *)

VerdictInv ==
    \A v \in Visitor :
        pc[v] \in {"enqueue", "wait"} /\ row.state = "failed" => v \in heard \/ v \in misled

LEMMA AnswerKeepsVerdict ==
  ASSUME TypeInv, VerdictInv, NEW v \in Visitor, Answer(v),
         row'.state = row.state \/ row'.state # "failed"
  PROVE  VerdictInv'
  BY DEF TypeInv, TypeOK, VisitsTyped, VerdictInv, Answer, Awake, Become

LEMMA VerdictStep == TypeInv /\ VerdictInv /\ [Next]_vars => VerdictInv'
  <1> SUFFICES ASSUME TypeInv, VerdictInv, [Next]_vars PROVE VerdictInv'
    OBVIOUS
  <1>1. CASE FailedRow
    BY <1>1 DEF FailedRow, Tell, Wakened, VerdictInv
  <1>2. ASSUME NEW v \in Visitor, Visit(v) PROVE VerdictInv'
    BY <1>2 DEF Visit, Become, VerdictInv, world, verdicts, TypeInv, TypeOK, VisitsTyped
  <1>3. ASSUME NEW v \in Visitor, Clear(v) PROVE VerdictInv'
    <2>1. row'.state # "failed"
      BY <1>3 DEF Clear, TypeInv, TypeOK, RowType
    <2>2. QED
      BY <2>1 DEF VerdictInv
  <1>4. ASSUME NEW v \in Visitor, AskStart(v) PROVE VerdictInv'
    BY <1>4 DEF AskStart, Become, VerdictInv, world, verdicts, TypeInv, TypeOK, VisitsTyped
  <1>5. ASSUME NEW v \in Visitor, Poll(v) PROVE VerdictInv'
    <2>1. CASE Answer(v)
      BY <1>5, <2>1, AnswerKeepsVerdict DEF Poll, world
    <2>2. CASE Become(v, "reach") /\ Awake(v)
      BY <1>5, <2>2 DEF Poll, Awake, Become, VerdictInv, world, TypeInv, TypeOK, VisitsTyped
    <2>3. QED
      BY <1>5, <2>1, <2>2 DEF Poll
  <1>6. ASSUME NEW v \in Visitor, GiveUp(v) PROVE VerdictInv'
    BY <1>6, AnswerKeepsVerdict DEF GiveUp, world
  <1>7. ASSUME NEW v \in Visitor, Reach(v) PROVE VerdictInv'
    <2>1. row'.state = row.state
      BY <1>7 DEF Reach, TypeInv, TypeOK, RowType
    <2>2. CASE Answer(v)
      BY <2>1, <2>2, AnswerKeepsVerdict
    <2>3. CASE Become(v, "gone") /\ UNCHANGED verdicts
      BY <2>1, <2>3 DEF Become, verdicts, VerdictInv, TypeInv, TypeOK, VisitsTyped
    <2>4. QED
      BY <1>7, <2>2, <2>3 DEF Reach
  <1>8. ASSUME NEW v \in Visitor, MarkGone(v) PROVE VerdictInv'
    <2>1. row'.state = row.state \/ row'.state # "failed"
      BY <1>8 DEF MarkGone, Ended
    <2>2. CASE Answer(v)
      BY <2>1, <2>2, AnswerKeepsVerdict
    <2>3. CASE Become(v, "clear") /\ UNCHANGED verdicts
      BY <2>1, <2>3 DEF Become, verdicts, VerdictInv, TypeInv, TypeOK, VisitsTyped
    <2>4. QED
      BY <1>8, <2>2, <2>3 DEF MarkGone
  <1>9. CASE /\ UNCHANGED <<pc, heard, misled>>
             /\ row'.state = row.state \/ row'.state # "failed"
    BY <1>9 DEF VerdictInv
  <1>10. CASE StartRuntime \/ StopRuntime \/ FailedContainer \/ Reconcile \/ GrowOld
    <2>1. UNCHANGED <<pc, heard, misled>>
      BY <1>10 DEF StartRuntime, StopRuntime, FailedContainer, Reconcile, GrowOld,
         EnsureStarted, ReadProject, MarkStarting, Launch, Probe, RecordRunning,
         StopContainer, Activate, RemoveContainers, RecordStopped, Throw, visits, verdicts
    <2>2. row'.state = row.state \/ row'.state # "failed"
      BY <1>10 DEF StartRuntime, StopRuntime, FailedContainer, Reconcile, GrowOld,
         EnsureStarted, ReadProject, MarkStarting, Launch, Probe, RecordRunning,
         StopContainer, Activate, RemoveContainers, RecordStopped, Ended, world,
         TypeInv, TypeOK, RowType
    <2>3. QED
      BY <2>1, <2>2, <1>9
  <1>11. QED
    BY <1>1, <1>2, <1>3, <1>4, <1>5, <1>6, <1>7, <1>8, <1>9, <1>10
       DEF Next, vars, Housekeeping, Wake, FailSubject, Claim, SweepLease, Succeed,
       HandlerFails, Crash, ListContainers, SweepIdle, NextHour, Die, Deploy, Render,
       ReadLimits, CommitLimits, Throw, world, visits, verdicts

\* However visits, starts and failure reports overlap, no waiting visitor is told
\* `failed` for a failure recorded before his wake-up cleared the row: it was
\* recorded since, of a start that failed while he waited or, late, of one that was
\* over before (gateway.ts 394-418, executor.ts 308-319).
THEOREM VerdictsAreNews == Spec => []VerdictIsNews
  <1>1. Init => TypeInv /\ VerdictInv
    BY TypeInit DEF Init, VerdictInv
  <1>2. TypeInv /\ VerdictInv /\ [Next]_vars => (TypeInv /\ VerdictInv)'
    BY TypeStep, VerdictStep
  <1>3. VerdictInv => VerdictIsNews
    BY DEF VerdictInv, VerdictIsNews
  <1>4. QED
    BY <1>1, <1>2, <1>3, PTL DEF Spec
=============================================================================
