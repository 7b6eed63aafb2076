----------------------- MODULE ProjectLifecycleProofs -----------------------
EXTENDS ProjectLifecycle, TLAPS

-----------------------------------------------------------------------------
(* What the helpers leave typed, and the unchanged parts of a step.         *)

LEMMA EnqueueTyped ==
  ASSUME JobsTyped, NEW j \in Job, NEW when \in Nat, Enqueue(j, when)
  PROVE  JobsTyped'
  BY DEF JobsTyped, Enqueue, jobs, JobStatus

LEMMA RerunnableTyped ==
  ASSUME JobsTyped, week \in Nat, NEW j \in Job, NEW from, EnqueueRerunnable(j, from)
  PROVE  JobsTyped'
  BY DEF JobsTyped, EnqueueRerunnable, jobs, JobStatus

LEMMA WithdrawTyped ==
  ASSUME JobsTyped, WithdrawDelete
  PROVE  JobsTyped'
  BY DEF JobsTyped, WithdrawDelete, jobs, JobStatus

LEMMA FinishTyped ==
  ASSUME RequestsTyped, NEW c \in Client, Finish(c)
  PROVE  RequestsTyped'
  BY DEF RequestsTyped, Finish

LEMMA IdleTyped ==
  ASSUME Idle, failing' \in Nat
  PROVE  HandlerTyped'
  BY DEF HandlerTyped, Idle

LEMMA ThrowTyped ==
  ASSUME TypeOK, exec \in Job, Throw
  PROVE  JobsTyped' /\ HandlerTyped'
  <1>1. JobsTyped'
    BY DEF TypeOK, JobsTyped, JobStatus, Throw
  <1>2. failing' \in Nat
    BY DEF TypeOK, HandlerTyped, Throw
  <1>3. QED
    BY <1>1, <1>2, IdleTyped DEF Throw

LEMMA UnchangedTyped ==
  /\ RowTyped /\ UNCHANGED row => RowTyped'
  /\ JobsTyped /\ UNCHANGED jobs => JobsTyped'
  /\ WorldTyped /\ UNCHANGED world => WorldTyped'
  /\ RequestsTyped /\ UNCHANGED requests => RequestsTyped'
  /\ HandlerTyped /\ UNCHANGED handler => HandlerTyped'
  BY DEF RowTyped, JobsTyped, WorldTyped, RequestsTyped, HandlerTyped,
     row, jobs, world, requests, handler

-----------------------------------------------------------------------------
(* Type correctness, the steps by who takes them.  The type of run_after    *)
(* rests on the request that marked the project knowing the date.           *)

MarkedDated ==
    \A c \in Client :
        pc[c] = "marked" => op[c] \in {"delete", "purge"} /\ saw[c] # Null

TypeInv == TypeOK /\ MarkedDated

LEMMA CreateTyped ==
  ASSUME TypeOK, Create
  PROVE  TypeOK'
  <1>1. RowTyped'
    BY DEF TypeOK, RowTyped, Status, Create
  <1>2. JobsTyped'
    BY EnqueueTyped DEF TypeOK, Create, Job
  <1>3. QED
    BY <1>1, <1>2, UnchangedTyped DEF TypeOK, Create, bounds

LEMMA RequestTyped ==
  ASSUME TypeOK, MarkedDated, NEW c \in Client, Ask(c) \/ Serve(c) \/ Abandon(c)
  PROVE  TypeOK'
  <1> USE DEF TypeOK
  <1>1. CASE Ask(c)
    <2>1. RequestsTyped'
      BY <1>1 DEF Ask, RequestsTyped, RowTyped
    <2>2. QED
      BY <1>1, <2>1, UnchangedTyped DEF Ask, bounds
  <1>2. CASE Enable(c)
    <2>1. RowTyped'
      BY <1>2 DEF Enable, RowTyped
    <2>2. JobsTyped'
      BY <1>2, RerunnableTyped, UnchangedTyped DEF Enable, Job
    <2>3. RequestsTyped'
      BY <1>2, FinishTyped DEF Enable
    <2>4. QED
      BY <1>2, <2>1, <2>2, <2>3, UnchangedTyped DEF Enable, bounds
  <1>3. CASE AskAgain(c)
    <2>1. saw[c] \in Nat
      BY <1>3 DEF AskAgain, RequestsTyped
    <2>2. JobsTyped'
      BY <1>3, <2>1, EnqueueTyped, UnchangedTyped DEF AskAgain, Job
    <2>3. RequestsTyped'
      BY <1>3, FinishTyped DEF AskAgain
    <2>4. QED
      BY <1>3, <2>2, <2>3, UnchangedTyped DEF AskAgain, bounds
  <1>4. CASE PullForward(c)
    <2>1. RowTyped' /\ deadline' \in Nat \cup {Null}
      BY <1>4 DEF PullForward, RowTyped
    <2>2. RequestsTyped'
      BY <1>4, FinishTyped DEF PullForward, RequestsTyped
    <2>3. QED
      BY <1>4, <2>1, <2>2, UnchangedTyped DEF PullForward, bounds
  <1>5. CASE MarkDeleting(c)
    <2>1. RowTyped' /\ deadline' \in Nat \cup {Null}
      BY <1>5 DEF MarkDeleting, RowTyped, Status
    <2>2. RequestsTyped'
      <3>1. purgeAfter' \in Nat \cup {Null}
        BY <2>1 DEF RowTyped
      <3>2. QED
        BY <1>5, <3>1, FinishTyped DEF MarkDeleting, RequestsTyped
    <2>3. QED
      BY <1>5, <2>1, <2>2, UnchangedTyped DEF MarkDeleting, bounds
  <1>6. CASE QueueDeletion(c)
    <2>1. JobsTyped'
      <3>1. CASE ~Exists
        BY <1>6, <3>1, UnchangedTyped DEF QueueDeletion
      <3>2. CASE Exists /\ op[c] = "purge"
        BY <1>6, <3>2, RerunnableTyped DEF QueueDeletion, Job
      <3>3. CASE Exists /\ op[c] = "delete"
        <4>1. saw[c] \in Nat
          BY <1>6 DEF QueueDeletion, MarkedDated, RequestsTyped
        <4>2. QED
          BY <1>6, <3>3, <4>1, EnqueueTyped DEF QueueDeletion, Job
      <3>4. QED
        BY <1>6, <3>1, <3>2, <3>3 DEF QueueDeletion, MarkedDated
    <2>2. RequestsTyped'
      BY <1>6, FinishTyped DEF QueueDeletion
    <2>3. QED
      BY <1>6, <2>1, <2>2, UnchangedTyped DEF QueueDeletion, bounds
  <1>7. CASE Restore(c)
    <2>1. RowTyped' /\ deadline' \in Nat \cup {Null}
      BY <1>7 DEF Restore, RowTyped, Status
    <2>2. JobsTyped'
      BY <1>7, WithdrawTyped, UnchangedTyped DEF Restore
    <2>3. RequestsTyped'
      BY <1>7, FinishTyped DEF Restore
    <2>4. QED
      BY <1>7, <2>1, <2>2, <2>3, UnchangedTyped DEF Restore, bounds
  <1>8. CASE Abandon(c)
    <2>1. RequestsTyped'
      BY <1>8, FinishTyped DEF Abandon
    <2>2. QED
      BY <1>8, <2>1, UnchangedTyped DEF Abandon, Trouble
  <1>9. QED
    BY <1>1, <1>2, <1>3, <1>4, <1>5, <1>6, <1>7, <1>8 DEF Serve

LEMMA QueueTyped ==
  ASSUME TypeOK, NEW j \in Job,
         Claim(j) \/ SweepLease(j) \/ Succeed \/ HandlerFails \/ FailSubject \/ Crash
         \/ EnqueueUsage \/ ReviveDelete
  PROVE  TypeOK'
  <1> USE DEF TypeOK
  <1>1. CASE Claim(j)
    <2>1. JobsTyped'
      BY <1>1 DEF Claim, JobsTyped, JobStatus
    <2>2. HandlerTyped'
      BY <1>1 DEF Claim, HandlerTyped
    <2>3. QED
      BY <1>1, <2>1, <2>2, UnchangedTyped DEF Claim, bounds
  <1>2. CASE SweepLease(j)
    <2>1. JobsTyped'
      BY <1>2 DEF SweepLease, JobsTyped, JobStatus
    <2>2. QED
      BY <1>2, <2>1, UnchangedTyped DEF SweepLease, bounds
  <1>3. CASE Succeed
    <2>1. JobsTyped'
      BY <1>3 DEF Succeed, JobsTyped, JobStatus
    <2>2. HandlerTyped'
      BY <1>3, IdleTyped DEF Succeed, HandlerTyped
    <2>3. QED
      BY <1>3, <2>1, <2>2, UnchangedTyped DEF Succeed, bounds
  <1>4. CASE HandlerFails
    <2>1. exec \in Job
      BY <1>4 DEF HandlerFails, HandlerTyped
    <2>2. JobsTyped' /\ HandlerTyped'
      BY <1>4, <2>1, ThrowTyped DEF HandlerFails
    <2>3. QED
      BY <1>4, <2>2, UnchangedTyped DEF HandlerFails, Throw, Trouble
  <1>5. CASE FailSubject
    <2>1. RowTyped'
      BY <1>5 DEF FailSubject, RowTyped, Status
    <2>2. HandlerTyped'
      BY <1>5 DEF FailSubject, HandlerTyped
    <2>3. QED
      BY <1>5, <2>1, <2>2, UnchangedTyped DEF FailSubject, bounds
  <1>6. CASE Crash
    <2>1. HandlerTyped'
      BY <1>6, IdleTyped DEF Crash
    <2>2. QED
      BY <1>6, <2>1, UnchangedTyped DEF Crash, Trouble
  <1>7. CASE EnqueueUsage
    <2>1. JobsTyped'
      BY <1>7, EnqueueTyped DEF EnqueueUsage, Job
    <2>2. QED
      BY <1>7, <2>1, UnchangedTyped DEF EnqueueUsage, bounds
  <1>8. CASE ReviveDelete
    <2>1. JobsTyped'
      BY <1>8 DEF ReviveDelete, JobsTyped, Job, JobStatus
    <2>2. QED
      BY <1>8, <2>1, UnchangedTyped DEF ReviveDelete, bounds
  <1>9. QED
    BY <1>1, <1>2, <1>3, <1>4, <1>5, <1>6, <1>7, <1>8

LEMMA ProvisionTyped ==
  ASSUME TypeOK, Provision
  PROVE  TypeOK'
  <1> USE DEF TypeOK, At, Goto
  <1>1. CASE ReadPlan
    <2>1. HandlerTyped'
      BY <1>1 DEF ReadPlan, HandlerTyped, RowTyped
    <2>2. QED
      BY <1>1, <2>1, UnchangedTyped DEF ReadPlan, bounds
  <1>2. CASE BuildDatabase
    <2>1. WorldTyped' /\ HandlerTyped'
      BY <1>2 DEF BuildDatabase, WorldTyped, HandlerTyped
    <2>2. QED
      BY <1>2, <2>1, UnchangedTyped DEF BuildDatabase, bounds
  <1>3. CASE RecordResources
    <2>1. RowTyped' /\ HandlerTyped'
      BY <1>3 DEF RecordResources, RowTyped, HandlerTyped
    <2>2. QED
      BY <1>3, <2>1, UnchangedTyped DEF RecordResources, bounds
  <1>4. CASE Publish
    <2>1. RowTyped' /\ HandlerTyped'
      BY <1>4 DEF Publish, RowTyped, HandlerTyped, Status
    <2>2. QED
      BY <1>4, <2>1, UnchangedTyped DEF Publish, bounds
  <1>5. QED
    BY <1>1, <1>2, <1>3, <1>4 DEF Provision

LEMMA MeasureTyped ==
  ASSUME TypeOK, Measure
  PROVE  TypeOK'
  <1> USE DEF TypeOK, At, Goto
  <1>1. CASE ReadUsage
    <2>1. JobsTyped' /\ HandlerTyped'
      <3>1. CASE enabled /\ database # "live"
        BY <1>1, <3>1, ThrowTyped DEF ReadUsage, Job
      <3>2. CASE ~(enabled /\ database # "live")
        BY <1>1, <3>2, UnchangedTyped DEF ReadUsage, HandlerTyped, RowTyped, WorldTyped
      <3>3. QED
        BY <3>1, <3>2
    <2>2. QED
      BY <1>1, <2>1, UnchangedTyped DEF ReadUsage, Throw, bounds
  <1>2. CASE RecordUsage
    <2>1. RowTyped' /\ HandlerTyped'
      BY <1>2 DEF RecordUsage, RowTyped, HandlerTyped
    <2>2. QED
      BY <1>2, <2>1, UnchangedTyped DEF RecordUsage, bounds
  <1>3. CASE SetGrant
    <2>1. WorldTyped' /\ HandlerTyped'
      BY <1>3 DEF SetGrant, WorldTyped, HandlerTyped
    <2>2. QED
      BY <1>3, <2>1, UnchangedTyped DEF SetGrant, bounds
  <1>4. CASE SetUsageStatus
    <2>1. RowTyped' /\ HandlerTyped'
      BY <1>4 DEF SetUsageStatus, RowTyped, HandlerTyped, Status
    <2>2. QED
      BY <1>4, <2>1, UnchangedTyped DEF SetUsageStatus, bounds
  <1>5. QED
    BY <1>1, <1>2, <1>3, <1>4 DEF Measure

LEMMA PurgeTyped ==
  ASSUME TypeOK, Purge
  PROVE  TypeOK'
  <1> USE DEF TypeOK, At, Goto
  <1>1. CASE StartPurge
    <2>1. JobsTyped' /\ HandlerTyped'
      <3>1. CASE Due
        BY <1>1, <3>1, UnchangedTyped DEF StartPurge, HandlerTyped
      <3>2. CASE ~Due
        BY <1>1, <3>2, ThrowTyped DEF StartPurge, Job
      <3>3. QED
        BY <3>1, <3>2
    <2>2. QED
      BY <1>1, <2>1, UnchangedTyped DEF StartPurge, Throw, bounds
  <1>2. CASE MarkDeleted
    <2>1. RowTyped' /\ HandlerTyped'
      BY <1>2 DEF MarkDeleted, RowTyped, HandlerTyped, Status
    <2>2. QED
      BY <1>2, <2>1, UnchangedTyped DEF MarkDeleted, bounds
  <1>3. CASE DropDatabase
    <2>1. WorldTyped' /\ HandlerTyped'
      BY <1>3 DEF DropDatabase, WorldTyped, HandlerTyped
    <2>2. QED
      BY <1>3, <2>1, UnchangedTyped DEF DropDatabase, bounds
  <1>4. CASE EraseProject
    <2>1. RowTyped' /\ JobsTyped'
      BY <1>4 DEF EraseProject, RowTyped, JobsTyped, Status, JobStatus
    <2>2. HandlerTyped'
      BY <1>4, IdleTyped DEF EraseProject, HandlerTyped
    <2>3. QED
      BY <1>4, <2>1, <2>2, UnchangedTyped DEF EraseProject, bounds
  <1>5. QED
    BY <1>1, <1>2, <1>3, <1>4 DEF Purge

LEMMA OutsideTyped ==
  ASSUME TypeOK, UseDatabase \/ RaiseLimit \/ WeekPasses
  PROVE  TypeOK'
  <1> USE DEF TypeOK
  <1>1. CASE UseDatabase
    <2>1. WorldTyped'
      BY <1>1 DEF UseDatabase, WorldTyped
    <2>2. QED
      BY <1>1, <2>1, UnchangedTyped DEF UseDatabase, bounds
  <1>2. CASE RaiseLimit
    <2>1. RowTyped' /\ WorldTyped'
      BY <1>2 DEF RaiseLimit, RowTyped, WorldTyped
    <2>2. QED
      BY <1>2, <2>1, UnchangedTyped DEF RaiseLimit, bounds
  <1>3. CASE WeekPasses
    BY <1>3, UnchangedTyped DEF WeekPasses
  <1>4. QED
    BY <1>1, <1>2, <1>3

LEMMA MarkedDatedKept ==
  ASSUME TypeInv, [Next]_vars
  PROVE  MarkedDated'
  <1> USE DEF TypeInv, TypeOK
  <1>1. ASSUME NEW c \in Client, Ask(c) \/ Serve(c) \/ Abandon(c)
        PROVE  MarkedDated'
    <2> SUFFICES ASSUME NEW d \in Client, pc'[d] = "marked"
                 PROVE  op'[d] \in {"delete", "purge"} /\ saw'[d] # Null
      BY DEF MarkedDated
    <2>1. CASE d # c
      BY <1>1, <2>1 DEF MarkedDated, RequestsTyped, Ask, Serve, Enable, AskAgain,
         PullForward, MarkDeleting, QueueDeletion, Restore, Abandon, Finish
    <2>2. CASE d = c /\ PullForward(c)
      BY <1>1, <2>2 DEF RequestsTyped, PullForward, Finish
    <2>3. CASE d = c /\ MarkDeleting(c)
      <3>1. Exists
        BY <2>3 DEF RequestsTyped, MarkDeleting, Finish
      <3>2. purgeAfter' \in Nat
        BY <2>3, <3>1 DEF MarkDeleting
      <3>3. QED
        BY <2>3, <3>1, <3>2, LifecycleAssumption DEF RequestsTyped, MarkDeleting
    <2>4. CASE d = c /\ ~PullForward(c) /\ ~MarkDeleting(c)
      BY <1>1, <2>4 DEF RequestsTyped, Ask, Serve, Enable, AskAgain, QueueDeletion,
         Restore, Abandon, Finish
    <2>5. QED
      BY <2>1, <2>2, <2>3, <2>4
  <1>2. ASSUME UNCHANGED requests
        PROVE  MarkedDated'
    BY <1>2 DEF MarkedDated, requests
  <1>3. ASSUME ~(\E c \in Client : Ask(c) \/ Serve(c) \/ Abandon(c))
        PROVE  UNCHANGED requests
    BY <1>3 DEF Next, vars, Create, Claim, SweepLease, Provision, ReadPlan, BuildDatabase,
       RecordResources, Publish, Measure, ReadUsage, RecordUsage, SetGrant,
       SetUsageStatus, Purge, StartPurge, MarkDeleted, DropDatabase, EraseProject,
       Succeed, HandlerFails, Throw, FailSubject, Crash, EnqueueUsage, ReviveDelete,
       UseDatabase, RaiseLimit, WeekPasses
  <1>4. QED
    BY <1>1, <1>2, <1>3

LEMMA TypedInit == Init => TypeInv
  <1> SUFFICES ASSUME Init
               PROVE  TypeInv
    OBVIOUS
  <1>1. RowTyped /\ JobsTyped /\ WorldTyped
    BY DEF Init, RowTyped, JobsTyped, WorldTyped, Status, JobStatus
  <1>2. RequestsTyped /\ HandlerTyped /\ MarkedDated
    BY DEF Init, RequestsTyped, HandlerTyped, MarkedDated
  <1>3. deadline \in Nat \cup {Null} /\ week \in Nat /\ troubles \in Nat
    BY DEF Init
  <1>4. QED
    BY <1>1, <1>2, <1>3 DEF TypeInv, TypeOK

LEMMA TypedStep == TypeInv /\ [Next]_vars => TypeInv'
  <1> SUFFICES ASSUME TypeInv, [Next]_vars
               PROVE  TypeOK'
    BY MarkedDatedKept DEF TypeInv
  <1>1. CASE Next
    BY <1>1, CreateTyped, RequestTyped, QueueTyped, ProvisionTyped, MeasureTyped,
       PurgeTyped, OutsideTyped DEF Next, TypeInv, Job
  <1>2. CASE UNCHANGED vars
    BY <1>2, UnchangedTyped DEF vars, bounds, TypeInv, TypeOK
  <1>3. QED
    BY <1>1, <1>2

\* The rows of a project, its jobs, its database, the requests on their way and
\* the handler at work keep their types, whatever failures, crashes and
\* interleavings (lib/projects.ts 1500-1650, executor.ts 344-470, 1565-1682).
THEOREM TypeCorrect == Spec => []TypeOK
  <1>1. TypeInv => TypeOK
    BY DEF TypeInv
  <1>2. QED
    BY TypedInit, TypedStep, <1>1, PTL DEF Spec

-----------------------------------------------------------------------------
(* Credentials.  A handler that made the database has it when it records    *)
(* them, since no other job of the project runs meanwhile.                  *)

Resting == exec = Null => step = "start"

RecordedNext == At("provision", "record") /\ sawDb => database = "live"

CredsInv == Resting /\ RecordedNext /\ CredentialsAreReal

\* The executor's own steps that neither touch the database nor record it.
LEMMA CredsElsewhere ==
  ASSUME CredsInv, UNCHANGED <<creds, database>>,
         \/ UNCHANGED <<exec, step, sawDb>>
         \/ Idle
         \/ exec = Null /\ UNCHANGED step
         \/ exec # Null /\ UNCHANGED exec /\ step' # "record"
  PROVE  CredsInv'
  BY DEF CredsInv, Resting, RecordedNext, CredentialsAreReal, At, Idle

LEMMA CredsStep ==
  ASSUME TypeInv, CredsInv, [Next]_vars, Null \notin Job
  PROVE  CredsInv'
  <1> USE DEF At, Goto
  <1>1. CASE BuildDatabase
    BY <1>1 DEF BuildDatabase, CredsInv, Resting, RecordedNext, CredentialsAreReal, row
  <1>2. CASE RecordResources
    BY <1>2 DEF RecordResources, CredsInv, Resting, RecordedNext, CredentialsAreReal, world
  <1>3. CASE DropDatabase
    BY <1>3 DEF DropDatabase, CredsInv, Resting, RecordedNext, CredentialsAreReal, row
  <1>4. CASE EraseProject
    BY <1>4 DEF EraseProject, Idle, CredsInv, Resting, RecordedNext, CredentialsAreReal
  <1>5. CASE \E j \in Job : Claim(j)
    BY <1>5, CredsElsewhere DEF Claim, row, world
  <1>6. CASE Succeed \/ HandlerFails \/ Crash
    BY <1>6, CredsElsewhere DEF Succeed, HandlerFails, Throw, Crash, row, world
  <1>7. CASE ReadUsage \/ StartPurge
    BY <1>7, CredsElsewhere DEF ReadUsage, StartPurge, Throw, row, world, Job
  <1>8. CASE ReadPlan \/ Publish \/ RecordUsage \/ SetGrant \/ SetUsageStatus \/ MarkDeleted
    BY <1>8, CredsElsewhere DEF ReadPlan, Publish, RecordUsage, SetGrant, SetUsageStatus,
       MarkDeleted, row, world, Job
  <1>9. CASE FailSubject \/ Create \/ (\E c \in Client : Ask(c) \/ Serve(c) \/ Abandon(c))
    BY <1>9, CredsElsewhere DEF FailSubject, Create, Ask, Serve, Enable, AskAgain, PullForward,
       MarkDeleting, QueueDeletion, Restore, Abandon, row, world, handler
  <1>10. CASE \/ \E j \in Job : SweepLease(j)
              \/ EnqueueUsage \/ ReviveDelete \/ UseDatabase \/ RaiseLimit \/ WeekPasses
              \/ UNCHANGED vars
    BY <1>10, CredsElsewhere DEF SweepLease, EnqueueUsage, ReviveDelete, UseDatabase,
       RaiseLimit, WeekPasses, vars, row, world, handler
  <1>11. QED
    BY <1>1, <1>2, <1>3, <1>4, <1>5, <1>6, <1>7, <1>8, <1>9, <1>10
    DEF Next, Provision, Measure, Purge

\* No crash, failure or retry leaves a record of credentials without the
\* database they open (executor.ts 344-470, 1643-1682).
THEOREM CredentialsReal == Spec => []CredentialsAreReal
  <1>1. Init => CredsInv
    BY DEF Init, CredsInv, Resting, RecordedNext, CredentialsAreReal, At
  <1>2. TypeInv /\ CredsInv /\ [Next]_vars => CredsInv'
    BY CredsStep, LifecycleAssumption DEF Job
  <1>3. CredsInv => CredentialsAreReal
    BY DEF CredsInv
  <1>4. QED
    BY TypedInit, TypedStep, <1>1, <1>2, <1>3, PTL DEF Spec

-----------------------------------------------------------------------------
(* Purges.  The date in the row is the one of the last request committed,   *)
(* or there is none; the handler believes the row.                          *)

DateInv == purgeAfter # Null => purgeAfter = deadline

LEMMA DateStep ==
  ASSUME DateInv, [Next]_vars
  PROVE  DateInv'
  <1>1. CASE \E c \in Client : Ask(c) \/ Serve(c) \/ Abandon(c)
    BY <1>1 DEF DateInv, Ask, Serve, Enable, AskAgain, PullForward, MarkDeleting,
       QueueDeletion, Restore, Abandon, row
  <1>2. CASE EraseProject
    BY <1>2 DEF DateInv, EraseProject
  <1>3. CASE UNCHANGED <<purgeAfter, deadline>>
    BY <1>3 DEF DateInv
  <1>4. ASSUME ~(\E c \in Client : Ask(c) \/ Serve(c) \/ Abandon(c)), ~EraseProject
        PROVE  UNCHANGED <<purgeAfter, deadline>>
    BY <1>4 DEF Next, vars, row, Create, Claim, SweepLease, Provision, ReadPlan,
       BuildDatabase, RecordResources, Publish, Measure, ReadUsage, RecordUsage, SetGrant,
       SetUsageStatus, Purge, StartPurge, MarkDeleted, DropDatabase,
       Succeed, HandlerFails, Throw, FailSubject, Crash, EnqueueUsage, ReviveDelete,
       UseDatabase, RaiseLimit, WeekPasses
  <1>5. QED
    BY <1>1, <1>2, <1>3, <1>4

\* Only the handler's first step goes on to mark the project.
LEMMA OnlyStartMarks ==
  ASSUME [Next]_vars, At("delete", "start"), step' = "mark"
  PROVE  StartPurge
  <1> USE DEF At, Goto
  <1>1. ~(\E c \in Client : Ask(c) \/ Serve(c) \/ Abandon(c)) /\ ~Create
    BY DEF Create, Ask, Serve, Enable, AskAgain, PullForward, MarkDeleting, QueueDeletion,
       Restore, Abandon, handler
  <1>2. ~(\E j \in Job : Claim(j) \/ SweepLease(j))
    BY DEF Claim, SweepLease, handler
  <1>3. ~Provision /\ ~Measure /\ ~MarkDeleted /\ ~DropDatabase /\ ~EraseProject
    BY DEF Provision, ReadPlan, BuildDatabase, RecordResources, Publish, Measure,
       ReadUsage, RecordUsage, SetGrant, SetUsageStatus, MarkDeleted, DropDatabase,
       EraseProject
  <1>4. ~Succeed /\ ~HandlerFails /\ ~FailSubject /\ ~Crash
    BY DEF Succeed, HandlerFails, Throw, FailSubject, Crash, Idle
  <1>5. ~EnqueueUsage /\ ~ReviveDelete /\ ~UseDatabase /\ ~RaiseLimit /\ ~WeekPasses
    BY DEF EnqueueUsage, ReviveDelete, UseDatabase, RaiseLimit, WeekPasses, handler
  <1>6. ~UNCHANGED vars
    BY DEF vars, handler
  <1>7. QED
    BY <1>1, <1>2, <1>3, <1>4, <1>5, <1>6 DEF Next, Purge

\* Whatever requests and retries raced before it, a purge that starts is what
\* the last committed deletion or restore asks for (executor.ts 1621-1638,
\* lib/projects.ts 1500-1650).
THEOREM PurgesWarranted == Spec => PurgeWarranted
  <1>1. Init => DateInv
    BY DEF Init, DateInv
  <1>2. DateInv /\ [Next]_vars => DateInv'
    BY DateStep
  <1>3. DateInv /\ [Next]_vars
        => [At("delete", "start") /\ step' = "mark"
                => deadline # Null /\ deadline <= week]_vars
    <2> SUFFICES ASSUME DateInv, [Next]_vars, At("delete", "start"), step' = "mark"
                 PROVE  deadline # Null /\ deadline <= week
      OBVIOUS
    <2>1. StartPurge
      BY OnlyStartMarks
    <2>2. Due
      BY <2>1 DEF StartPurge, Throw, Idle
    <2>3. QED
      BY <2>2 DEF Due, DateInv
  <1>4. QED
    BY <1>1, <1>2, <1>3, PTL DEF Spec, PurgeWarranted

-----------------------------------------------------------------------------
(* Status changes.                                                          *)

Up == {"ready", "storage_exceeded", "deleting", "deleted"}

LEMMA UpStays ==
  ASSUME [Next]_vars, status \in Up
  PROVE  status' \notin {"provisioning", "failed"}
  <1> USE DEF Up
  <1>1. CASE Create
    BY <1>1 DEF Create
  <1>2. CASE \E c \in Client : Ask(c) \/ Serve(c) \/ Abandon(c)
    BY <1>2 DEF Ask, Serve, Enable, AskAgain, PullForward, MarkDeleting, QueueDeletion,
       Restore, Abandon, row
  <1>3. CASE FailSubject
    BY <1>3 DEF FailSubject
  <1>4. CASE Publish \/ SetUsageStatus \/ MarkDeleted \/ EraseProject
    BY <1>4 DEF Publish, SetUsageStatus, MarkDeleted, EraseProject
  <1>5. CASE UNCHANGED status
    BY <1>5
  <1>6. QED
    BY <1>1, <1>2, <1>3, <1>4, <1>5 DEF Next, vars, row, Claim, SweepLease, Provision,
       ReadPlan, BuildDatabase, RecordResources, Measure, ReadUsage, RecordUsage, SetGrant,
       Purge, StartPurge, DropDatabase, Succeed, HandlerFails, Throw, Crash,
       EnqueueUsage, ReviveDelete, UseDatabase, RaiseLimit, WeekPasses

\* However late a provisioning failure is written, a project that came up stays
\* up until it is deleted (executor.ts 2556-2563).
THEOREM NotDemoted == Spec => LiveNotDemoted
  <1>1. [Next]_vars => [(status \in Up) => (status' \notin {"provisioning", "failed"})]_vars
    BY UpStays
  <1>2. QED
    BY <1>1, PTL DEF Spec, LiveNotDemoted, Up
=============================================================================
