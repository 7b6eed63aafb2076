--------------------------- MODULE JobQueueProofs ---------------------------
(***************************************************************************)
(* Types, leases and exclusion, attempts and retries, for any number of    *)
(* jobs, projects, slots, restarts and sweeps.                             *)
(***************************************************************************)
EXTENDS JobQueue, TLAPS

-----------------------------------------------------------------------------
(* Type correctness: first what the helpers leave typed.                    *)

LEMMA UnleasedTyped ==
  ASSUME RowsTyped, NEW S, Unleased(S)
  PROVE  /\ lockedBy' \in [Job -> (Slot \X Nat) \cup {Nobody}]
         /\ fresh' \in [Job -> BOOLEAN]
  BY DEF RowsTyped, Unleased

LEMMA RequeuedTyped ==
  ASSUME RowsTyped, NEW j \in Job, NEW isDue \in BOOLEAN, Requeued(j, isDue),
         older' \in SUBSET (Job \X Job), UNCHANGED gone
  PROVE  RowsTyped'
  <1>1. Unleased({j})
    BY DEF Requeued
  <1>2. /\ lockedBy' \in [Job -> (Slot \X Nat) \cup {Nobody}]
        /\ fresh' \in [Job -> BOOLEAN]
    BY <1>1, UnleasedTyped
  <1>3. /\ status' \in [Job -> Status]
        /\ due' \in [Job -> BOOLEAN]
        /\ attempts' \in [Job -> Nat]
        /\ fails' \in [Job -> Nat]
        /\ lost' \in [Job -> Nat]
    BY DEF Requeued, RowsTyped, Status
  <1>4. QED
    BY <1>2, <1>3 DEF RowsTyped

LEMMA RemovedTyped ==
  ASSUME RowsTyped, NEW S, Removed(S), gone' \in SUBSET Project
  PROVE  RowsTyped'
  <1>1. Unleased(S)
    BY DEF Removed
  <1>2. /\ lockedBy' \in [Job -> (Slot \X Nat) \cup {Nobody}]
        /\ fresh' \in [Job -> BOOLEAN]
    BY <1>1, UnleasedTyped
  <1>3. /\ status' \in [Job -> Status]
        /\ due' \in [Job -> BOOLEAN]
        /\ attempts' \in [Job -> Nat]
        /\ fails' \in [Job -> Nat]
        /\ lost' \in [Job -> Nat]
        /\ older' \in SUBSET (Job \X Job)
    BY DEF Removed, RowsTyped, Status
  <1>4. QED
    BY <1>2, <1>3 DEF RowsTyped

LEMMA BackToLoopTyped ==
  ASSUME WorkersTyped, NEW S, BackToLoop(S)
  PROVE  WorkersTyped'
  BY DEF WorkersTyped, BackToLoop, PC

\* The unchanged parts of a step.
LEMMA UnchangedTyped ==
  /\ RowsTyped /\ UNCHANGED rows => RowsTyped'
  /\ WorkersTyped /\ UNCHANGED workers => WorkersTyped'
  /\ ProcessTyped /\ UNCHANGED <<claimLock, process, requests, troubles>>
        => ProcessTyped'
  BY DEF RowsTyped, WorkersTyped, ProcessTyped, rows, workers, process

LEMMA ClientTyped ==
  ASSUME TypeOK, NEW j \in Job,
         \/ Client(j) \/ BecomeDue(j) \/ Expire(j)
         \/ PruneJobs(j) \/ ReviveDelete(j) \/ ExpireRender(j)
  PROVE  TypeOK'
  <1> USE DEF TypeOK
  <1>1. WorkersTyped'
    <2>1. UNCHANGED workers
      BY DEF Client, Enqueue, EnqueueRerunnable, RunPurgeNow,
         WithdrawDelete, BecomeDue, PruneJobs, ReviveDelete, Expire, ExpireRender, workers
    <2>2. QED
      BY <2>1, UnchangedTyped
  <1>2. ProcessTyped'
    <2>1. /\ UNCHANGED <<claimLock, process, troubles>>
          /\ requests' \in {requests, requests + 1}
      BY DEF Client, Enqueue, EnqueueRerunnable, RunPurgeNow,
         WithdrawDelete, BecomeDue, PruneJobs, ReviveDelete, Expire, ExpireRender, process
    <2>2. QED
      BY <2>1 DEF ProcessTyped, process
  <1>3. RowsTyped'
    <2>1. CASE Enqueue(j)
      <3>1. PICK isDue \in BOOLEAN : Requeued(j, isDue)
        BY <2>1 DEF Enqueue
      <3>2. older' \in SUBSET (Job \X Job) /\ UNCHANGED gone
        BY <2>1 DEF Enqueue, RowsTyped
      <3>3. QED
        BY <3>1, <3>2, RequeuedTyped
    <2>2. CASE EnqueueRerunnable(j)
      BY <2>2, RequeuedTyped DEF EnqueueRerunnable, RowsTyped
    <2>3. CASE RunPurgeNow(j)
      BY <2>3, RequeuedTyped DEF RunPurgeNow, RowsTyped
    <2>4. CASE WithdrawDelete(j)
      BY <2>4, RemovedTyped DEF WithdrawDelete, RowsTyped
    <2>5. CASE BecomeDue(j)
      BY <2>5 DEF BecomeDue, RowsTyped
    <2>6. CASE PruneJobs(j)
      BY <2>6, RemovedTyped DEF PruneJobs, RowsTyped
    <2>7. CASE ReviveDelete(j)
      BY <2>7, RequeuedTyped DEF ReviveDelete, RowsTyped
    <2>8. CASE Expire(j)
      BY <2>8 DEF Expire, RowsTyped
    <2>9. CASE ExpireRender(j)
      BY <2>9 DEF ExpireRender, RowsTyped, Status
    <2>10. QED
      BY <2>1, <2>2, <2>3, <2>4, <2>5, <2>6, <2>7, <2>8, <2>9 DEF Client
  <1>4. QED
    BY <1>1, <1>2, <1>3

LEMMA ClaimTyped ==
  ASSUME TypeOK, NEW w \in Slot, Claim(w) \/ ClaimError(w)
  PROVE  TypeOK'
  <1> USE QueueAssumption DEF TypeOK
  <1>1. CASE StartClaim(w)
    BY <1>1, UnchangedTyped DEF StartClaim, WorkersTyped, ProcessTyped, process, PC
  <1>2. CASE TryLock(w)
    BY <1>2, UnchangedTyped DEF TryLock, WorkersTyped, ProcessTyped, process, PC
  <1>3. CASE CountHeavy(w)
    BY <1>3, UnchangedTyped DEF CountHeavy, WorkersTyped, ProcessTyped, process, PC
  <1>4. CASE Select(w)
    <2>1. RowsTyped' /\ ProcessTyped'
      BY <1>4, UnchangedTyped DEF Select, ProcessTyped, process
    <2>2. WorkersTyped'
      <3>1. CASE BackToLoop({w})
        BY <3>1, BackToLoopTyped
      <3>2. CASE ~BackToLoop({w})
        BY <1>4, <3>2 DEF Select, Oldest, WorkersTyped, PC
      <3>3. QED
        BY <3>1, <3>2
    <2>3. QED
      BY <2>1, <2>2
  <1>5. CASE CommitClaim(w)
    <2>1. RowsTyped'
      BY <1>5 DEF CommitClaim, RowsTyped, WorkersTyped, ProcessTyped, Me, Status
    <2>2. WorkersTyped'
      BY <1>5 DEF CommitClaim, RowsTyped, WorkersTyped, PC
    <2>3. ProcessTyped'
      BY <1>5 DEF CommitClaim, ProcessTyped, process
    <2>4. QED
      BY <2>1, <2>2, <2>3
  <1>6. CASE Register(w)
    BY <1>6, UnchangedTyped DEF Register, WorkersTyped, ProcessTyped, PC
  <1>7. CASE ClaimError(w)
    BY <1>7, UnchangedTyped, BackToLoopTyped DEF ClaimError, Trouble, ProcessTyped, process
  <1>8. QED
    BY <1>1, <1>2, <1>3, <1>4, <1>5, <1>6, <1>7 DEF Claim

LEMMA WorkTyped ==
  ASSUME TypeOK, NEW w \in Slot,
         Finish(w) \/ PruneVersions(w) \/ DeleteProjectRow(w) \/ Lapse(w) \/ Renew(w)
  PROVE  TypeOK'
  <1> USE QueueAssumption DEF TypeOK
  <1>1. CASE Succeed(w)
    <2>1. RowsTyped'
      BY <1>1, UnleasedTyped DEF Succeed, RowsTyped, Status
    <2>2. WorkersTyped' /\ ProcessTyped'
      BY <1>1, BackToLoopTyped DEF Succeed, Leave, ProcessTyped
    <2>3. QED
      BY <2>1, <2>2
  <1>2. CASE Fail(w)
    <2>1. RowsTyped'
      BY <1>2, UnleasedTyped DEF Fail, RowsTyped, Status
    <2>2. WorkersTyped' /\ ProcessTyped'
      <3>1. CASE OwnsLease(w)
        BY <1>2, <3>1 DEF Fail, WorkersTyped, ProcessTyped, PC
      <3>2. CASE ~OwnsLease(w)
        BY <1>2, <3>2, BackToLoopTyped DEF Fail, Leave, ProcessTyped
      <3>3. QED
        BY <3>1, <3>2
    <2>3. QED
      BY <2>1, <2>2
  <1>3. CASE FailSubject(w)
    BY <1>3, UnchangedTyped, BackToLoopTyped DEF FailSubject, Leave, ProcessTyped
  <1>4. CASE DeleteProjectRow(w)
    <2>1. cur[w] \in Job
      BY <1>4 DEF DeleteProjectRow, WorkersTyped
    <2>2. gone' \in SUBSET Project
      BY <1>4, <2>1 DEF DeleteProjectRow, RowsTyped
    <2>3. QED
      BY <1>4, <2>2, RemovedTyped, UnchangedTyped DEF DeleteProjectRow, ProcessTyped, process
  <1>5. CASE Lapse(w)
    BY <1>5, UnchangedTyped DEF Lapse, Trouble, WorkersTyped, ProcessTyped, process
  <1>6. CASE Renew(w)
    BY <1>6, UnchangedTyped DEF Renew, RowsTyped, ProcessTyped, process
  <1>7. CASE PruneVersions(w)
    <2>1. \E S : Removed(S)
      BY <1>7 DEF PruneVersions
    <2>2. RowsTyped'
      BY <1>7, <2>1, RemovedTyped DEF PruneVersions, RowsTyped
    <2>3. QED
      BY <1>7, <2>2, UnchangedTyped DEF PruneVersions, ProcessTyped, process
  <1>8. QED
    BY <1>1, <1>2, <1>3, <1>4, <1>5, <1>6, <1>7 DEF Finish

LEMMA ProcessStepTyped ==
  ASSUME TypeOK, SweepLeases \/ Close \/ Release \/ Exit \/ Crash \/ Boot
  PROVE  TypeOK'
  <1> USE QueueAssumption DEF TypeOK
  <1>1. CASE SweepLeases
    <2>1. RowsTyped'
      <3> DEFINE stale == {j \in Job : Stale(j)}
      <3>1. Unleased(stale)
        BY <1>1 DEF SweepLeases
      <3>2. /\ lockedBy' \in [Job -> (Slot \X Nat) \cup {Nobody}]
            /\ fresh' \in [Job -> BOOLEAN]
        BY <3>1, UnleasedTyped
      <3>3. /\ status' = [j \in Job |-> IF j \in stale THEN "queued" ELSE status[j]]
            /\ due' = [j \in Job |-> IF j \in stale THEN TRUE ELSE due[j]]
            /\ lost' = [j \in Job |-> IF j \in stale THEN lost[j] + 1 ELSE lost[j]]
            /\ UNCHANGED <<attempts, older, gone, fails>>
        BY <1>1 DEF SweepLeases
      <3> HIDE DEF stale
      <3>4. status' \in [Job -> Status]
        BY <3>3 DEF RowsTyped, Status
      <3>5. due' \in [Job -> BOOLEAN]
        BY <3>3 DEF RowsTyped
      <3>6. lost' \in [Job -> Nat]
        BY <3>3 DEF RowsTyped
      <3>7. QED
        BY <3>2, <3>3, <3>4, <3>5, <3>6 DEF RowsTyped
    <2>2. QED
      BY <1>1, <2>1, UnchangedTyped DEF SweepLeases, ProcessTyped, process
  <1>2. CASE Close
    BY <1>2, UnchangedTyped DEF Close, Trouble, ProcessTyped
  <1>3. CASE Release
    <2>1. RowsTyped'
      <3> DEFINE held == {j \in inFlight : status[j] = "running"}
      <3>1. Unleased(held)
        BY <1>3 DEF Release
      <3>2. /\ lockedBy' \in [Job -> (Slot \X Nat) \cup {Nobody}]
            /\ fresh' \in [Job -> BOOLEAN]
        BY <3>1, UnleasedTyped
      <3>3. /\ status' = [j \in Job |-> IF j \in held THEN "queued" ELSE status[j]]
            /\ due' = [j \in Job |-> IF j \in held THEN TRUE ELSE due[j]]
            /\ attempts' = [j \in Job |->
                               IF j \in held THEN Refund(attempts[j]) ELSE attempts[j]]
            /\ UNCHANGED <<older, gone, fails, lost>>
        BY <1>3 DEF Release
      <3> HIDE DEF held
      <3>4. status' \in [Job -> Status]
        BY <3>3 DEF RowsTyped, Status
      <3>5. due' \in [Job -> BOOLEAN]
        BY <3>3 DEF RowsTyped
      <3>6. attempts' \in [Job -> Nat]
        BY <3>3 DEF RowsTyped, Refund
      <3>7. QED
        BY <3>2, <3>3, <3>4, <3>5, <3>6 DEF RowsTyped
    <2>2. QED
      BY <1>3, <2>1, UnchangedTyped DEF Release, ProcessTyped
  <1>4. CASE Exit
    BY <1>4, UnchangedTyped, BackToLoopTyped DEF Exit, ProcessLost, ProcessTyped
  <1>5. CASE Crash
    BY <1>5, UnchangedTyped, BackToLoopTyped DEF Crash, ProcessLost, Trouble, ProcessTyped
  <1>6. CASE Boot
    BY <1>6, UnchangedTyped DEF Boot, ProcessTyped
  <1>7. QED
    BY <1>1, <1>2, <1>3, <1>4, <1>5, <1>6

LEMMA TypeStep ==
  ASSUME TypeOK, [Next]_vars
  PROVE  TypeOK'
  <1>1. CASE UNCHANGED vars
    BY <1>1, UnchangedTyped DEF TypeOK, vars, process
  <1>2. CASE Next
    BY <1>2, ClientTyped, ClaimTyped, WorkTyped, ProcessStepTyped DEF Next
  <1>3. QED
    BY <1>1, <1>2

LEMMA TypeInit == Init => TypeOK
  BY QueueAssumption
     DEF Init, TypeOK, RowsTyped, ProcessTyped, WorkersTyped, PC, Status

\* Every variable of the job table, the process and its workers keeps its type,
\* whatever the clients, the workers, the sweeper and the shutdown do.
THEOREM TypeCorrect == Spec => []TypeOK
  <1>1. TypeOK /\ [Next]_vars => TypeOK'
    BY TypeStep
  <1>2. QED
    BY <1>1, TypeInit, PTL DEF Spec

-----------------------------------------------------------------------------
(* Leases and exclusion: the inductive invariant.                          *)

\* A process that is down has no worker in the middle of anything.
DownIsIdle == proc = "down" => \A w \in Slot : pc[w] = "idle"

\* Behind the advisory lock there is one claim at most.
ClaimSection ==
    \A w \in Slot : pc[w] \in {"locked", "counted", "selected"} => claimLock = w

\* The row lock keeps a selected job queued.
SelectedRow == \A w \in Slot : pc[w] = "selected" => status[cur[w]] = "queued"

\* No row belongs to a deleted project.
NoRowOfGone == \A j \in Job : status[j] # "absent" => ProjectOf[j] \notin gone

\* The project of a selected job has no steady worker until the claim commits.
\* It may get a live row back, through a late renewal: that row's worker is not
\* steady.
SelectionExclusive ==
    \A v, w \in Slot :
        Serving /\ pc[w] = "selected" /\ Steady(v) => ProjectOf[cur[v]] # ProjectOf[cur[w]]

Frame == TypeOK /\ DownIsIdle /\ ClaimSection /\ SelectedRow /\ NoRowOfGone

LeaseInv == Frame /\ SelectionExclusive /\ LeaseBacksWork /\ OneWorkerPerProject

-----------------------------------------------------------------------------
(* What the helpers leave of rows and workers.                             *)

RowKept(i) ==
    status'[i] = status[i] /\ lockedBy'[i] = lockedBy[i] /\ fresh'[i] = fresh[i]

WorkerKept(v) ==
    /\ pc'[v] = pc[v] /\ cur'[v] = cur[v] /\ lapse'[v] = lapse[v]
    /\ slotFree'[v] = slotFree[v] /\ seen'[v] = seen[v]

LEMMA UnleasedRows ==
  ASSUME NEW S, Unleased(S), NEW i \in Job, i \notin S
  PROVE  lockedBy'[i] = lockedBy[i] /\ fresh'[i] = fresh[i]
  BY DEF Unleased

LEMMA RequeuedRows ==
  ASSUME RowsTyped, NEW j \in Job, NEW isDue \in BOOLEAN, Requeued(j, isDue)
  PROVE  /\ status'[j] = "queued"
         /\ \A i \in Job \ {j} : RowKept(i)
  BY UnleasedRows DEF Requeued, RowsTyped, RowKept

LEMMA RemovedRows ==
  ASSUME NEW S, Removed(S), NEW i \in Job
  PROVE  /\ i \in S => status'[i] = "absent"
         /\ i \notin S => RowKept(i)
  <1>1. CASE i \in S
    BY <1>1 DEF Removed
  <1>2. CASE i \notin S
    BY <1>2, UnleasedRows DEF Removed, RowKept
  <1>3. QED
    BY <1>1, <1>2

LEMMA BackToLoopWorkers ==
  ASSUME NEW S, BackToLoop(S), NEW v \in Slot
  PROVE  /\ v \in S => pc'[v] = "idle"
         /\ v \notin S => WorkerKept(v)
  BY DEF BackToLoop, WorkerKept

-----------------------------------------------------------------------------
(* A quiet step takes no lease and loses none that is kept alive.          *)

Quiet ==
    /\ Serving' => Serving
    /\ \A v \in Slot :
        Serving' /\ Steady(v)' =>
            /\ Steady(v) /\ cur'[v] = cur[v]
            /\ OwnsLease(v) /\ fresh[cur[v]] =>
                (OwnsLease(v)' /\ fresh'[cur[v]]) \/ ProjectOf[cur[v]] \in gone'
            /\ ProjectOf[cur[v]] \in gone => ProjectOf[cur[v]] \in gone'

SelectsNothing ==
    \A w \in Slot : pc'[w] = "selected" => pc[w] = "selected" /\ cur'[w] = cur[w]

LEMMA QuietKeepsLeases ==
  ASSUME LeaseInv, Quiet
  PROVE  LeaseBacksWork' /\ OneWorkerPerProject'
  <1> USE DEF LeaseInv, Quiet
  <1>1. LeaseBacksWork'
    BY DEF LeaseBacksWork
  <1>2. OneWorkerPerProject'
    BY DEF OneWorkerPerProject
  <1>3. QED
    BY <1>1, <1>2

LEMMA QuietKeepsSelection ==
  ASSUME LeaseInv, Quiet, SelectsNothing
  PROVE  SelectionExclusive'
  BY DEF LeaseInv, Quiet, SelectsNothing, SelectionExclusive

\* The usual quiet step: the process and its workers stay as they are, and so do
\* the rows that are running under a lease.
LEMMA RowsStepQuiet ==
  ASSUME LeaseInv, UNCHANGED <<claimLock, proc, boot, workers>>,
         gone \subseteq gone',
         \A i \in Job : Live(i) =>
             \/ RowKept(i)
             \/ ProjectOf[i] \in gone'
             \/ \A v \in Slot : ~(Steady(v) /\ cur[v] = i)
  PROVE  Quiet /\ SelectsNothing
  <1>1. SelectsNothing
    BY DEF SelectsNothing, workers
  <1>2. (Serving' => Serving) /\ \A v \in Slot : Steady(v)' => Steady(v) /\ cur'[v] = cur[v]
    BY DEF Serving, Steady, workers
  <1>3. ASSUME NEW v \in Slot, Steady(v), OwnsLease(v), fresh[cur[v]]
        PROVE  (OwnsLease(v)' /\ fresh'[cur[v]]) \/ ProjectOf[cur[v]] \in gone'
    <2>1. cur[v] \in Job
      BY <1>3 DEF LeaseInv, Frame, TypeOK, WorkersTyped, Steady
    <2>2. Live(cur[v])
      BY <1>3 DEF OwnsLease, Live
    <2>3. RowKept(cur[v]) \/ ProjectOf[cur[v]] \in gone'
      BY <1>3, <2>1, <2>2
    <2>4. QED
      BY <1>3, <2>3 DEF RowKept, OwnsLease, Me, workers
  <1>4. QED
    BY <1>1, <1>2, <1>3 DEF Quiet

\* With the workers as they are, the frame depends on the rows alone.
LEMMA RowsStepFrame ==
  ASSUME LeaseInv, [Next]_vars, UNCHANGED <<claimLock, proc, boot, workers>>,
         \A i \in Job : RowLocked(i) => status'[i] = status[i],
         NoRowOfGone'
  PROVE  Frame'
  <1>1. TypeOK'
    BY TypeStep DEF LeaseInv, Frame
  <1>2. DownIsIdle' /\ ClaimSection'
    BY DEF LeaseInv, Frame, DownIsIdle, ClaimSection, workers
  <1>3. SelectedRow'
    BY DEF LeaseInv, Frame, TypeOK, WorkersTyped, SelectedRow, RowLocked, workers
  <1>4. QED
    BY <1>1, <1>2, <1>3 DEF Frame

LEMMA RowsStep ==
  ASSUME LeaseInv, [Next]_vars, UNCHANGED <<claimLock, proc, boot, workers>>,
         gone \subseteq gone', NoRowOfGone',
         \A i \in Job : RowLocked(i) => status'[i] = status[i],
         \A i \in Job : Live(i) =>
             \/ RowKept(i)
             \/ ProjectOf[i] \in gone'
             \/ \A v \in Slot : ~(Steady(v) /\ cur[v] = i)
  PROVE  LeaseInv'
  <1>1. Quiet /\ SelectsNothing
    BY RowsStepQuiet
  <1>2. Frame'
    BY RowsStepFrame
  <1>3. QED
    BY <1>1, <1>2, QuietKeepsLeases, QuietKeepsSelection DEF LeaseInv

LEMMA LockedRowQueued ==
  ASSUME LeaseInv, NEW i \in Job, RowLocked(i)
  PROVE  status[i] = "queued"
  BY DEF LeaseInv, Frame, SelectedRow, RowLocked

LEMMA EnqueueStep ==
  ASSUME LeaseInv, [Next]_vars, NEW j \in Job,
         Enqueue(j) \/ EnqueueRerunnable(j) \/ RunPurgeNow(j) \/ ReviveDelete(j)
  PROVE  LeaseInv'
  <1>1. PICK isDue \in BOOLEAN : Requeued(j, isDue)
    BY DEF Enqueue, EnqueueRerunnable, RunPurgeNow, ReviveDelete
  <1>2. RowsTyped
    BY DEF LeaseInv, Frame, TypeOK
  <1>3. status'[j] = "queued" /\ \A i \in Job \ {j} : RowKept(i)
    BY <1>1, <1>2, RequeuedRows
  <1>4. UNCHANGED <<gone, claimLock, proc, boot, workers>>
    BY DEF Enqueue, EnqueueRerunnable, RunPurgeNow, ReviveDelete, process
  <1>5. status[j] # "running"
    BY DEF Enqueue, EnqueueRerunnable, RunPurgeNow, ReviveDelete, RerunFrom
  <1>6. \A i \in Job : RowLocked(i) => status'[i] = status[i]
    BY <1>3, LockedRowQueued DEF RowKept
  <1>7. \A i \in Job : Live(i) => RowKept(i)
    BY <1>3, <1>5 DEF Live
  <1>8. NoRowOfGone'
    <2>1. ProjectOf[j] \notin gone
      <3>1. CASE Enqueue(j)
        BY <3>1 DEF Enqueue
      <3>2. CASE status[j] # "absent"
        BY <3>2 DEF LeaseInv, Frame, NoRowOfGone
      <3>3. CASE EnqueueRerunnable(j) \/ RunPurgeNow(j) \/ ReviveDelete(j)
        <4>1. status[j] # "absent"
          BY <3>3 DEF EnqueueRerunnable, RunPurgeNow, ReviveDelete, RerunFrom
        <4>2. QED
          BY <4>1, <3>2
      <3>4. QED
        BY <3>1, <3>3
    <2>2. QED
      BY <1>3, <1>4, <2>1 DEF LeaseInv, Frame, NoRowOfGone, RowKept
  <1>9. QED
    BY <1>4, <1>6, <1>7, <1>8, RowsStep

LEMMA RemoveStep ==
  ASSUME LeaseInv, [Next]_vars, NEW j \in Job, WithdrawDelete(j) \/ PruneJobs(j)
  PROVE  LeaseInv'
  <1>1. Removed({j}) /\ UNCHANGED <<gone, claimLock, proc, boot, workers>>
    BY DEF WithdrawDelete, PruneJobs, process
  <1>2. status'[j] = "absent" /\ \A i \in Job \ {j} : RowKept(i)
    BY <1>1, RemovedRows
  <1>3. status[j] # "running" /\ ~RowLocked(j)
    BY LockedRowQueued DEF WithdrawDelete, PruneJobs
  <1>4. \A i \in Job : RowLocked(i) => status'[i] = status[i]
    BY <1>2, <1>3 DEF RowKept
  <1>5. \A i \in Job : Live(i) => RowKept(i)
    BY <1>2, <1>3 DEF Live
  <1>6. NoRowOfGone'
    BY <1>1, <1>2 DEF LeaseInv, Frame, NoRowOfGone, RowKept
  <1>7. QED
    BY <1>1, <1>4, <1>5, <1>6, RowsStep

LEMMA PruneVersionsStep ==
  ASSUME LeaseInv, [Next]_vars, NEW w \in Slot, PruneVersions(w)
  PROVE  LeaseInv'
  <1>1. UNCHANGED <<gone, claimLock, proc, boot, workers>>
    BY DEF PruneVersions, process
  <1>2. PICK S : Removed(S) /\ \A i \in S : status[i] \in {"succeeded", "failed"}
    BY DEF PruneVersions
  <1>3. \A i \in Job : /\ i \in S => status'[i] = "absent"
                       /\ i \notin S => RowKept(i)
    BY <1>2, RemovedRows
  <1>4. \A i \in Job : RowLocked(i) => status'[i] = status[i]
    BY <1>2, <1>3, LockedRowQueued DEF RowKept
  <1>5. \A i \in Job : Live(i) => RowKept(i)
    BY <1>2, <1>3 DEF Live
  <1>6. NoRowOfGone'
    BY <1>1, <1>3 DEF LeaseInv, Frame, NoRowOfGone, RowKept
  <1>7. QED
    BY <1>1, <1>4, <1>5, <1>6, RowsStep

LEMMA ExpireRenderStep ==
  ASSUME LeaseInv, [Next]_vars, NEW j \in Job, ExpireRender(j)
  PROVE  LeaseInv'
  <1>1. /\ UNCHANGED <<lockedBy, fresh, gone, claimLock, proc, boot, workers>>
        /\ status[j] = "succeeded"
        /\ \A i \in Job \ {j} : status'[i] = status[i]
    BY DEF ExpireRender, process, LeaseInv, Frame, TypeOK, RowsTyped
  <1>2. \A i \in Job : RowLocked(i) => status'[i] = status[i]
    BY <1>1, LockedRowQueued
  <1>3. \A i \in Job : Live(i) => RowKept(i)
    BY <1>1 DEF Live, RowKept
  <1>4. NoRowOfGone'
    BY <1>1 DEF LeaseInv, Frame, NoRowOfGone
  <1>5. QED
    BY <1>1, <1>2, <1>3, <1>4, RowsStep

LEMMA TimeStep ==
  ASSUME LeaseInv, [Next]_vars, NEW j \in Job, BecomeDue(j) \/ Expire(j)
  PROVE  LeaseInv'
  <1>1. /\ UNCHANGED <<status, lockedBy, gone, claimLock, proc, boot, workers>>
        /\ \A i \in Job \ {j} : fresh'[i] = fresh[i]
    BY DEF BecomeDue, Expire, process, LeaseInv, Frame, TypeOK, RowsTyped
  <1>2. RowKept(j) \/ \A v \in Slot : ~(Steady(v) /\ cur[v] = j)
    BY DEF BecomeDue, Expire, RowKept
  <1>3. \A i \in Job \ {j} : RowKept(i)
    BY <1>1 DEF RowKept
  <1>4. NoRowOfGone'
    BY <1>1 DEF LeaseInv, Frame, NoRowOfGone
  <1>5. QED
    BY <1>1, <1>2, <1>3, <1>4, RowsStep

LEMMA SweepStep ==
  ASSUME LeaseInv, [Next]_vars, SweepLeases
  PROVE  LeaseInv'
  <1> DEFINE stale == {j \in Job : Stale(j)}
  <1>1. /\ status' = [j \in Job |-> IF j \in stale THEN "queued" ELSE status[j]]
        /\ Unleased(stale)
        /\ UNCHANGED <<gone, claimLock, proc, boot, workers>>
    BY DEF SweepLeases, process
  <1>2. \A i \in Job : i \in stale => status[i] = "running" /\ ~Live(i)
    BY DEF Stale, Live
  <1> HIDE DEF stale
  <1>3. \A i \in Job : i \notin stale => RowKept(i)
    BY <1>1, UnleasedRows DEF RowKept
  <1>4. \A i \in Job : RowLocked(i) => status'[i] = status[i]
    BY <1>2, <1>3, LockedRowQueued DEF RowKept
  <1>5. \A i \in Job : Live(i) => RowKept(i)
    BY <1>2, <1>3
  <1>6. NoRowOfGone'
    BY <1>1, <1>2 DEF LeaseInv, Frame, NoRowOfGone
  <1>7. QED
    BY <1>1, <1>4, <1>5, <1>6, RowsStep

LEMMA RenewStep ==
  ASSUME LeaseInv, [Next]_vars, NEW w \in Slot, Renew(w)
  PROVE  LeaseInv'
  <1>1. /\ UNCHANGED <<status, lockedBy, gone, claimLock, proc, boot, workers>>
        /\ \A i \in Job : fresh[i] => fresh'[i] = fresh[i]
    BY DEF Renew, process, LeaseInv, Frame, TypeOK, RowsTyped
  <1>2. \A i \in Job : Live(i) => RowKept(i)
    BY <1>1 DEF Live, RowKept
  <1>3. NoRowOfGone'
    BY <1>1 DEF LeaseInv, Frame, NoRowOfGone
  <1>4. QED
    BY <1>1, <1>2, <1>3, RowsStep

LEMMA DeleteProjectStep ==
  ASSUME LeaseInv, [Next]_vars, NEW w \in Slot, DeleteProjectRow(w)
  PROVE  LeaseInv'
  <1> DEFINE p == ProjectOf[cur[w]]
             mine == {j \in Job : ProjectOf[j] = p}
  <1>1. /\ Removed(mine)
        /\ gone' = gone \cup {p}
        /\ \A j \in Job : RowLocked(j) => ProjectOf[j] # p
        /\ UNCHANGED <<claimLock, proc, boot, workers>>
    BY DEF DeleteProjectRow, process
  <1>2. \A i \in Job : /\ i \in mine <=> ProjectOf[i] = p
                       /\ i \in mine => status'[i] = "absent"
                       /\ i \notin mine => RowKept(i)
    BY <1>1, RemovedRows
  <1> HIDE DEF mine, p
  <1>3. \A i \in Job : RowLocked(i) => status'[i] = status[i]
    BY <1>1, <1>2 DEF RowKept
  <1>4. \A i \in Job : Live(i) => RowKept(i) \/ ProjectOf[i] \in gone'
    BY <1>1, <1>2
  <1>5. NoRowOfGone'
    BY <1>1, <1>2 DEF LeaseInv, Frame, NoRowOfGone, RowKept
  <1>6. gone \subseteq gone'
    BY <1>1
  <1>7. QED
    BY <1>1, <1>3, <1>4, <1>5, <1>6, RowsStep

\* A step of one worker that neither takes nor gives up a row.
LEMMA LocalStep ==
  ASSUME LeaseInv, [Next]_vars, UNCHANGED <<rows, proc, boot>>, SelectsNothing,
         \A v \in Slot : Steady(v)' => Steady(v) /\ cur'[v] = cur[v],
         DownIsIdle', ClaimSection'
  PROVE  LeaseInv'
  <1>1. Quiet
    BY DEF Quiet, Serving, OwnsLease, Me, rows
  <1>2. TypeOK'
    BY TypeStep DEF LeaseInv, Frame
  <1>3. SelectedRow' /\ NoRowOfGone'
    BY DEF LeaseInv, Frame, SelectedRow, NoRowOfGone, SelectsNothing, rows
  <1>4. QED
    BY <1>1, <1>2, <1>3, QuietKeepsLeases, QuietKeepsSelection DEF LeaseInv, Frame

LEMMA ClaimStep ==
  ASSUME LeaseInv, [Next]_vars, NEW w \in Slot,
         StartClaim(w) \/ TryLock(w) \/ CountHeavy(w)
  PROVE  LeaseInv'
  <1> USE QueueAssumption
  <1>1. pc \in [Slot -> PC] /\ ClaimSection /\ DownIsIdle
    BY DEF LeaseInv, Frame, TypeOK, WorkersTyped
  <1>2. UNCHANGED <<rows, proc, boot, cur, lapse>>
    BY DEF StartClaim, TryLock, CountHeavy, process
  <1>3. /\ pc'[w] \in {"claiming", "locked", "idle", "counted"}
        /\ \A v \in Slot \ {w} : pc'[v] = pc[v]
    BY <1>1 DEF StartClaim, TryLock, CountHeavy
  <1>4. SelectsNothing /\ \A v \in Slot : Steady(v)' => Steady(v) /\ cur'[v] = cur[v]
    BY <1>2, <1>3 DEF SelectsNothing, Steady
  <1>5. DownIsIdle'
    BY <1>1, <1>2, <1>3 DEF DownIsIdle, StartClaim, TryLock, CountHeavy
  <1>6. ClaimSection'
    <2>1. CASE StartClaim(w)
      BY <2>1, <1>1, <1>3 DEF StartClaim, ClaimSection
    <2>2. CASE TryLock(w)
      BY <2>2, <1>1, <1>3 DEF TryLock, ClaimSection
    <2>3. CASE CountHeavy(w)
      BY <2>3, <1>1, <1>3 DEF CountHeavy, ClaimSection
    <2>4. QED
      BY <2>1, <2>2, <2>3
  <1>7. QED
    BY <1>2, <1>4, <1>5, <1>6, LocalStep

\* The worker returns to its loop, or goes on within its handler.
LEMMA WorkerStep ==
  ASSUME LeaseInv, [Next]_vars, NEW w \in Slot,
         ClaimError(w) \/ FailSubject(w) \/ Register(w) \/ Lapse(w)
  PROVE  LeaseInv'
  <1>1. pc \in [Slot -> PC] /\ lapse \in [Slot -> {"no", "overrun", "stalled"}]
    BY DEF LeaseInv, Frame, TypeOK, WorkersTyped
  <1>2. UNCHANGED <<rows, proc, boot>>
    BY DEF ClaimError, FailSubject, Register, Lapse, process
  <1>3. /\ \A v \in Slot \ {w} : WorkerKept(v)
        /\ \/ pc'[w] = "idle"
           \/ pc[w] = "claimed" /\ pc'[w] = "executing"
              /\ cur'[w] = cur[w] /\ lapse'[w] = lapse[w]
           \/ pc[w] = "executing" /\ pc'[w] = "executing" /\ cur'[w] = cur[w] /\ lapse[w] = "no"
    <2>1. CASE ClaimError(w) \/ FailSubject(w)
      BY <2>1, BackToLoopWorkers DEF ClaimError, FailSubject, Leave
    <2>2. CASE Register(w)
      BY <2>2, <1>1 DEF Register, WorkerKept
    <2>3. CASE Lapse(w)
      BY <2>3, <1>1 DEF Lapse, WorkerKept
    <2>4. QED
      BY <2>1, <2>2, <2>3
  <1>4. SelectsNothing /\ \A v \in Slot : Steady(v)' => Steady(v) /\ cur'[v] = cur[v]
    BY <1>2, <1>3 DEF SelectsNothing, Steady, WorkerKept
  <1>5. DownIsIdle'
    BY <1>2, <1>3 DEF LeaseInv, Frame, DownIsIdle, WorkerKept
  <1>6. ClaimSection'
    <2>1. \A v \in Slot \ {w} : pc'[v] \in {"locked", "counted", "selected"} => claimLock = v
      BY <1>3 DEF LeaseInv, Frame, ClaimSection, WorkerKept
    <2>2. claimLock' = claimLock \/ claimLock = w
      BY DEF ClaimError, FailSubject, Register, Lapse
    <2>3. pc'[w] \notin {"locked", "counted", "selected"}
      BY <1>3
    <2>4. QED
      BY <2>1, <2>2, <2>3 DEF ClaimSection
  <1>7. QED
    BY <1>2, <1>4, <1>5, <1>6, LocalStep

LEMMA SelectStep ==
  ASSUME LeaseInv, [Next]_vars, NEW w \in Slot, Select(w)
  PROVE  LeaseInv'
  <1> USE QueueAssumption
  <1>1. pc \in [Slot -> PC] /\ cur \in [Slot -> Job \cup {NoJob}]
    BY DEF LeaseInv, Frame, TypeOK, WorkersTyped
  <1>2. UNCHANGED <<rows, proc, boot>> /\ pc[w] = "counted"
    BY DEF Select, process
  <1>3. DownIsIdle'
    BY <1>2 DEF LeaseInv, Frame, DownIsIdle
  <1>4. claimLock = w
    BY <1>2 DEF LeaseInv, Frame, ClaimSection
  <1>5. CASE BackToLoop({w}) /\ claimLock' = Nobody
    <2>1. pc'[w] = "idle" /\ \A v \in Slot \ {w} : WorkerKept(v)
      BY <1>5, BackToLoopWorkers
    <2>2. SelectsNothing /\ \A v \in Slot : Steady(v)' => Steady(v) /\ cur'[v] = cur[v]
      BY <2>1 DEF SelectsNothing, Steady, WorkerKept
    <2>3. ClaimSection'
      BY <1>4, <2>1 DEF LeaseInv, Frame, ClaimSection, WorkerKept
    <2>4. QED
      BY <1>2, <1>3, <2>2, <2>3, LocalStep
  <1>6. ASSUME NEW j \in Job, Claimable(j, slotFree[w]),
               cur' = [cur EXCEPT ![w] = j], pc' = [pc EXCEPT ![w] = "selected"],
               UNCHANGED <<claimLock, lapse>>
        PROVE  LeaseInv'
    <2>1. /\ pc'[w] = "selected" /\ cur'[w] = j
          /\ \A v \in Slot \ {w} : pc'[v] = pc[v] /\ cur'[v] = cur[v]
      BY <1>1, <1>6
    <2>2. Quiet
      BY <1>2, <1>6, <2>1 DEF Quiet, Serving, Steady, OwnsLease, Me, rows
    <2>3. ClaimSection'
      BY <1>4, <1>6, <2>1 DEF LeaseInv, Frame, ClaimSection
    <2>4. SelectedRow' /\ NoRowOfGone'
      BY <1>2, <1>6, <2>1 DEF LeaseInv, Frame, SelectedRow, NoRowOfGone, Claimable, rows
    <2>5. SelectionExclusive'
      <3>1. SUFFICES ASSUME NEW v \in Slot, Serving, Steady(v)
                     PROVE  ProjectOf[cur[v]] # ProjectOf[j]
        <4>1. \A v \in Slot : v # w => pc'[v] # "selected"
          BY <1>4, <2>1 DEF LeaseInv, Frame, ClaimSection
        <4>2. QED
          BY <3>1, <4>1, <2>1, <2>2 DEF SelectionExclusive, Quiet
      <3>2. CASE OwnsLease(v) /\ fresh[cur[v]]
        <4>1. cur[v] \in Job /\ Live(cur[v])
          BY <3>1, <3>2 DEF LeaseInv, Frame, TypeOK, WorkersTyped, Steady, OwnsLease, Live
        <4>2. QED
          BY <4>1, <1>6 DEF Claimable, ProjectFree
      <3>3. CASE ProjectOf[cur[v]] \in gone
        BY <3>3, <1>6 DEF LeaseInv, Frame, NoRowOfGone, Claimable
      <3>4. QED
        BY <3>1, <3>2, <3>3 DEF LeaseInv, LeaseBacksWork
    <2>6. TypeOK'
      BY TypeStep DEF LeaseInv, Frame
    <2>7. QED
      BY <1>3, <2>2, <2>3, <2>4, <2>5, <2>6, QuietKeepsLeases DEF LeaseInv, Frame
  <1>7. QED
    BY <1>4, <1>5, <1>6 DEF Select, Oldest

LEMMA CommitStep ==
  ASSUME LeaseInv, [Next]_vars, NEW w \in Slot, CommitClaim(w)
  PROVE  LeaseInv'
  <1> USE QueueAssumption
  <1> DEFINE j == cur[w]
  <1>1. /\ pc \in [Slot -> PC] /\ j \in Job /\ claimLock = w
        /\ \A v \in Slot : pc[v] = "selected" => v = w
    BY DEF CommitClaim, LeaseInv, Frame, TypeOK, WorkersTyped, ClaimSection
  <1>2. /\ status[j] = "queued" /\ status'[j] = "running" /\ lockedBy'[j] = Me(w) /\ fresh'[j] = TRUE
        /\ \A i \in Job \ {j} : RowKept(i)
        /\ UNCHANGED <<gone, cur, lapse, proc, boot>> /\ claimLock' = Nobody
    BY <1>1 DEF CommitClaim, LeaseInv, Frame, TypeOK, RowsTyped, RowKept, SelectedRow, process
  <1>3. pc'[w] = "claimed" /\ \A v \in Slot \ {w} : pc'[v] = pc[v]
    BY <1>1 DEF CommitClaim
  <1>4. Frame'
    <2>1. DownIsIdle'
      BY <1>2, <1>3 DEF CommitClaim, LeaseInv, Frame, DownIsIdle
    <2>2. ClaimSection'
      BY <1>1, <1>2, <1>3 DEF LeaseInv, Frame, ClaimSection
    <2>3. SelectedRow'
      BY <1>1, <1>3 DEF SelectedRow
    <2>4. NoRowOfGone'
      BY <1>2 DEF LeaseInv, Frame, NoRowOfGone, RowKept
    <2>5. QED
      BY <2>1, <2>2, <2>3, <2>4, TypeStep DEF LeaseInv, Frame
  <1>5. SelectionExclusive'
    BY <1>1, <1>3 DEF SelectionExclusive
  <1>6. LeaseBacksWork'
    <2>1. SUFFICES ASSUME NEW v \in Slot, v # w, Serving, Steady(v)
                   PROVE  (OwnsLease(v)' /\ fresh'[cur[v]]) \/ ProjectOf[cur[v]] \in gone
      BY <1>2, <1>3 DEF LeaseBacksWork, OwnsLease, Me, Serving, Steady
    <2>2. cur[v] \in Job
      BY <2>1 DEF LeaseInv, Frame, TypeOK, WorkersTyped, Steady
    <2>3. QED
      BY <2>1, <2>2, <1>2 DEF LeaseInv, LeaseBacksWork, OwnsLease, Me, RowKept
  <1>7. OneWorkerPerProject'
    <2>1. \A v \in Slot \ {w} : Serving /\ Steady(v) => ProjectOf[cur[v]] # ProjectOf[j]
      BY DEF CommitClaim, LeaseInv, SelectionExclusive
    <2>2. QED
      BY <1>2, <1>3, <2>1 DEF LeaseInv, OneWorkerPerProject, Serving, Steady
  <1>8. QED
    BY <1>4, <1>5, <1>6, <1>7 DEF LeaseInv

\* A report changes the row of the worker that owns it, and that worker is
\* steady no more.
LEMMA ReportStep ==
  ASSUME LeaseInv, [Next]_vars, NEW w \in Slot, Succeed(w) \/ Fail(w)
  PROVE  LeaseInv'
  <1> USE QueueAssumption
  <1>1. /\ pc \in [Slot -> PC] /\ cur[w] \in Job /\ pc[w] = "executing"
        /\ UNCHANGED <<gone, claimLock, proc, boot>> /\ proc # "down"
    BY DEF Succeed, Fail, Serving, LeaseInv, Frame, TypeOK, WorkersTyped
  <1>2. pc'[w] \in {"idle", "failing"} /\ \A v \in Slot \ {w} : WorkerKept(v)
    <2>1. CASE Leave(w)
      BY <2>1, BackToLoopWorkers DEF Leave
    <2>2. CASE ~Leave(w)
      BY <1>1, <2>2 DEF Succeed, Fail, WorkerKept
    <2>3. QED
      BY <2>1, <2>2
  <1>3. \/ \A i \in Job : RowKept(i)
        \/ /\ OwnsLease(w) /\ status'[cur[w]] # "absent"
           /\ \A i \in Job \ {cur[w]} : RowKept(i)
    <2>1. CASE OwnsLease(w)
      <3>1. Unleased({cur[w]})
        BY <2>1 DEF Succeed, Fail
      <3>2. \A i \in Job \ {cur[w]} : lockedBy'[i] = lockedBy[i] /\ fresh'[i] = fresh[i]
        BY <3>1, UnleasedRows
      <3>3. /\ status'[cur[w]] # "absent"
            /\ \A i \in Job \ {cur[w]} : status'[i] = status[i]
        BY <1>1, <2>1 DEF Succeed, Fail, LeaseInv, Frame, TypeOK, RowsTyped
      <3>4. QED
        BY <2>1, <3>2, <3>3 DEF RowKept
    <2>2. CASE ~OwnsLease(w)
      BY <2>2 DEF Succeed, Fail, RowKept
    <2>3. QED
      BY <2>1, <2>2
  <1>4. SelectsNothing
    BY <1>2 DEF SelectsNothing, WorkerKept
  <1>5. Quiet
    <2>1. \A v \in Slot : Steady(v)' => v # w /\ Steady(v) /\ cur'[v] = cur[v]
      BY <1>2 DEF Steady, WorkerKept
    <2>2. ASSUME NEW v \in Slot, v # w, Steady(v), OwnsLease(v), fresh[cur[v]], cur'[v] = cur[v]
          PROVE  OwnsLease(v)' /\ fresh'[cur[v]]
      <3>1. cur[v] \in Job
        BY <2>2 DEF LeaseInv, Frame, TypeOK, WorkersTyped, Steady
      <3>2. ~(OwnsLease(w) /\ cur[v] = cur[w])
        BY <2>2 DEF OwnsLease, Me
      <3>3. RowKept(cur[v])
        BY <3>1, <3>2, <1>3
      <3>4. QED
        BY <3>3, <2>2, <1>1 DEF RowKept, OwnsLease, Me
    <2>3. QED
      BY <1>1, <2>1, <2>2 DEF Quiet, Serving
  <1>6. Frame'
    <2>1. DownIsIdle' /\ ClaimSection'
      BY <1>1, <1>2 DEF LeaseInv, Frame, DownIsIdle, ClaimSection, WorkerKept
    <2>2. SelectedRow'
      <3>1. SUFFICES ASSUME NEW v \in Slot, pc'[v] = "selected" PROVE status'[cur'[v]] = "queued"
        BY DEF SelectedRow
      <3>2. v # w /\ pc[v] = "selected" /\ cur'[v] = cur[v] /\ status[cur[v]] = "queued"
        BY <3>1, <1>2 DEF WorkerKept, LeaseInv, Frame, SelectedRow
      <3>3. cur[v] \in Job
        BY <3>2 DEF LeaseInv, Frame, TypeOK, WorkersTyped
      <3>4. QED
        BY <3>2, <3>3, <1>3 DEF RowKept, OwnsLease
    <2>3. NoRowOfGone'
      <3>1. OwnsLease(w) => status[cur[w]] # "absent"
        BY DEF OwnsLease
      <3>2. \A i \in Job : status'[i] # "absent" => status[i] # "absent"
        BY <3>1, <1>3 DEF RowKept
      <3>3. QED
        BY <3>2, <1>1 DEF LeaseInv, Frame, NoRowOfGone
    <2>4. QED
      BY <2>1, <2>2, <2>3, TypeStep DEF LeaseInv, Frame
  <1>7. QED
    BY <1>4, <1>5, <1>6, QuietKeepsLeases, QuietKeepsSelection DEF LeaseInv

\* Stops and starts: nothing is promised between them.
LEMMA ProcessStep ==
  ASSUME LeaseInv, [Next]_vars, Close \/ Release \/ Exit \/ Crash \/ Boot
  PROVE  LeaseInv'
  <1> USE QueueAssumption
  <1>1. CASE Close
    <2>1. /\ UNCHANGED <<rows, claimLock, boot, workers>>
          /\ Serving /\ Serving' /\ proc' # "down"
      BY <1>1 DEF Close, Serving
    <2>2. Quiet /\ SelectsNothing
      BY <2>1 DEF Quiet, SelectsNothing, Steady, OwnsLease, Me, rows, workers
    <2>3. DownIsIdle' /\ ClaimSection' /\ SelectedRow' /\ NoRowOfGone'
      BY <2>1 DEF LeaseInv, Frame, DownIsIdle, ClaimSection, SelectedRow, NoRowOfGone,
         rows, workers
    <2>4. TypeOK'
      BY TypeStep DEF LeaseInv, Frame
    <2>5. QED
      BY <2>2, <2>3, <2>4, QuietKeepsLeases, QuietKeepsSelection DEF LeaseInv, Frame
  <1>2. CASE Release
    <2> DEFINE held == {j \in inFlight : status[j] = "running"}
    <2>1. /\ status' = [j \in Job |-> IF j \in held THEN "queued" ELSE status[j]]
          /\ UNCHANGED <<gone, claimLock, workers>>
          /\ proc' = "ended"
      BY <1>2 DEF Release
    <2>2. \A i \in Job : i \in held => status[i] = "running"
      OBVIOUS
    <2> HIDE DEF held
    <2>3. NoRowOfGone'
      BY <2>1, <2>2 DEF LeaseInv, Frame, NoRowOfGone
    <2>4. SelectedRow'
      BY <2>1, <2>2 DEF LeaseInv, Frame, TypeOK, WorkersTyped, SelectedRow, workers
    <2>5. DownIsIdle' /\ ClaimSection'
      BY <2>1 DEF LeaseInv, Frame, DownIsIdle, ClaimSection, workers
    <2>6. SelectionExclusive' /\ LeaseBacksWork' /\ OneWorkerPerProject'
      BY <2>1 DEF Serving, SelectionExclusive, LeaseBacksWork, OneWorkerPerProject
    <2>7. TypeOK'
      BY TypeStep DEF LeaseInv, Frame
    <2>8. QED
      BY <2>3, <2>4, <2>5, <2>6, <2>7 DEF LeaseInv, Frame
  <1>3. CASE Exit \/ Crash
    <2>1. proc' = "down" /\ BackToLoop(Slot) /\ UNCHANGED rows
      BY <1>3 DEF Exit, Crash, ProcessLost
    <2>2. \A v \in Slot : pc'[v] = "idle"
      BY <2>1, BackToLoopWorkers
    <2>3. TypeOK'
      BY TypeStep DEF LeaseInv, Frame
    <2>4. QED
      BY <2>1, <2>2, <2>3
         DEF LeaseInv, Frame, DownIsIdle, ClaimSection, SelectedRow, NoRowOfGone,
             SelectionExclusive, LeaseBacksWork, OneWorkerPerProject, Serving, rows
  <1>4. CASE Boot
    <2>1. UNCHANGED <<rows, workers>> /\ proc = "down" /\ proc' = "up"
      BY <1>4 DEF Boot
    <2>2. \A v \in Slot : pc'[v] = "idle"
      BY <2>1 DEF LeaseInv, Frame, DownIsIdle, workers
    <2>3. TypeOK'
      BY TypeStep DEF LeaseInv, Frame
    <2>4. QED
      BY <2>1, <2>2, <2>3
         DEF LeaseInv, Frame, DownIsIdle, ClaimSection, SelectedRow, NoRowOfGone,
             SelectionExclusive, LeaseBacksWork, OneWorkerPerProject, Steady, rows
  <1>5. QED
    BY <1>1, <1>2, <1>3, <1>4

LEMMA LeaseInvInit == Init => LeaseInv
  <1> SUFFICES ASSUME Init PROVE LeaseInv
    OBVIOUS
  <1>1. TypeOK
    BY TypeInit
  <1>2. \A w \in Slot : pc[w] = "idle"
    BY DEF Init
  <1>3. \A j \in Job : status[j] = "absent"
    BY DEF Init
  <1>4. QED
    BY <1>1, <1>2, <1>3
       DEF LeaseInv, Frame, DownIsIdle, ClaimSection, SelectedRow, NoRowOfGone,
           SelectionExclusive, LeaseBacksWork, OneWorkerPerProject, Steady

LEMMA LeaseInvStep ==
  ASSUME LeaseInv, [Next]_vars
  PROVE  LeaseInv'
  <1>1. CASE UNCHANGED vars
    <2>1. UNCHANGED <<rows, claimLock, proc, boot, workers>>
      BY <1>1 DEF vars, process
    <2>2. QED
      BY <2>1, RowsStep DEF rows, RowKept, LeaseInv, Frame, NoRowOfGone
  <1>2. ASSUME NEW j \in Job,
               \/ Client(j) \/ BecomeDue(j) \/ Expire(j)
               \/ PruneJobs(j) \/ ReviveDelete(j) \/ ExpireRender(j)
        PROVE  LeaseInv'
    BY <1>2, EnqueueStep, RemoveStep, TimeStep, ExpireRenderStep DEF Client
  <1>3. ASSUME NEW w \in Slot,
               \/ Claim(w) \/ ClaimError(w) \/ Finish(w)
               \/ PruneVersions(w) \/ DeleteProjectRow(w) \/ Lapse(w) \/ Renew(w)
        PROVE  LeaseInv'
    BY <1>3, ClaimStep, SelectStep, CommitStep, WorkerStep, ReportStep, DeleteProjectStep,
       RenewStep, PruneVersionsStep DEF Claim, Finish
  <1>4. CASE SweepLeases \/ Close \/ Release \/ Exit \/ Crash \/ Boot
    BY <1>4, SweepStep, ProcessStep
  <1>5. QED
    BY <1>1, <1>2, <1>3, <1>4 DEF Next

LEMMA LeaseInvariance == Spec => []LeaseInv
  <1>1. LeaseInv /\ [Next]_vars => LeaseInv'
    BY LeaseInvStep
  <1>2. QED
    BY <1>1, LeaseInvInit, PTL DEF Spec

\* A worker whose renewals have not lapsed works under a row that is running,
\* its own and not reclaimable, until its project is deleted: executor memory
\* and table agree, whatever the sweeper, late reports and clients do.
THEOREM LeasesBackWork == Spec => []LeaseBacksWork
  BY LeaseInvariance, PTL DEF LeaseInv

\* No two workers that keep their leases ever work on one project: the advisory
\* lock and the snapshot exclude it for every number of workers and jobs.
THEOREM ProjectExclusion == Spec => []OneWorkerPerProject
  BY LeaseInvariance, PTL DEF LeaseInv

-----------------------------------------------------------------------------
(* Attempts and retries: one part per row and one per worker.              *)

Accounted(j) ==
    attempts[j] = fails[j] + lost[j]
                  + (IF status[j] \in {"running", "succeeded"} THEN 1 ELSE 0)

\* A row that may still be executed has a retry left, or its first try.
Bounded(j) ==
    /\ fails[j] <= RetryLimit + 1
    /\ KindOf[j] \in SingleTryKinds => fails[j] <= 1
    /\ status[j] \in {"queued", "running"} => fails[j] <= RetryLimit
    /\ status[j] \in {"queued", "running"} /\ KindOf[j] \in SingleTryKinds => fails[j] = 0

\* The count the worker read at its claim is still the row's, less its own,
\* for as long as the worker owns the row.
SeenCurrent(w) ==
    pc[w] \in {"claimed", "executing"} /\ OwnsLease(w) => attempts[cur[w]] = seen[w] + 1

BudgetInv ==
    /\ LeaseInv
    /\ \A j \in Job : Accounted(j) /\ Bounded(j)
    /\ \A w \in Slot : SeenCurrent(w)

-----------------------------------------------------------------------------
AccountKept(i) ==
    /\ status'[i] = status[i] /\ lockedBy'[i] = lockedBy[i]
    /\ attempts'[i] = attempts[i] /\ fails'[i] = fails[i] /\ lost'[i] = lost[i]

\* A row that stops running, or does not start to, with its account in order.
AccountSettled(i) == Accounted(i)' /\ Bounded(i)' /\ status'[i] # "running"

ClaimKept(v) == pc[v] \in {"claimed", "executing"} /\ cur'[v] = cur[v] /\ seen'[v] = seen[v]

\* The steps other than a claim's commit and a start of the process.
LEMMA AccountStep ==
  ASSUME BudgetInv, [Next]_vars, UNCHANGED boot,
         \A i \in Job : AccountKept(i) \/ AccountSettled(i),
         \A v \in Slot : pc'[v] \in {"claimed", "executing"} => ClaimKept(v)
  PROVE  BudgetInv'
  <1>1. \A i \in Job : Accounted(i)' /\ Bounded(i)'
    BY DEF BudgetInv, AccountKept, AccountSettled, Accounted, Bounded
  <1>2. ASSUME NEW w \in Slot PROVE SeenCurrent(w)'
    <2>1. SUFFICES ASSUME pc'[w] \in {"claimed", "executing"}, OwnsLease(w)'
                   PROVE  attempts'[cur'[w]] = seen'[w] + 1
      BY DEF SeenCurrent
    <2>2. ClaimKept(w) /\ cur[w] \in Job
      BY <2>1 DEF ClaimKept, BudgetInv, LeaseInv, Frame, TypeOK, WorkersTyped
    <2>3. AccountKept(cur[w])
      BY <2>1, <2>2 DEF ClaimKept, AccountSettled, OwnsLease
    <2>4. QED
      BY <2>1, <2>2, <2>3 DEF BudgetInv, SeenCurrent, ClaimKept, AccountKept, OwnsLease, Me
  <1>3. LeaseInv'
    BY LeaseInvStep DEF BudgetInv
  <1>4. QED
    BY <1>1, <1>2, <1>3 DEF BudgetInv

LEMMA WorkersKeepClaims ==
  ASSUME UNCHANGED workers, NEW v \in Slot, pc'[v] \in {"claimed", "executing"}
  PROVE  ClaimKept(v)
  BY DEF workers, ClaimKept

LEMMA RequeuedAccount ==
  ASSUME RowsTyped, NEW j \in Job, NEW isDue \in BOOLEAN, Requeued(j, isDue), NEW i \in Job
  PROVE  AccountKept(i) \/ AccountSettled(i)
  <1>1. CASE i = j
    BY <1>1 DEF Requeued, RowsTyped, AccountSettled, Accounted, Bounded, RetryLimit
  <1>2. CASE i # j
    BY <1>2, UnleasedRows DEF Requeued, RowsTyped, AccountKept
  <1>3. QED
    BY <1>1, <1>2

LEMMA RemovedAccount ==
  ASSUME NEW S, Removed(S), NEW i \in Job
  PROVE  AccountKept(i) \/ AccountSettled(i)
  <1>1. CASE i \in S
    BY <1>1 DEF Removed, AccountSettled, Accounted, Bounded, RetryLimit
  <1>2. CASE i \notin S
    BY <1>2, UnleasedRows DEF Removed, AccountKept
  <1>3. QED
    BY <1>1, <1>2

LEMMA ClientAccount ==
  ASSUME BudgetInv, [Next]_vars, NEW j \in Job,
         \/ Client(j) \/ BecomeDue(j) \/ Expire(j)
         \/ PruneJobs(j) \/ ReviveDelete(j) \/ ExpireRender(j)
  PROVE  BudgetInv'
  <1>1. UNCHANGED <<boot, workers>>
    BY DEF Client, Enqueue, EnqueueRerunnable, RunPurgeNow, WithdrawDelete, BecomeDue,
       PruneJobs, ReviveDelete, Expire, ExpireRender, process
  <1>2. RowsTyped
    BY DEF BudgetInv, LeaseInv, Frame, TypeOK
  <1>3. ASSUME NEW i \in Job PROVE AccountKept(i) \/ AccountSettled(i)
    <2>1. CASE Enqueue(j) \/ EnqueueRerunnable(j) \/ RunPurgeNow(j) \/ ReviveDelete(j)
      <3>1. PICK isDue \in BOOLEAN : Requeued(j, isDue)
        BY <2>1 DEF Enqueue, EnqueueRerunnable, RunPurgeNow, ReviveDelete
      <3>2. QED
        BY <3>1, <1>2, RequeuedAccount
    <2>2. CASE WithdrawDelete(j) \/ PruneJobs(j)
      BY <2>2, RemovedAccount DEF WithdrawDelete, PruneJobs
    <2>3. CASE BecomeDue(j) \/ Expire(j)
      BY <2>3 DEF BecomeDue, Expire, AccountKept
    <2>4. CASE ExpireRender(j) /\ i # j
      BY <2>4, <1>2 DEF ExpireRender, AccountKept, RowsTyped
    <2>5. CASE ExpireRender(j) /\ i = j
      <3>1. /\ status[j] = "succeeded" /\ status'[j] = "failed" /\ lost'[j] = lost[j] + 1
            /\ UNCHANGED <<attempts, fails>>
        BY <2>5, <1>2 DEF ExpireRender, RowsTyped
      <3>2. lost[j] \in Nat /\ fails[j] \in Nat /\ Accounted(j) /\ Bounded(j)
        BY <1>2 DEF BudgetInv, RowsTyped
      <3>3. QED
        BY <2>5, <3>1, <3>2 DEF AccountSettled, Accounted, Bounded
    <2>6. QED
      BY <2>1, <2>2, <2>3, <2>4, <2>5 DEF Client
  <1>4. QED
    BY <1>1, <1>3, WorkersKeepClaims, AccountStep

LEMMA SweepAccount ==
  ASSUME BudgetInv, [Next]_vars, SweepLeases
  PROVE  BudgetInv'
  <1> DEFINE stale == {j \in Job : Stale(j)}
  <1>1. /\ status' = [j \in Job |-> IF j \in stale THEN "queued" ELSE status[j]]
        /\ lost' = [j \in Job |-> IF j \in stale THEN lost[j] + 1 ELSE lost[j]]
        /\ Unleased(stale)
        /\ UNCHANGED <<attempts, fails, boot, workers>>
    BY DEF SweepLeases, process
  <1>2. \A i \in Job : i \in stale => status[i] = "running"
    BY DEF Stale
  <1> HIDE DEF stale
  <1>3. ASSUME NEW i \in Job, i \in stale PROVE AccountSettled(i)
    <2>1. status'[i] = "queued" /\ lost'[i] = lost[i] + 1 /\ status[i] = "running"
      BY <1>1, <1>2, <1>3
    <2>2. lost[i] \in Nat /\ fails[i] \in Nat
      BY DEF BudgetInv, LeaseInv, Frame, TypeOK, RowsTyped
    <2>3. Accounted(i) /\ Bounded(i)
      BY DEF BudgetInv
    <2>4. QED
      BY <1>1, <2>1, <2>2, <2>3 DEF AccountSettled, Accounted, Bounded
  <1>4. ASSUME NEW i \in Job, i \notin stale PROVE AccountKept(i)
    BY <1>1, <1>4, UnleasedRows DEF AccountKept
  <1>5. QED
    BY <1>1, <1>3, <1>4, WorkersKeepClaims, AccountStep

LEMMA ReleaseAccount ==
  ASSUME BudgetInv, [Next]_vars, Release
  PROVE  BudgetInv'
  <1> DEFINE held == {j \in inFlight : status[j] = "running"}
  <1>1. /\ status' = [j \in Job |-> IF j \in held THEN "queued" ELSE status[j]]
        /\ attempts' = [j \in Job |-> IF j \in held THEN Refund(attempts[j]) ELSE attempts[j]]
        /\ Unleased(held)
        /\ UNCHANGED <<fails, lost, boot, workers>>
    BY DEF Release
  <1>2. \A i \in Job : i \in held => status[i] = "running"
    OBVIOUS
  <1> HIDE DEF held
  <1>3. ASSUME NEW i \in Job, i \in held PROVE AccountSettled(i)
    <2>1. status'[i] = "queued" /\ attempts'[i] = Refund(attempts[i]) /\ status[i] = "running"
      BY <1>1, <1>2, <1>3
    <2>2. lost[i] \in Nat /\ fails[i] \in Nat /\ attempts[i] \in Nat
      BY DEF BudgetInv, LeaseInv, Frame, TypeOK, RowsTyped
    <2>3. Accounted(i) /\ Bounded(i)
      BY DEF BudgetInv
    <2>4. QED
      BY <1>1, <2>1, <2>2, <2>3 DEF AccountSettled, Accounted, Bounded, Refund
  <1>4. ASSUME NEW i \in Job, i \notin held PROVE AccountKept(i)
    BY <1>1, <1>4, UnleasedRows DEF AccountKept
  <1>5. QED
    BY <1>1, <1>3, <1>4, WorkersKeepClaims, AccountStep

\* The steps of workers and process that change no row's account.
LEMMA LocalAccount ==
  ASSUME BudgetInv, [Next]_vars, UNCHANGED <<status, lockedBy, attempts, fails, lost, boot>>,
         \A v \in Slot : pc'[v] \in {"claimed", "executing"} => ClaimKept(v)
  PROVE  BudgetInv'
  BY AccountStep DEF AccountKept

LEMMA WorkerAccount ==
  ASSUME BudgetInv, [Next]_vars, NEW w \in Slot,
         \/ StartClaim(w) \/ TryLock(w) \/ CountHeavy(w) \/ Select(w) \/ Register(w)
         \/ ClaimError(w) \/ FailSubject(w) \/ Lapse(w) \/ Renew(w)
  PROVE  BudgetInv'
  <1>1. pc \in [Slot -> PC]
    BY DEF BudgetInv, LeaseInv, Frame, TypeOK, WorkersTyped
  <1>2. UNCHANGED <<status, lockedBy, attempts, fails, lost, boot>>
    BY DEF StartClaim, TryLock, CountHeavy, Select, Register, ClaimError, FailSubject, Lapse,
       Renew, rows, process
  <1>3. ASSUME NEW v \in Slot, pc'[v] \in {"claimed", "executing"} PROVE ClaimKept(v)
    <2>1. CASE StartClaim(w) \/ TryLock(w) \/ CountHeavy(w) \/ Register(w)
      BY <1>1, <1>3, <2>1 DEF StartClaim, TryLock, CountHeavy, Register, ClaimKept
    <2>2. CASE Lapse(w) \/ Renew(w)
      BY <1>3, <2>2 DEF Lapse, Renew, ClaimKept, workers
    <2>3. CASE BackToLoop({w})
      BY <1>3, <2>3, BackToLoopWorkers DEF ClaimKept, WorkerKept
    <2>4. CASE Select(w) /\ ~BackToLoop({w})
      <3>1. /\ pc' = [pc EXCEPT ![w] = "selected"] /\ UNCHANGED seen
            /\ \E j : cur' = [cur EXCEPT ![w] = j]
        BY <2>4 DEF Select
      <3>2. cur \in [Slot -> Job \cup {NoJob}]
        BY DEF BudgetInv, LeaseInv, Frame, TypeOK, WorkersTyped
      <3>3. QED
        BY <1>1, <1>3, <3>1, <3>2 DEF ClaimKept
    <2>5. QED
      BY <2>1, <2>2, <2>3, <2>4 DEF ClaimError, FailSubject, Leave
  <1>4. QED
    BY <1>2, <1>3, LocalAccount

LEMMA PruneVersionsAccount ==
  ASSUME BudgetInv, [Next]_vars, NEW w \in Slot, PruneVersions(w)
  PROVE  BudgetInv'
  <1>1. (\E S : Removed(S)) /\ UNCHANGED <<boot, workers>>
    BY DEF PruneVersions, process
  <1>2. \A i \in Job : AccountKept(i) \/ AccountSettled(i)
    BY <1>1, RemovedAccount
  <1>3. QED
    BY <1>1, <1>2, WorkersKeepClaims, AccountStep

LEMMA DeleteProjectAccount ==
  ASSUME BudgetInv, [Next]_vars, NEW w \in Slot, DeleteProjectRow(w)
  PROVE  BudgetInv'
  <1>1. /\ Removed({j \in Job : ProjectOf[j] = ProjectOf[cur[w]]})
        /\ UNCHANGED <<boot, workers>>
    BY DEF DeleteProjectRow, process
  <1>2. \A i \in Job : AccountKept(i) \/ AccountSettled(i)
    BY <1>1, RemovedAccount
  <1>3. QED
    BY <1>1, <1>2, WorkersKeepClaims, AccountStep

LEMMA CommitAccount ==
  ASSUME BudgetInv, [Next]_vars, NEW w \in Slot, CommitClaim(w)
  PROVE  BudgetInv'
  <1> USE QueueAssumption
  <1>1. PICK j \in Job : j = cur[w] /\ status[j] = "queued"
    BY DEF CommitClaim, BudgetInv, LeaseInv, Frame, TypeOK, WorkersTyped, SelectedRow
  <1>2. attempts[j] \in Nat /\ fails[j] \in Nat /\ lost[j] \in Nat
    BY <1>1 DEF BudgetInv, LeaseInv, Frame, TypeOK, RowsTyped
  <1>3. /\ status'[j] = "running" /\ lockedBy'[j] = Me(w) /\ attempts'[j] = attempts[j] + 1
        /\ pc'[w] = "claimed" /\ seen'[w] = attempts[j]
        /\ UNCHANGED <<fails, lost, cur, boot>>
    BY <1>1 DEF CommitClaim, BudgetInv, LeaseInv, Frame, TypeOK, RowsTyped, WorkersTyped,
       process
  <1>4. \A i \in Job \ {j} : AccountKept(i)
    BY <1>1 DEF CommitClaim, BudgetInv, LeaseInv, Frame, TypeOK, RowsTyped, AccountKept
  <1>5. \A i \in Job : Accounted(i)' /\ Bounded(i)'
    <2>1. Accounted(j) /\ Bounded(j)
      BY <1>1 DEF BudgetInv
    <2>2. Accounted(j)' /\ Bounded(j)'
      <3>1. attempts[j] = fails[j] + lost[j]
        BY <1>1, <1>2, <2>1 DEF Accounted
      <3>2. attempts'[j] = fails'[j] + lost'[j] + 1
        BY <1>2, <1>3, <3>1
      <3>3. Accounted(j)'
        BY <1>3, <3>2 DEF Accounted
      <3>4. Bounded(j)'
        BY <1>1, <1>3, <2>1 DEF Bounded
      <3>5. QED
        BY <3>3, <3>4
    <2>3. \A i \in Job \ {j} : Accounted(i)' /\ Bounded(i)'
      BY <1>4 DEF BudgetInv, AccountKept, Accounted, Bounded
    <2>4. QED
      BY <2>2, <2>3
  <1>6. ASSUME NEW v \in Slot PROVE SeenCurrent(v)'
    <2>1. CASE v = w
      BY <1>1, <1>3, <2>1 DEF SeenCurrent
    <2>2. CASE v # w
      <3>1. pc'[v] = pc[v] /\ seen'[v] = seen[v]
        BY <2>2 DEF CommitClaim, BudgetInv, LeaseInv, Frame, TypeOK, WorkersTyped
      <3>2. SUFFICES ASSUME pc[v] \in {"claimed", "executing"}, OwnsLease(v)'
                     PROVE  attempts'[cur[v]] = seen[v] + 1
        BY <1>3, <3>1 DEF SeenCurrent
      <3>3. cur[v] \in Job
        BY <3>2 DEF BudgetInv, LeaseInv, Frame, TypeOK, WorkersTyped
      <3>4. cur[v] # j
        BY <1>1, <1>3, <2>2, <3>2 DEF OwnsLease, Me
      <3>5. QED
        BY <1>3, <1>4, <3>2, <3>3, <3>4 DEF AccountKept, BudgetInv, SeenCurrent, OwnsLease, Me
    <2>3. QED
      BY <2>1, <2>2
  <1>7. QED
    BY <1>5, <1>6, LeaseInvStep DEF BudgetInv

LEMMA ReportAccount ==
  ASSUME BudgetInv, [Next]_vars, NEW w \in Slot, Succeed(w) \/ Fail(w)
  PROVE  BudgetInv'
  <1>1. /\ pc \in [Slot -> PC] /\ pc[w] = "executing" /\ cur[w] \in Job
        /\ UNCHANGED <<attempts, lost, boot>>
    BY DEF Succeed, Fail, BudgetInv, LeaseInv, Frame, TypeOK, WorkersTyped
  <1>2. \A v \in Slot : pc'[v] \in {"claimed", "executing"} => ClaimKept(v)
    <2>1. CASE Leave(w)
      BY <2>1, BackToLoopWorkers DEF Leave, ClaimKept, WorkerKept
    <2>2. CASE ~Leave(w)
      BY <1>1, <2>2 DEF Succeed, Fail, ClaimKept
    <2>3. QED
      BY <2>1, <2>2
  <1>3. CASE ~OwnsLease(w)
    BY <1>1, <1>2, <1>3, LocalAccount DEF Succeed, Fail
  <1>4. CASE OwnsLease(w)
    <2> PICK j \in Job : j = cur[w]
      BY <1>1
    <2>1. /\ status[j] = "running"
          /\ attempts[j] \in Nat /\ fails[j] \in Nat /\ lost[j] \in Nat /\ seen[w] \in Nat
      BY <1>1, <1>4 DEF OwnsLease, BudgetInv, LeaseInv, Frame, TypeOK, RowsTyped, WorkersTyped
    <2>2. Accounted(j) /\ Bounded(j) /\ SeenCurrent(w)
      BY <1>1 DEF BudgetInv
    <2>3. attempts[j] = fails[j] + lost[j] + 1 /\ attempts[j] = seen[w] + 1
      BY <1>1, <1>4, <2>1, <2>2 DEF Accounted, SeenCurrent
    <2>4. \A i \in Job \ {j} : AccountKept(i)
      <3>1. Unleased({j})
        BY <1>4 DEF Succeed, Fail
      <3>2. \A i \in Job \ {j} : lockedBy'[i] = lockedBy[i]
        BY <3>1, UnleasedRows
      <3>3. \A i \in Job \ {j} : status'[i] = status[i] /\ fails'[i] = fails[i]
        BY <1>1, <1>4 DEF Succeed, Fail, BudgetInv, LeaseInv, Frame, TypeOK, RowsTyped
      <3>4. QED
        BY <1>1, <3>2, <3>3 DEF AccountKept
    <2>5. AccountSettled(j)
      <3>1. CASE Succeed(w)
        <4>1. status'[j] = "succeeded" /\ fails'[j] = fails[j]
          BY <1>1, <1>4, <3>1 DEF Succeed, BudgetInv, LeaseInv, Frame, TypeOK, RowsTyped
        <4>2. QED
          BY <1>1, <2>1, <2>2, <4>1 DEF AccountSettled, Accounted, Bounded
      <3>2. CASE Fail(w)
        <4>1. /\ status'[j] = IF Retries(w) THEN "queued" ELSE "failed"
              /\ fails'[j] = fails[j] + 1
          BY <1>1, <1>4, <3>2 DEF Fail, BudgetInv, LeaseInv, Frame, TypeOK, RowsTyped
        <4>2. attempts'[j] = fails'[j] + lost'[j]
          BY <1>1, <2>1, <2>3, <4>1
        <4>3. Accounted(j)' /\ status'[j] # "running"
          BY <1>1, <2>1, <4>1, <4>2 DEF Accounted
        <4>4. /\ fails[j] <= RetryLimit /\ fails'[j] <= RetryLimit + 1
              /\ KindOf[j] \in SingleTryKinds => fails'[j] <= 1
          BY <2>1, <2>2, <4>1 DEF Bounded, RetryLimit
        <4>5. CASE Retries(w)
          <5>1. fails'[j] <= RetryLimit /\ KindOf[j] \notin SingleTryKinds
            BY <2>1, <2>3, <4>1, <4>5 DEF Retries, RetryLimit
          <5>2. QED
            BY <4>3, <4>4, <5>1 DEF AccountSettled, Bounded
        <4>6. CASE ~Retries(w)
          BY <4>1, <4>3, <4>4, <4>6 DEF AccountSettled, Bounded
        <4>7. QED
          BY <4>5, <4>6
      <3>3. QED
        BY <3>1, <3>2
    <2>6. QED
      BY <1>1, <1>2, <2>4, <2>5, AccountStep
  <1>5. QED
    BY <1>3, <1>4

LEMMA ProcessAccount ==
  ASSUME BudgetInv, [Next]_vars, Close \/ Exit \/ Crash \/ Boot
  PROVE  BudgetInv'
  <1>1. CASE Close
    BY <1>1, LocalAccount, WorkersKeepClaims DEF Close, rows
  <1>2. CASE Exit \/ Crash
    <2>1. BackToLoop(Slot) /\ UNCHANGED <<rows, boot>>
      BY <1>2 DEF Exit, Crash, ProcessLost
    <2>2. \A v \in Slot : pc'[v] = "idle"
      BY <2>1, BackToLoopWorkers
    <2>3. QED
      BY <2>1, <2>2, LocalAccount DEF rows
  <1>3. CASE Boot
    <2>1. UNCHANGED <<rows, workers>> /\ \A v \in Slot : pc[v] = "idle"
      BY <1>3 DEF Boot, BudgetInv, LeaseInv, Frame, DownIsIdle
    <2>2. \A w \in Slot : SeenCurrent(w)'
      BY <2>1 DEF SeenCurrent, workers
    <2>3. \A i \in Job : Accounted(i)' /\ Bounded(i)'
      BY <2>1 DEF BudgetInv, Accounted, Bounded, rows
    <2>4. QED
      BY <2>2, <2>3, LeaseInvStep DEF BudgetInv
  <1>4. QED
    BY <1>1, <1>2, <1>3

LEMMA BudgetInvStep ==
  ASSUME BudgetInv, [Next]_vars
  PROVE  BudgetInv'
  <1>1. CASE UNCHANGED vars
    BY <1>1, LocalAccount, WorkersKeepClaims DEF vars, rows, process
  <1>2. ASSUME NEW j \in Job,
               \/ Client(j) \/ BecomeDue(j) \/ Expire(j)
               \/ PruneJobs(j) \/ ReviveDelete(j) \/ ExpireRender(j)
        PROVE  BudgetInv'
    BY <1>2, ClientAccount
  <1>3. ASSUME NEW w \in Slot,
               \/ Claim(w) \/ ClaimError(w) \/ Finish(w)
               \/ PruneVersions(w) \/ DeleteProjectRow(w) \/ Lapse(w) \/ Renew(w)
        PROVE  BudgetInv'
    BY <1>3, WorkerAccount, CommitAccount, ReportAccount, PruneVersionsAccount,
       DeleteProjectAccount
       DEF Claim, Finish
  <1>4. CASE SweepLeases \/ Close \/ Release \/ Exit \/ Crash \/ Boot
    BY <1>4, SweepAccount, ReleaseAccount, ProcessAccount
  <1>5. QED
    BY <1>1, <1>2, <1>3, <1>4 DEF Next

LEMMA BudgetInvInit == Init => BudgetInv
  BY LeaseInvInit DEF Init, BudgetInv, Accounted, Bounded, SeenCurrent, RetryLimit

LEMMA BudgetInvariance == Spec => []BudgetInv
  <1>1. BudgetInv /\ [Next]_vars => BudgetInv'
    BY BudgetInvStep
  <1>2. QED
    BY <1>1, BudgetInvInit, PTL DEF Spec

\* A row's attempts are its recorded failures, its lost leases and the execution
\* under way or done, and nothing else: no orderly restart, late report or
\* revival costs a try.
THEOREM AttemptsAccountedFor == Spec => []AttemptAccounting
  <1>1. BudgetInv => AttemptAccounting
    BY DEF BudgetInv, Accounted, AttemptAccounting
  <1>2. QED
    BY <1>1, BudgetInvariance, PTL

\* A job fails three times at most before it is failed for good, and a kind that
\* is not retried once, over any number of workers, sweeps and restarts.
THEOREM RetriesBounded == Spec => []RetryBound
  <1>1. BudgetInv => RetryBound
    BY DEF BudgetInv, Bounded, RetryBound
  <1>2. QED
    BY <1>1, BudgetInvariance, PTL

\* Both at once: over any number of workers, restarts and lost leases a job is tried
\* a bounded number of times, and every try is accounted for.
THEOREM AttemptsBounded == Spec => []AttemptsAreBounded
  BY AttemptsAccountedFor, RetriesBounded, PTL DEF AttemptsAreBounded
=============================================================================
