----------------------- MODULE JobQueueContractProofs -----------------------
(***************************************************************************)
(* The heavy allowance and the contract, for any number of jobs and slots  *)
(* and any allowance.                                                      *)
(***************************************************************************)
EXTENDS JobQueueProofs, FiniteSetTheorems

HeavyGranted == {j \in Heavy : Grants(j)}

\* The count a claim took stays an upper bound until it commits: grants only
\* end in the meantime.
HeavyCounted ==
    \A w \in Slot :
        /\ pc[w] \in {"counted", "selected"} /\ slotFree[w]
              => Cardinality(HeavyGranted) < HeavyLimit
        /\ pc[w] = "selected" /\ cur[w] \in Heavy => slotFree[w]

\* The project of a selected job stays free of grants until the claim commits, in a
\* process that is ending too.
GrantsApart ==
    \A w \in Slot, i \in Job :
        pc[w] = "selected" /\ Grants(i) => ProjectOf[i] # ProjectOf[cur[w]]

HeavyInv == LeaseInv /\ HeavyCounted /\ HeavyAllowance /\ GrantsApart

NoNewGrants == \A i \in Job : Grants(i)' => Grants(i)

-----------------------------------------------------------------------------
LEMMA HeavyFinite ==
  ASSUME NEW S, S \subseteq Job
  PROVE  IsFiniteSet(S) /\ Cardinality(S) \in Nat
  BY QueueAssumption, FS_Subset, FS_CardinalityType

LEMMA FewerGrants ==
  ASSUME NoNewGrants
  PROVE  Cardinality(HeavyGranted') <= Cardinality(HeavyGranted)
         /\ Cardinality(HeavyGranted') \in Nat /\ Cardinality(HeavyGranted) \in Nat
  <1>1. HeavyGranted \subseteq Job /\ HeavyGranted' \subseteq HeavyGranted
    BY DEF HeavyGranted, Heavy, NoNewGrants
  <1>2. IsFiniteSet(HeavyGranted)
    BY <1>1, HeavyFinite
  <1>3. QED
    BY <1>1, <1>2, HeavyFinite, FS_Subset

\* A worker's count is fresh, or it is the one it had.
CountKept(w) ==
    pc'[w] \in {"counted", "selected"} =>
        /\ pc[w] \in {"counted", "selected"} /\ slotFree'[w] = slotFree[w]
        /\ pc'[w] = "selected" => pc[w] = "selected" /\ cur'[w] = cur[w]

LEMMA NoGrantStep ==
  ASSUME HeavyInv, [Next]_vars, NoNewGrants, \A w \in Slot : CountKept(w)
  PROVE  HeavyInv'
  <1>1. LeaseInv'
    BY LeaseInvStep DEF HeavyInv
  <1>2. HeavyAllowance'
    BY FewerGrants, QueueAssumption DEF HeavyInv, HeavyAllowance, HeavyGranted
  <1>3. HeavyCounted'
    BY FewerGrants, QueueAssumption DEF HeavyInv, HeavyCounted, CountKept
  <1>4. GrantsApart'
    BY DEF HeavyInv, GrantsApart, CountKept, NoNewGrants
  <1>5. QED
    BY <1>1, <1>2, <1>3, <1>4 DEF HeavyInv

LEMMA NoNewGrant ==
  ASSUME UNCHANGED boot,
         \A v \in Slot : Steady(v)' => Steady(v) /\ cur'[v] = cur[v],
         \A i \in Job : Live(i)' => Live(i) /\ lockedBy'[i] = lockedBy[i]
  PROVE  NoNewGrants
  <1>1. SUFFICES ASSUME NEW i \in Job, NEW w \in Slot,
                        Steady(w)', cur'[w] = i, OwnsLease(w)', Live(i)'
                 PROVE  Grants(i)
    BY DEF NoNewGrants, Grants
  <1>2. Steady(w) /\ cur[w] = i /\ Live(i) /\ lockedBy'[i] = lockedBy[i]
    BY <1>1
  <1>3. OwnsLease(w)
    BY <1>1, <1>2 DEF OwnsLease, Me, Live
  <1>4. QED
    BY <1>2, <1>3 DEF Grants

LEMMA KeptCounts ==
  ASSUME UNCHANGED workers, NEW w \in Slot
  PROVE  CountKept(w) /\ (Steady(w)' => Steady(w) /\ cur'[w] = cur[w])
  BY DEF workers, CountKept, Steady

LEMMA ClientHeavy ==
  ASSUME HeavyInv, [Next]_vars, NEW j \in Job,
         \/ Client(j) \/ BecomeDue(j) \/ Expire(j)
         \/ PruneJobs(j) \/ ReviveDelete(j) \/ ExpireRender(j)
  PROVE  HeavyInv'
  <1>1. UNCHANGED <<boot, workers>>
    BY DEF Client, Enqueue, EnqueueRerunnable, RunPurgeNow, WithdrawDelete, BecomeDue,
       PruneJobs, ReviveDelete, Expire, ExpireRender, process
  <1>2. RowsTyped
    BY DEF HeavyInv, LeaseInv, Frame, TypeOK
  <1>3. ASSUME NEW i \in Job, Live(i)' PROVE Live(i) /\ lockedBy'[i] = lockedBy[i]
    <2>1. CASE Enqueue(j) \/ EnqueueRerunnable(j) \/ RunPurgeNow(j) \/ ReviveDelete(j)
      <3>1. PICK isDue \in BOOLEAN : Requeued(j, isDue)
        BY <2>1 DEF Enqueue, EnqueueRerunnable, RunPurgeNow, ReviveDelete
      <3>2. QED
        BY <3>1, <1>2, <1>3, RequeuedRows DEF Live, RowKept
    <2>2. CASE WithdrawDelete(j) \/ PruneJobs(j)
      BY <2>2, <1>3, RemovedRows DEF WithdrawDelete, PruneJobs, Live, RowKept
    <2>3. CASE BecomeDue(j) \/ Expire(j)
      BY <2>3, <1>2, <1>3 DEF BecomeDue, Expire, Live, RowsTyped
    <2>4. CASE ExpireRender(j)
      BY <2>4, <1>2, <1>3 DEF ExpireRender, Live, RowsTyped
    <2>5. QED
      BY <2>1, <2>2, <2>3, <2>4 DEF Client
  <1>4. QED
    BY <1>1, <1>3, KeptCounts, NoNewGrant, NoGrantStep

LEMMA TableHeavy ==
  ASSUME HeavyInv, [Next]_vars,
         SweepLeases \/ Release \/ Close \/ (\E w \in Slot : PruneVersions(w) \/ DeleteProjectRow(w))
  PROVE  HeavyInv'
  <1>1. UNCHANGED <<boot, workers>>
    BY DEF SweepLeases, Release, Close, PruneVersions, DeleteProjectRow, process
  <1>2. ASSUME NEW i \in Job, Live(i)' PROVE Live(i) /\ lockedBy'[i] = lockedBy[i]
    <2>1. CASE SweepLeases
      <3> DEFINE stale == {j \in Job : Stale(j)}
      <3>1. /\ status' = [j \in Job |-> IF j \in stale THEN "queued" ELSE status[j]]
            /\ Unleased(stale)
        BY <2>1 DEF SweepLeases
      <3> HIDE DEF stale
      <3>2. QED
        BY <3>1, <1>2, UnleasedRows DEF Live
    <2>2. CASE Release
      <3> DEFINE held == {j \in inFlight : status[j] = "running"}
      <3>1. /\ status' = [j \in Job |-> IF j \in held THEN "queued" ELSE status[j]]
            /\ Unleased(held)
        BY <2>2 DEF Release
      <3> HIDE DEF held
      <3>2. QED
        BY <3>1, <1>2, UnleasedRows DEF Live
    <2>3. CASE Close
      BY <2>3, <1>2 DEF Close, rows, Live
    <2>4. CASE \E w \in Slot : DeleteProjectRow(w)
      <3>1. PICK w \in Slot : DeleteProjectRow(w)
        BY <2>4
      <3> DEFINE mine == {j \in Job : ProjectOf[j] = ProjectOf[cur[w]]}
      <3>2. Removed(mine)
        BY <3>1 DEF DeleteProjectRow
      <3> HIDE DEF mine
      <3>3. QED
        BY <3>2, <1>2, RemovedRows DEF Live, RowKept
    <2>5. CASE \E w \in Slot : PruneVersions(w)
      <3>1. \E S : Removed(S)
        BY <2>5 DEF PruneVersions
      <3>2. QED
        BY <3>1, <1>2, RemovedRows DEF Live, RowKept
    <2>6. QED
      BY <2>1, <2>2, <2>3, <2>4, <2>5
  <1>3. QED
    BY <1>1, <1>2, KeptCounts, NoNewGrant, NoGrantStep

\* A renewal revives no grant: a steady worker's row has not gone stale.
LEMMA RenewHeavy ==
  ASSUME HeavyInv, [Next]_vars, NEW w \in Slot, Renew(w)
  PROVE  HeavyInv'
  <1>1. UNCHANGED <<status, lockedBy, gone, boot, proc, workers>>
        /\ \A i \in Job \ {cur[w]} : fresh'[i] = fresh[i]
    BY DEF Renew, process, HeavyInv, LeaseInv, Frame, TypeOK, RowsTyped
  <1>2. NoNewGrants
    <2>1. SUFFICES ASSUME NEW i \in Job, NEW v \in Slot,
                          Steady(v)', cur'[v] = i, OwnsLease(v)', Live(i)'
                   PROVE  Grants(i)
      BY DEF NoNewGrants, Grants
    <2>2. Steady(v) /\ cur[v] = i /\ OwnsLease(v)
      BY <1>1, <2>1 DEF Steady, OwnsLease, Me, workers
    <2>3. fresh[i]
      <3>1. ProjectOf[i] \notin gone
        BY <2>2 DEF OwnsLease, HeavyInv, LeaseInv, Frame, NoRowOfGone
      <3>2. CASE Serving
        BY <2>2, <3>1, <3>2 DEF HeavyInv, LeaseInv, LeaseBacksWork
      <3>3. QED
        BY <3>2 DEF Renew
    <2>4. QED
      BY <2>2, <2>3 DEF Grants, Live, OwnsLease
  <1>3. QED
    BY <1>1, <1>2, KeptCounts, NoGrantStep

\* Worker steps that leave the table alone.
LEMMA WorkerHeavy ==
  ASSUME HeavyInv, [Next]_vars, NEW w \in Slot,
         \/ StartClaim(w) \/ TryLock(w) \/ CountHeavy(w) \/ Select(w) \/ Register(w)
         \/ ClaimError(w) \/ FailSubject(w) \/ Lapse(w)
  PROVE  HeavyInv'
  <1> USE QueueAssumption
  <1>1. /\ pc \in [Slot -> PC] /\ cur \in [Slot -> Job \cup {NoJob}]
        /\ slotFree \in [Slot -> BOOLEAN] /\ lapse \in [Slot -> {"no", "overrun", "stalled"}]
    BY DEF HeavyInv, LeaseInv, Frame, TypeOK, WorkersTyped
  <1>2. UNCHANGED <<rows, boot>>
    BY DEF StartClaim, TryLock, CountHeavy, Select, Register, ClaimError, FailSubject, Lapse,
       process
  <1>3. \A i \in Job : Live(i)' => Live(i) /\ lockedBy'[i] = lockedBy[i]
    BY <1>2 DEF rows, Live
  <1>4. CASE BackToLoop({w})
    <2>1. ASSUME NEW v \in Slot
          PROVE  CountKept(v) /\ (Steady(v)' => Steady(v) /\ cur'[v] = cur[v])
      BY <1>4, BackToLoopWorkers DEF WorkerKept, CountKept, Steady
    <2>2. QED
      BY <1>2, <1>3, <2>1, NoNewGrant, NoGrantStep
  <1>5. CASE StartClaim(w) \/ TryLock(w) \/ Register(w) \/ Lapse(w)
    <2>1. ASSUME NEW v \in Slot
          PROVE  CountKept(v) /\ (Steady(v)' => Steady(v) /\ cur'[v] = cur[v])
      BY <1>1, <1>5 DEF StartClaim, TryLock, Register, Lapse, CountKept, Steady
    <2>2. QED
      BY <1>2, <1>3, <2>1, NoNewGrant, NoGrantStep
  <1>6. CASE CountHeavy(w)
    <2>1. /\ pc'[w] = "counted" /\ UNCHANGED <<cur, lapse>>
          /\ slotFree'[w] = (Cardinality(HeavyRunning) < HeavyLimit)
          /\ \A v \in Slot \ {w} : pc'[v] = pc[v] /\ slotFree'[v] = slotFree[v]
      BY <1>1, <1>6 DEF CountHeavy
    <2>2. \A v \in Slot : Steady(v)' => Steady(v) /\ cur'[v] = cur[v]
      BY <2>1 DEF Steady
    <2>3. NoNewGrants
      BY <1>2, <1>3, <2>2, NoNewGrant
    <2>4. Cardinality(HeavyGranted) <= Cardinality(HeavyRunning)
          /\ Cardinality(HeavyRunning) \in Nat
      <3>1. HeavyGranted \subseteq HeavyRunning /\ HeavyRunning \subseteq Job
        BY DEF HeavyGranted, HeavyRunning, Grants, Heavy
      <3>2. QED
        BY <3>1, HeavyFinite, FS_Subset
    <2>5. HeavyCounted'
      <3>1. ASSUME NEW v \in Slot, pc'[v] \in {"counted", "selected"}, slotFree'[v]
            PROVE  Cardinality(HeavyGranted') < HeavyLimit
        <4>1. Cardinality(HeavyGranted) < HeavyLimit
          <5>1. CASE v = w
            <6>1. Cardinality(HeavyRunning) < HeavyLimit
              BY <2>1, <3>1, <5>1, Zenon
            <6>2. Cardinality(HeavyGranted) \in Nat
              BY <2>3, FewerGrants
            <6>3. QED
              BY <2>4, <6>1, <6>2
          <5>2. CASE v # w
            BY <2>1, <3>1, <5>2 DEF HeavyInv, HeavyCounted
          <5>3. QED
            BY <5>1, <5>2
        <4>2. QED
          BY <4>1, <2>3, FewerGrants
      <3>2. \A v \in Slot : pc'[v] = "selected" /\ cur'[v] \in Heavy => slotFree'[v]
        BY <2>1 DEF HeavyInv, HeavyCounted
      <3>3. QED
        BY <3>1, <3>2 DEF HeavyCounted, Heavy
    <2>6. HeavyAllowance'
      BY <2>3, FewerGrants DEF HeavyInv, HeavyAllowance, HeavyGranted
    <2>7. GrantsApart'
      <3>1. \A v \in Slot : pc'[v] = "selected" => pc[v] = "selected"
        BY <2>1
      <3>2. QED
        BY <2>1, <2>3, <3>1 DEF HeavyInv, GrantsApart, NoNewGrants
    <2>8. QED
      BY <2>5, <2>6, <2>7, LeaseInvStep DEF HeavyInv
  <1>7. CASE Select(w) /\ ~BackToLoop({w})
    <2>1. PICK j \in Job : /\ Claimable(j, slotFree[w]) /\ pc[w] = "counted"
                           /\ cur' = [cur EXCEPT ![w] = j]
                           /\ pc' = [pc EXCEPT ![w] = "selected"]
                           /\ UNCHANGED <<slotFree, lapse>>
      BY <1>7 DEF Select, Oldest
    <2>2. \A v \in Slot : Steady(v)' => Steady(v) /\ cur'[v] = cur[v]
      BY <1>1, <2>1 DEF Steady
    <2>3. NoNewGrants
      BY <1>2, <1>3, <2>2, NoNewGrant
    <2>4. HeavyCounted'
      <3>1. ASSUME NEW v \in Slot, pc'[v] \in {"counted", "selected"}, slotFree'[v]
            PROVE  Cardinality(HeavyGranted') < HeavyLimit
        BY <1>1, <2>1, <2>3, <3>1, FewerGrants DEF HeavyInv, HeavyCounted
      <3>2. ASSUME NEW v \in Slot, pc'[v] = "selected", cur'[v] \in Heavy
            PROVE  slotFree'[v]
        <4>1. CASE v = w
          BY <1>1, <2>1, <3>2, <4>1 DEF Claimable
        <4>2. CASE v # w
          BY <1>1, <2>1, <3>2, <4>2 DEF HeavyInv, HeavyCounted
        <4>3. QED
          BY <4>1, <4>2
      <3>3. QED
        BY <3>1, <3>2 DEF HeavyCounted, Heavy
    <2>5. HeavyAllowance'
      BY <2>3, FewerGrants DEF HeavyInv, HeavyAllowance, HeavyGranted
    <2>6. GrantsApart'
      <3>1. SUFFICES ASSUME NEW v \in Slot, NEW i \in Job, pc'[v] = "selected", Grants(i)
                     PROVE  ProjectOf[i] # ProjectOf[cur'[v]]
        BY <2>3 DEF GrantsApart, NoNewGrants
      <3>2. CASE v = w
        BY <1>1, <2>1, <3>1, <3>2 DEF Claimable, ProjectFree, Grants
      <3>3. CASE v # w
        BY <1>1, <2>1, <3>1, <3>3 DEF HeavyInv, GrantsApart
      <3>4. QED
        BY <3>2, <3>3
    <2>7. QED
      BY <2>4, <2>5, <2>6, LeaseInvStep DEF HeavyInv
  <1>8. QED
    BY <1>4, <1>5, <1>6, <1>7 DEF ClaimError, FailSubject, Leave

LEMMA ReportHeavy ==
  ASSUME HeavyInv, [Next]_vars, NEW w \in Slot, Succeed(w) \/ Fail(w)
  PROVE  HeavyInv'
  <1>1. pc \in [Slot -> PC] /\ cur[w] \in Job /\ UNCHANGED boot
    BY DEF Succeed, Fail, HeavyInv, LeaseInv, Frame, TypeOK, WorkersTyped
  <1>2. ASSUME NEW v \in Slot
        PROVE  CountKept(v) /\ (Steady(v)' => Steady(v) /\ cur'[v] = cur[v])
    <2>1. CASE Leave(w)
      BY <2>1, BackToLoopWorkers DEF Leave, WorkerKept, CountKept, Steady
    <2>2. CASE ~Leave(w)
      BY <1>1, <2>2 DEF Succeed, Fail, CountKept, Steady
    <2>3. QED
      BY <2>1, <2>2
  <1>3. ASSUME NEW i \in Job, Live(i)' PROVE Live(i) /\ lockedBy'[i] = lockedBy[i]
    <2>1. CASE ~OwnsLease(w)
      BY <1>3, <2>1 DEF Succeed, Fail, Live
    <2>2. CASE OwnsLease(w)
      <3>1. Unleased({cur[w]})
        BY <2>2 DEF Succeed, Fail
      <3>2. i # cur[w]
        BY <1>3, <3>1, <1>1 DEF Unleased, Live
      <3>3. status'[i] = status[i]
        BY <1>1, <2>2, <3>2 DEF Succeed, Fail, HeavyInv, LeaseInv, Frame, TypeOK, RowsTyped
      <3>4. QED
        BY <1>3, <3>1, <3>2, <3>3, UnleasedRows DEF Live
    <2>3. QED
      BY <2>1, <2>2
  <1>4. QED
    BY <1>1, <1>2, <1>3, NoNewGrant, NoGrantStep

\* The commit is the only step that grants, and it grants one job.
LEMMA CommitHeavy ==
  ASSUME HeavyInv, [Next]_vars, NEW w \in Slot, CommitClaim(w)
  PROVE  HeavyInv'
  <1> USE QueueAssumption
  <1>1. PICK j \in Job : j = cur[w] /\ pc[w] = "selected"
    BY DEF CommitClaim, HeavyInv, LeaseInv, Frame, TypeOK, WorkersTyped
  <1>2. /\ pc'[w] = "claimed" /\ \A v \in Slot \ {w} : pc'[v] = pc[v]
        /\ UNCHANGED <<cur, lapse, boot>>
        /\ \A i \in Job \ {j} : Live(i)' => Live(i) /\ lockedBy'[i] = lockedBy[i]
        /\ lockedBy'[j] = Me(w)
    BY <1>1 DEF CommitClaim, process, Live, HeavyInv, LeaseInv, Frame, TypeOK, RowsTyped,
       WorkersTyped
  <1>3. \A v \in Slot : pc'[v] \notin {"counted", "selected"}
    <2>1. \A v \in Slot : pc[v] \in {"locked", "counted", "selected"} => v = w
      BY <1>1 DEF HeavyInv, LeaseInv, Frame, ClaimSection
    <2>2. QED
      BY <1>2, <2>1
  <1>4. HeavyCounted'
    BY <1>3 DEF HeavyCounted
  <1>5. \A i \in Job : Grants(i)' /\ i # j => Grants(i)
    <2>1. SUFFICES ASSUME NEW i \in Job, i # j, NEW v \in Slot,
                          Steady(v)', cur'[v] = i, OwnsLease(v)', Live(i)'
                   PROVE  Grants(i)
      BY DEF Grants
    <2>2. Live(i) /\ lockedBy'[i] = lockedBy[i] /\ cur[v] = i
      BY <1>2, <2>1
    <2>3. v # w
      BY <1>1, <2>1, <2>2
    <2>4. Steady(v)
      BY <1>2, <2>1, <2>3 DEF Steady
    <2>5. OwnsLease(v)
      BY <1>2, <2>1, <2>2 DEF OwnsLease, Me, Live
    <2>6. QED
      BY <2>2, <2>4, <2>5 DEF Grants
  <1>6. HeavyAllowance'
    <2>1. CASE j \in Heavy
      <3>1. Cardinality(HeavyGranted) < HeavyLimit
        BY <1>1, <2>1 DEF HeavyInv, HeavyCounted
      <3>2. HeavyGranted \subseteq Job
        BY DEF HeavyGranted, Heavy
      <3>3. /\ IsFiniteSet(HeavyGranted \cup {j}) /\ Cardinality(HeavyGranted \cup {j}) \in Nat
            /\ Cardinality(HeavyGranted) \in Nat
            /\ Cardinality(HeavyGranted \cup {j}) <= Cardinality(HeavyGranted) + 1
        BY <3>2, HeavyFinite, FS_AddElement
      <3>4. HeavyGranted' \in SUBSET (HeavyGranted \cup {j})
        BY <1>5 DEF HeavyGranted, Heavy
      <3>5. Cardinality(HeavyGranted') <= Cardinality(HeavyGranted \cup {j})
        BY <3>3, <3>4, FS_Subset
      <3>6. Cardinality(HeavyGranted') \in Nat
        BY HeavyFinite DEF HeavyGranted, Heavy
      <3>7. QED
        BY <3>1, <3>3, <3>5, <3>6 DEF HeavyAllowance, HeavyGranted
    <2>2. CASE j \notin Heavy
      <3>1. HeavyGranted \subseteq Job /\ HeavyGranted' \subseteq HeavyGranted
        BY <1>5, <2>2 DEF HeavyGranted, Heavy
      <3>2. Cardinality(HeavyGranted') <= Cardinality(HeavyGranted)
            /\ Cardinality(HeavyGranted') \in Nat /\ Cardinality(HeavyGranted) \in Nat
        BY <3>1, HeavyFinite, FS_Subset
      <3>3. QED
        BY <3>2 DEF HeavyInv, HeavyAllowance, HeavyGranted
    <2>3. QED
      BY <2>1, <2>2
  <1>7. GrantsApart'
    BY <1>3 DEF GrantsApart
  <1>8. QED
    BY <1>4, <1>6, <1>7, LeaseInvStep DEF HeavyInv

LEMMA StopHeavy ==
  ASSUME HeavyInv, [Next]_vars, Exit \/ Crash \/ Boot
  PROVE  HeavyInv'
  <1>1. \A v \in Slot : pc'[v] = "idle"
    <2>1. CASE Exit \/ Crash
      BY <2>1, BackToLoopWorkers DEF Exit, Crash, ProcessLost
    <2>2. CASE Boot
      BY <2>2 DEF Boot, workers, HeavyInv, LeaseInv, Frame, DownIsIdle
    <2>3. QED
      BY <2>1, <2>2
  <1>2. NoNewGrants
    BY <1>1 DEF NoNewGrants, Grants, Steady
  <1>3. \A w \in Slot : CountKept(w)
    BY <1>1 DEF CountKept
  <1>4. QED
    BY <1>2, <1>3, NoGrantStep

LEMMA HeavyInvInit == Init => HeavyInv
  <1> SUFFICES ASSUME Init PROVE HeavyInv
    OBVIOUS
  <1>1. \A w \in Slot : pc[w] = "idle"
    BY DEF Init
  <1>2. {j \in Heavy : Grants(j)} = {}
    BY <1>1 DEF Grants, Steady
  <1>3. HeavyAllowance
    BY <1>2, FS_EmptySet, QueueAssumption DEF HeavyAllowance
  <1>4. HeavyCounted
    BY <1>1 DEF HeavyCounted
  <1>5. GrantsApart
    BY <1>1 DEF GrantsApart
  <1>6. QED
    BY <1>3, <1>4, <1>5, LeaseInvInit DEF HeavyInv

LEMMA HeavyInvStep ==
  ASSUME HeavyInv, [Next]_vars
  PROVE  HeavyInv'
  <1>1. CASE UNCHANGED vars
    <2>1. UNCHANGED <<status, lockedBy, fresh, boot, workers>>
      BY <1>1 DEF vars, rows, process
    <2>2. QED
      BY <2>1, KeptCounts, NoNewGrant, NoGrantStep DEF Live
  <1>2. ASSUME NEW j \in Job,
               \/ Client(j) \/ BecomeDue(j) \/ Expire(j)
               \/ PruneJobs(j) \/ ReviveDelete(j) \/ ExpireRender(j)
        PROVE  HeavyInv'
    BY <1>2, ClientHeavy
  <1>3. ASSUME NEW w \in Slot,
               \/ Claim(w) \/ ClaimError(w) \/ Finish(w)
               \/ PruneVersions(w) \/ DeleteProjectRow(w) \/ Lapse(w) \/ Renew(w)
        PROVE  HeavyInv'
    BY <1>3, WorkerHeavy, CommitHeavy, ReportHeavy, TableHeavy, RenewHeavy DEF Claim, Finish
  <1>4. CASE SweepLeases \/ Close \/ Release \/ Exit \/ Crash \/ Boot
    BY <1>4, TableHeavy, StopHeavy
  <1>5. QED
    BY <1>1, <1>2, <1>3, <1>4 DEF Next

\* However many workers claim, the heavy jobs that are being worked on under a
\* kept lease never outnumber the allowance.
THEOREM HeavyLimited == Spec => []HeavyAllowance
  <1>1. HeavyInv /\ [Next]_vars => HeavyInv'
    BY HeavyInvStep
  <1>2. HeavyInv => HeavyAllowance
    BY DEF HeavyInv
  <1>3. QED
    BY <1>1, <1>2, HeavyInvInit, PTL DEF Spec

-----------------------------------------------------------------------------
(* The contract.  What a step does to the phase of a job is read off its   *)
(* row and the workers that hold it.                                       *)

PhaseKept(i) == PhaseOf(i)' = PhaseOf(i)

\* A lapse ends with the call it happened in.
LapsesEnd == \A w \in Slot : pc[w] \notin {"executing", "failing"} => lapse[w] = "no"

ContractInv == HeavyInv /\ LapsesEnd

LEMMA ContractInvInit == Init => ContractInv
  BY HeavyInvInit DEF Init, ContractInv, LapsesEnd

LEMMA LapsesEndStep ==
  ASSUME ContractInv, [Next]_vars
  PROVE  LapsesEnd'
  <1> USE DEF LapsesEnd
  <1>1. /\ pc \in [Slot -> PC] /\ lapse \in [Slot -> {"no", "overrun", "stalled"}]
        /\ LapsesEnd
    BY DEF ContractInv, HeavyInv, LeaseInv, Frame, TypeOK, WorkersTyped
  <1>2. CASE UNCHANGED workers
    BY <1>1, <1>2 DEF workers
  <1>3. ASSUME NEW S, BackToLoop(S) PROVE LapsesEnd'
    BY <1>1, <1>3 DEF BackToLoop
  <1>4. ASSUME NEW w \in Slot, Claim(w) \/ Finish(w) \/ Lapse(w) PROVE LapsesEnd'
    <2>1. CASE Lapse(w)
      BY <1>1, <2>1 DEF Lapse
    <2>2. CASE Claim(w) \/ Finish(w)
      BY <1>1, <1>3, <1>4, <2>2 DEF Claim, Finish, StartClaim, TryLock, CountHeavy, Select,
         CommitClaim, Register, Succeed, Fail, FailSubject, Leave
    <2>3. QED
      BY <1>4, <2>1, <2>2
  <1>5. QED
    <2>1. \A j \in Job :
            \/ Client(j) \/ BecomeDue(j) \/ Expire(j)
            \/ PruneJobs(j) \/ ReviveDelete(j) \/ ExpireRender(j)
          => UNCHANGED workers
      BY DEF Client, Enqueue, EnqueueRerunnable, RunPurgeNow, WithdrawDelete, BecomeDue,
         Expire, PruneJobs, ReviveDelete, ExpireRender
    <2>2. \A w \in Slot : PruneVersions(w) \/ DeleteProjectRow(w) \/ Renew(w)
          => UNCHANGED workers
      BY DEF PruneVersions, DeleteProjectRow, Renew
    <2>3. SweepLeases \/ Close \/ Release \/ Boot => UNCHANGED workers
      BY DEF SweepLeases, Close, Release, Boot
    <2>4. Exit \/ Crash \/ (\E w \in Slot : ClaimError(w)) => \E S : BackToLoop(S)
      BY DEF Exit, Crash, ProcessLost, ClaimError
    <2>5. QED
      BY <1>2, <1>3, <1>4, <2>1, <2>2, <2>3, <2>4 DEF Next, vars

LEMMA ContractInvStep ==
  ASSUME ContractInv, [Next]_vars
  PROVE  ContractInv'
  BY HeavyInvStep, LapsesEndStep DEF ContractInv

LEMMA RowPhase ==
  ASSUME NEW i \in Job, status'[i] = status[i], Grants(i)' <=> Grants(i)
  PROVE  PhaseKept(i)
  BY DEF PhaseKept, PhaseOf

\* Only a running row can be granted.
LEMMA IdlePhase ==
  ASSUME NEW i \in Job, status'[i] = status[i], status[i] # "running"
  PROVE  PhaseKept(i)
  BY DEF PhaseKept, PhaseOf

LEMMA KeptGrants ==
  ASSUME NEW i \in Job, UNCHANGED <<boot, workers>>, RowKept(i)
  PROVE  Grants(i)' <=> Grants(i)
  BY DEF Grants, Steady, OwnsLease, Me, Live, RowKept, workers

LEMMA KeptPhase ==
  ASSUME NEW i \in Job, UNCHANGED <<boot, workers>>, RowKept(i)
  PROVE  PhaseKept(i)
  BY KeptGrants, RowPhase DEF RowKept

LEMMA GrantedPhase ==
  ASSUME HeavyInv, NEW i \in Job
  PROVE  PhaseOf(i) = "granted" <=> Grants(i)
  <1>1. status[i] \in Status
    BY DEF HeavyInv, LeaseInv, Frame, TypeOK, RowsTyped
  <1>2. Grants(i) => status[i] = "running"
    BY DEF Grants, Live
  <1>3. QED
    BY <1>1, <1>2 DEF PhaseOf, Status

LEMMA SameCardinality ==
  ASSUME NEW S
  PROVE  Contract!Cardinality(S) = Cardinality(S)
  BY DEF Contract!Cardinality, Cardinality

LEMMA GrantedJobs ==
  ASSUME HeavyInv
  PROVE  Contract!Granted = {i \in Job : Grants(i)}
  <1>1. Contract!Granted = {i \in Job : PhaseOf(i) = "granted"}
    BY DEF Contract!Granted
  <1>2. QED
    BY <1>1, GrantedPhase

\* No phase changes and the process goes on, or does not, as before.
LEMMA Stutter ==
  ASSUME \A i \in Job : PhaseKept(i), (proc' = "up") <=> (proc = "up")
  PROVE  [Contract!Next]_Contract!vars
  BY DEF PhaseKept, Contract!vars

\* Contract!Becomes, job by job.
LEMMA PhasesBecome ==
  ASSUME NEW S, NEW p,
         \A i \in Job : i \in S => PhaseOf(i)' = p,
         \A i \in Job : i \notin S => PhaseKept(i)
  PROVE  Contract!Becomes(S, p)
  BY DEF Contract!Becomes, PhaseKept

\* A step of one worker that leaves the rows alone grants nothing, and ends at most
\* the grant this worker had.
LEMMA DropGrant ==
  ASSUME NEW w \in Slot, UNCHANGED <<status, lockedBy, fresh, proc, boot>>, NEW j \in Job, cur[w] = j,
         ~Steady(w)',
         \A v \in Slot \ {w} : (Steady(v)' <=> Steady(v)) /\ (Steady(v) => cur'[v] = cur[v])
  PROVE  [Contract!Next]_Contract!vars
  <1>1. \A i \in Job : Grants(i)' => Grants(i)
    BY DEF Grants, OwnsLease, Me, Live
  <1>2. \A i \in Job \ {j} : PhaseKept(i)
    <2>1. \A i \in Job \ {j} : Grants(i) => Grants(i)'
      BY DEF Grants, OwnsLease, Me, Live
    <2>2. QED
      BY <1>1, <2>1, RowPhase
  <1>3. CASE Grants(j)' <=> Grants(j)
    BY <1>2, <1>3, RowPhase, Stutter
  <1>4. CASE Grants(j) /\ ~Grants(j)'
    <2>1. status[j] = "running"
      BY <1>4 DEF Grants, Live
    <2>2. PhaseOf(j) = "granted" /\ PhaseOf(j)' = "doubtful"
      BY <1>4, <2>1 DEF PhaseOf
    <2>3. Contract!Becomes({j}, "doubtful")
      BY <1>2, <2>2, PhasesBecome
    <2>4. Contract!Doubt(j)
      BY <2>2, <2>3 DEF Contract!Doubt
    <2>5. QED
      BY <2>4 DEF Contract!Next
  <1>5. QED
    BY <1>1, <1>3, <1>4
\* A job is asked for: anew, again, or while it waits.
LEMMA PostRefines ==
  ASSUME HeavyInv, NEW j \in Job,
         Enqueue(j) \/ EnqueueRerunnable(j) \/ RunPurgeNow(j) \/ ReviveDelete(j)
  PROVE  [Contract!Next]_Contract!vars
  <1>1. PICK isDue \in BOOLEAN : Requeued(j, isDue)
    BY DEF Enqueue, EnqueueRerunnable, RunPurgeNow, ReviveDelete
  <1>2. UNCHANGED <<proc, boot, workers>>
    BY DEF Enqueue, EnqueueRerunnable, RunPurgeNow, ReviveDelete, process
  <1>3. status'[j] = "queued" /\ \A i \in Job \ {j} : PhaseKept(i)
    BY <1>1, <1>2, RequeuedRows, KeptPhase DEF HeavyInv, LeaseInv, Frame, TypeOK
  <1>4. CASE RunPurgeNow(j)
    BY <1>2, <1>3, <1>4, IdlePhase, Stutter DEF RunPurgeNow
  <1>5. CASE status[j] \in {"absent", "succeeded", "failed"}
    <2>1. PhaseOf(j) \in {"none", "settled"} /\ PhaseOf(j)' = "waiting"
      BY <1>3, <1>5 DEF PhaseOf
    <2>2. Contract!Becomes({j}, "waiting")
      BY <1>3, <2>1, PhasesBecome
    <2>3. Contract!Post(j)
      BY <1>2, <2>1, <2>2 DEF Contract!Post
    <2>4. QED
      BY <2>3 DEF Contract!Next
  <1>6. EnqueueRerunnable(j) => status[j] \in {"absent", "succeeded", "failed"}
    BY DEF EnqueueRerunnable, RerunFrom
  <1>7. QED
    BY <1>4, <1>5, <1>6 DEF Enqueue, ReviveDelete

\* Rows that wait or are settled leave the table.
LEMMA RemovedRefines ==
  ASSUME NEW S \in SUBSET Job, Removed(S), UNCHANGED <<proc, boot, workers>>,
         \A i \in S : status[i] \in {"queued", "succeeded", "failed"}
  PROVE  [Contract!Next]_Contract!vars
  <1>1. \A i \in S : status'[i] = "absent"
    BY RemovedRows
  <1>2. \A i \in S : PhaseOf(i) \in {"waiting", "settled"} /\ PhaseOf(i)' = "none"
    BY <1>1 DEF PhaseOf
  <1>3. \A i \in Job \ S : PhaseKept(i)
    BY RemovedRows, KeptPhase
  <1>4. Contract!Becomes(S, "none")
    BY <1>2, <1>3, PhasesBecome
  <1>5. Contract!Forget
    BY <1>2, <1>4 DEF Contract!Forget
  <1>6. QED
    BY <1>5 DEF Contract!Next

LEMMA ForgetRefines ==
  ASSUME NEW j \in Job, WithdrawDelete(j) \/ PruneJobs(j)
  PROVE  [Contract!Next]_Contract!vars
  <1>1. /\ Removed({j}) /\ UNCHANGED <<proc, boot, workers>>
        /\ status[j] \in {"queued", "succeeded"}
    BY DEF WithdrawDelete, PruneJobs, process
  <1>2. QED
    BY <1>1, RemovedRefines

LEMMA PruneVersionsRefines ==
  ASSUME NEW w \in Slot, PruneVersions(w)
  PROVE  [Contract!Next]_Contract!vars
  <1>1. PICK S \in SUBSET Job : Removed(S) /\ \A i \in S : status[i] \in {"succeeded", "failed"}
    BY DEF PruneVersions
  <1>2. UNCHANGED <<proc, boot, workers>>
    BY DEF PruneVersions, process
  <1>3. QED
    BY <1>1, <1>2, RemovedRefines

\* The project's row goes, and every row of a job of it.
LEMMA EraseRefines ==
  ASSUME HeavyInv, NEW w \in Slot, DeleteProjectRow(w)
  PROVE  [Contract!Next]_Contract!vars
  <1> DEFINE p == ProjectOf[cur[w]]
             mine == {j \in Job : ProjectOf[j] = p}
  <1>1. /\ Removed(mine) /\ UNCHANGED <<proc, boot, workers>>
        /\ p \in Project
    BY QueueAssumption DEF DeleteProjectRow, process, HeavyInv, LeaseInv, Frame, TypeOK,
       WorkersTyped
  <1>2. \A i \in mine : status'[i] = "absent"
    BY <1>1, RemovedRows
  <1>3. \A i \in mine : PhaseOf(i)' = "none"
    BY <1>2 DEF PhaseOf
  <1>4. \A i \in Job \ mine : PhaseKept(i)
    BY <1>1, RemovedRows, KeptPhase
  <1>5. Contract!Becomes(mine, "none")
    BY <1>3, <1>4, PhasesBecome
  <1>6. Contract!Erase(p)
    BY <1>1, <1>5 DEF Contract!Erase
  <1>7. QED
    BY <1>1, <1>6 DEF Contract!Next

\* What time and housekeeping do to rows that are not granted.
LEMMA TimeRefines ==
  ASSUME HeavyInv, NEW j \in Job, BecomeDue(j) \/ Expire(j) \/ ExpireRender(j)
  PROVE  [Contract!Next]_Contract!vars
  <1>1. RowsTyped /\ UNCHANGED <<proc, boot, workers>>
    BY DEF BecomeDue, Expire, ExpireRender, process, HeavyInv, LeaseInv, Frame, TypeOK
  <1>2. \A i \in Job \ {j} : RowKept(i)
    BY <1>1 DEF BecomeDue, Expire, ExpireRender, RowKept, RowsTyped
  <1>3. CASE BecomeDue(j)
    BY <1>1, <1>2, <1>3, IdlePhase, KeptPhase, Stutter DEF BecomeDue
  <1>4. CASE Expire(j)
    <2>1. status'[j] = status[j] /\ ~fresh'[j] /\ ~Grants(j)
      BY <1>1, <1>4 DEF Expire, Grants, RowsTyped
    <2>2. ~Grants(j)'
      BY <2>1 DEF Grants, Live
    <2>3. QED
      BY <1>1, <1>2, <2>1, <2>2, RowPhase, KeptPhase, Stutter
  <1>5. CASE ExpireRender(j)
    <2>1. status[j] = "succeeded" /\ status'[j] = "failed"
      BY <1>1, <1>5 DEF ExpireRender, RowsTyped
    <2>2. PhaseKept(j)
      BY <2>1 DEF PhaseKept, PhaseOf
    <2>3. QED
      BY <1>1, <1>2, <2>2, KeptPhase, Stutter
  <1>6. QED
    BY <1>3, <1>4, <1>5

\* A stale row is nobody's grant.
LEMMA SweepRefines ==
  ASSUME SweepLeases
  PROVE  [Contract!Next]_Contract!vars
  <1> DEFINE stale == {j \in Job : Stale(j)}
  <1>1. /\ status' = [j \in Job |-> IF j \in stale THEN "queued" ELSE status[j]]
        /\ Unleased(stale) /\ UNCHANGED <<proc, boot, workers>>
    BY DEF SweepLeases, process
  <1>2. \A i \in stale : PhaseOf(i) = "doubtful"
    BY DEF Stale, PhaseOf, Grants, Live
  <1>3. \A i \in stale : PhaseOf(i)' = "waiting"
    BY <1>1 DEF PhaseOf
  <1> HIDE DEF stale
  <1>4. \A i \in Job \ stale : RowKept(i)
    BY <1>1, UnleasedRows DEF RowKept
  <1>5. Contract!Becomes(stale, "waiting")
    BY <1>1, <1>3, <1>4, KeptPhase, PhasesBecome
  <1>6. stale \in SUBSET {j \in Job : PhaseOf(j) = "doubtful"}
    BY <1>2 DEF stale
  <1>7. Contract!Reclaim
    BY <1>1, <1>5, <1>6 DEF Contract!Reclaim
  <1>8. QED
    BY <1>7 DEF Contract!Next
\* A renewal grants nothing (RenewHeavy), and takes no grant away.
LEMMA RenewRefines ==
  ASSUME HeavyInv, NEW w \in Slot, Renew(w)
  PROVE  [Contract!Next]_Contract!vars
  <1>1. /\ UNCHANGED <<status, lockedBy, proc, boot, workers>> /\ Serving
        /\ \A i \in Job : fresh[i] => fresh'[i]
    BY DEF Renew, process, HeavyInv, LeaseInv, Frame, TypeOK, RowsTyped
  <1>2. ASSUME NEW i \in Job PROVE PhaseKept(i)
    <2>1. Grants(i) => Grants(i)'
      BY <1>1 DEF Grants, Steady, OwnsLease, Me, Live, workers
    <2>2. ASSUME Grants(i)' PROVE Grants(i)
      <3>1. PICK v \in Slot : Steady(v) /\ cur[v] = i /\ OwnsLease(v)
        BY <1>1, <2>2 DEF Grants, Steady, OwnsLease, Me, workers
      <3>2. ProjectOf[i] \notin gone
        BY <3>1 DEF OwnsLease, HeavyInv, LeaseInv, Frame, NoRowOfGone
      <3>3. fresh[i]
        BY <1>1, <3>1, <3>2 DEF HeavyInv, LeaseInv, LeaseBacksWork
      <3>4. QED
        BY <3>1, <3>3 DEF Grants, Live, OwnsLease
    <2>3. QED
      BY <1>1, <2>1, <2>2, RowPhase
  <1>3. QED
    BY <1>1, <1>2, Stutter

\* A worker that changes without holding a row, or keeps what it holds.
LEMMA QuietWorkerRefines ==
  ASSUME UNCHANGED <<status, lockedBy, fresh, proc, boot>>,
         \A v \in Slot : OwnsLease(v) =>
             (Steady(v)' <=> Steady(v)) /\ (Steady(v) => cur'[v] = cur[v]),
         \A v \in Slot : Steady(v)' => Steady(v) /\ cur'[v] = cur[v]
  PROVE  [Contract!Next]_Contract!vars
  <1>1. ASSUME NEW i \in Job PROVE Grants(i)' <=> Grants(i)
    BY DEF Grants, OwnsLease, Me, Live
  <1>2. QED
    BY <1>1, RowPhase, Stutter

LEMMA ClaimRefines ==
  ASSUME HeavyInv, NEW w \in Slot,
         StartClaim(w) \/ TryLock(w) \/ CountHeavy(w) \/ Select(w) \/ Register(w)
  PROVE  [Contract!Next]_Contract!vars
  <1>1. pc \in [Slot -> PC] /\ cur \in [Slot -> Job \cup {NoJob}]
    BY DEF HeavyInv, LeaseInv, Frame, TypeOK, WorkersTyped
  <1>2. UNCHANGED <<status, lockedBy, fresh, proc, boot>>
    BY DEF StartClaim, TryLock, CountHeavy, Select, Register, rows, process
  <1>3. CASE BackToLoop({w}) /\ Select(w)
    <2>1. ASSUME NEW v \in Slot
          PROVE  (Steady(v)' <=> Steady(v)) /\ (Steady(v) => cur'[v] = cur[v])
      <3>1. CASE v = w
        BY <1>3, <3>1, BackToLoopWorkers DEF Select, Steady
      <3>2. CASE v # w
        BY <1>3, <3>2, BackToLoopWorkers DEF WorkerKept, Steady
      <3>3. QED
        BY <3>1, <3>2
    <2>2. QED
      BY <1>2, <2>1, QuietWorkerRefines
  <1>4. CASE ~(BackToLoop({w}) /\ Select(w))
    <2>1. ASSUME NEW v \in Slot
          PROVE  (Steady(v)' <=> Steady(v)) /\ (Steady(v) => cur'[v] = cur[v])
      BY <1>1, <1>4 DEF StartClaim, TryLock, CountHeavy, Select, Register, Steady
    <2>2. QED
      BY <1>2, <2>1, QuietWorkerRefines
  <1>5. QED
    BY <1>3, <1>4

\* The commit grants: nobody else holds the project (GrantsApart), and the allowance
\* has room (HeavyCounted).
LEMMA CommitRefines ==
  ASSUME HeavyInv, LapsesEnd, NEW w \in Slot, CommitClaim(w)
  PROVE  [Contract!Next]_Contract!vars
  <1>1. PICK j \in Job : j = cur[w] /\ pc[w] = "selected" /\ status[j] = "queued"
    BY DEF CommitClaim, HeavyInv, LeaseInv, Frame, SelectedRow, TypeOK, WorkersTyped
  <1>2. /\ pc'[w] = "claimed" /\ \A v \in Slot \ {w} : pc'[v] = pc[v]
        /\ UNCHANGED <<cur, lapse, proc, boot>>
        /\ \A i \in Job \ {j} : RowKept(i)
        /\ status'[j] = "running" /\ lockedBy'[j] = Me(w) /\ fresh'[j]
    BY <1>1 DEF CommitClaim, process, RowKept, HeavyInv, LeaseInv, Frame, TypeOK, RowsTyped,
       WorkersTyped
  <1>3. lapse[w] = "no"
    BY <1>1 DEF LapsesEnd
  <1>4. Grants(j)'
    BY <1>1, <1>2, <1>3 DEF Grants, Steady, OwnsLease, Me, Live
  <1>5. PhaseOf(j) = "waiting" /\ PhaseOf(j)' = "granted"
    BY <1>1, <1>2, <1>4 DEF PhaseOf
  <1>6. ASSUME NEW i \in Job \ {j} PROVE PhaseKept(i)
    <2>1. \A v \in Slot : cur[v] = i => (Steady(v)' <=> Steady(v))
      BY <1>1, <1>2 DEF Steady
    <2>2. Grants(i)' <=> Grants(i)
      BY <1>2, <2>1 DEF Grants, OwnsLease, Me, Live, RowKept
    <2>3. QED
      BY <1>2, <2>2, RowPhase DEF RowKept
  <1>7. Contract!Becomes({j}, "granted")
    BY <1>5, <1>6, PhasesBecome
  <1>8. Contract!Granted = {i \in Job : Grants(i)}
    BY GrantedJobs
  <1>9. \A i \in Contract!Granted : ProjectOf[i] # ProjectOf[j]
    BY <1>1, <1>8 DEF HeavyInv, GrantsApart
  <1>10. j \in Heavy => Cardinality(Contract!Granted \cap Heavy) < HeavyLimit
    <2>1. Contract!Granted \cap Heavy = HeavyGranted
      BY <1>8 DEF HeavyGranted, Heavy
    <2>2. QED
      BY <1>1, <2>1 DEF HeavyInv, HeavyCounted
  <1>11. Contract!Grant(j)
    BY <1>2, <1>5, <1>7, <1>9, <1>10, SameCardinality DEF Contract!Grant
  <1>12. QED
    BY <1>11 DEF Contract!Next

LEMMA ClaimErrorRefines ==
  ASSUME HeavyInv, NEW w \in Slot, ClaimError(w)
  PROVE  [Contract!Next]_Contract!vars
  <1>1. UNCHANGED <<status, lockedBy, fresh, proc, boot>>
    BY DEF ClaimError, rows, process
  <1>2. ~Steady(w)'
    BY BackToLoopWorkers DEF ClaimError, Steady
  <1>3. \A v \in Slot \ {w} : (Steady(v)' <=> Steady(v)) /\ (Steady(v) => cur'[v] = cur[v])
    BY BackToLoopWorkers DEF ClaimError, WorkerKept, Steady
  <1>4. CASE pc[w] = "claimed"
    <2>1. cur[w] \in Job
      BY <1>4 DEF HeavyInv, LeaseInv, Frame, TypeOK, WorkersTyped
    <2>2. QED
      BY <1>1, <1>2, <1>3, <2>1, DropGrant
  <1>5. CASE pc[w] # "claimed"
    <2>1. ~Steady(w)
      BY <1>5 DEF ClaimError, Steady
    <2>2. QED
      BY <1>1, <1>2, <1>3, <2>1, QuietWorkerRefines
  <1>6. QED
    BY <1>4, <1>5

LEMMA LapseRefines ==
  ASSUME HeavyInv, NEW w \in Slot, Lapse(w)
  PROVE  [Contract!Next]_Contract!vars
  <1>1. /\ UNCHANGED <<status, lockedBy, fresh, proc, boot, pc, cur>> /\ cur[w] \in Job
        /\ lapse \in [Slot -> {"no", "overrun", "stalled"}]
    BY DEF Lapse, rows, process, HeavyInv, LeaseInv, Frame, TypeOK, WorkersTyped
  <1>2. ~Steady(w)' /\ \A v \in Slot \ {w} : Steady(v)' <=> Steady(v)
    BY <1>1 DEF Lapse, Steady
  <1>3. QED
    BY <1>1, <1>2, DropGrant

\* Only the owner of the row reports on the job.
LEMMA ReportRefines ==
  ASSUME HeavyInv, NEW w \in Slot, Succeed(w) \/ Fail(w) \/ FailSubject(w)
  PROVE  [Contract!Next]_Contract!vars
  <1>1. /\ pc \in [Slot -> PC] /\ pc[w] \in {"executing", "failing"} /\ UNCHANGED <<proc, boot>>
        /\ RowsTyped
    BY DEF Succeed, Fail, FailSubject, process, HeavyInv, LeaseInv, Frame, TypeOK, WorkersTyped
  <1>2. PICK j \in Job : j = cur[w]
    BY <1>1 DEF HeavyInv, LeaseInv, Frame, TypeOK, WorkersTyped
  <1>3. ~Steady(w)' /\ \A v \in Slot \ {w} : (Steady(v)' <=> Steady(v)) /\ cur'[v] = cur[v]
    <2>1. CASE Leave(w)
      BY <2>1, BackToLoopWorkers DEF Leave, WorkerKept, Steady
    <2>2. CASE ~Leave(w)
      BY <1>1, <2>2 DEF Succeed, Fail, FailSubject, Steady
    <2>3. QED
      BY <2>1, <2>2
  <1>4. CASE FailSubject(w) \/ ~OwnsLease(w)
    <2>1. UNCHANGED <<status, lockedBy, fresh>>
      BY <1>4 DEF Succeed, Fail, FailSubject, rows
    <2>2. OwnsLease(w) => ~Steady(w)
      BY <1>4 DEF FailSubject, Steady
    <2>3. ASSUME NEW i \in Job PROVE Grants(i)' <=> Grants(i)
      BY <1>1, <1>3, <2>1, <2>2 DEF Grants, OwnsLease, Me, Live
    <2>4. QED
      BY <1>1, <2>1, <2>3, RowPhase, Stutter
  <1>5. CASE (Succeed(w) \/ Fail(w)) /\ OwnsLease(w)
    <2>1. status[j] = "running" /\ status'[j] \in {"queued", "succeeded", "failed"}
      BY <1>1, <1>2, <1>5 DEF Succeed, Fail, OwnsLease, RowsTyped
    <2>2. PhaseOf(j) \in {"granted", "doubtful"}
      BY <2>1 DEF PhaseOf
    <2>3. PhaseOf(j)' \in {"settled", "waiting"}
      BY <2>1 DEF PhaseOf
    <2>4. ASSUME NEW i \in Job \ {j} PROVE PhaseKept(i)
      <3>1. RowKept(i)
        BY <1>1, <1>2, <1>5, UnleasedRows DEF Succeed, Fail, RowKept, RowsTyped
      <3>2. Grants(i)' <=> Grants(i)
        BY <1>1, <1>2, <1>3, <3>1 DEF Grants, OwnsLease, Me, Live, RowKept
      <3>3. QED
        BY <3>1, <3>2, RowPhase DEF RowKept
    <2>5. \E p \in {"settled", "waiting"} : Contract!Becomes({j}, p)
      BY <2>3, <2>4, PhasesBecome
    <2>6. Contract!Report(j)
      BY <1>1, <2>2, <2>5 DEF Contract!Report
    <2>7. QED
      BY <2>6 DEF Contract!Next
  <1>6. QED
    BY <1>4, <1>5
LEMMA CloseRefines ==
  ASSUME Close
  PROVE  [Contract!Next]_Contract!vars
  <1>1. /\ proc = "up" /\ proc' = "stopping"
        /\ UNCHANGED <<status, lockedBy, fresh, boot, workers>>
    BY DEF Close, rows
  <1>2. \A i \in Job : PhaseKept(i)
    BY <1>1, KeptPhase DEF RowKept
  <1>3. UNCHANGED [j \in Job |-> PhaseOf(j)]
    BY <1>2 DEF PhaseKept
  <1>4. Contract!Stop
    BY <1>1, <1>3 DEF Contract!Stop
  <1>5. QED
    BY <1>4 DEF Contract!Next

\* What the map holds and still runs is handed back.
LEMMA ReleaseRefines ==
  ASSUME HeavyInv, Release
  PROVE  [Contract!Next]_Contract!vars
  <1> DEFINE held == {j \in inFlight : status[j] = "running"}
  <1>1. /\ status' = [j \in Job |-> IF j \in held THEN "queued" ELSE status[j]]
        /\ Unleased(held) /\ UNCHANGED <<boot, workers>>
        /\ proc = "stopping" /\ proc' = "ended"
    BY DEF Release
  <1>2. held \subseteq Job /\ \A i \in held : PhaseOf(i) \in {"granted", "doubtful"}
    BY DEF PhaseOf, HeavyInv, LeaseInv, Frame, TypeOK, ProcessTyped
  <1> HIDE DEF held
  <1>3. \A i \in held : PhaseOf(i)' = "waiting"
    BY <1>1, <1>2 DEF PhaseOf
  <1>4. \A i \in Job \ held : RowKept(i)
    BY <1>1, UnleasedRows DEF RowKept
  <1>5. Contract!Becomes(held, "waiting")
    BY <1>1, <1>3, <1>4, KeptPhase, PhasesBecome
  <1>6. held \in SUBSET {j \in Job : PhaseOf(j) \in {"granted", "doubtful"}}
    BY <1>2
  <1>7. Contract!HandBack
    BY <1>1, <1>5, <1>6 DEF Contract!HandBack
  <1>8. QED
    BY <1>7 DEF Contract!Next

\* The process is gone, and every grant with it.
LEMMA DieRefines ==
  ASSUME HeavyInv, Exit \/ Crash
  PROVE  [Contract!Next]_Contract!vars
  <1>1. UNCHANGED <<status, lockedBy, fresh, boot>> /\ proc' = "down" /\ BackToLoop(Slot)
    BY DEF Exit, Crash, ProcessLost, rows
  <1>2. \A v \in Slot : ~Steady(v)'
    BY <1>1, BackToLoopWorkers DEF Steady
  <1>3. \A i \in Job : ~Grants(i)'
    BY <1>2 DEF Grants
  <1>4. ASSUME NEW i \in Job, Grants(i) PROVE PhaseOf(i)' = "doubtful"
    <2>1. status'[i] = "running"
      BY <1>1, <1>4 DEF Grants, Live
    <2>2. QED
      BY <1>3, <2>1 DEF PhaseOf
  <1>5. ASSUME NEW i \in Job, ~Grants(i) PROVE PhaseKept(i)
    BY <1>1, <1>3, <1>5, RowPhase
  <1>6. Contract!Becomes(Contract!Granted, "doubtful")
    BY <1>4, <1>5, GrantedJobs, PhasesBecome
  <1>7. Contract!Die
    BY <1>1, <1>6 DEF Contract!Die
  <1>8. QED
    BY <1>7 DEF Contract!Next

LEMMA BootRefines ==
  ASSUME HeavyInv, Boot
  PROVE  [Contract!Next]_Contract!vars
  <1>1. /\ proc = "down" /\ proc' = "up"
        /\ UNCHANGED <<status, lockedBy, fresh, workers>>
    BY DEF Boot, rows
  <1>2. \A v \in Slot : ~Steady(v) /\ ~Steady(v)'
    BY <1>1 DEF HeavyInv, LeaseInv, Frame, DownIsIdle, Steady, workers
  <1>3. \A i \in Job : PhaseKept(i)
    BY <1>1, <1>2, RowPhase DEF Grants
  <1>4. UNCHANGED [j \in Job |-> PhaseOf(j)]
    BY <1>3 DEF PhaseKept
  <1>5. Contract!Start
    BY <1>1, <1>4 DEF Contract!Start
  <1>6. QED
    BY <1>5 DEF Contract!Next

LEMMA ContractInit == Init => Contract!Init
  BY DEF Init, Contract!Init, PhaseOf

LEMMA ContractStep ==
  ASSUME ContractInv, [Next]_vars
  PROVE  [Contract!Next]_Contract!vars
  <1> USE DEF ContractInv
  <1>1. CASE UNCHANGED vars
    <2>1. UNCHANGED <<status, lockedBy, fresh, proc, boot, workers>>
      BY <1>1 DEF vars, rows, process
    <2>2. QED
      BY <2>1, KeptPhase, Stutter DEF RowKept
  <1>2. ASSUME NEW j \in Job,
               \/ Client(j) \/ BecomeDue(j) \/ Expire(j)
               \/ PruneJobs(j) \/ ReviveDelete(j) \/ ExpireRender(j)
        PROVE  [Contract!Next]_Contract!vars
    BY <1>2, PostRefines, ForgetRefines, TimeRefines DEF Client
  <1>3. ASSUME NEW w \in Slot, Claim(w) \/ ClaimError(w)
        PROVE  [Contract!Next]_Contract!vars
    BY <1>3, ClaimRefines, CommitRefines, ClaimErrorRefines DEF Claim
  <1>4. ASSUME NEW w \in Slot,
               \/ Finish(w) \/ PruneVersions(w) \/ DeleteProjectRow(w)
               \/ Lapse(w) \/ Renew(w)
        PROVE  [Contract!Next]_Contract!vars
    BY <1>4, ReportRefines, PruneVersionsRefines, EraseRefines, LapseRefines, RenewRefines
       DEF Finish
  <1>5. CASE SweepLeases \/ Close \/ Release \/ Exit \/ Crash \/ Boot
    BY <1>5, SweepRefines, CloseRefines, ReleaseRefines, DieRefines, BootRefines
  <1>6. QED
    BY <1>1, <1>2, <1>3, <1>4, <1>5 DEF Next

\* The executor keeps the contract of the job table, for any jobs, projects and
\* slots and any allowance: a grant excludes every other on its project and stays
\* within the allowance, no granted job is put back while the service is up, and
\* only a job that is held is reported on (lib/job-claim.ts 76-172, executor.ts 232-330).
THEOREM ContractImplemented == Spec => ImplementsContract
  <1>1. ContractInv /\ [Next]_vars => ContractInv'
    BY ContractInvStep
  <1>2. Spec => []ContractInv
    BY <1>1, ContractInvInit, PTL DEF Spec
  <1>3. ContractInv /\ [Next]_vars => [Contract!Next]_Contract!vars
    BY ContractStep
  <1>4. QED
    BY <1>2, <1>3, ContractInit, PTL DEF Spec, ImplementsContract, Contract!Spec
=============================================================================
