------------------------------ MODULE JobQueue ------------------------------
(***************************************************************************)
(* The jobs table and the executor that works it off: lib/job-claim.ts,    *)
(* the worker loop, lease renewal and shutdown of executor.ts, and the     *)
(* enqueue helpers of lib/projects.ts and gateway.ts.                      *)
(*                                                                         *)
(* A job is named by its idempotency key.  Time is abstracted: a lease is  *)
(* fresh or not, a job's run_after has come or not, and the actions Expire *)
(* and BecomeDue let it pass.  The lease columns mean something in a       *)
(* running row only, and run_after in a queued one: no statement reads     *)
(* them elsewhere, so they are kept at Nobody and FALSE there, and so are  *)
(* a worker's local variables outside its calls.                           *)
(*                                                                         *)
(* One executor process runs at a time, with one worker per slot;          *)
(* everything else that writes the table (control plane, gateway,          *)
(* housekeeping) is a client whose statement is one step.                  *)
(***************************************************************************)
EXTENDS Naturals, FiniteSets

CONSTANTS
    Job,            \* idempotency keys
    Project,
    ProjectOf,      \* [Job -> Project], jobs.project_id
    KindOf,         \* [Job -> JobKind], jobs.kind
    Slot,           \* worker slots, EXECUTOR_CONCURRENCY of them
    HeavyLimit,     \* EXECUTOR_HEAVY_CONCURRENCY
    NoJob,
    Nobody,
    MaxRequests,    \* bound: how often clients enqueue, revive or purge
    MaxTroubles     \* bound: stops, crashes, lapsed renewals and failed claims

JobKind ==
    {"provision_project", "build_version", "deploy_version", "start_runtime",
     "stop_runtime", "delete_project", "measure_usage", "render_version",
     "export_database", "probe_version", "review_site", "capture_showcase"}

HeavyKinds ==
    {"build_version", "render_version", "export_database", "review_site",
     "capture_showcase"}

\* Kinds that are failed on their first error (executor.ts, execute).
SingleTryKinds ==
    {"build_version", "deploy_version", "render_version", "export_database",
     "probe_version"}

\* A failing job is queued again while it had been claimed fewer times than
\* this before the claim that failed.
RetryLimit == 2

\* Kinds some client enqueues with a run_after in the future.
DelayedKinds == {"delete_project", "review_site", "capture_showcase"}

\* The states a finished job of a kind can be revived from, by
\* enqueueRerunnable and the gateway's enqueueRuntimeStart.
RerunFrom(kind) ==
    CASE kind = "render_version" -> {"failed"}
      [] kind \in {"provision_project", "start_runtime", "stop_runtime",
                   "export_database", "review_site", "capture_showcase",
                   "delete_project"} -> {"succeeded", "failed"}
      [] OTHER -> {}

\* Kinds whose succeeded rows housekeeping deletes after three days.
PrunedKinds ==
    {"measure_usage", "start_runtime", "stop_runtime", "provision_project",
     "review_site"}

\* Kinds whose rows belong to a version and go with it.
VersionKinds ==
    {"build_version", "deploy_version", "start_runtime", "stop_runtime",
     "render_version", "probe_version", "review_site", "capture_showcase"}

ASSUME QueueAssumption ==
    /\ IsFiniteSet(Job)
    /\ ProjectOf \in [Job -> Project]
    /\ KindOf \in [Job -> JobKind]
    /\ HeavyLimit \in Nat \ {0}
    /\ NoJob \notin Job
    /\ Nobody \notin Slot
    /\ Nobody \notin Slot \X Nat
    /\ MaxRequests \in Nat /\ MaxTroubles \in Nat

VARIABLES
    \* the jobs table
    status,     \* [Job -> Status]; "absent": no row has the key
    lockedBy,   \* [Job -> owner], locked_by of a running row
    fresh,      \* [Job -> BOOLEAN], a running row's locked_at > now() - lease
    due,        \* [Job -> BOOLEAN], a queued row's run_after <= now()
    attempts,   \* [Job -> Nat]
    older,      \* {<<i, j>>}: i's created_at is before j's
    gone,       \* projects whose row has been deleted
    claimLock,  \* the slot whose transaction holds the advisory lock
    \* the executor process
    proc,       \* "up", "stopping" (draining), "ended" (pools ending), "down"
    boot,       \* process starts so far: the bootNonce
    inFlight,   \* keys of the inFlight map
    pc,         \* [Slot -> where the worker is]
    cur,        \* [Slot -> the job it holds]
    seen,       \* [Slot -> job.attempts as the claim read it]
    slotFree,   \* [Slot -> heavySlotFree of the claim under way]
    lapse,      \* [Slot -> whether the lease is still being renewed]
    \* history and bounds
    fails,      \* [Job -> failures recorded since the row was last reset]
    lost,      \* [Job -> leases lost since the row was last reset]
    requests,   \* spent of MaxRequests
    troubles    \* spent of MaxTroubles

rows == <<status, lockedBy, fresh, due, attempts, older, gone, fails, lost>>
workers == <<pc, cur, seen, slotFree, lapse>>
process == <<proc, boot, inFlight>>
vars == <<rows, claimLock, process, workers, requests, troubles>>

Status == {"absent", "queued", "running", "succeeded", "failed"}

PC == {"idle", "claiming", "locked", "counted", "selected", "claimed", "executing",
       "failing"}

-----------------------------------------------------------------------------
(* Reading the table.                                                      *)

Heavy == {j \in Job : KindOf[j] \in HeavyKinds}

\* Mutant: a worker is its slot, whatever process it belongs to.
MeBySlot(w) == w

Me(w) == <<w, boot>>

Live(j) == status[j] = "running" /\ fresh[j]

HeavyRunning == {j \in Heavy : Live(j)}

\* Mutant: a job waits for its own row only.
ProjectFreeOwnJob(j) == ~Live(j)

\* The per-project NOT EXISTS of CLAIM_SELECT_SQL.
ProjectFree(j) == \A r \in Job : ProjectOf[r] = ProjectOf[j] => ~Live(r)

\* A claim has selected the row FOR UPDATE and has not committed: other claims
\* skip it, other statements wait for it.
RowLocked(j) == \E w \in Slot : pc[w] = "selected" /\ cur[w] = j

Claimable(j, heavyFree) ==
    /\ status[j] = "queued" /\ ~RowLocked(j)
    /\ due[j]
    /\ heavyFree \/ j \notin Heavy
    /\ ProjectFree(j)

Oldest(S) == {j \in S : \A i \in S : <<i, j>> \notin older}

\* Mutant: the terminal updates test the status only.
OwnsLeaseByStatus(w) == status[cur[w]] = "running"

\* WHERE id = $1 AND status = 'running' AND locked_by = $2
OwnsLease(w) == status[cur[w]] = "running" /\ lockedBy[cur[w]] = Me(w)

\* A worker whose handler runs and whose renewals have not lapsed.
Steady(w) == pc[w] \in {"claimed", "executing"} /\ lapse[w] = "no"

\* The pools are open: handlers and housekeeping reach the database.
Serving == proc \in {"up", "stopping"}

\* The bounded supply of things that go wrong.
Trouble ==
    /\ troubles < MaxTroubles
    /\ troubles' = troubles + 1

-----------------------------------------------------------------------------
(* Clients of the table.                                                   *)

\* The lease columns of rows that stop running.
Unleased(S) ==
    /\ lockedBy' = [j \in Job |-> IF j \in S THEN Nobody ELSE lockedBy[j]]
    /\ fresh' = [j \in Job |-> IF j \in S THEN FALSE ELSE fresh[j]]

\* The reset both kinds of enqueue apply to the row they queue.
Requeued(j, isDue) ==
    /\ status' = [status EXCEPT ![j] = "queued"]
    /\ due' = [due EXCEPT ![j] = isDue]
    /\ attempts' = [attempts EXCEPT ![j] = 0]
    /\ Unleased({j})
    /\ fails' = [fails EXCEPT ![j] = 0]
    /\ lost' = [lost EXCEPT ![j] = 0]

\* INSERT INTO jobs: no row has the key yet.  A row of a deleted project is
\* refused by the foreign key.
Enqueue(j) ==
    /\ status[j] = "absent"
    /\ ProjectOf[j] \notin gone
    /\ requests < MaxRequests
    /\ \E isDue \in BOOLEAN :
        /\ isDue \/ KindOf[j] \in DelayedKinds
        /\ Requeued(j, isDue)
    /\ older' = older \cup {<<i, j>> : i \in {k \in Job : status[k] # "absent"}}
    /\ requests' = requests + 1
    /\ UNCHANGED <<gone, claimLock, process, workers, troubles>>

\* ON CONFLICT DO UPDATE: a finished row is reset and keeps its created_at; a
\* queued or running one is left alone.
EnqueueRerunnable(j) ==
    /\ status[j] \in RerunFrom(KindOf[j])
    /\ requests < MaxRequests
    /\ Requeued(j, TRUE)
    /\ requests' = requests + 1
    /\ UNCHANGED <<older, gone, claimLock, process, workers, troubles>>

\* Purge now: the same reset, which also takes a queued deletion out of its
\* week of waiting.
RunPurgeNow(j) ==
    /\ KindOf[j] = "delete_project"
    /\ status[j] = "queued" /\ ~RowLocked(j)
    /\ requests < MaxRequests
    /\ Requeued(j, TRUE)
    /\ requests' = requests + 1
    /\ UNCHANGED <<older, gone, claimLock, process, workers, troubles>>

\* The rows in S leave the table.
Removed(S) ==
    /\ status' = [j \in Job |-> IF j \in S THEN "absent" ELSE status[j]]
    /\ Unleased(S)
    /\ due' = [j \in Job |-> IF j \in S THEN FALSE ELSE due[j]]
    /\ attempts' = [j \in Job |-> IF j \in S THEN 0 ELSE attempts[j]]
    /\ fails' = [j \in Job |-> IF j \in S THEN 0 ELSE fails[j]]
    /\ lost' = [j \in Job |-> IF j \in S THEN 0 ELSE lost[j]]
    /\ older' = {p \in older : p[1] \notin S /\ p[2] \notin S}

\* Restoring a project withdraws its deletion, unless that is running.
WithdrawDelete(j) ==
    /\ KindOf[j] = "delete_project"
    /\ status[j] = "queued" /\ ~RowLocked(j)
    /\ Removed({j})
    /\ UNCHANGED <<gone, claimLock, process, workers, requests, troubles>>

BecomeDue(j) ==
    /\ status[j] = "queued" /\ ~due[j]
    /\ due' = [due EXCEPT ![j] = TRUE]
    /\ UNCHANGED <<status, lockedBy, fresh, attempts, older, gone, fails, lost,
                   claimLock, process, workers, requests, troubles>>

-----------------------------------------------------------------------------
(* Housekeeping.                                                           *)

\* Mutant: a process reclaims the leases of its own workers only.
StaleOwn(j) == status[j] = "running" /\ ~fresh[j] /\ lockedBy[j][2] = boot

\* Mutant: every running row is taken for orphaned.
StaleAny(j) == status[j] = "running"

Stale(j) == status[j] = "running" /\ ~fresh[j]

\* The statement reclaims every stale lease at once.
SweepLeases ==
    LET stale == {j \in Job : Stale(j)}
    IN  /\ Serving
        /\ stale # {}
        /\ status' = [j \in Job |-> IF j \in stale THEN "queued" ELSE status[j]]
        /\ due' = [j \in Job |-> IF j \in stale THEN TRUE ELSE due[j]]
        /\ Unleased(stale)
        /\ lost' = [j \in Job |-> IF j \in stale THEN lost[j] + 1 ELSE lost[j]]
        /\ UNCHANGED <<attempts, older, gone, fails, claimLock, process,
                       workers, requests, troubles>>

PruneJobs(j) ==
    /\ Serving
    /\ status[j] = "succeeded" /\ KindOf[j] \in PrunedKinds
    /\ Removed({j})
    /\ UNCHANGED <<gone, claimLock, process, workers, requests, troubles>>

\* A deletion that failed half-way is tried again ten minutes later.
ReviveDelete(j) ==
    /\ Serving
    /\ KindOf[j] = "delete_project" /\ status[j] = "failed"
    /\ requests < MaxRequests
    /\ Requeued(j, FALSE)
    /\ requests' = requests + 1
    /\ UNCHANGED <<older, gone, claimLock, process, workers, troubles>>

\* A finished render whose screenshot is a day old is failed, so that it can be
\* asked for again.
ExpireRender(j) ==
    /\ Serving
    /\ KindOf[j] = "render_version" /\ status[j] = "succeeded"
    /\ status' = [status EXCEPT ![j] = "failed"]
    /\ lost' = [lost EXCEPT ![j] = @ + 1]
    /\ UNCHANGED <<lockedBy, fresh, due, attempts, older, gone, fails, claimLock,
                   process, workers, requests, troubles>>

-----------------------------------------------------------------------------
(* A worker claims a job.                                                  *)

\* The worker is back in its loop, with the locals of the call gone.
BackToLoop(S) ==
    /\ pc' = [w \in Slot |-> IF w \in S THEN "idle" ELSE pc[w]]
    /\ cur' = [w \in Slot |-> IF w \in S THEN NoJob ELSE cur[w]]
    /\ seen' = [w \in Slot |-> IF w \in S THEN 0 ELSE seen[w]]
    /\ slotFree' = [w \in Slot |-> IF w \in S THEN FALSE ELSE slotFree[w]]
    /\ lapse' = [w \in Slot |-> IF w \in S THEN "no" ELSE lapse[w]]

\* The loop's test of `stopped`, which is not repeated before the commit.
StartClaim(w) ==
    /\ proc = "up"
    /\ pc[w] = "idle"
    /\ pc' = [pc EXCEPT ![w] = "claiming"]
    /\ UNCHANGED <<rows, claimLock, process, cur, seen, slotFree, lapse, requests, troubles>>

\* Mutant: the claim goes on whether or not it got the advisory lock.
TryLockIgnored(w) ==
    /\ proc # "down"
    /\ pc[w] = "claiming"
    /\ pc' = [pc EXCEPT ![w] = "locked"]
    /\ claimLock' = IF claimLock = Nobody THEN w ELSE claimLock
    /\ UNCHANGED <<rows, process, cur, seen, slotFree, lapse, requests, troubles>>

\* pg_try_advisory_xact_lock: taken, or the transaction is rolled back and the
\* worker sleeps.
TryLock(w) ==
    /\ proc # "down"
    /\ pc[w] = "claiming"
    /\ \/ /\ claimLock = Nobody
          /\ claimLock' = w
          /\ pc' = [pc EXCEPT ![w] = "locked"]
       \/ /\ claimLock # Nobody
          /\ pc' = [pc EXCEPT ![w] = "idle"]
          /\ UNCHANGED claimLock
    /\ UNCHANGED <<rows, process, cur, seen, slotFree, lapse, requests, troubles>>

CountHeavy(w) ==
    /\ pc[w] = "locked"
    /\ slotFree' = [slotFree EXCEPT ![w] = Cardinality(HeavyRunning) < HeavyLimit]
    /\ pc' = [pc EXCEPT ![w] = "counted"]
    /\ UNCHANGED <<rows, claimLock, process, cur, seen, lapse, requests, troubles>>

\* CLAIM_SELECT_SQL, on a snapshot that shows committed claims only.
Select(w) ==
    LET claimable == {j \in Job : Claimable(j, slotFree[w])}
    IN  /\ pc[w] = "counted"
        /\ \/ /\ claimable = {}
              /\ BackToLoop({w})
              /\ claimLock' = IF claimLock = w THEN Nobody ELSE claimLock
           \/ \E j \in Oldest(claimable) :
              /\ cur' = [cur EXCEPT ![w] = j]
              /\ pc' = [pc EXCEPT ![w] = "selected"]
              /\ UNCHANGED <<claimLock, seen, slotFree, lapse>>
        /\ UNCHANGED <<rows, process, requests, troubles>>

\* CLAIM_UPDATE_SQL and COMMIT, which ends the advisory lock.
CommitClaim(w) ==
    LET j == cur[w]
    IN  /\ pc[w] = "selected"
        /\ status' = [status EXCEPT ![j] = "running"]
        /\ lockedBy' = [lockedBy EXCEPT ![j] = Me(w)]
        /\ fresh' = [fresh EXCEPT ![j] = TRUE]
        /\ due' = [due EXCEPT ![j] = FALSE]
        /\ attempts' = [attempts EXCEPT ![j] = @ + 1]
        /\ seen' = [seen EXCEPT ![w] = attempts[j]]
        /\ slotFree' = [slotFree EXCEPT ![w] = FALSE]
        /\ pc' = [pc EXCEPT ![w] = "claimed"]
        /\ claimLock' = IF claimLock = w THEN Nobody ELSE claimLock
        /\ UNCHANGED <<older, gone, fails, lost, cur, lapse, process, requests, troubles>>

\* The reply to COMMIT arrives: the job enters the map, its handler starts.
Register(w) ==
    /\ pc[w] = "claimed"
    /\ inFlight' = inFlight \cup {cur[w]}
    /\ pc' = [pc EXCEPT ![w] = "executing"]
    /\ UNCHANGED <<rows, claimLock, proc, boot, cur, seen, slotFree, lapse, requests, troubles>>

\* A statement of the claim fails, or the reply to its COMMIT is lost: the
\* worker goes on without a job, whatever the database did.
ClaimError(w) ==
    /\ pc[w] \in {"locked", "counted", "selected", "claimed"}
    /\ Trouble
    /\ claimLock' = IF claimLock = w THEN Nobody ELSE claimLock
    /\ BackToLoop({w})
    /\ UNCHANGED <<rows, process, requests>>

-----------------------------------------------------------------------------
(* A worker executes a job.  After "ended" every query of a handler is      *)
(* refused by the ending pool, so only the claim steps above go on.         *)

\* The `finally` of execute: the map's entry goes, whoever put it there.
Leave(w) ==
    /\ BackToLoop({w})
    /\ inFlight' = inFlight \ {cur[w]}

\* The handler returns: TERMINAL_SUCCESS_SQL, or reportLostTerminal.
Succeed(w) ==
    /\ Serving /\ pc[w] = "executing"
    /\ \/ /\ OwnsLease(w)
          /\ status' = [status EXCEPT ![cur[w]] = "succeeded"]
          /\ Unleased({cur[w]})
       \/ /\ ~OwnsLease(w)
          /\ UNCHANGED <<status, lockedBy, fresh>>
    /\ Leave(w)
    /\ UNCHANGED <<due, attempts, older, gone, fails, lost,
                   claimLock, proc, boot, requests, troubles>>

Retries(w) == seen[w] < RetryLimit /\ KindOf[cur[w]] \notin SingleTryKinds

\* The handler throws: TERMINAL_FAILURE_SQL by the owner, after which
\* failSubject runs; anybody else stops here.
Fail(w) ==
    /\ Serving /\ pc[w] = "executing"
    /\ \/ /\ OwnsLease(w)
          /\ status' = [status EXCEPT ![cur[w]] = IF Retries(w) THEN "queued" ELSE "failed"]
          /\ Unleased({cur[w]})
          /\ fails' = [fails EXCEPT ![cur[w]] = @ + 1]
          /\ pc' = [pc EXCEPT ![w] = "failing"]
          /\ UNCHANGED <<cur, seen, slotFree, lapse, inFlight>>
       \/ /\ ~OwnsLease(w)
          /\ Leave(w)
          /\ UNCHANGED <<status, lockedBy, fresh, fails>>
    /\ UNCHANGED <<due, attempts, older, gone, lost, claimLock, proc, boot,
                   requests, troubles>>

\* failSubject is over; what it does to the job's subject is not in this module.
FailSubject(w) ==
    /\ Serving /\ pc[w] = "failing"
    /\ Leave(w)
    /\ UNCHANGED <<rows, claimLock, proc, boot, requests, troubles>>

\* A build prunes the project's old versions: those with no job queued or
\* running, whose finished jobs go with them.
PruneVersions(w) ==
    LET old == {j \in Job : /\ ProjectOf[j] = ProjectOf[cur[w]]
                            /\ KindOf[j] \in VersionKinds
                            /\ status[j] \in {"succeeded", "failed"}}
    IN  /\ Serving /\ pc[w] = "executing"
        /\ KindOf[cur[w]] = "build_version"
        /\ \E S \in SUBSET old \ {{}} : Removed(S)
        /\ UNCHANGED <<gone, claimLock, process, workers, requests, troubles>>

\* delete_project's DELETE FROM projects, which cascades to the project's jobs,
\* the one that is running included.
DeleteProjectRow(w) ==
    /\ Serving /\ pc[w] = "executing"
    /\ KindOf[cur[w]] = "delete_project"
    /\ ProjectOf[cur[w]] \notin gone
    /\ \A j \in Job : RowLocked(j) => ProjectOf[j] # ProjectOf[cur[w]]
    /\ Removed({j \in Job : ProjectOf[j] = ProjectOf[cur[w]]})
    /\ gone' = gone \cup {ProjectOf[cur[w]]}
    /\ UNCHANGED <<claimLock, process, workers, requests, troubles>>

-----------------------------------------------------------------------------
(* Leases.                                                                 *)

\* Renewals stop reaching the row: for good past MAX_JOB_SECONDS ("overrun"),
\* or while the database or the event loop is stuck ("stalled").
Lapse(w) ==
    /\ Serving /\ pc[w] = "executing" /\ lapse[w] = "no"
    /\ Trouble
    /\ \E l \in {"overrun", "stalled"} : lapse' = [lapse EXCEPT ![w] = l]
    /\ UNCHANGED <<rows, claimLock, process, pc, cur, seen, slotFree, requests>>

\* RENEW_LEASE_SQL: late renewals count, as long as nobody lost the row.
Renew(w) ==
    /\ Serving /\ pc[w] = "executing" /\ lapse[w] # "overrun"
    /\ OwnsLease(w)
    /\ fresh' = [fresh EXCEPT ![cur[w]] = TRUE]
    /\ UNCHANGED <<status, lockedBy, due, attempts, older, gone, fails, lost,
                   claimLock, process, workers, requests, troubles>>

\* A lease nobody keeps alive runs out.
Expire(j) ==
    /\ Live(j)
    /\ \A w \in Slot : ~(Steady(w) /\ cur[w] = j)
    /\ fresh' = [fresh EXCEPT ![j] = FALSE]
    /\ UNCHANGED <<status, lockedBy, due, attempts, older, gone, fails, lost,
                   claimLock, process, workers, requests, troubles>>

-----------------------------------------------------------------------------
(* Start and stop.                                                         *)

\* SIGTERM: close() sets `stopped`.
Close ==
    /\ proc = "up"
    /\ Trouble
    /\ proc' = "stopping"
    /\ UNCHANGED <<rows, claimLock, boot, inFlight, workers, requests>>

\* Mutant: a released job keeps the attempt its claim counted.
RefundNothing(n) == n

\* GREATEST(attempts - 1, 0)
Refund(n) == IF n > 0 THEN n - 1 ELSE 0

\* Nothing in flight, or the grace period is over: RELEASE_LEASES_SQL for what
\* the map holds, then the pools end.
Release ==
    LET held == {j \in inFlight : status[j] = "running"}
    IN  /\ proc = "stopping"
        /\ proc' = "ended"
        /\ status' = [j \in Job |-> IF j \in held THEN "queued" ELSE status[j]]
        /\ due' = [j \in Job |-> IF j \in held THEN TRUE ELSE due[j]]
        /\ Unleased(held)
        /\ attempts' = [j \in Job |-> IF j \in held THEN Refund(attempts[j]) ELSE attempts[j]]
        /\ UNCHANGED <<older, gone, fails, lost, claimLock, boot, inFlight,
                       workers, requests, troubles>>

ProcessLost ==
    /\ proc' = "down"
    /\ claimLock' = Nobody
    /\ inFlight' = {}
    /\ BackToLoop(Slot)
    /\ UNCHANGED <<rows, boot, requests>>

\* pool.end() has waited for the clients that are checked out.
Exit ==
    /\ proc = "ended"
    /\ \A w \in Slot : pc[w] \notin {"locked", "counted", "selected", "claimed"}
    /\ ProcessLost
    /\ UNCHANGED troubles

\* The process dies: killed, or by an error execute() does not catch.
Crash ==
    /\ Serving
    /\ Trouble
    /\ ProcessLost

\* restart: unless-stopped
Boot ==
    /\ proc = "down"
    /\ proc' = "up"
    /\ boot' = boot + 1
    /\ UNCHANGED <<rows, claimLock, inFlight, workers, requests, troubles>>

-----------------------------------------------------------------------------
Init ==
    /\ status = [j \in Job |-> "absent"]
    /\ lockedBy = [j \in Job |-> Nobody]
    /\ fresh = [j \in Job |-> FALSE]
    /\ due = [j \in Job |-> FALSE]
    /\ attempts = [j \in Job |-> 0]
    /\ older = {}
    /\ gone = {}
    /\ claimLock = Nobody
    /\ proc = "up"
    /\ boot = 0
    /\ inFlight = {}
    /\ pc = [w \in Slot |-> "idle"]
    /\ cur = [w \in Slot |-> NoJob]
    /\ seen = [w \in Slot |-> 0]
    /\ slotFree = [w \in Slot |-> FALSE]
    /\ lapse = [w \in Slot |-> "no"]
    /\ fails = [j \in Job |-> 0]
    /\ lost = [j \in Job |-> 0]
    /\ requests = 0
    /\ troubles = 0

Claim(w) ==
    \/ StartClaim(w) \/ TryLock(w) \/ CountHeavy(w)
    \/ Select(w) \/ CommitClaim(w) \/ Register(w)

Finish(w) == Succeed(w) \/ Fail(w) \/ FailSubject(w)

Client(j) ==
    Enqueue(j) \/ EnqueueRerunnable(j) \/ RunPurgeNow(j) \/ WithdrawDelete(j)

Next ==
    \/ \E j \in Job :
        Client(j) \/ BecomeDue(j) \/ Expire(j) \/ PruneJobs(j) \/ ReviveDelete(j)
        \/ ExpireRender(j)
    \/ \E w \in Slot :
        \/ Claim(w) \/ ClaimError(w) \/ Finish(w)
        \/ PruneVersions(w) \/ DeleteProjectRow(w) \/ Lapse(w) \/ Renew(w)
    \/ SweepLeases \/ Close \/ Release \/ Exit \/ Crash \/ Boot

Spec == Init /\ [][Next]_vars

\* Time passes, worker loops and timers go on, handlers end (their calls carry
\* timeouts), and the container is started again.  Clients, failures and stops
\* are not owed.
Fairness ==
    /\ \A j \in Job : WF_vars(BecomeDue(j)) /\ WF_vars(Expire(j))
    /\ \A w \in Slot : WF_vars(Claim(w)) /\ WF_vars(Finish(w))
    /\ WF_vars(SweepLeases) /\ WF_vars(Release) /\ WF_vars(Exit) /\ WF_vars(Boot)

FairSpec == Spec /\ Fairness

-----------------------------------------------------------------------------
(* Properties.                                                             *)

RowsTyped ==
    /\ status \in [Job -> Status]
    /\ lockedBy \in [Job -> (Slot \X Nat) \cup {Nobody}]
    /\ fresh \in [Job -> BOOLEAN]
    /\ due \in [Job -> BOOLEAN]
    /\ attempts \in [Job -> Nat]
    /\ older \in SUBSET (Job \X Job)
    /\ gone \in SUBSET Project
    /\ fails \in [Job -> Nat]
    /\ lost \in [Job -> Nat]

ProcessTyped ==
    /\ claimLock \in Slot \cup {Nobody}
    /\ proc \in {"up", "stopping", "ended", "down"}
    /\ boot \in Nat
    /\ inFlight \in SUBSET Job
    /\ requests \in Nat
    /\ troubles \in Nat

WorkersTyped ==
    /\ pc \in [Slot -> PC]
    /\ cur \in [Slot -> Job \cup {NoJob}]
    /\ \A w \in Slot :
        pc[w] \in {"selected", "claimed", "executing", "failing"} => cur[w] \in Job
    /\ seen \in [Slot -> Nat]
    /\ slotFree \in [Slot -> BOOLEAN]
    /\ lapse \in [Slot -> {"no", "overrun", "stalled"}]

\* Every variable holds what the columns, maps and locals it stands for can
\* hold, and a worker past its selection has a job.
TypeOK == RowsTyped /\ ProcessTyped /\ WorkersTyped

\* A worker whose renewals have not lapsed works under a row that is running,
\* its own and not reclaimable, unless a deletion took the row away: what the
\* worker believes in memory and what the table says agree, over sweeps, late
\* reports of other workers, withdrawn and revived jobs and restarts
\* (executor.ts 267-283, job-claim.ts 127-172).
LeaseBacksWork ==
    \A w \in Slot :
        Serving /\ Steady(w) =>
            \/ OwnsLease(w) /\ fresh[cur[w]]
            \/ ProjectOf[cur[w]] \in gone

\* No two workers that keep their leases work on one project at a time
\* (job-claim.ts 76-115, docs/operations.md 886).
OneWorkerPerProject ==
    \A v, w \in Slot :
        v # w /\ Serving /\ Steady(v) /\ Steady(w)
            => ProjectOf[cur[v]] # ProjectOf[cur[w]]

\* A job is granted while a worker holds its row and keeps the lease.
Grants(j) ==
    \E w \in Slot : Steady(w) /\ cur[w] = j /\ OwnsLease(w) /\ Live(j)

\* The heavy allowance is never exceeded by workers that keep their leases,
\* although the count it rests on is read one statement before the claim
\* (job-claim.ts 118-121, executor.ts 242-250).
HeavyAllowance ==
    Cardinality({j \in Heavy : Grants(j)}) <= HeavyLimit

\* Attempts are used up by recorded failures, lost leases and expired results,
\* never by an orderly restart, in any sequence of claims, sweeps, releases,
\* late reports and revivals (job-claim.ts 153-172, "a restart must not consume
\* one of the two retries").
AttemptAccounting ==
    \A j \in Job :
        attempts[j] = fails[j] + lost[j]
                      + (IF status[j] \in {"running", "succeeded"} THEN 1 ELSE 0)

\* A job fails at most three times before it is failed for good, and once if
\* its kind is not retried; the decision is taken on the count read by the
\* claim (executor.ts 307).
RetryBound ==
    \A j \in Job :
        /\ fails[j] <= RetryLimit + 1
        /\ KindOf[j] \in SingleTryKinds => fails[j] <= 1
        /\ status[j] = "queued" => fails[j] <= RetryLimit

\* What a job uses up is accounted for and runs out: both of the above, in the
\* table that sweeps, reports, releases and revivals write (executor.ts 300-312).
AttemptsAreBounded == AttemptAccounting /\ RetryBound

\* What the table promises to its clients, under the mapping that calls a job
\* granted while a steady worker holds it.
PhaseOf(j) ==
    CASE status[j] = "absent" -> "none"
      [] status[j] = "queued" -> "waiting"
      [] status[j] = "running" -> IF Grants(j) THEN "granted" ELSE "doubtful"
      [] status[j] \in {"succeeded", "failed"} -> "settled"

Contract ==
    INSTANCE JobContract
        WITH HeavyJob <- Heavy,
             phase <- [j \in Job |-> PhaseOf(j)],
             serving <- (proc = "up")

\* The executor implements JobContract: grants are exclusive, a granted job is
\* never lost, and only its holder reports on it.
ImplementsContract == Contract!Spec

\* Every queued job is settled or withdrawn in the end, over crashes, orderly
\* restarts, lapsed leases and lost replies.
EventuallySettled ==
    \A j \in Job :
        status[j] = "queued" ~> status[j] \in {"succeeded", "failed", "absent"}
=============================================================================
