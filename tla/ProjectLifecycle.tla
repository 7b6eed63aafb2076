-------------------------- MODULE ProjectLifecycle --------------------------
(***************************************************************************)
(* One project from its creation to its purge: its row in projects, its    *)
(* managed database, the requests of the control plane that create, extend, *)
(* delete and restore it (lib/projects.ts), and the executor's handlers    *)
(* that provision, measure and purge it (executor.ts).                     *)
(*                                                                         *)
(* The job queue is taken as JobContract states it: one worker at a time   *)
(* executes a job of the project, a failing job is queued again or failed, *)
(* a crashed worker's job is reclaimed (an orderly stop differs from a     *)
(* crash by the attempt it gives back, see JobQueue).  A request is a      *)
(* sequence of statements, with other requests and handlers between them.  *)
(*                                                                         *)
(* The database stands for every managed resource: bucket, roles and files *)
(* are made, recorded and removed beside it.  LLM keys, runtime containers *)
(* and versions are not in this module.  Columns and locals nobody reads   *)
(* any more (a settled job's attempts, a served request's) go back to      *)
(* their initial values.                                                   *)
(***************************************************************************)
EXTENDS Naturals

CONSTANTS
    Client,         \* requests of the control plane, each served once
    Null,           \* SQL's NULL; also no job
    MaxWeek,        \* bound: weeks that pass, and that requests come in
    MaxTroubles     \* bound: failing handlers, crashes and lost requests

ASSUME LifecycleAssumption ==
    /\ Null \notin Nat \cup {"provision", "delete", "usage"}
    /\ MaxWeek \in Nat /\ MaxTroubles \in Nat

Status ==
    {"none", "provisioning", "ready", "failed", "storage_exceeded", "deleting",
     "deleted", "purged"}

\* A job of the project per key.  The keys of measure_usage are one for each
\* five minutes: the next one takes the finished one's place here.
Job == {"provision", "delete", "usage"}

JobStatus == {"absent", "queued", "running", "succeeded", "failed"}

VARIABLES
    \* the rows of projects and project_resources
    status,         \* "none" before the project exists, "purged" after
    purgeAfter,     \* the week from which it may be purged, or Null
    enabled,        \* postgres_enabled
    provisionState, \* provision_state
    creds,          \* database_secret_enc is there
    measured,       \* the recorded bytes reach a limit
    \* the project's jobs
    job,            \* [Job -> JobStatus]
    runAfter,       \* the week from which the deletion is due
    tries,          \* [Job -> Nat], attempts
    \* the database
    database,       \* "none", "live", "dropped"
    writable,       \* the runtime's role holds the write role
    over,           \* the size reaches the limit
    \* requests
    pc,             \* [Client -> where the request is]
    op,             \* [Client -> what it asks]
    saw,            \* [Client -> purge_after as ownedProject read it]
    \* the executor
    exec,           \* the job being executed, or Null
    step,           \* the handler's position
    sawDb,          \* postgres_enabled as the handler read it
    full,           \* the handler found the limit reached
    failing,        \* failSubject calls of provision jobs still to be made
    \* history and bounds
    deadline,       \* when the last request committed lets the project go
    week,           \* seven days each
    troubles

row == <<status, purgeAfter, enabled, provisionState, creds, measured>>
jobs == <<job, runAfter, tries>>
world == <<database, writable, over>>
requests == <<pc, op, saw>>
handler == <<exec, step, sawDb, full, failing>>
bounds == <<week, troubles>>
vars == <<row, jobs, world, requests, handler, deadline, bounds>>

Exists == status \notin {"none", "purged"}

Trouble ==
    /\ troubles < MaxTroubles
    /\ troubles' = troubles + 1

-----------------------------------------------------------------------------
(* Jobs, as the helpers of lib/projects.ts and the queue treat them.       *)

\* ON CONFLICT DO NOTHING: any row with the key will do.
Enqueue(j, when) ==
    IF job[j] = "absent"
    THEN /\ job' = [job EXCEPT ![j] = "queued"]
         /\ tries' = [tries EXCEPT ![j] = 0]
         /\ runAfter' = IF j = "delete" THEN when ELSE runAfter
    ELSE UNCHANGED jobs

\* ON CONFLICT DO UPDATE of a row in one of the states `from`.
EnqueueRerunnable(j, from) ==
    IF job[j] \in from \cup {"absent"}
    THEN /\ job' = [job EXCEPT ![j] = "queued"]
         /\ tries' = [tries EXCEPT ![j] = 0]
         /\ runAfter' = IF j = "delete" THEN week ELSE runAfter
    ELSE UNCHANGED jobs

Retries == 3

\* A queued deletion is deleted.
WithdrawDelete ==
    IF job["delete"] = "queued"
    THEN /\ job' = [job EXCEPT !["delete"] = "absent"]
         /\ tries' = [tries EXCEPT !["delete"] = 0]
         /\ runAfter' = 0
    ELSE UNCHANGED jobs

-----------------------------------------------------------------------------
(* Requests.                                                               *)

\* The request is over, and its locals are gone.
Finish(c) ==
    /\ pc' = [pc EXCEPT ![c] = "done"]
    /\ op' = [op EXCEPT ![c] = "none"]
    /\ saw' = [saw EXCEPT ![c] = Null]

\* create: the project, its resources and its first job in one transaction.
Create ==
    /\ status = "none"
    /\ status' = "provisioning"
    /\ enabled' \in BOOLEAN
    /\ Enqueue("provision", week)
    /\ UNCHANGED <<purgeAfter, provisionState, creds, measured, world, requests,
                   handler, deadline, bounds>>

\* ownedProject, after which enableResources and restore look at the status.
Ask(c) ==
    /\ pc[c] = "new" /\ week < MaxWeek
    /\ Exists /\ status # "deleted"
    /\ \E o \in {"delete", "purge", "restore", "enable"} :
        /\ o = "restore" => status = "deleting"
        /\ o = "enable" => status # "deleting"
        /\ op' = [op EXCEPT ![c] = o]
    /\ saw' = [saw EXCEPT ![c] = IF status = "deleting" THEN purgeAfter ELSE Null]
    /\ pc' = [pc EXCEPT ![c] = "asked"]
    /\ UNCHANGED <<row, jobs, world, handler, deadline, bounds>>

\* enableResources' transaction: no second look at the status.  For a purged
\* project the foreign keys roll it back.
Enable(c) ==
    /\ pc[c] = "asked" /\ op[c] = "enable"
    /\ IF Exists
       THEN /\ enabled' = TRUE
            /\ provisionState' = "pending"
            /\ EnqueueRerunnable("provision", {"succeeded", "failed"})
       ELSE UNCHANGED <<enabled, provisionState, jobs>>
    /\ Finish(c)
    /\ UNCHANGED <<status, purgeAfter, creds, measured, world, handler,
                   deadline, bounds>>

\* delete of a project seen pending: put back a job that may have been lost.
AskAgain(c) ==
    /\ pc[c] = "asked" /\ op[c] = "delete" /\ saw[c] # Null
    /\ IF Exists THEN Enqueue("delete", saw[c]) ELSE UNCHANGED jobs
    /\ Finish(c)
    /\ UNCHANGED <<row, world, handler, deadline, bounds>>

\* The same with `immediate`: the window closes now.
PullForward(c) ==
    /\ pc[c] = "asked" /\ op[c] = "purge" /\ saw[c] # Null
    /\ IF status = "deleting"
       THEN /\ purgeAfter' = week
            /\ deadline' = week
            /\ pc' = [pc EXCEPT ![c] = "marked"]
            /\ UNCHANGED <<op, saw>>
       ELSE /\ Finish(c)
            /\ UNCHANGED <<purgeAfter, deadline>>
    /\ UNCHANGED <<status, enabled, provisionState, creds, measured, jobs, world,
                   handler, bounds>>

\* delete of a project seen live: whatever the status is by now.
MarkDeleting(c) ==
    /\ pc[c] = "asked" /\ op[c] \in {"delete", "purge"} /\ saw[c] = Null
    /\ IF Exists
       THEN /\ status' = "deleting"
            /\ purgeAfter' = IF op[c] = "purge" THEN week ELSE week + 1
            /\ deadline' = purgeAfter'
            /\ saw' = [saw EXCEPT ![c] = purgeAfter']
            /\ pc' = [pc EXCEPT ![c] = "marked"]
            /\ UNCHANGED op
       ELSE /\ Finish(c)
            /\ UNCHANGED <<status, purgeAfter, deadline>>
    /\ UNCHANGED <<enabled, provisionState, creds, measured, jobs, world,
                   handler, bounds>>

\* After the key's revocation and the audit record: the job, which a purged
\* project refuses.
QueueDeletion(c) ==
    /\ pc[c] = "marked"
    /\ CASE ~Exists -> UNCHANGED jobs
         [] Exists /\ op[c] = "purge" ->
                EnqueueRerunnable("delete", {"queued", "succeeded", "failed"})
         [] Exists /\ op[c] = "delete" -> Enqueue("delete", saw[c])
    /\ Finish(c)
    /\ UNCHANGED <<row, world, handler, deadline, bounds>>

\* Mutant: the restored row keeps its purge date.
RestoreKeepsDate(c) ==
    /\ pc[c] = "asked" /\ op[c] = "restore"
    /\ IF status = "deleting"
       THEN /\ status' = IF measured THEN "storage_exceeded" ELSE "ready"
            /\ deadline' = Null
            /\ WithdrawDelete
       ELSE UNCHANGED <<status, deadline, jobs>>
    /\ Finish(c)
    /\ UNCHANGED <<purgeAfter, enabled, provisionState, creds, measured, world,
                   handler, bounds>>

\* restore's transaction.
Restore(c) ==
    /\ pc[c] = "asked" /\ op[c] = "restore"
    /\ IF status = "deleting"
       THEN /\ status' = IF measured THEN "storage_exceeded" ELSE "ready"
            /\ purgeAfter' = Null
            /\ deadline' = Null
            /\ WithdrawDelete
       ELSE UNCHANGED <<status, purgeAfter, deadline, jobs>>
    /\ Finish(c)
    /\ UNCHANGED <<enabled, provisionState, creds, measured, world, handler,
                   bounds>>

\* The control plane stops in the middle of a request.
Abandon(c) ==
    /\ pc[c] \in {"asked", "marked"}
    /\ Trouble
    /\ Finish(c)
    /\ UNCHANGED <<row, jobs, world, handler, deadline, week>>

-----------------------------------------------------------------------------
(* The executor: a job is claimed, and ends in success or failure.         *)

\* The handler's locals outside its calls.
Idle ==
    /\ exec' = Null
    /\ step' = "start"
    /\ sawDb' = FALSE
    /\ full' = FALSE

Goto(s) == step' = s /\ UNCHANGED exec

Claim(j) ==
    /\ exec = Null
    /\ \A i \in Job : job[i] # "running"
    /\ job[j] = "queued"
    /\ j = "delete" => runAfter <= week
    /\ job' = [job EXCEPT ![j] = "running"]
    /\ tries' = [tries EXCEPT ![j] = @ + 1]
    /\ exec' = j
    /\ UNCHANGED <<row, runAfter, world, requests, step, sawDb, full, failing,
                   deadline, bounds>>

Succeed ==
    /\ exec # Null /\ step = "done"
    /\ job' = [job EXCEPT ![exec] = IF exec = "usage" THEN "absent" ELSE "succeeded"]
    /\ tries' = [tries EXCEPT ![exec] = 0]
    /\ Idle
    /\ UNCHANGED <<row, runAfter, world, requests, failing, deadline, bounds>>

\* The handler throws: TERMINAL_FAILURE_SQL, with failSubject to follow.  The
\* project's next job may be claimed before that.
Throw ==
    /\ IF tries[exec] < Retries
       THEN /\ job' = [job EXCEPT ![exec] = "queued"]
            /\ UNCHANGED tries
       ELSE /\ job' = [job EXCEPT ![exec] = IF exec = "usage" THEN "absent" ELSE "failed"]
            /\ tries' = [tries EXCEPT ![exec] = 0]
    /\ failing' = IF exec = "provision" THEN failing + 1 ELSE failing
    /\ Idle
    /\ UNCHANGED <<row, runAfter, world, requests, deadline, week>>

\* A query or a call to the outside fails.
HandlerFails ==
    /\ exec # Null
    /\ Trouble
    /\ Throw

\* Mutant: a state the column does not know.
FailSubjectError ==
    /\ failing > 0
    /\ failing' = failing - 1
    /\ IF Exists
       THEN /\ status' = IF status = "provisioning" THEN "failed" ELSE status
            /\ provisionState' = "error"
       ELSE UNCHANGED <<status, provisionState>>
    /\ UNCHANGED <<purgeAfter, enabled, creds, measured, jobs, world, requests,
                   exec, step, sawDb, full, deadline, bounds>>

\* Mutant: whatever the project has become.
FailSubjectUnguarded ==
    /\ failing > 0
    /\ failing' = failing - 1
    /\ IF Exists
       THEN /\ status' = "failed"
            /\ provisionState' = "failed"
       ELSE UNCHANGED <<status, provisionState>>
    /\ UNCHANGED <<purgeAfter, enabled, creds, measured, jobs, world, requests,
                   exec, step, sawDb, full, deadline, bounds>>

\* failSubject of a provision job.
FailSubject ==
    /\ failing > 0
    /\ failing' = failing - 1
    /\ IF Exists
       THEN /\ status' = IF status = "provisioning" THEN "failed" ELSE status
            /\ provisionState' = "failed"
       ELSE UNCHANGED <<status, provisionState>>
    /\ UNCHANGED <<purgeAfter, enabled, creds, measured, jobs, world, requests,
                   exec, step, sawDb, full, deadline, bounds>>

\* The executor dies; its job stays running until the sweep.
Crash ==
    /\ exec # Null \/ failing > 0
    /\ Trouble
    /\ Idle
    /\ failing' = 0
    /\ UNCHANGED <<row, jobs, world, requests, deadline, week>>

SweepLease(j) ==
    /\ job[j] = "running" /\ exec # j
    /\ job' = [job EXCEPT ![j] = "queued"]
    /\ runAfter' = IF j = "delete" THEN week ELSE runAfter
    /\ UNCHANGED <<row, tries, world, requests, handler, deadline, bounds>>

-----------------------------------------------------------------------------
(* provision_project.                                                      *)

At(j, s) == exec = j /\ step = s

\* Mutant: credentials are recorded when the plan is made.
ReadPlanRecords ==
    /\ At("provision", "start")
    /\ sawDb' = enabled
    /\ creds' = enabled
    /\ Goto("build")
    /\ UNCHANGED <<status, purgeAfter, enabled, provisionState, measured, jobs, world,
                   requests, full, failing, deadline, bounds>>

ReadPlan ==
    /\ At("provision", "start")
    /\ sawDb' = enabled
    /\ Goto("build")
    /\ UNCHANGED <<row, jobs, world, requests, full, failing, deadline, bounds>>

\* Roles and database if there are none, and the grant, every time.
BuildDatabase ==
    /\ At("provision", "build")
    /\ IF sawDb
       THEN database' = "live" /\ writable' = TRUE
       ELSE UNCHANGED <<database, writable>>
    /\ Goto("record")
    /\ UNCHANGED <<row, jobs, over, requests, sawDb, full, failing, deadline, bounds>>

RecordResources ==
    /\ At("provision", "record")
    /\ creds' = sawDb
    /\ provisionState' = "ready"
    /\ sawDb' = FALSE
    /\ Goto("publish")
    /\ UNCHANGED <<status, purgeAfter, enabled, measured, jobs, world, requests,
                   full, failing, deadline, bounds>>

\* The project comes up; the removal of its runtime can still fail.
Publish ==
    /\ At("provision", "publish")
    /\ status' = IF status \in {"provisioning", "failed"} THEN "ready" ELSE status
    /\ Goto("done")
    /\ UNCHANGED <<purgeAfter, enabled, provisionState, creds, measured, jobs, world,
                   requests, sawDb, full, failing, deadline, bounds>>

-----------------------------------------------------------------------------
(* measure_usage.                                                          *)

\* Mutant: housekeeping measures the projects that are ready.
EnqueueUsageReady ==
    /\ status = "ready"
    /\ job["usage"] = "absent"
    /\ Enqueue("usage", week)
    /\ UNCHANGED <<row, world, requests, handler, deadline, bounds>>

\* Housekeeping queues a measurement of every live project.
EnqueueUsage ==
    /\ status \in {"ready", "storage_exceeded"}
    /\ job["usage"] = "absent"
    /\ Enqueue("usage", week)
    /\ UNCHANGED <<row, world, requests, handler, deadline, bounds>>

\* The row and the size, without a database of which the query throws.
ReadUsage ==
    /\ At("usage", "start")
    /\ IF enabled /\ database # "live"
       THEN Throw /\ UNCHANGED troubles
       ELSE /\ sawDb' = enabled
            /\ full' = (enabled /\ over)
            /\ Goto("size")
            /\ UNCHANGED <<row, jobs, world, requests, failing, deadline, bounds>>

\* Whether the recorded bytes reach a limit: the database's, or the objects'.
RecordUsage ==
    /\ At("usage", "size")
    /\ \E objects \in BOOLEAN : measured' = (full \/ objects)
    /\ Goto("grant")
    /\ UNCHANGED <<status, purgeAfter, enabled, provisionState, creds, jobs, world,
                   requests, sawDb, full, failing, deadline, bounds>>

SetGrant ==
    /\ At("usage", "grant")
    /\ IF sawDb /\ creds
       THEN writable' = ~full /\ Goto("status")
       ELSE Goto("done") /\ UNCHANGED writable
    /\ sawDb' = FALSE
    /\ UNCHANGED <<row, jobs, database, over, requests, full, failing,
                   deadline, bounds>>

\* Over the limit, the status is not looked at.
SetUsageStatus ==
    /\ At("usage", "status")
    /\ status' = CASE full -> "storage_exceeded"
                   [] ~full /\ status = "storage_exceeded" -> "ready"
                   [] OTHER -> status
    /\ Goto("done")
    /\ UNCHANGED <<purgeAfter, enabled, provisionState, creds, measured, jobs, world,
                   requests, sawDb, full, failing, deadline, bounds>>

-----------------------------------------------------------------------------
(* delete_project.                                                         *)

Due == purgeAfter # Null /\ purgeAfter <= week

\* Mutant: only a project that is still pending may be purged.
StartPurgePending ==
    /\ At("delete", "start")
    /\ IF Due /\ status = "deleting"
       THEN /\ Goto("mark")
            /\ UNCHANGED <<row, jobs, world, requests, sawDb, full, failing,
                           deadline, bounds>>
       ELSE Throw /\ UNCHANGED troubles

\* The row is read: "project purge is not due", or the purge goes ahead.
StartPurge ==
    /\ At("delete", "start")
    /\ IF Due
       THEN /\ Goto("mark")
            /\ UNCHANGED <<row, jobs, world, requests, sawDb, full, failing,
                           deadline, bounds>>
       ELSE Throw /\ UNCHANGED troubles

\* Whether the update finds the project still pending is not looked at.
MarkDeleted ==
    /\ At("delete", "mark")
    /\ status' = IF status = "deleting" THEN "deleted" ELSE status
    /\ Goto("drop")
    /\ UNCHANGED <<purgeAfter, enabled, provisionState, creds, measured, jobs, world,
                   requests, sawDb, full, failing, deadline, bounds>>

DropDatabase ==
    /\ At("delete", "drop")
    /\ database' = IF database = "live" THEN "dropped" ELSE database
    /\ writable' = FALSE
    /\ over' = FALSE
    /\ Goto("erase")
    /\ UNCHANGED <<row, jobs, requests, sawDb, full, failing, deadline, bounds>>

\* DELETE FROM projects, which takes the resources and the jobs with it.
EraseProject ==
    /\ At("delete", "erase")
    /\ status' = "purged"
    /\ purgeAfter' = Null
    /\ enabled' = FALSE /\ creds' = FALSE /\ measured' = FALSE
    /\ provisionState' = "pending"
    /\ job' = [j \in Job |-> "absent"]
    /\ tries' = [j \in Job |-> 0]
    /\ runAfter' = 0
    /\ Idle
    /\ UNCHANGED <<world, requests, failing, deadline, bounds>>

\* Housekeeping: a purge that failed half-way is tried again.
ReviveDelete ==
    /\ status = "deleted" /\ job["delete"] = "failed"
    /\ job' = [job EXCEPT !["delete"] = "queued"]
    /\ tries' = [tries EXCEPT !["delete"] = 0]
    /\ runAfter' = week
    /\ UNCHANGED <<row, world, requests, handler, deadline, bounds>>

-----------------------------------------------------------------------------
(* The project's owner writes and deletes data; an operator moves the       *)
(* limit, which the recorded bytes are compared with as well.               *)
UseDatabase ==
    /\ database = "live"
    /\ over' = ~over
    /\ over' => writable
    /\ UNCHANGED <<row, jobs, database, writable, requests, handler, deadline, bounds>>

RaiseLimit ==
    /\ Exists /\ status # "deleted"
    /\ over \/ measured
    /\ over' = FALSE /\ measured' = FALSE
    /\ UNCHANGED <<status, purgeAfter, enabled, provisionState, creds, jobs, database,
                   writable, requests, handler, deadline, bounds>>

\* A week is longer than any request.
WeekPasses ==
    /\ week < MaxWeek
    /\ \A c \in Client : pc[c] \in {"new", "done"}
    /\ week' = week + 1
    /\ UNCHANGED <<row, jobs, world, requests, handler, deadline, troubles>>

-----------------------------------------------------------------------------
Init ==
    /\ status = "none"
    /\ purgeAfter = Null
    /\ enabled = FALSE
    /\ provisionState = "pending"
    /\ creds = FALSE
    /\ measured = FALSE
    /\ job = [j \in Job |-> "absent"]
    /\ runAfter = 0
    /\ tries = [j \in Job |-> 0]
    /\ database = "none"
    /\ writable = FALSE
    /\ over = FALSE
    /\ pc = [c \in Client |-> "new"]
    /\ op = [c \in Client |-> "none"]
    /\ saw = [c \in Client |-> Null]
    /\ exec = Null
    /\ step = "start"
    /\ sawDb = FALSE
    /\ full = FALSE
    /\ failing = 0
    /\ deadline = Null
    /\ week = 0
    /\ troubles = 0

Serve(c) ==
    \/ Enable(c) \/ AskAgain(c) \/ PullForward(c) \/ MarkDeleting(c)
    \/ QueueDeletion(c) \/ Restore(c)

Provision == ReadPlan \/ BuildDatabase \/ RecordResources \/ Publish

Measure == ReadUsage \/ RecordUsage \/ SetGrant \/ SetUsageStatus

Purge == StartPurge \/ MarkDeleted \/ DropDatabase \/ EraseProject

Next ==
    \/ Create
    \/ \E c \in Client : Ask(c) \/ Serve(c) \/ Abandon(c)
    \/ \E j \in Job : Claim(j) \/ SweepLease(j)
    \/ Provision \/ Measure \/ Purge
    \/ Succeed \/ HandlerFails \/ FailSubject \/ Crash
    \/ EnqueueUsage \/ ReviveDelete
    \/ UseDatabase \/ RaiseLimit \/ WeekPasses

Spec == Init /\ [][Next]_vars

\* What is begun goes on: requests are served, jobs are claimed and executed,
\* housekeeping comes round every minute and weeks pass.  Owners owe nothing,
\* and failures are not owed.
Fairness ==
    /\ \A c \in Client : WF_vars(Serve(c))
    /\ \A j \in Job : SF_vars(Claim(j)) /\ WF_vars(SweepLease(j))
    /\ WF_vars(Provision \/ Measure \/ Purge \/ Succeed)
    /\ WF_vars(FailSubject) /\ WF_vars(EnqueueUsage) /\ WF_vars(ReviveDelete)
    /\ WF_vars(WeekPasses)

FairSpec == Spec /\ Fairness

-----------------------------------------------------------------------------
(* Properties.                                                             *)

RowTyped ==
    /\ status \in Status
    /\ purgeAfter \in Nat \cup {Null}
    /\ enabled \in BOOLEAN
    /\ provisionState \in {"pending", "ready", "failed"}
    /\ creds \in BOOLEAN
    /\ measured \in BOOLEAN

JobsTyped ==
    /\ job \in [Job -> JobStatus]
    /\ runAfter \in Nat
    /\ tries \in [Job -> Nat]

WorldTyped ==
    /\ database \in {"none", "live", "dropped"}
    /\ writable \in BOOLEAN
    /\ over \in BOOLEAN

RequestsTyped ==
    /\ pc \in [Client -> {"new", "asked", "marked", "done"}]
    /\ op \in [Client -> {"none", "delete", "purge", "restore", "enable"}]
    /\ saw \in [Client -> Nat \cup {Null}]

HandlerTyped ==
    /\ exec \in Job \cup {Null}
    /\ step \in {"start", "build", "record", "publish", "size", "grant", "status",
                 "mark", "drop", "erase", "done"}
    /\ sawDb \in BOOLEAN
    /\ full \in BOOLEAN
    /\ failing \in Nat

\* Every variable holds what its column, job row or local can hold.
TypeOK ==
    /\ RowTyped /\ JobsTyped /\ WorldTyped /\ RequestsTyped /\ HandlerTyped
    /\ deadline \in Nat \cup {Null}
    /\ week \in Nat
    /\ troubles \in Nat

\* A purge starts only when the last delete or restore that was committed asks
\* for one and its window is over, however late a request queues the job, a
\* retry runs it or a stale read repeats it (executor.ts 1630-1637,
\* projects.ts 1500-1650).
PurgeWarranted ==
    [][At("delete", "start") /\ step' = "mark"
        => deadline # Null /\ deadline <= week]_vars

\* Recorded credentials open a database that is there, until a purge takes it:
\* crashes and failures in between leave resources without a record, never a
\* record without resources (executor.ts 400-450).
CredentialsAreReal == creds /\ database # "dropped" => database = "live"

\* A project that came up is never taken down by a failed attempt to add to it,
\* however late the failure is written (executor.ts 2556-2563).
LiveNotDemoted ==
    [][(status \in {"ready", "storage_exceeded", "deleting", "deleted"})
        => (status' \notin {"provisioning", "failed"})]_vars

\* A project marked deleted is purged, over failures and crashes, unless one of
\* the two statements that overwrite any status gets in between: a delete
\* request that had read the row before, or a measurement over the limit
\* (executor.ts 1686-1693).
MarkedIsPurged ==
    status = "deleted" ~> status \in {"purged", "deleting", "storage_exceeded"}

Live == status \in {"ready", "storage_exceeded"} /\ enabled /\ creds /\ database = "live"

\* Whoever stays over the limit loses the right to write, and whoever stays
\* under it has it, whatever restores, provisions and limit changes did to the
\* status and the grant before (executor.ts 1608-1617).
QuotaEnforced ==
    /\ <>[](Live /\ over) => <>[](status = "storage_exceeded" /\ ~writable)
    /\ <>[](Live /\ ~over) => <>[](status = "ready" /\ writable)

\* What docs/platform-protocol.md 182 says: "`purgeAfter` is seven days out and
\* `restore` cancels it until then."  restore wants status deleting, which a
\* measurement over the limit overwrites.
RestoreCancels ==
    status # "purged" /\ purgeAfter # Null /\ purgeAfter > week => status = "deleting"
=============================================================================
