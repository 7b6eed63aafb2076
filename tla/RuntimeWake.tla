---------------------------- MODULE RuntimeWake ----------------------------
(***************************************************************************)
(* The runtime of one deployed version: its row in project_runtime, its    *)
(* container, the gateway that wakes it for a visitor (gateway.ts), and    *)
(* the executor's handlers and housekeeping that start, stop and account   *)
(* for it (executor.ts).                                                   *)
(*                                                                         *)
(* The job queue is taken as JobContract states it: one worker at a time   *)
(* executes a job of the project, a failed one is settled or queued again, *)
(* a crashed worker's job is reclaimed.  failSubject runs after the job    *)
(* was handed back, beside whatever is claimed next.                       *)
(*                                                                         *)
(* A proxy secret is a key; a container has the key it was started with,   *)
(* the row the key the gateway will send.  Columns and locals that nobody  *)
(* reads any more go back to their initial values.                         *)
(***************************************************************************)
EXTENDS Naturals

CONSTANTS
    Visitor,        \* requests to the site's functions, one after the other
    Null,
    MaxRequests,    \* bound: deployments, renders and changes of the limits
    MaxTroubles     \* bound: containers that die, calls that fail, crashes

Job == {"start", "sleep", "recycle", "deploy", "render"}

ASSUME WakeAssumption ==
    /\ Null \notin Job
    /\ MaxRequests \in Nat /\ MaxTroubles \in Nat

State == {"stopped", "starting", "running", "failed"}

JobStatus == {"absent", "queued", "running", "settled"}

\* Where a handler is.  A render at "use" has its runtime, or does without it.
Step ==
    {"ensure", "read", "mark", "launch", "probe", "record", "undo", "note", "use",
     "stop", "stopped", "activate", "remove", "removed", "done"}

VARIABLES
    row,        \* project_runtime: state, proxy_secret_enc, and whether
                \* last_seen_at is within fifteen minutes
    box,        \* the container: none, up or exited, with which key and limits
    limits,     \* projects.runtime_memory_mb and runtime_cpu
    job,        \* [Job -> JobStatus]
    \* the executor
    exec,       \* the job being executed, or Null
    step,       \* the handler's position
    plan,       \* the limits the handler read
    key,        \* the key it gave the container
    late,       \* failSubject of a start: what is still to be done
    keeper,     \* housekeeping's position
    listed,     \* docker ps named the container
    \* the gateway and the control plane
    pc,         \* [Visitor -> where the request is]
    retry,      \* [Visitor -> a bodyless request on its first attempt]
    admin,      \* updateProjectLimits: "idle", "recycle", "leave"
    \* history and bounds
    awaited,    \* [Job -> visitors who had asked when its start failed], until
                \* that failure is recorded
    heard,      \* visitors of whose start a failure has been recorded
    misled,     \* visitors since whose clearing the failure of a start that was
                \* over before they cleared has been recorded
    requests,
    troubles

world == <<row, box>>
handler == <<exec, step, plan, key>>
housekeeping == <<keeper, listed>>
verdicts == <<awaited, heard, misled>>
visits == <<pc, retry, verdicts>>
settings == <<limits, admin>>
bounds == <<requests, troubles>>
vars == <<world, job, handler, late, housekeeping, visits, settings, bounds>>

NoKey == 0

Key == 1..3

Up == box.is = "up"

\* A container that was removed, or one that stopped and is still there.
Down(i) == [is |-> i, key |-> NoKey, limits |-> 0]

\* Visitors who have cleared the row and wait for a start.
Wakened == {v \in Visitor : pc[v] \in {"enqueue", "wait"}}

Pending == {j \in Job : job[j] \in {"queued", "running"}}

Trouble == troubles < MaxTroubles /\ troubles' = troubles + 1 /\ UNCHANGED requests

Request == requests < MaxRequests /\ requests' = requests + 1 /\ UNCHANGED troubles

\* What every statement that ends a runtime writes.
Ended(s) == [state |-> s, key |-> NoKey, recent |-> FALSE]

-----------------------------------------------------------------------------
(* Jobs.                                                                   *)

\* ON CONFLICT DO UPDATE of a settled row.
EnqueueRerunnable(j) ==
    job' = IF j \in Pending THEN job ELSE [job EXCEPT ![j] = "queued"]

\* Mutant: ON CONFLICT DO NOTHING.
EnqueueStartOnce ==
    job' = IF job["start"] = "absent" THEN [job EXCEPT !["start"] = "queued"] ELSE job

\* enqueueRuntimeStart.
EnqueueStart == EnqueueRerunnable("start")

\* A deployment of the version, one at a time here.
Deploy ==
    /\ Request
    /\ "deploy" \notin Pending
    /\ EnqueueRerunnable("deploy")
    /\ UNCHANGED <<world, handler, late, housekeeping, visits, settings>>

\* A render, or anything else that wants a running site.
Render ==
    /\ Request
    /\ "render" \notin Pending
    /\ EnqueueRerunnable("render")
    /\ UNCHANGED <<world, handler, late, housekeeping, visits, settings>>

FirstStep(j) ==
    CASE j = "start" -> "read"
      [] j \in {"sleep", "recycle"} -> "stop"
      [] j = "deploy" -> "activate"
      [] j = "render" -> "ensure"

\* A retry waits for thirty seconds: one that overtakes the failure report of
\* the attempt before it is one of the troubles.
Claim(j) ==
    /\ exec = Null
    /\ job[j] = "queued"
    /\ IF late = "none" THEN UNCHANGED bounds ELSE Trouble
    /\ job' = [job EXCEPT ![j] = "running"]
    /\ exec' = j
    /\ step' = FirstStep(j)
    /\ UNCHANGED <<world, plan, key, late, housekeeping, visits, settings>>

\* A finished deployment, render or recycling makes room for the next one.
Finished(j) == IF j \in {"start", "sleep"} THEN "settled" ELSE "absent"

\* The handler is over, and its locals are gone.
Leave == exec' = Null /\ step' = "done" /\ plan' = 0 /\ key' = NoKey

Goto(s) == step' = s /\ UNCHANGED <<exec, plan, key>>

Succeed ==
    /\ exec # Null /\ step \in {"done", "use"}
    /\ job' = [job EXCEPT ![exec] = Finished(exec)]
    /\ Leave
    /\ UNCHANGED <<world, late, housekeeping, visits, settings, bounds>>

\* The handler has a start in hand, its job's own or the render's.
Starting == exec = "start" \/ (exec = "render" /\ step \notin {"ensure", "undo", "note"})

\* A handler throws.  A render goes on without functions; if it tried a start,
\* its own failSubject comes first.
Throw ==
    /\ awaited' = [awaited EXCEPT ![exec] = IF Starting THEN Wakened ELSE {}]
    /\ UNCHANGED <<pc, retry, heard, misled>>
    /\ IF exec = "render"
       THEN /\ Goto(IF Starting THEN "undo" ELSE "use")
            /\ UNCHANGED <<job, late>>
       ELSE /\ \E s \in {Finished(exec)} \cup (IF exec = "deploy" THEN {} ELSE {"queued"}) :
                   job' = [job EXCEPT ![exec] = s]
            /\ exec = "start" => late = "none"     \* one report at a time
            /\ late' = IF exec = "start" THEN "remove" ELSE late
            /\ Leave

\* A query or a call of Docker fails; docker run may have had its docker rm.
HandlerFails ==
    /\ exec # Null /\ step # "use"
    /\ Trouble
    /\ Throw
    /\ box' \in IF step = "launch" THEN {box, Down("none")} ELSE {box}
    /\ UNCHANGED <<row, housekeeping, settings>>

\* The executor dies; its job stays running until the sweep.
Crash ==
    /\ exec # Null \/ late # "none"
    /\ Trouble
    /\ Leave
    /\ late' = "none" /\ keeper' = "idle" /\ listed' = FALSE
    /\ awaited' = [j \in Job |-> {}]
    /\ UNCHANGED <<world, job, pc, retry, heard, misled, settings>>

SweepLease(j) ==
    /\ job[j] = "running" /\ exec # j
    /\ job' = [job EXCEPT ![j] = "queued"]
    /\ UNCHANGED <<world, handler, late, housekeeping, visits, settings, bounds>>

-----------------------------------------------------------------------------
(* startRuntime, ensureRuntimeStarted, stopRuntime, removeRuntime.         *)

At(s) == exec # Null /\ step = s

\* ensureRuntimeStarted: a runtime recorded as running is never started.  The
\* probe of a stopped container throws, and one of a missing container is
\* forgiven with an empty answer, which is not the null that is compared with.
EnsureStarted ==
    /\ At("ensure")
    /\ \/ /\ row.state = "running" /\ box.is # "exited"
          /\ row' = [row EXCEPT !.recent = TRUE]
          /\ Goto("use")
       \/ /\ row.state = "running" /\ box.is = "exited"
          /\ Goto("use")
          /\ UNCHANGED row
       \/ /\ row.state # "running"
          /\ Goto("read")
          /\ UNCHANGED row
    /\ UNCHANGED <<box, job, late, housekeeping, visits, settings, bounds>>

ReadProject ==
    /\ At("read")
    /\ plan' = limits
    /\ step' = "mark"
    /\ UNCHANGED <<world, job, exec, key, late, housekeeping, visits, settings, bounds>>

\* Mutant: an old endpoint and secret stay in the row.
MarkStartingOnly ==
    /\ At("mark")
    /\ row' = [row EXCEPT !.state = "starting"]
    /\ Goto("launch")
    /\ UNCHANGED <<box, job, late, housekeeping, visits, settings, bounds>>

MarkStarting ==
    /\ At("mark")
    /\ row' = Ended("starting")
    /\ Goto("launch")
    /\ UNCHANGED <<box, job, late, housekeeping, visits, settings, bounds>>

\* docker rm -f, a new secret, docker run.
Launch ==
    /\ At("launch")
    /\ key' = CHOOSE k \in Key : k \notin {row.key, box.key}
    /\ box' = [is |-> "up", key |-> key', limits |-> plan]
    /\ step' = "probe"
    /\ UNCHANGED <<row, job, exec, plan, late, housekeeping, visits, settings, bounds>>

\* waitForContainerHttp: the container answers, or it is dead.
Probe ==
    /\ At("probe")
    /\ IF Up THEN Goto("record") /\ UNCHANGED <<job, late, visits>> ELSE Throw
    /\ UNCHANGED <<world, housekeeping, settings, bounds>>

RecordRunning ==
    /\ At("record")
    /\ row' = [state |-> "running", key |-> key, recent |-> TRUE]
    /\ Goto(IF exec = "render" THEN "use" ELSE "done")
    /\ UNCHANGED <<box, job, late, housekeeping, visits, settings, bounds>>

\* docker stop, which forgives a container that is not there.
StopContainer ==
    /\ At("stop")
    /\ box' = IF box.is = "none" THEN box ELSE Down("exited")
    /\ Goto("stopped")
    /\ UNCHANGED <<row, job, late, housekeeping, visits, settings, bounds>>

\* deployVersion's transaction activates the version, which may have been
\* active before.
Activate ==
    /\ At("activate")
    /\ row' = Ended("stopped")
    /\ Goto("remove")
    /\ UNCHANGED <<box, job, late, housekeeping, visits, settings, bounds>>

RemoveContainers ==
    /\ At("remove")
    /\ box' = Down("none")
    /\ Goto("removed")
    /\ UNCHANGED <<row, job, late, housekeeping, visits, settings, bounds>>

\* The last statement of stopRuntime and of removeRuntime.
RecordStopped ==
    /\ At("stopped") \/ At("removed")
    /\ row' = Ended("stopped")
    /\ Goto("done")
    /\ UNCHANGED <<box, job, late, housekeeping, visits, settings, bounds>>

-----------------------------------------------------------------------------
(* failSubject of a start: remove the container, then record the failure.  *)
(* The dispatcher calls it after the job was handed back; a render inside  *)
(* its own job.                                                            *)

FailedContainer ==
    /\ \/ /\ late = "remove"
          /\ late' = "record"
          /\ UNCHANGED handler
       \/ /\ At("undo")
          /\ Goto("note")
          /\ UNCHANGED late
    /\ box' = Down("none")
    /\ UNCHANGED <<row, job, housekeeping, visits, settings, bounds>>

\* What the failure of the start that j's worker had in hand tells the visitors.
Tell(j) ==
    /\ heard' = Wakened \cap awaited[j]
    /\ misled' = Wakened \ awaited[j]
    /\ awaited' = [awaited EXCEPT ![j] = {}]
    /\ UNCHANGED <<pc, retry>>

\* Mutant: a state the column does not know.
FailedRowError ==
    /\ \/ /\ late = "record"
          /\ late' = "none"
          /\ Tell("start")
          /\ UNCHANGED handler
       \/ /\ At("note")
          /\ Goto("use")
          /\ Tell("render")
          /\ UNCHANGED late
    /\ row' = Ended("error")
    /\ UNCHANGED <<box, job, housekeeping, settings, bounds>>

FailedRow ==
    /\ \/ /\ late = "record"
          /\ late' = "none"
          /\ Tell("start")
          /\ UNCHANGED handler
       \/ /\ At("note")
          /\ Goto("use")
          /\ Tell("render")
          /\ UNCHANGED late
    /\ row' = Ended("failed")
    /\ UNCHANGED <<box, job, housekeeping, settings, bounds>>

-----------------------------------------------------------------------------
(* Housekeeping.                                                           *)

\* reconcileRuntimeState asks Docker; if Docker does not answer, the pass is
\* skipped.
ListContainers ==
    /\ keeper = "idle"
    /\ \/ /\ keeper' = "listed"
          /\ listed' = Up
          /\ UNCHANGED bounds
       \/ /\ Trouble
          /\ keeper' = "sweep"
          /\ UNCHANGED listed
    /\ UNCHANGED <<world, job, handler, late, visits, settings>>

Reconcile ==
    /\ keeper = "listed"
    /\ row' = IF row.state = "running" /\ ~listed /\ Pending = {}
              THEN Ended("stopped") ELSE row
    /\ keeper' = "sweep" /\ listed' = FALSE
    /\ UNCHANGED <<box, job, handler, late, visits, settings, bounds>>

\* A stop for a runtime without traffic, ON CONFLICT DO NOTHING.
SweepIdle ==
    /\ keeper = "sweep"
    /\ job' = IF row.state = "running" /\ ~row.recent /\ Pending = {} /\ job["sleep"] = "absent"
              THEN [job EXCEPT !["sleep"] = "queued"] ELSE job
    /\ keeper' = "idle"
    /\ UNCHANGED <<world, handler, late, listed, visits, settings, bounds>>

\* Mutant: one key for the life of the version.
NextHourSameKey == FALSE

\* The key of a stop has the hour in it.
NextHour ==
    /\ job["sleep"] = "settled"
    /\ job' = [job EXCEPT !["sleep"] = "absent"]
    /\ UNCHANGED <<world, handler, late, housekeeping, visits, settings, bounds>>

\* Fifteen minutes pass.
GrowOld ==
    /\ row.recent
    /\ row' = [row EXCEPT !.recent = FALSE]
    /\ UNCHANGED <<box, job, handler, late, housekeeping, visits, settings, bounds>>

\* Out of memory, an exception, a restart of Docker or of the host.
Die ==
    /\ Up
    /\ Trouble
    /\ box' = Down("exited")
    /\ UNCHANGED <<row, job, handler, late, housekeeping, visits, settings>>

-----------------------------------------------------------------------------
(* The gateway: proxyFunction and wakeRuntime, statement by statement.     *)

Become(v, s) == pc' = [pc EXCEPT ![v] = s]

\* The visitor waits for no start any more.
Awake(v) ==
    /\ awaited' = [j \in Job |-> awaited[j] \ {v}]
    /\ heard' = heard \ {v}
    /\ misled' = misled \ {v}

\* The request is over, and its locals are gone.
Answer(v) ==
    /\ Become(v, "idle")
    /\ retry' = [retry EXCEPT ![v] = FALSE]
    /\ Awake(v)

\* The row as a request finds it.
Visit(v) ==
    /\ pc[v] = "idle"
    /\ Become(v, IF row.state = "running" THEN "reach" ELSE "clear")
    /\ retry' \in {[retry EXCEPT ![v] = b] : b \in BOOLEAN}
    /\ UNCHANGED <<world, job, handler, late, housekeeping, verdicts, settings, bounds>>

\* Mutant: the verdict on the last start is left in the row.
ClearNothing(v) ==
    /\ pc[v] = "clear"
    /\ Become(v, "enqueue")
    /\ UNCHANGED <<world, job, handler, late, housekeeping, retry, verdicts, settings, bounds>>

Clear(v) ==
    /\ pc[v] = "clear"
    /\ row' = IF row.state = "failed" THEN [row EXCEPT !.state = "stopped"] ELSE row
    /\ Become(v, "enqueue")
    /\ UNCHANGED <<box, job, handler, late, housekeeping, retry, verdicts, settings, bounds>>

AskStart(v) ==
    /\ pc[v] = "enqueue"
    /\ EnqueueStart
    /\ Become(v, "wait")
    /\ UNCHANGED <<world, handler, late, housekeeping, retry, verdicts, settings, bounds>>

Poll(v) ==
    /\ pc[v] = "wait"
    /\ \/ /\ row.state = "running"
          /\ Become(v, "reach")
          /\ Awake(v)
          /\ UNCHANGED retry
       \/ /\ row.state = "failed"
          /\ Answer(v)
    /\ UNCHANGED <<world, job, handler, late, housekeeping, settings, bounds>>

\* The budget is spent.  It outlasts the executor's wait for the container, so
\* while a start is pending that takes a retry or a long queue.
GiveUp(v) ==
    /\ pc[v] = "wait" /\ row.state \in {"stopped", "starting"}
    /\ IF "start" \in Pending THEN Trouble ELSE UNCHANGED bounds
    /\ Answer(v)
    /\ UNCHANGED <<world, job, handler, late, housekeeping, settings>>

\* The runtime is reached and answers, well or badly, or it is not there.
Reach(v) ==
    /\ pc[v] = "reach"
    /\ IF Up
       THEN /\ row' = [row EXCEPT !.recent = (row.state = "running")]
            /\ Answer(v)
       ELSE /\ Become(v, "gone")
            /\ UNCHANGED <<row, retry, verdicts>>
    /\ UNCHANGED <<box, job, handler, late, housekeeping, settings, bounds>>

\* markRuntimeGone, and a second attempt if the request can be sent again.
MarkGone(v) ==
    /\ pc[v] = "gone"
    /\ row' = IF row.state = "running" THEN Ended("stopped") ELSE row
    /\ IF retry[v]
       THEN /\ Become(v, "clear")
            /\ retry' = [retry EXCEPT ![v] = FALSE]
            /\ UNCHANGED verdicts
       ELSE Answer(v)
    /\ UNCHANGED <<box, job, handler, late, housekeeping, settings, bounds>>

-----------------------------------------------------------------------------
(* updateProjectLimits: the transaction looks at the row first, and its    *)
(* new limits and its stop job are seen when it commits.                   *)

ReadLimits ==
    /\ admin = "idle"
    /\ Request
    /\ admin' = IF row.state = "running" THEN "recycle" ELSE "leave"
    /\ UNCHANGED <<world, job, handler, late, housekeeping, visits, limits>>

CommitLimits ==
    /\ admin # "idle"
    /\ limits' = limits + 1
    /\ IF admin = "recycle" THEN EnqueueRerunnable("recycle") ELSE UNCHANGED job
    /\ admin' = "idle"
    /\ UNCHANGED <<world, handler, late, housekeeping, visits, bounds>>

-----------------------------------------------------------------------------
Init ==
    /\ row = Ended("stopped")
    /\ box = Down("none")
    /\ limits = 0
    /\ job = [j \in Job |-> "absent"]
    /\ exec = Null /\ step = "done" /\ plan = 0 /\ key = NoKey
    /\ late = "none"
    /\ keeper = "idle" /\ listed = FALSE
    /\ pc = [v \in Visitor |-> "idle"]
    /\ retry = [v \in Visitor |-> FALSE]
    /\ admin = "idle"
    /\ awaited = [j \in Job |-> {}]
    /\ heard = {} /\ misled = {}
    /\ requests = 0 /\ troubles = 0

StartRuntime ==
    EnsureStarted \/ ReadProject \/ MarkStarting \/ Launch \/ Probe \/ RecordRunning

StopRuntime ==
    StopContainer \/ Activate \/ RemoveContainers \/ RecordStopped

FailSubject == FailedContainer \/ FailedRow

Housekeeping == ListContainers \/ Reconcile \/ SweepIdle

Wake(v) == Clear(v) \/ AskStart(v) \/ Poll(v) \/ GiveUp(v) \/ Reach(v) \/ MarkGone(v)

Next ==
    \/ \E j \in Job : Claim(j) \/ SweepLease(j)
    \/ StartRuntime
    \/ StopRuntime
    \/ FailSubject
    \/ Succeed
    \/ HandlerFails
    \/ Crash
    \/ Housekeeping
    \/ NextHour
    \/ GrowOld
    \/ Die
    \/ \E v \in Visitor : Visit(v) \/ Wake(v)
    \/ Deploy
    \/ Render
    \/ ReadLimits
    \/ CommitLimits

Spec == Init /\ [][Next]_vars

\* The executor's workers and housekeeping go on, a request once begun goes on,
\* and time passes.  Nobody has to visit, and nothing has to fail.
Fairness ==
    /\ \A j \in Job : WF_vars(Claim(j)) /\ WF_vars(SweepLease(j))
    /\ WF_vars(StartRuntime \/ StopRuntime \/ Succeed)
    /\ WF_vars(FailSubject)
    /\ WF_vars(Housekeeping)
    /\ WF_vars(NextHour)
    /\ WF_vars(GrowOld)
    /\ \A v \in Visitor : WF_vars(Wake(v))
    /\ WF_vars(CommitLimits)

FairSpec == Spec /\ Fairness

-----------------------------------------------------------------------------
(* Properties.                                                             *)

RowType == [state : State, key : Key \cup {NoKey}, recent : BOOLEAN]

BoxType == [is : {"none", "up", "exited"}, key : Key \cup {NoKey}, limits : 0..limits]

BoxTyped ==
    /\ limits \in 0..MaxRequests
    /\ admin \in {"idle", "recycle", "leave"}
    /\ box \in BoxType
    /\ plan \in 0..limits

HandlerTyped ==
    /\ exec \in Job \cup {Null}
    /\ step \in Step
    /\ key \in Key \cup {NoKey}

VisitsTyped ==
    /\ pc \in [Visitor -> {"idle", "clear", "enqueue", "wait", "reach", "gone"}]
    /\ retry \in [Visitor -> BOOLEAN]
    /\ awaited \in [Job -> SUBSET Visitor]
    /\ heard \subseteq Visitor /\ misled \subseteq Visitor

\* The row is in a state the schema allows, and the limits a container has or a
\* handler read are ones the project has had (schema.ts 363-376).
TypeOK ==
    /\ row \in RowType
    /\ BoxTyped
    /\ job \in [Job -> JobStatus]
    /\ HandlerTyped
    /\ late \in {"none", "remove", "record"}
    /\ keeper \in {"idle", "listed", "sweep"} /\ listed \in BOOLEAN
    /\ VisitsTyped
    /\ requests \in 0..MaxRequests /\ troubles \in 0..MaxTroubles

\* The row has a secret exactly while it says running, and a runtime that is up
\* then was started with that secret: however starts, stops, late failure
\* reports, reconciliation and demotions overlap, the gateway does not send one
\* secret to a container that expects another (startRuntime, stopRuntime,
\* removeRuntime, failSubject, markRuntimeGone).
SecretMatches ==
    /\ row.state = "running" <=> row.key # NoKey
    /\ row.state = "running" /\ Up => box.key = row.key

\* A waiting visitor who reads `failed` reads a failure that was recorded after
\* his wake-up cleared the row, never one that was left in it (wakeRuntime: the
\* clearing comes before the enqueue).  It is that of a start that failed while
\* he was waiting, or, the one exemption, that of a start which was over before
\* he cleared the row and whose report came late (failSubject runs after the job
\* was handed back).
VerdictIsNews ==
    \A v \in Visitor :
        pc[v] = "wait" /\ row.state = "failed" => v \in heard \/ v \in misled

\* What gateway.ts 399-401 says of the same read: whatever is read as `failed`
\* can only be this attempt's, the failure of a start that he waited for.
VerdictIsOwn ==
    \A v \in Visitor : pc[v] = "wait" /\ row.state = "failed" => v \in heard

\* A site nobody visits any more does not keep its runtime: whatever else
\* happened to it, the row leaves `running` again and again (the idle sweep's
\* hourly key, reconcileRuntimeState).
IdleStopped ==
    <>[](\A v \in Visitor : pc[v] = "idle") => []<>(row.state # "running")

\* A site that is visited again and again is up again and again, whatever died,
\* failed, was stopped or demoted before: no state of the row, of the start job
\* or of the container is a trap (proxyFunction, wakeRuntime,
\* enqueueRuntimeStart, markRuntimeGone).
VisitsRevive ==
    []<>(\E v \in Visitor : pc[v] # "idle") => []<>(row.state = "running" /\ Up)

\* lib/admin.ts 561 says of a change of the limits that the next request brings the
\* runtime back under the new ones.  With no job left to do, a runtime that is up and
\* recorded as running has the project's limits.
LimitsApplied ==
    row.state = "running" /\ Up /\ Pending = {} /\ admin = "idle" => box.limits = limits
=============================================================================
