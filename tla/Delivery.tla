------------------------------ MODULE Delivery ------------------------------
(***************************************************************************)
(* Versions, deployments and the live version of one project: the requests *)
(* that create versions and deploy them (lib/projects.ts), the handlers    *)
(* that build, activate and prune (executor.ts), and what they do to the   *)
(* artifact trees on disk.                                                 *)
(*                                                                         *)
(* The job queue is taken as JobContract states it: one worker at a time   *)
(* executes a job of the project, and a crashed worker's job is reclaimed. *)
(* A build or a deployment that fails is not tried again.  failSubject     *)
(* runs after the job was handed back, beside whatever is claimed next.    *)
(*                                                                         *)
(* Versions and deployments are numbered in the order of their creation.   *)
(* A request repeated under its idempotency key changes nothing as long as *)
(* its job exists, and is left out.                                        *)
(***************************************************************************)
EXTENDS Naturals, FiniteSets

CONSTANTS
    MaxExtra,       \* bound: versions created beyond the limit
    MaxDeployments, \* bound: deployments requested
    MaxLimit,       \* bound: projects.version_limit
    MaxTroubles     \* bound: calls that fail, crashes

ASSUME DeliveryAssumption ==
    /\ MaxExtra \in Nat /\ MaxDeployments \in Nat
    /\ MaxLimit \in Nat \ {0} /\ MaxTroubles \in Nat

Version == 1..(MaxLimit + MaxExtra)

Deployment == 1..MaxDeployments

None == 0

B(v) == <<"build", v>>

D(d) == <<"deploy", d>>

Job == {B(v) : v \in Version} \cup {D(d) : d \in Deployment}

Idle == <<"idle", None>>

VersionStatus == {"none", "queued", "building", "ready", "failed", "pruned"}

DeploymentStatus == {"none", "queued", "deploying", "active", "failed"}

JobStatus == {"absent", "queued", "running", "succeeded", "failed"}

\* Where a handler is: in a build, in its pruning, in a deployment.
Step ==
    {"start", "make", "place", "record",
     "choose", "delete", "trees",
     "begin", "check", "activate", "done"}

VARIABLES
    \* tables
    version,    \* [Version -> VersionStatus], versions.status
    recorded,   \* versions with an artifact_path
    deployment, \* [Deployment -> DeploymentStatus], deployments.status
    of,         \* [Deployment -> Version or None], deployments.version_id
    current,    \* projects.current_version_id
    limit,      \* projects.version_limit
    job,        \* [Job -> JobStatus]
    \* files
    tree,       \* versions with a complete artifact tree
    \* the executor
    exec,       \* the job being executed, or Idle
    step,       \* the handler's position
    doomed,     \* pruneVersions: what it found, then the trees still to remove
    late,       \* failed jobs whose failSubject is still to come
    \* history and bounds
    activated,  \* deployments whose activation was committed
    last,       \* the one of them that was committed last
    swept,      \* deployments whose job was reclaimed
    rebuilt,    \* versions whose build was reclaimed after they were recorded, until
                \* it has recorded them once more
    troubles

deployments == <<deployment, of, current>>
files == <<recorded, tree>>
handler == <<exec, step, doomed>>
history == <<activated, last, swept, rebuilt>>
vars == <<version, files, deployments, limit, job, handler, late, history, troubles>>

Rows == {v \in Version : version[v] \notin {"none", "pruned"}}

Pending(j) == job[j] \in {"queued", "running"}

Trouble == troubles < MaxTroubles /\ troubles' = troubles + 1

-----------------------------------------------------------------------------
(* Requests.                                                               *)

\* Versions and deployments are numbered as they come.
NewVersion(v) ==
    /\ v <= limit + MaxExtra
    /\ version[v] = "none" /\ \A w \in 1..(v - 1) : version[w] # "none"

NewDeployment(d) == deployment[d] = "none" /\ \A e \in 1..(d - 1) : deployment[e] # "none"

\* The transaction of createVersion.
CreateVersion(v) ==
    /\ NewVersion(v)
    /\ version' = [version EXCEPT ![v] = "queued"]
    /\ job' = [job EXCEPT ![B(v)] = "queued"]
    /\ UNCHANGED <<files, deployments, limit, handler, late, history, troubles>>

\* The transaction of deploy, which holds the version's row.
Deploy(v, d) ==
    /\ version[v] = "ready"
    /\ NewDeployment(d)
    /\ deployment' = [deployment EXCEPT ![d] = "queued"]
    /\ of' = [of EXCEPT ![d] = v]
    /\ job' = [job EXCEPT ![D(d)] = "queued"]
    /\ UNCHANGED <<version, files, current, limit, handler, late, history, troubles>>

-----------------------------------------------------------------------------
(* Jobs.                                                                   *)

At(s) == exec # Idle /\ step = s

Goto(s) == step' = s /\ UNCHANGED <<exec, doomed>>

\* The handler is over, and its locals are gone.
Leave == exec' = Idle /\ step' = "done" /\ doomed' = {}

\* Mutant: the claim is not ordered by created_at.
ClaimAny(j) ==
    /\ exec = Idle
    /\ job[j] = "queued"
    /\ job' = [job EXCEPT ![j] = "running"]
    /\ exec' = j
    /\ step' = IF j[1] = "build" THEN "start" ELSE "begin"
    /\ UNCHANGED <<version, files, deployments, limit, doomed, late, history, troubles>>

\* The oldest job of the project goes first; a build may have to wait for the
\* heavy slot, so which kind is next is left open.
Claim(j) ==
    /\ exec = Idle
    /\ job[j] = "queued"
    /\ \A i \in Job : i[1] = j[1] /\ i[2] < j[2] => job[i] # "queued"
    /\ job' = [job EXCEPT ![j] = "running"]
    /\ exec' = j
    /\ step' = IF j[1] = "build" THEN "start" ELSE "begin"
    /\ UNCHANGED <<version, files, deployments, limit, doomed, late, history, troubles>>

Succeed ==
    /\ At("done")
    /\ job' = [job EXCEPT ![exec] = "succeeded"]
    /\ Leave
    /\ UNCHANGED <<version, files, deployments, limit, late, history, troubles>>

\* A handler throws: its job has failed for good, and the report is due.
Throw ==
    /\ job' = [job EXCEPT ![exec] = "failed"]
    /\ late' = late \cup {exec}
    /\ Leave

\* A source that does not build; a version that is not ready, a project
\* over its storage limit; a migration that fails.
Reject ==
    /\ At("make") \/ At("check") \/ At("activate")
    /\ Throw
    /\ UNCHANGED <<version, files, deployments, limit, history, troubles>>

\* A query, a call of Docker or of the file system fails.
HandlerFails ==
    /\ exec # Idle
    /\ Trouble
    /\ Throw
    /\ UNCHANGED <<version, files, deployments, limit, history>>

\* The executor dies, with the reports it had still to make.
Crash ==
    /\ exec # Idle \/ late # {}
    /\ Trouble
    /\ Leave
    /\ late' = {}
    /\ UNCHANGED <<version, files, deployments, limit, job, history>>

\* Mutant: only heavy jobs are reclaimed.
SweepBuild(j) ==
    /\ job[j] = "running" /\ exec # j /\ j[1] = "build"
    /\ job' = [job EXCEPT ![j] = "queued"]
    /\ rebuilt' = rebuilt \cup ({j[2]} \cap recorded)
    /\ UNCHANGED <<version, files, deployments, limit, handler, late, activated, last, swept, troubles>>

SweepLease(j) ==
    /\ job[j] = "running" /\ exec # j
    /\ job' = [job EXCEPT ![j] = "queued"]
    /\ IF j[1] = "deploy"
       THEN swept' = swept \cup {j[2]} /\ UNCHANGED rebuilt
       ELSE rebuilt' = rebuilt \cup ({j[2]} \cap recorded) /\ UNCHANGED swept
    /\ UNCHANGED <<version, files, deployments, limit, handler, late, activated, last, troubles>>

\* failSubject writes over whatever the version or the deployment has become.
FailSubject(j) ==
    /\ j \in late
    /\ late' = late \ {j}
    /\ IF j[1] = "build"
       THEN /\ version' = IF j[2] \in Rows THEN [version EXCEPT ![j[2]] = "failed"] ELSE version
            /\ UNCHANGED deployment
       ELSE /\ deployment' = [deployment EXCEPT ![j[2]] = "failed"]
            /\ UNCHANGED version
    /\ UNCHANGED <<files, of, current, limit, job, handler, history, troubles>>

-----------------------------------------------------------------------------
(* buildVersion.                                                           *)

\* Mutant: the job's status instead of the version's.
MarkBuildingError ==
    /\ At("start")
    /\ version' = [version EXCEPT ![exec[2]] = "running"]
    /\ Goto("make")
    /\ UNCHANGED <<files, deployments, limit, job, late, history, troubles>>

\* Mutant: a rebuild leaves the version ready.
MarkBuildingNew ==
    /\ At("start")
    /\ version' = [version EXCEPT ![exec[2]] = IF @ = "ready" THEN @ ELSE "building"]
    /\ Goto("make")
    /\ UNCHANGED <<files, deployments, limit, job, late, history, troubles>>

MarkBuilding ==
    /\ At("start")
    /\ version' = [version EXCEPT ![exec[2]] = "building"]
    /\ Goto("make")
    /\ UNCHANGED <<files, deployments, limit, job, late, history, troubles>>

\* Unpack, check, install, build, and assemble the tree beside its place; then
\* rm of the place, before the rename into it.
Make ==
    /\ At("make")
    /\ tree' = tree \ {exec[2]}
    /\ Goto("place")
    /\ UNCHANGED <<version, recorded, deployments, limit, job, late, history, troubles>>

PutInPlace ==
    /\ At("place")
    /\ tree' = tree \cup {exec[2]}
    /\ Goto("record")
    /\ UNCHANGED <<version, recorded, deployments, limit, job, late, history, troubles>>

RecordReady ==
    /\ At("record")
    /\ version' = [version EXCEPT ![exec[2]] = "ready"]
    /\ recorded' = recorded \cup {exec[2]}
    /\ rebuilt' = rebuilt \ {exec[2]}
    /\ Goto("choose")
    /\ UNCHANGED <<tree, deployments, limit, job, late, activated, last, swept, troubles>>

-----------------------------------------------------------------------------
(* pruneVersions.  The DELETE decides on the snapshot it started with, and *)
(* waits for the row of a version that a request has locked: a deployment  *)
(* committed in between is not seen by the decision.                       *)

\* Without a current version `v.id <> p.current_version_id` is never true.
Candidates ==
    {v \in Rows :
        /\ current \notin {None, v}
        /\ ~Pending(B(v))
        /\ \A d \in Deployment :
            of[d] = v => deployment[d] \notin {"queued", "deploying"} /\ ~Pending(D(d))}

\* OFFSET: the current version has a place of its own.
BeyondLimit(candidates) ==
    {v \in candidates : Cardinality({w \in candidates : w > v}) + 1 >= limit}

ChooseDoomed ==
    /\ At("choose")
    /\ doomed' = BeyondLimit(Candidates)
    /\ step' = "delete"
    /\ UNCHANGED <<version, files, deployments, limit, job, exec, late, history, troubles>>

\* The foreign keys take the jobs of a version with it, and leave its
\* deployments without one.
DeleteDoomed ==
    /\ At("delete")
    /\ version' = [v \in Version |-> IF v \in doomed THEN "pruned" ELSE version[v]]
    /\ job' = [j \in Job |->
                IF \/ j[1] = "build" /\ j[2] \in doomed
                   \/ j[1] = "deploy" /\ of[j[2]] \in doomed
                THEN "absent" ELSE job[j]]
    /\ of' = [d \in Deployment |-> IF of[d] \in doomed THEN None ELSE of[d]]
    /\ recorded' = recorded \ doomed
    /\ doomed' = doomed \cap recorded
    /\ step' = "trees"
    /\ UNCHANGED <<exec, tree, deployment, current, limit, late, history, troubles>>

\* Then, one after the other, the trees of the deleted rows that had one.
RemoveTree ==
    /\ At("trees")
    /\ IF doomed = {}
       THEN Goto("done") /\ UNCHANGED tree
       ELSE \E v \in doomed :
                /\ tree' = tree \ {v}
                /\ doomed' = doomed \ {v}
                /\ UNCHANGED <<exec, step>>
    /\ UNCHANGED <<version, recorded, deployments, limit, job, late, history, troubles>>

-----------------------------------------------------------------------------
(* deployVersion.                                                          *)

MarkDeploying ==
    /\ At("begin")
    /\ deployment' = [deployment EXCEPT ![exec[2]] = "deploying"]
    /\ Goto("check")
    /\ UNCHANGED <<version, files, of, current, limit, job, late, history, troubles>>

CheckReady ==
    /\ At("check")
    /\ version[of[exec[2]]] = "ready"
    /\ Goto("activate")
    /\ UNCHANGED <<version, files, deployments, limit, job, late, history, troubles>>

Activation(d, others) ==
    /\ current' = of[d]
    /\ deployment' = [e \in Deployment |->
                        IF e = d THEN "active"
                        ELSE IF e \in others /\ deployment[e] = "active" THEN "failed"
                        ELSE deployment[e]]
    /\ activated' = activated \cup {d}
    /\ last' = d

\* Mutant: the deployments before it are not superseded.
ActivateBeside ==
    /\ At("activate")
    /\ Activation(exec[2], {})
    /\ Goto("done")
    /\ UNCHANGED <<version, files, of, limit, job, late, swept, rebuilt, troubles>>

\* After the migrations, one transaction makes the version current and
\* supersedes the others.  What is left is to remove the old runtime.
Activate ==
    /\ At("activate")
    /\ Activation(exec[2], Deployment)
    /\ Goto("done")
    /\ UNCHANGED <<version, files, of, limit, job, late, swept, rebuilt, troubles>>

-----------------------------------------------------------------------------
Init ==
    /\ version = [v \in Version |-> "none"]
    /\ recorded = {}
    /\ deployment = [d \in Deployment |-> "none"]
    /\ of = [d \in Deployment |-> None]
    /\ current = None
    /\ limit \in 1..MaxLimit
    /\ job = [j \in Job |-> "absent"]
    /\ tree = {}
    /\ exec = Idle /\ step = "done" /\ doomed = {}
    /\ late = {}
    /\ activated = {} /\ last = None /\ swept = {} /\ rebuilt = {}
    /\ troubles = 0

Build == MarkBuilding \/ Make \/ PutInPlace \/ RecordReady

Prune == ChooseDoomed \/ DeleteDoomed \/ RemoveTree

Release == MarkDeploying \/ CheckReady \/ Activate

Next ==
    \/ \E v \in Version : CreateVersion(v)
    \/ \E v \in Version, d \in Deployment : Deploy(v, d)
    \/ \E j \in Job : Claim(j) \/ SweepLease(j) \/ FailSubject(j)
    \/ Build
    \/ Prune
    \/ Release
    \/ Succeed
    \/ Reject
    \/ HandlerFails
    \/ Crash

Spec == Init /\ [][Next]_vars

\* The executor's workers, sweeps and reports go on.  Nobody has to ask for
\* anything, and nothing has to fail.
Fairness ==
    /\ WF_vars(\E j \in Job : Claim(j))
    /\ WF_vars(\E j \in Job : SweepLease(j))
    /\ WF_vars(\E j \in Job : FailSubject(j))
    /\ WF_vars(Build \/ Prune \/ Release \/ Succeed \/ Reject)

FairSpec == Spec /\ Fairness

-----------------------------------------------------------------------------
(* Properties.                                                             *)

VersionsTyped ==
    /\ version \in [Version -> VersionStatus]
    /\ recorded \subseteq Version
    /\ tree \subseteq Version

DeploymentsTyped ==
    /\ deployment \in [Deployment -> DeploymentStatus]
    /\ of \in [Deployment -> Version \cup {None}]
    /\ current \in Version \cup {None}
    /\ limit \in 1..MaxLimit
    /\ activated \subseteq Deployment
    /\ last \in Deployment \cup {None}
    /\ swept \subseteq Deployment
    /\ rebuilt \subseteq Version

HandlerTyped ==
    /\ exec \in Job \cup {Idle}
    /\ step \in Step
    /\ doomed \subseteq Version
    /\ late \subseteq Job

\* Statuses are those the schema allows, and references are to versions and
\* deployments that were created, or null (schema.ts 264-361).
TypeOK ==
    /\ VersionsTyped
    /\ DeploymentsTyped
    /\ HandlerTyped
    /\ job \in [Job -> JobStatus]
    /\ troubles \in 0..MaxTroubles

\* A version that may be deployed or previewed has its artifact recorded and in
\* its place, whatever rebuilds after a lost lease, late failure reports and
\* prunings of other versions do (buildVersion, pruneVersions).
ReadyIsComplete ==
    \A v \in Version : version[v] = "ready" => v \in tree \cap recorded

\* The live version keeps its row and its artifact's path, which is all the
\* gateway looks at, whatever the status says, and the files under that path are
\* in their place, but for the one exemption: a second build of it, whose job was
\* reclaimed after it was recorded, has them away until it has put its own there and
\* recorded the version again (pruneVersions, deployVersion, buildVersion, gateway.ts 191-198).
CurrentIsKept ==
    current # None => /\ current \in Rows \cap recorded
                      /\ current \in tree \/ current \in rebuilt

\* What the gateway may serve, as a preview or live, is there, with the exemption
\* of CurrentIsKept (gateway.ts 174-209).
VersionsAreServable == ReadyIsComplete /\ CurrentIsKept

\* What the comment at executor.ts 581-583 says of any second build: it can never
\* delete the output of the first one half-way through.  The live version has its
\* files.
LiveIsThere == current # None => current \in tree

\* The live version is that of the activation committed last.  No other
\* deployment says active, and this one does if its job succeeded (deployVersion
\* over retries, reports of failures that come after the activation, pruning).
LiveIsAccounted ==
    /\ current # None =>
        /\ last # None
        /\ of[last] = current
        /\ job[D(last)] = "succeeded" => deployment[last] = "active"
    /\ \A d \in Deployment : deployment[d] = "active" => d = last

\* Of two activations the one asked for later stays, unless the earlier one was
\* done again because its worker was lost (the claim's ORDER BY created_at).
LatestStays ==
    \A d \in activated : d > last => last \in swept

\* Nobody is left to decide on a deployment: its version was pruned together
\* with its job, or its worker died before it reported the failure.
Forsaken(d) == of[d] = None \/ (job[D(d)] = "failed" /\ D(d) \notin late)

\* Every deployment that was asked for ends as active or failed, through
\* crashes, failures and queues, or is one of the two kinds that are forsaken
\* (deployVersion, failSubject, the sweep).
DeploymentSettles ==
    \A d \in Deployment :
        deployment[d] \in {"queued", "deploying"}
            ~> deployment[d] \in {"active", "failed"} \/ Forsaken(d)
=============================================================================
