--------------------------- MODULE DeliveryProofs ---------------------------
EXTENDS Delivery, TLAPS

-----------------------------------------------------------------------------
(* Jobs are told apart by their kind and number; the rest of the module     *)
(* keeps B, D and Job folded.                                               *)

LEMMA JobsDiffer ==
  /\ \A v \in Version : B(v) \in Job /\ B(v)[1] = "build" /\ B(v)[2] = v
  /\ \A d \in Deployment : D(d) \in Job /\ D(d)[1] = "deploy" /\ D(d)[2] = d
  /\ \A j \in Job : \/ j[1] = "build" /\ j[2] \in Version /\ j = B(j[2])
                    \/ j[1] = "deploy" /\ j[2] \in Deployment /\ j = D(j[2])
  /\ Idle \notin Job
  BY DEF Job, B, D, Idle

BuildStep == {"start", "make", "place", "record", "choose", "delete", "trees", "done"}

DeployStep == {"begin", "check", "activate", "done"}

\* A handler is at a step of its own.
Position == exec # Idle => step \in (IF exec[1] = "build" THEN BuildStep ELSE DeployStep)

TypeInv == TypeOK /\ Position

LEMMA BuildsVersion ==
  ASSUME TypeInv, exec # Idle, step \in BuildStep \ {"done"}
  PROVE  exec[1] = "build" /\ exec[2] \in Version /\ exec = B(exec[2])
  BY JobsDiffer DEF TypeInv, TypeOK, HandlerTyped, Position, BuildStep, DeployStep

LEMMA DeploysDeployment ==
  ASSUME TypeInv, exec # Idle, step \in DeployStep \ {"done"}
  PROVE  exec[1] = "deploy" /\ exec[2] \in Deployment /\ exec = D(exec[2])
  BY JobsDiffer DEF TypeInv, TypeOK, HandlerTyped, Position, BuildStep, DeployStep

-----------------------------------------------------------------------------
(* Type correctness.                                                        *)

LEMMA RequestTyped ==
  ASSUME TypeInv,
         (\E v \in Version : CreateVersion(v)) \/ (\E v \in Version, d \in Deployment : Deploy(v, d))
  PROVE  TypeInv'
  <1> USE DEF TypeInv, TypeOK, VersionsTyped, DeploymentsTyped, HandlerTyped, Position
  <1>1. ASSUME NEW v \in Version, CreateVersion(v) PROVE TypeInv'
    BY <1>1 DEF CreateVersion, VersionStatus, JobStatus, files, deployments, handler, history
  <1>2. ASSUME NEW v \in Version, NEW d \in Deployment, Deploy(v, d) PROVE TypeInv'
    BY <1>2 DEF Deploy, DeploymentStatus, JobStatus, files, handler, history
  <1>3. QED
    BY <1>1, <1>2

LEMMA ThrowTyped ==
  ASSUME TypeInv, exec # Idle, Throw
  PROVE  HandlerTyped' /\ Position' /\ job' \in [Job -> JobStatus]
  BY DEF TypeInv, TypeOK, HandlerTyped, Position, Throw, Leave, Step, JobStatus

LEMMA DispatchTyped ==
  ASSUME TypeInv,
         \/ \E j \in Job : Claim(j) \/ SweepLease(j) \/ FailSubject(j)
         \/ Succeed \/ Reject \/ HandlerFails \/ Crash
  PROVE  TypeInv'
  <1> USE DEF TypeInv, TypeOK, VersionsTyped, DeploymentsTyped
  <1>1. ASSUME NEW j \in Job, Claim(j) PROVE TypeInv'
    BY <1>1 DEF Claim, HandlerTyped, Position, BuildStep, DeployStep, Step, JobStatus, files,
       deployments, history
  <1>2. ASSUME NEW j \in Job, SweepLease(j) PROVE TypeInv'
    BY <1>2, JobsDiffer DEF SweepLease, HandlerTyped, Position, JobStatus, files, deployments, handler
  <1>3. ASSUME NEW j \in Job, FailSubject(j) PROVE TypeInv'
    BY <1>3 DEF FailSubject, HandlerTyped, Position, VersionStatus, DeploymentStatus, files,
       deployments, handler, history
  <1>4. CASE Succeed
    BY <1>4 DEF Succeed, Leave, HandlerTyped, Position, Step, JobStatus, files, deployments, history
  <1>5. CASE Reject
    BY <1>5, ThrowTyped DEF Reject, At, files, deployments, history
  <1>6. CASE HandlerFails
    BY <1>6, ThrowTyped, DeliveryAssumption DEF HandlerFails, Trouble, files, deployments, history
  <1>7. CASE Crash
    BY <1>7, DeliveryAssumption DEF Crash, Trouble, Leave, HandlerTyped, Position, Step, files,
       deployments, history
  <1>8. QED
    BY <1>1, <1>2, <1>3, <1>4, <1>5, <1>6, <1>7

LEMMA HandlerStepTyped ==
  ASSUME TypeInv, Build \/ Prune \/ Release
  PROVE  TypeInv'
  <1> USE DEF TypeInv, TypeOK, VersionsTyped, DeploymentsTyped, HandlerTyped, Position, BuildStep,
      DeployStep, Step, At, Goto, files, deployments, history
  <1>1. CASE MarkBuilding
    BY <1>1, BuildsVersion DEF MarkBuilding, VersionStatus
  <1>2. CASE Make
    BY <1>2, BuildsVersion DEF Make
  <1>3. CASE PutInPlace
    BY <1>3, BuildsVersion DEF PutInPlace
  <1>4. CASE RecordReady
    BY <1>4, BuildsVersion DEF RecordReady, VersionStatus
  <1>5. CASE ChooseDoomed
    <2>1. doomed' \subseteq Version
      BY <1>5 DEF ChooseDoomed, BeyondLimit, Candidates, Rows
    <2>2. QED
      BY <1>5, <2>1, BuildsVersion DEF ChooseDoomed
  <1>6. CASE DeleteDoomed
    <2>1. version' \in [Version -> VersionStatus] /\ recorded' \subseteq Version
      BY <1>6 DEF DeleteDoomed, VersionStatus
    <2>2. job' \in [Job -> JobStatus]
      BY <1>6 DEF DeleteDoomed, JobStatus
    <2>3. of' \in [Deployment -> Version \cup {None}]
      BY <1>6 DEF DeleteDoomed
    <2>4. QED
      BY <1>6, <2>1, <2>2, <2>3, BuildsVersion DEF DeleteDoomed
  <1>7. CASE RemoveTree
    BY <1>7, BuildsVersion DEF RemoveTree
  <1>8. CASE MarkDeploying
    BY <1>8, DeploysDeployment DEF MarkDeploying, DeploymentStatus
  <1>9. CASE CheckReady
    BY <1>9, DeploysDeployment DEF CheckReady
  <1>10. CASE Activate
    BY <1>10, DeploysDeployment DEF Activate, Activation, DeploymentStatus
  <1>11. QED
    BY <1>1, <1>2, <1>3, <1>4, <1>5, <1>6, <1>7, <1>8, <1>9, <1>10 DEF Build, Prune, Release

LEMMA TypeStep ==
  ASSUME TypeInv, [Next]_vars
  PROVE  TypeInv'
  <1>1. CASE UNCHANGED vars
    BY <1>1 DEF vars, TypeInv, TypeOK, VersionsTyped, DeploymentsTyped, HandlerTyped, Position,
       files, deployments, handler, history
  <1>2. CASE Next
    BY <1>2, RequestTyped, DispatchTyped, HandlerStepTyped DEF Next
  <1>3. QED
    BY <1>1, <1>2

LEMMA TypeStart ==
  ASSUME Init
  PROVE  TypeInv
  BY DeliveryAssumption DEF Init, TypeInv, TypeOK, VersionsTyped, DeploymentsTyped, HandlerTyped,
     Position, VersionStatus, DeploymentStatus, JobStatus, Step

\* Type correctness: versions, deployments, jobs and the handler keep their
\* types, for any limit and any number of versions, deployments and troubles.
THEOREM TypeCorrect == Spec => []TypeOK
  <1>1. Spec => []TypeInv
    BY TypeStart, TypeStep, PTL DEF Spec
  <1>2. TypeInv => TypeOK
    BY DEF TypeInv
  <1>3. QED
    BY <1>1, <1>2, PTL

-----------------------------------------------------------------------------
(* Artifacts and the live version.  A pending job keeps its version in the  *)
(* table, which is what pruning relies on; a handler knows of its version   *)
(* what its position says.                                                  *)

JobsHold ==
    /\ exec # Idle => job[exec] = "running"
    /\ \A v \in Version : Pending(B(v)) => v \in Rows
    /\ \A d \in Deployment : Pending(D(d)) => of[d] \in Rows

\* Nothing is known of a deployment before it is asked for.
Fresh ==
    \A d \in Deployment : deployment[d] = "none" =>
        job[D(d)] = "absent" /\ D(d) \notin late /\ d \notin activated

\* While its tree is away a version is not ready, and recorded only with it.
Making ==
    /\ At("make") \/ At("place") \/ At("record") => version[exec[2]] # "ready"
    /\ At("record") => exec[2] \in tree

\* What pruneVersions found stays idle until it is deleted, and what it deleted
\* stays deleted.
Chosen ==
    /\ At("delete") => \A v \in doomed : v \in Rows /\ v # current /\ ~Pending(B(v))
    /\ At("trees") => \A v \in doomed : version[v] = "pruned"

\* Where the build of a version has a tree to take away or to put in place.
Replacing == {"start", "make", "place", "record"}

\* What is recorded is in its place and will not be built again, unless its
\* build was reclaimed.
Rebuilt ==
    \A v \in recorded :
        /\ v \in Rows
        /\ \/ v \in rebuilt
           \/ /\ v \in tree
              /\ job[B(v)] # "queued"
              /\ ~(exec = B(v) /\ step \in Replacing)

Activating == At("activate") => of[exec[2]] \in recorded

Complete == ReadyIsComplete /\ CurrentIsKept

KeptInv == JobsHold /\ Fresh /\ Making /\ Chosen /\ Rebuilt /\ Activating /\ Complete

LEMMA KeptRequest ==
  ASSUME TypeInv, KeptInv,
         (\E v \in Version : CreateVersion(v)) \/ (\E v \in Version, d \in Deployment : Deploy(v, d))
  PROVE  KeptInv'
  <1> USE DEF TypeInv, TypeOK, VersionsTyped, DeploymentsTyped, KeptInv, Complete, ReadyIsComplete,
      CurrentIsKept, Activating, At, files, handler
  <1>1. ASSUME NEW v \in Version, CreateVersion(v) PROVE KeptInv'
    <2> USE <1>1 DEF CreateVersion, NewVersion, deployments
    <2>1. Rows' = Rows \cup {v} /\ v \notin Rows
      BY DEF Rows
    <2>2. JobsHold'
      BY <2>1, JobsDiffer DEF JobsHold, Pending, HandlerTyped
    <2>3. Making'
      BY BuildsVersion DEF Making, BuildStep
    <2>4. Chosen'
      BY <2>1, JobsDiffer DEF Chosen, Pending, HandlerTyped
    <2>5. Fresh'
      BY JobsDiffer DEF Fresh, history
    <2>6. Rebuilt'
      BY <2>1, JobsDiffer DEF Rebuilt, history
    <2>7. QED
      BY <2>1, <2>2, <2>3, <2>4, <2>5, <2>6 DEF history
  <1>2. ASSUME NEW v \in Version, NEW d \in Deployment, Deploy(v, d) PROVE KeptInv'
    <2> USE <1>2 DEF Deploy, NewDeployment
    <2>1. Rows' = Rows /\ v \in Rows
      BY DEF Rows
    <2>2. JobsHold'
      <3>1. exec # Idle => job'[exec] = "running"
        BY JobsDiffer DEF JobsHold, Fresh, HandlerTyped
      <3>2. QED
        BY <2>1, <3>1, JobsDiffer DEF JobsHold, Pending
    <2>3. Making' /\ Chosen'
      BY <2>1, JobsDiffer DEF Making, Chosen, Pending, HandlerTyped
    <2>4. Activating'
      BY DeploysDeployment DEF DeployStep
    <2>5. Fresh'
      BY JobsDiffer DEF Fresh, history
    <2>6. Rebuilt'
      BY <2>1, JobsDiffer DEF Rebuilt, history
    <2>7. QED
      BY <2>1, <2>2, <2>3, <2>4, <2>5, <2>6 DEF history
  <1>3. QED
    BY <1>1, <1>2

\* A handler that leaves has no position any more.
LEMMA KeptLeave ==
  ASSUME TypeInv, KeptInv, exec # Idle, Leave,
         UNCHANGED <<version, files, deployments, activated, rebuilt>>,
         NEW s \in {"running", "succeeded", "failed"}, job' = [job EXCEPT ![exec] = s],
         late' \in {late, late \cup {exec}}
  PROVE  KeptInv'
  <1> USE DEF TypeInv, TypeOK, HandlerTyped, KeptInv, files, deployments
  <1>1. Rows' = Rows
    BY DEF Rows
  <1>2. JobsHold'
    BY <1>1, JobsDiffer DEF JobsHold, Pending, Leave
  <1>3. Fresh'
    BY JobsDiffer DEF JobsHold, Fresh
  <1>4. Making' /\ Chosen' /\ Activating'
    BY DEF Making, Chosen, Activating, At, Leave
  <1>5. Rebuilt'
    BY <1>1, JobsDiffer DEF Rebuilt, Leave, VersionsTyped
  <1>6. QED
    BY <1>1, <1>2, <1>3, <1>4, <1>5 DEF Complete, ReadyIsComplete, CurrentIsKept

LEMMA KeptDispatch ==
  ASSUME TypeInv, KeptInv,
         \/ \E j \in Job : Claim(j) \/ SweepLease(j) \/ FailSubject(j)
         \/ Succeed \/ Reject \/ HandlerFails \/ Crash
  PROVE  KeptInv'
  <1> USE DEF TypeInv, TypeOK, VersionsTyped, DeploymentsTyped, HandlerTyped
  <1>1. ASSUME NEW j \in Job, Claim(j) \/ SweepLease(j) PROVE KeptInv'
    <2> USE <1>1 DEF Claim, SweepLease, KeptInv, files, deployments, handler, history
    <2>1. Rows' = Rows
      BY DEF Rows
    <2>2. JobsHold' /\ Fresh'
      BY <2>1, JobsDiffer DEF JobsHold, Fresh, Pending
    <2>3. Making' /\ Activating'
      BY DEF Making, Activating, At
    <2>4. Chosen'
      BY <2>1, JobsDiffer DEF Chosen, At, Pending
    <2>5. Rebuilt'
      <3>1. CASE Claim(j)
        BY <2>1, <3>1, JobsDiffer DEF Rebuilt
      <3>2. CASE SweepLease(j)
        BY <2>1, <3>2, JobsDiffer DEF Rebuilt
      <3>3. QED
        BY <3>1, <3>2
    <2>6. rebuilt \subseteq rebuilt'
      OBVIOUS
    <2>7. QED
      BY <2>1, <2>2, <2>3, <2>4, <2>5, <2>6 DEF Complete, ReadyIsComplete, CurrentIsKept
  <1>2. ASSUME NEW j \in Job, FailSubject(j) PROVE KeptInv'
    <2> USE <1>2 DEF FailSubject, KeptInv, files, handler, history
    <2>1. Rows' = Rows /\ (\A v \in Version : version'[v] \in {version[v], "failed"})
      BY DEF Rows
    <2>2. \A v \in Version : version[v] = "pruned" => version'[v] = "pruned"
      BY DEF Rows
    <2>3. JobsHold' /\ Fresh'
      BY <2>1, JobsDiffer DEF JobsHold, Fresh, Pending
    <2>4. Making'
      BY <2>1, BuildsVersion DEF Making, At, BuildStep, TypeInv
    <2>5. Chosen' /\ Activating'
      BY <2>1, <2>2 DEF Chosen, Activating, At, Pending
    <2>6. Rebuilt'
      BY <2>1 DEF Rebuilt
    <2>7. QED
      BY <2>1, <2>3, <2>4, <2>5, <2>6 DEF Complete, ReadyIsComplete, CurrentIsKept
  <1>3. CASE Succeed
    BY <1>3, KeptLeave DEF Succeed, At, history
  <1>4. CASE Reject \/ HandlerFails
    BY <1>4, KeptLeave DEF Reject, HandlerFails, Throw, At, history
  <1>5. CASE Crash
    <2> USE <1>5 DEF Crash, Leave, KeptInv, files, deployments, history
    <2>1. Rows' = Rows
      BY DEF Rows
    <2>2. JobsHold' /\ Fresh'
      BY <2>1 DEF JobsHold, Fresh, Pending
    <2>3. Rebuilt'
      BY <2>1, JobsDiffer DEF Rebuilt
    <2>4. QED
      BY <2>1, <2>2, <2>3 DEF Making, Chosen, Activating, At, Complete, ReadyIsComplete, CurrentIsKept
  <1>6. QED
    BY <1>1, <1>2, <1>3, <1>4, <1>5

LEMMA KeptBuild ==
  ASSUME TypeInv, KeptInv, Build
  PROVE  KeptInv'
  <1> USE DEF TypeInv, TypeOK, VersionsTyped, DeploymentsTyped, HandlerTyped, KeptInv, Goto, files,
      deployments, history
  <1>1. exec # Idle /\ exec[1] = "build" /\ exec[2] \in Version /\ exec = B(exec[2])
    BY BuildsVersion DEF Build, MarkBuilding, Make, PutInPlace, RecordReady, At, BuildStep
  <1>2. exec[2] \in Rows
    BY <1>1 DEF JobsHold, Pending
  <1>3. CASE MarkBuilding
    <2>1. Rows' = Rows
      BY <1>1, <1>2, <1>3 DEF MarkBuilding, Rows
    <2>2. JobsHold' /\ Fresh'
      BY <1>3, <2>1 DEF MarkBuilding, JobsHold, Fresh, Pending
    <2>3. Making' /\ Chosen' /\ Activating'
      BY <1>1, <1>3 DEF MarkBuilding, Making, Chosen, Activating, At
    <2>4. Rebuilt'
      BY <1>1, <1>3, <2>1 DEF MarkBuilding, Rebuilt, Replacing, At
    <2>5. QED
      BY <1>1, <1>3, <2>1, <2>2, <2>3, <2>4 DEF MarkBuilding, Complete, ReadyIsComplete, CurrentIsKept
  <1>4. CASE Make \/ PutInPlace
    <2>1. Rows' = Rows
      BY <1>4 DEF Make, PutInPlace, Rows
    <2>2. JobsHold' /\ Fresh'
      BY <1>4, <2>1 DEF Make, PutInPlace, JobsHold, Fresh, Pending
    <2>3. Making' /\ Chosen' /\ Activating'
      BY <1>1, <1>4 DEF Make, PutInPlace, Making, Chosen, Activating, At
    <2>4. Rebuilt'
      BY <1>1, <1>4, <2>1 DEF Make, PutInPlace, Rebuilt, Replacing, At
    <2>5. ReadyIsComplete'
      BY <1>1, <1>4 DEF Make, PutInPlace, Making, Complete, ReadyIsComplete, At
    <2>6. CurrentIsKept'
      BY <1>4, <2>1, <2>4 DEF Make, PutInPlace, Rebuilt, Complete, CurrentIsKept
    <2>7. QED
      BY <2>2, <2>3, <2>4, <2>5, <2>6 DEF Complete
  <1>5. CASE RecordReady
    <2>1. Rows' = Rows
      BY <1>1, <1>2, <1>5 DEF RecordReady, Rows
    <2>2. JobsHold' /\ Fresh'
      BY <1>5, <2>1 DEF RecordReady, JobsHold, Fresh, Pending
    <2>3. Making' /\ Chosen' /\ Activating'
      BY <1>1, <1>5 DEF RecordReady, Making, Chosen, Activating, At
    <2>4. Rebuilt'
      BY <1>1, <1>2, <1>5, <2>1 DEF RecordReady, Making, JobsHold, Rebuilt, Replacing, At
    <2>5. QED
      BY <1>1, <1>5, <2>1, <2>2, <2>3, <2>4 DEF RecordReady, Making, Complete, ReadyIsComplete,
         CurrentIsKept, At
  <1>6. QED
    BY <1>3, <1>4, <1>5 DEF Build

\* The decision of a pruning: versions without pending work, not the live one.
LEMMA DoomedIdle ==
  ASSUME NEW v \in BeyondLimit(Candidates)
  PROVE  v \in Rows /\ v # current /\ ~Pending(B(v))
  BY DEF BeyondLimit, Candidates

LEMMA KeptPrune ==
  ASSUME TypeInv, KeptInv, Prune
  PROVE  KeptInv'
  <1> USE DEF TypeInv, TypeOK, VersionsTyped, DeploymentsTyped, HandlerTyped, KeptInv, files,
      deployments, history
  <1>1. exec # Idle /\ exec[1] = "build" /\ exec[2] \in Version /\ exec = B(exec[2])
    BY BuildsVersion DEF Prune, ChooseDoomed, DeleteDoomed, RemoveTree, At, BuildStep
  <1>2. CASE ChooseDoomed
    <2>1. Rows' = Rows
      BY <1>2 DEF ChooseDoomed, Rows
    <2>2. JobsHold' /\ Fresh'
      BY <1>2, <2>1 DEF ChooseDoomed, JobsHold, Fresh, Pending
    <2>3. Chosen'
      BY <1>2, <2>1, DoomedIdle DEF ChooseDoomed, Chosen, At, Pending
    <2>4. Rebuilt'
      BY <1>1, <1>2, <2>1 DEF ChooseDoomed, Rebuilt, Replacing, At
    <2>5. QED
      BY <1>2, <2>1, <2>2, <2>3, <2>4 DEF ChooseDoomed, Making, Activating, At, Complete,
         ReadyIsComplete, CurrentIsKept
  <1>3. CASE DeleteDoomed
    <2>1. /\ \A v \in doomed : v \in Rows /\ v # current /\ ~Pending(B(v))
          /\ exec[2] \notin doomed
      BY <1>1, <1>3 DEF DeleteDoomed, Chosen, JobsHold, Pending
    <2>2. /\ Rows' = Rows \ doomed
          /\ \A v \in Version : version'[v] = "ready" => version[v] = "ready" /\ v \notin doomed
          /\ \A v \in doomed : version'[v] = "pruned"
      BY <1>3 DEF DeleteDoomed, Rows
    <2>3. /\ \A v \in Version : job'[B(v)] = IF v \in doomed THEN "absent" ELSE job[B(v)]
          /\ \A d \in Deployment : job'[D(d)] = IF of[d] \in doomed THEN "absent" ELSE job[D(d)]
          /\ \A d \in Deployment : of'[d] = IF of[d] \in doomed THEN None ELSE of[d]
      BY <1>3, JobsDiffer DEF DeleteDoomed
    <2>4. JobsHold'
      <3>1. exec' = exec /\ job'[exec] = "running"
        BY <1>1, <1>3, <2>1, <2>3 DEF DeleteDoomed, JobsHold
      <3>2. QED
        BY <2>2, <2>3, <3>1 DEF JobsHold, Pending
    <2>5. Fresh'
      BY <1>3, <2>3 DEF DeleteDoomed, Fresh
    <2>6. Making' /\ Chosen' /\ Activating'
      BY <1>3, <2>2 DEF DeleteDoomed, Making, Chosen, Activating, At
    <2>7. Rebuilt'
      BY <1>1, <1>3, <2>2, <2>3 DEF DeleteDoomed, Rebuilt, Replacing, At
    <2>8. QED
      BY <1>3, <2>1, <2>2, <2>4, <2>5, <2>6, <2>7 DEF DeleteDoomed, Complete, ReadyIsComplete,
         CurrentIsKept
  <1>4. CASE RemoveTree
    <2>1. Rows' = Rows
      BY <1>4 DEF RemoveTree, Rows
    <2>2. JobsHold' /\ Fresh'
      BY <1>4, <2>1 DEF RemoveTree, Goto, JobsHold, Fresh, Pending
    <2>3. Making' /\ Chosen' /\ Activating'
      BY <1>4 DEF RemoveTree, Goto, Making, Chosen, Activating, At
    <2>4. \A v \in Version : version[v] = "ready" => (v \in tree => v \in tree')
      BY <1>4 DEF RemoveTree, Chosen, At
    <2>5. \A v \in recorded : v \in tree => v \in tree'
      BY <1>4 DEF RemoveTree, Chosen, Rebuilt, Rows, At
    <2>6. Rebuilt'
      BY <1>4, <2>1, <2>5 DEF RemoveTree, Goto, Rebuilt, Replacing, At
    <2>7. QED
      BY <1>4, <2>1, <2>2, <2>3, <2>4, <2>5, <2>6
         DEF RemoveTree, Complete, ReadyIsComplete, CurrentIsKept
  <1>5. QED
    BY <1>2, <1>3, <1>4 DEF Prune

LEMMA KeptRelease ==
  ASSUME TypeInv, KeptInv, Release
  PROVE  KeptInv'
  <1> USE DEF TypeInv, TypeOK, VersionsTyped, DeploymentsTyped, HandlerTyped, KeptInv, Goto, files,
      deployments, history
  <1>1. exec # Idle /\ exec[1] = "deploy" /\ exec[2] \in Deployment /\ exec = D(exec[2])
    BY DeploysDeployment DEF Release, MarkDeploying, CheckReady, Activate, At, DeployStep
  <1>2. of[exec[2]] \in Rows
    BY <1>1 DEF JobsHold, Pending
  <1>3. Rows' = Rows
    BY DEF Release, MarkDeploying, CheckReady, Activate, Rows
  <1>4. JobsHold'
    BY <1>3 DEF Release, MarkDeploying, CheckReady, Activate, Activation, JobsHold, Pending
  <1>5. Fresh'
    <2>1. deployment[exec[2]] # "none"
      BY <1>1 DEF Fresh, JobsHold
    <2>2. QED
      BY <1>1, <2>1 DEF Release, MarkDeploying, CheckReady, Activate, Activation, Fresh
  <1>6. Making' /\ Chosen'
    BY DEF Release, MarkDeploying, CheckReady, Activate, Making, Chosen, At
  <1>7. Activating'
    BY <1>1, <1>2 DEF Release, MarkDeploying, CheckReady, Activate, Activating, At, Complete,
       ReadyIsComplete, Rows
  <1>8. Complete'
    <2>1. ReadyIsComplete'
      BY DEF Release, MarkDeploying, CheckReady, Activate, Complete, ReadyIsComplete
    <2>2. CurrentIsKept'
      BY <1>1, <1>2, <1>3 DEF Release, MarkDeploying, CheckReady, Activate, Activation, Activating,
         Complete, CurrentIsKept, Rebuilt, At
    <2>3. QED
      BY <2>1, <2>2 DEF Complete
  <1>9. Rebuilt'
    BY <1>1, <1>3, JobsDiffer DEF Release, MarkDeploying, CheckReady, Activate, Rebuilt
  <1>10. QED
    BY <1>4, <1>5, <1>6, <1>7, <1>8, <1>9

LEMMA KeptStep ==
  ASSUME TypeInv, KeptInv, [Next]_vars
  PROVE  KeptInv'
  <1>1. CASE UNCHANGED vars
    BY <1>1 DEF vars, KeptInv, JobsHold, Fresh, Making, Chosen, Rebuilt, Activating, Complete,
       ReadyIsComplete, CurrentIsKept, Rows, Pending, At, files, deployments, handler, history
  <1>2. CASE Next
    BY <1>2, KeptRequest, KeptDispatch, KeptBuild, KeptPrune, KeptRelease DEF Next
  <1>3. QED
    BY <1>1, <1>2

LEMMA KeptStart ==
  ASSUME Init
  PROVE  KeptInv
  BY JobsDiffer DEF Init, KeptInv, JobsHold, Fresh, Making, Chosen, Rebuilt, Activating, Complete,
     ReadyIsComplete, CurrentIsKept, Pending, At, None

LEMMA AlwaysKept == Spec => [](TypeInv /\ KeptInv)
  BY TypeStart, TypeStep, KeptStart, KeptStep, PTL DEF Spec

\* A version that may be deployed or previewed always has its artifact recorded
\* and in its place, over lost leases, rebuilds, late reports and prunings.
THEOREM ReadyComplete == Spec => []ReadyIsComplete
  <1>1. KeptInv => ReadyIsComplete
    BY DEF KeptInv, Complete
  <1>2. QED
    BY <1>1, AlwaysKept, PTL

\* The live version is never pruned and never without its artifact's path, and its
\* files are in their place unless its build was reclaimed after it was recorded
\* (executor.ts 620-630, 2351-2377).
THEOREM CurrentKept == Spec => []CurrentIsKept
  <1>1. KeptInv => CurrentIsKept
    BY DEF KeptInv, Complete
  <1>2. QED
    BY <1>1, AlwaysKept, PTL

\* Both at once: what a preview finds in the table is there to be served, and so is
\* the live version, unless its build was reclaimed and is done a second time: then
\* only its row and its path are sure (gateway.ts 174-209).
THEOREM ServableVersions == Spec => []VersionsAreServable
  BY ReadyComplete, CurrentKept, PTL DEF VersionsAreServable

-----------------------------------------------------------------------------
(* The account of the live version.  A failure report can only be about a   *)
(* deployment whose job will not succeed any more.                          *)

Reported == \A d \in Deployment : D(d) \in late => job[D(d)] \in {"failed", "absent"}

Finished == At("done") /\ exec[1] = "deploy" => last = exec[2] /\ deployment[last] = "active"

AccountInv == Reported /\ Finished /\ last \in activated \cup {None} /\ LiveIsAccounted

LEMMA AccountRequest ==
  ASSUME TypeInv, KeptInv, AccountInv,
         (\E v \in Version : CreateVersion(v)) \/ (\E v \in Version, d \in Deployment : Deploy(v, d))
  PROVE  AccountInv'
  <1> USE DEF TypeInv, TypeOK, VersionsTyped, DeploymentsTyped, HandlerTyped, AccountInv, At, handler
  <1>1. ASSUME NEW v \in Version, CreateVersion(v) PROVE AccountInv'
    <2>1. \A d \in Deployment : job'[D(d)] = job[D(d)]
      BY <1>1, JobsDiffer DEF CreateVersion
    <2>2. QED
      BY <1>1, <2>1 DEF CreateVersion, Reported, Finished, LiveIsAccounted, deployments, history, None
  <1>2. ASSUME NEW v \in Version, NEW d \in Deployment, Deploy(v, d) PROVE AccountInv'
    <2>1. d # last /\ D(d) \notin late /\ (exec # Idle /\ exec[1] = "deploy" => exec[2] # d)
      BY <1>2, JobsDiffer DEF Deploy, NewDeployment, KeptInv, Fresh, JobsHold, None, Deployment
    <2>2. \A e \in Deployment \ {d} :
            job'[D(e)] = job[D(e)] /\ of'[e] = of[e] /\ deployment'[e] = deployment[e]
      BY <1>2, JobsDiffer DEF Deploy
    <2>3. deployment'[d] = "queued"
      BY <1>2 DEF Deploy
    <2>4. QED
      BY <1>2, <2>1, <2>2, <2>3 DEF Deploy, Reported, Finished, LiveIsAccounted, history
  <1>3. QED
    BY <1>1, <1>2

LEMMA AccountDispatch ==
  ASSUME TypeInv, KeptInv, AccountInv,
         \/ \E j \in Job : Claim(j) \/ SweepLease(j) \/ FailSubject(j)
         \/ Succeed \/ Reject \/ HandlerFails \/ Crash
  PROVE  AccountInv'
  <1> USE DEF TypeInv, TypeOK, DeploymentsTyped, HandlerTyped, AccountInv
  <1>1. ASSUME NEW j \in Job, Claim(j) \/ SweepLease(j) PROVE AccountInv'
    <2>1. \A d \in Deployment : job'[D(d)] \in {job[D(d)], "running", "queued"}
      BY <1>1, JobsDiffer DEF Claim, SweepLease
    <2>2. Reported'
      BY <1>1, JobsDiffer DEF Claim, SweepLease, Reported
    <2>3. Finished'
      BY <1>1 DEF Claim, SweepLease, Finished, At, deployments, handler
    <2>4. LiveIsAccounted'
      BY <1>1, <2>1 DEF Claim, SweepLease, LiveIsAccounted, deployments, history, None
    <2>5. QED
      BY <1>1, <2>2, <2>3, <2>4 DEF Claim, SweepLease, history
  <1>2. ASSUME NEW j \in Job, FailSubject(j) PROVE AccountInv'
    <2>1. \A d \in Deployment :
            deployment'[d] = deployment[d] \/ (deployment'[d] = "failed" /\ j = D(d))
      BY <1>2, JobsDiffer DEF FailSubject
    <2>2. Reported'
      BY <1>2 DEF FailSubject, Reported
    <2>3. Finished'
      BY <1>2, <2>1, JobsDiffer DEF FailSubject, Finished, Reported, At, handler, history, KeptInv,
         JobsHold
    <2>4. LiveIsAccounted'
      BY <1>2, <2>1, JobsDiffer DEF FailSubject, Reported, LiveIsAccounted, history, None
    <2>5. QED
      BY <1>2, <2>2, <2>3, <2>4 DEF FailSubject, history
  <1>3. CASE Succeed
    <2>1. \A d \in Deployment : job'[D(d)] = job[D(d)] \/ (exec = D(d) /\ job'[D(d)] = "succeeded")
      BY <1>3, JobsDiffer DEF Succeed, At
    <2>2. Reported'
      BY <1>3, <2>1 DEF Succeed, Reported, At, KeptInv, JobsHold
    <2>3. Finished'
      BY <1>3 DEF Succeed, Finished, Leave, At
    <2>4. LiveIsAccounted'
      BY <1>3, <2>1, JobsDiffer DEF Succeed, Finished, LiveIsAccounted, deployments, history, At, None
    <2>5. QED
      BY <1>3, <2>2, <2>3, <2>4 DEF Succeed, history
  <1>4. CASE Reject \/ HandlerFails
    <2>1. exec \in Job
      BY <1>4 DEF Reject, HandlerFails, At
    <2>2. \A d \in Deployment : job'[D(d)] = IF exec = D(d) THEN "failed" ELSE job[D(d)]
      BY <1>4, <2>1, JobsDiffer DEF Reject, HandlerFails, Throw
    <2>3. Reported'
      BY <1>4, <2>2 DEF Reject, HandlerFails, Throw, Reported
    <2>4. Finished'
      BY <1>4 DEF Reject, HandlerFails, Throw, Finished, Leave, At
    <2>5. LiveIsAccounted'
      BY <1>4, <2>2 DEF Reject, HandlerFails, LiveIsAccounted, deployments, history, None
    <2>6. QED
      BY <1>4, <2>3, <2>4, <2>5 DEF Reject, HandlerFails, history
  <1>5. CASE Crash
    BY <1>5 DEF Crash, Leave, Reported, Finished, LiveIsAccounted, At, deployments, history, None
  <1>6. QED
    BY <1>1, <1>2, <1>3, <1>4, <1>5

LEMMA AccountHandler ==
  ASSUME TypeInv, KeptInv, AccountInv, Build \/ Prune \/ Release
  PROVE  AccountInv'
  <1> USE DEF TypeInv, TypeOK, DeploymentsTyped, HandlerTyped, AccountInv
  <1>1. CASE Build \/ ChooseDoomed \/ RemoveTree
    <2>1. exec' = exec /\ exec[1] = "build"
      BY <1>1, BuildsVersion DEF Build, MarkBuilding, Make, PutInPlace, RecordReady, ChooseDoomed,
         RemoveTree, At, Goto, BuildStep
    <2>2. UNCHANGED <<deployment, of, current, job, late, activated, last>>
      BY <1>1 DEF Build, MarkBuilding, Make, PutInPlace, RecordReady, ChooseDoomed, RemoveTree,
         deployments, history
    <2>3. QED
      BY <2>1, <2>2 DEF Reported, Finished, LiveIsAccounted, At
  <1>2. CASE DeleteDoomed
    <2>1. exec' = exec /\ exec[1] = "build" /\ current \notin doomed
      BY <1>2, BuildsVersion DEF DeleteDoomed, At, BuildStep, KeptInv, Chosen
    <2>2. /\ \A d \in Deployment : job'[D(d)] = IF of[d] \in doomed THEN "absent" ELSE job[D(d)]
          /\ \A d \in Deployment : of'[d] = IF of[d] \in doomed THEN None ELSE of[d]
          /\ UNCHANGED <<deployment, current, late, activated, last>>
      BY <1>2, JobsDiffer DEF DeleteDoomed, history
    <2>3. Reported'
      BY <2>2 DEF Reported
    <2>4. Finished'
      BY <2>1, <2>2 DEF Finished, At
    <2>5. LiveIsAccounted'
      BY <2>1, <2>2 DEF LiveIsAccounted, None
    <2>6. QED
      BY <2>2, <2>3, <2>4, <2>5
  <1>3. CASE Release
    <2>1. /\ exec # Idle /\ exec[1] = "deploy" /\ exec[2] \in Deployment /\ exec = D(exec[2])
          /\ exec' = exec
      BY <1>3, DeploysDeployment DEF Release, MarkDeploying, CheckReady, Activate, At, Goto, DeployStep
    <2>2. job[D(exec[2])] = "running" /\ D(exec[2]) \in Job
      BY <2>1, JobsDiffer DEF KeptInv, JobsHold
    <2>3. UNCHANGED <<job, late, of>>
      BY <1>3 DEF Release, MarkDeploying, CheckReady, Activate, deployments
    <2>4. Reported'
      BY <2>3 DEF Reported
    <2>5. CASE MarkDeploying \/ CheckReady
      BY <2>1, <2>2, <2>3, <2>4, <2>5 DEF MarkDeploying, CheckReady, Finished, LiveIsAccounted, At,
         Goto, deployments, history, None
    <2>6. CASE Activate
      BY <2>1, <2>2, <2>3, <2>4, <2>6 DEF Activate, Activation, Finished, LiveIsAccounted, None,
         Deployment
    <2>7. QED
      BY <1>3, <2>5, <2>6 DEF Release
  <1>4. QED
    BY <1>1, <1>2, <1>3 DEF Prune

LEMMA AccountStep ==
  ASSUME TypeInv, KeptInv, AccountInv, [Next]_vars
  PROVE  AccountInv'
  <1>1. CASE UNCHANGED vars
    BY <1>1 DEF vars, AccountInv, Reported, Finished, LiveIsAccounted, At, deployments, handler,
       history
  <1>2. CASE Next
    BY <1>2, AccountRequest, AccountDispatch, AccountHandler DEF Next
  <1>3. QED
    BY <1>1, <1>2

LEMMA AccountStart ==
  ASSUME Init
  PROVE  AccountInv
  BY DEF Init, AccountInv, Reported, Finished, LiveIsAccounted, At

\* The live version is that of the last activation, no other deployment says
\* active, and that one does if its job succeeded.
THEOREM LiveAccounted == Spec => []LiveIsAccounted
  <1>1. AccountInv => LiveIsAccounted
    BY DEF AccountInv
  <1>2. Spec => [](TypeInv /\ KeptInv /\ AccountInv)
    BY TypeStart, TypeStep, KeptStart, KeptStep, AccountStart, AccountStep, PTL DEF Spec
  <1>3. QED
    BY <1>1, <1>2, PTL

-----------------------------------------------------------------------------
(* The order of activations.  Deployments are asked for and claimed in the  *)
(* order of their numbers, but for those whose job was taken back.          *)

Numbered ==
    \A d, e \in Deployment : d < e /\ deployment[d] = "none" => deployment[e] = "none"

\* Of a deployment before one that was activated or is executed, the job waits
\* only if it was claimed before.
WaitsAgain ==
    \A d, e \in Deployment :
        d < e /\ (e \in activated \/ exec = D(e)) /\ job[D(d)] = "queued" => d \in swept

RunsAgain ==
    \A d, e \in Deployment : d < e /\ e \in activated /\ exec = D(d) => d \in swept

OrderInv == Numbered /\ WaitsAgain /\ RunsAgain /\ LatestStays

LEMMA OrderRequest ==
  ASSUME TypeInv, KeptInv, OrderInv,
         (\E v \in Version : CreateVersion(v)) \/ (\E v \in Version, d \in Deployment : Deploy(v, d))
  PROVE  OrderInv'
  <1> USE DEF TypeInv, TypeOK, DeploymentsTyped, HandlerTyped, OrderInv, handler, history
  <1>1. ASSUME NEW v \in Version, CreateVersion(v) PROVE OrderInv'
    <2>1. \A d \in Deployment : job'[D(d)] = job[D(d)]
      BY <1>1, JobsDiffer DEF CreateVersion
    <2>2. QED
      BY <1>1, <2>1 DEF CreateVersion, Numbered, WaitsAgain, RunsAgain, LatestStays, deployments
  <1>2. ASSUME NEW v \in Version, NEW d \in Deployment, Deploy(v, d) PROVE OrderInv'
    <2>1. /\ deployment' = [deployment EXCEPT ![d] = "queued"] /\ deployment[d] = "none"
          /\ \A e \in Deployment : e < d => deployment[e] # "none"
      BY <1>2 DEF Deploy, NewDeployment, Deployment
    <2>2. \A e \in Deployment : job'[D(e)] = IF e = d THEN "queued" ELSE job[D(e)]
      BY <1>2, JobsDiffer DEF Deploy
    <2>3. \A e \in Deployment : d < e => e \notin activated /\ exec # D(e)
      BY <2>1, JobsDiffer DEF Numbered, KeptInv, Fresh, JobsHold
    <2>4. Numbered'
      BY <2>1 DEF Numbered
    <2>5. WaitsAgain'
      BY <1>2, <2>2, <2>3 DEF Deploy, WaitsAgain
    <2>6. QED
      BY <1>2, <2>4, <2>5 DEF Deploy, RunsAgain, LatestStays
  <1>3. QED
    BY <1>1, <1>2

LEMMA OrderDispatch ==
  ASSUME TypeInv, KeptInv, OrderInv,
         \/ \E j \in Job : Claim(j) \/ SweepLease(j) \/ FailSubject(j)
         \/ Succeed \/ Reject \/ HandlerFails \/ Crash
  PROVE  OrderInv'
  <1> USE DEF TypeInv, TypeOK, DeploymentsTyped, HandlerTyped, OrderInv
  <1>1. ASSUME NEW j \in Job, Claim(j) PROVE OrderInv'
    <2>1. /\ \A d \in Deployment : job'[D(d)] = "queued" => job[D(d)] = "queued"
          /\ \A d, e \in Deployment : j = D(e) /\ d < e => job[D(d)] # "queued"
          /\ job[j] = "queued" /\ exec = Idle /\ exec' = j
      BY <1>1, JobsDiffer DEF Claim
    <2>2. UNCHANGED <<deployment, activated, last, swept>>
      BY <1>1 DEF Claim, deployments, history
    <2>3. WaitsAgain'
      BY <2>1, <2>2, JobsDiffer DEF WaitsAgain
    <2>4. RunsAgain'
      BY <2>1, <2>2, JobsDiffer DEF WaitsAgain, RunsAgain
    <2>5. QED
      BY <2>2, <2>3, <2>4 DEF Numbered, LatestStays
  <1>2. ASSUME NEW j \in Job, SweepLease(j) PROVE OrderInv'
    <2>1. /\ \A d \in Deployment : job'[D(d)] = "queued" => job[D(d)] = "queued" \/ d \in swept'
          /\ swept \subseteq swept'
      BY <1>2, JobsDiffer DEF SweepLease
    <2>2. UNCHANGED <<deployment, exec, activated, last>>
      BY <1>2 DEF SweepLease, deployments, handler
    <2>3. QED
      BY <2>1, <2>2 DEF Numbered, WaitsAgain, RunsAgain, LatestStays
  <1>3. ASSUME NEW j \in Job, FailSubject(j) PROVE OrderInv'
    <2>1. \A d \in Deployment : deployment'[d] = "none" <=> deployment[d] = "none"
      BY <1>3, JobsDiffer DEF FailSubject, KeptInv, Fresh
    <2>2. UNCHANGED <<job, exec, activated, last, swept>>
      BY <1>3 DEF FailSubject, handler, history
    <2>3. QED
      BY <2>1, <2>2 DEF Numbered, WaitsAgain, RunsAgain, LatestStays
  <1>4. CASE Succeed \/ Reject \/ HandlerFails \/ Crash
    <2>1. exec' = Idle /\ UNCHANGED <<deployment, activated, last, swept>>
      BY <1>4 DEF Succeed, Reject, HandlerFails, Crash, Throw, Leave, deployments, history
    <2>2. \A d \in Deployment : job'[D(d)] = "queued" => job[D(d)] = "queued"
      BY <1>4, JobsDiffer DEF Succeed, Reject, HandlerFails, Crash, Throw, At
    <2>3. QED
      BY <2>1, <2>2, JobsDiffer DEF Numbered, WaitsAgain, RunsAgain, LatestStays
  <1>5. QED
    BY <1>1, <1>2, <1>3, <1>4

LEMMA OrderHandler ==
  ASSUME TypeInv, KeptInv, OrderInv, Build \/ Prune \/ Release
  PROVE  OrderInv'
  <1> USE DEF TypeInv, TypeOK, DeploymentsTyped, HandlerTyped, OrderInv
  <1>1. CASE Build \/ Prune
    <2>1. UNCHANGED <<deployment, exec, activated, last, swept>>
      BY <1>1 DEF Build, MarkBuilding, Make, PutInPlace, RecordReady, Prune, ChooseDoomed,
         DeleteDoomed, RemoveTree, Goto, deployments, history
    <2>2. \A d \in Deployment : job'[D(d)] = "queued" => job[D(d)] = "queued"
      BY <1>1, JobsDiffer DEF Build, MarkBuilding, Make, PutInPlace, RecordReady, Prune,
         ChooseDoomed, DeleteDoomed, RemoveTree
    <2>3. QED
      BY <2>1, <2>2 DEF Numbered, WaitsAgain, RunsAgain, LatestStays
  <1>2. CASE Release
    <2>1. exec # Idle /\ exec[1] = "deploy" /\ exec[2] \in Deployment /\ exec = D(exec[2])
      BY <1>2, DeploysDeployment DEF Release, MarkDeploying, CheckReady, Activate, At, DeployStep
    <2>2. deployment[exec[2]] # "none"
      BY <2>1 DEF KeptInv, Fresh, JobsHold
    <2>3. Numbered'
      BY <1>2, <2>1, <2>2 DEF Release, MarkDeploying, CheckReady, Activate, Activation, Numbered,
         deployments
    <2>4. exec' = exec /\ UNCHANGED <<job, swept>>
      BY <1>2 DEF Release, MarkDeploying, CheckReady, Activate, Goto, history
    <2>5. CASE MarkDeploying \/ CheckReady
      BY <2>3, <2>4, <2>5 DEF MarkDeploying, CheckReady, WaitsAgain, RunsAgain, LatestStays, history
    <2>6. CASE Activate
      <3>1. activated' = activated \cup {exec[2]} /\ last' = exec[2]
        BY <2>6 DEF Activate, Activation
      <3>2. WaitsAgain'
        BY <2>1, <2>4, <3>1 DEF WaitsAgain
      <3>3. RunsAgain' /\ LatestStays'
        BY <2>1, <2>4, <3>1, JobsDiffer DEF RunsAgain, LatestStays, Deployment
      <3>4. QED
        BY <2>3, <3>2, <3>3
    <2>7. QED
      BY <1>2, <2>5, <2>6 DEF Release
  <1>3. QED
    BY <1>1, <1>2

LEMMA OrderStep ==
  ASSUME TypeInv, KeptInv, OrderInv, [Next]_vars
  PROVE  OrderInv'
  <1>1. CASE UNCHANGED vars
    BY <1>1 DEF vars, OrderInv, Numbered, WaitsAgain, RunsAgain, LatestStays, deployments, handler,
       history
  <1>2. CASE Next
    BY <1>2, OrderRequest, OrderDispatch, OrderHandler DEF Next
  <1>3. QED
    BY <1>1, <1>2

LEMMA OrderStart ==
  ASSUME Init
  PROVE  OrderInv
  BY JobsDiffer DEF Init, OrderInv, Numbered, WaitsAgain, RunsAgain, LatestStays

\* Of two activations the one asked for later stays, unless the earlier one was
\* done again because its worker was lost.
THEOREM LatestKept == Spec => []LatestStays
  <1>1. OrderInv => LatestStays
    BY DEF OrderInv
  <1>2. Spec => [](TypeInv /\ KeptInv /\ OrderInv)
    BY TypeStart, TypeStep, KeptStart, KeptStep, OrderStart, OrderStep, PTL DEF Spec
  <1>3. QED
    BY <1>1, <1>2, PTL
=============================================================================
