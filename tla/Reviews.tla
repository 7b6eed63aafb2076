------------------------------ MODULE Reviews ------------------------------
(***************************************************************************)
(* The automated review of the sites that anyone on the network can reach: *)
(* which versions get one (updateAccess in lib/projects.ts, deployVersion  *)
(* and reviewPublicSite in executor.ts), and what it says                  *)
(* (lib/site-review.ts, with the model's opinion that the executor asks    *)
(* the control plane for).                                                 *)
(*                                                                         *)
(* One project, whose jobs run one at a time.  What a page shows is a      *)
(* function of its version.                                                *)
(***************************************************************************)
EXTENDS Naturals, FiniteSets

CONSTANTS
    Client,   \* requests of the owner handled at once
    Version,  \* versions of the project
    PageOf    \* what a browser finds on the page of a version

VARIABLES
    access,   \* the visitor tier
    current,  \* the version that is served, or None
    job,      \* the review job of each version: one row for ever
    exec,     \* the job of the project that is running
    client,   \* where each request is
    reviews,  \* the verdict of the last row of site_reviews of each version, or None
    late      \* history: versions whose review was missed, as the actions say

vars == <<access, current, job, exec, client, reviews, late>>

None == "none"

Idle == [at |-> "idle"]

Access == {"owner", "network", "showcase"}

Rank == [a \in Access |-> CASE a = "owner" -> 0 [] a = "network" -> 1 [] a = "showcase" -> 2]

IsNetworkReachable(a) == Rank[a] >= Rank["network"]

-----------------------------------------------------------------------------
(* The verdict.                                                            *)

Level == {"clean", "review", "urgent"}

LevelOrder == [l \in Level |-> CASE l = "clean" -> 0 [] l = "review" -> 1 [] l = "urgent" -> 2]

MaxLevel(a, b) == IF LevelOrder[a] >= LevelOrder[b] THEN a ELSE b

\* What the signals are computed from: whether the page answered with anything at
\* all, where a form with a password posts to, whose name the page wears, whether
\* it talks of signing in, and whether it loads assets from elsewhere.
Page == [answered : BOOLEAN, password : {"none", "own", "offsite"}, brand : BOOLEAN,
         signIn : BOOLEAN, foreign : BOOLEAN]

\* A page that did not answer has nothing on it.
Plausible(e) == ~e.answered => e.password = "none" /\ ~e.brand /\ ~e.signIn

\* The levels of the signals that a page raises.
StaticSignals(e) ==
    LET asks == e.password # "none" IN
    {level \in Level :
        \/ level = "review" /\ ~e.answered
        \/ level = "urgent" /\ e.password = "offsite"
        \/ level = "urgent" /\ asks /\ e.brand
        \/ level = "review" /\ asks /\ ~e.brand
        \/ level = "review" /\ ~asks /\ e.brand /\ e.signIn
        \/ level = "review" /\ asks /\ e.foreign}

WorstOf(levels) ==
    IF levels = {} THEN "clean"
    ELSE CHOOSE l \in levels : \A m \in levels : LevelOrder[l] >= LevelOrder[m]

\* parseModelVerdict, of the verdicts found in the answer: none is no opinion, and
\* several count as the worst.
ModelVerdict(found) == IF found = {} THEN None ELSE WorstOf(found)

\* reviewSite: the model can only make a verdict worse.
ReviewSite(e, opinion) ==
    LET floor == WorstOf(StaticSignals(e)) IN
    IF opinion # None THEN MaxLevel(floor, opinion) ELSE floor

-----------------------------------------------------------------------------

TypeOK ==
    /\ access \in Access
    /\ current \in Version \cup {None}
    /\ job \in [Version -> {"absent", "queued", "running", "succeeded", "failed"}]
    /\ exec \in {Idle} \cup [at : {"activate"}, version : Version, access : Access]
                \cup [at : {"enqueue"}, version : Version, access : Access]
                \cup [at : {"read", "render"}, version : Version]
    /\ client \in [Client -> {Idle} \cup [at : {"update", "queue"}, to : Access, from : Access,
                                         version : Version \cup {None}]]
    /\ reviews \in [Version -> Level \cup {None}]
    /\ late \subseteq Version

Init ==
    /\ access = "owner" /\ current = None
    /\ job = [v \in Version |-> "absent"]
    /\ exec = Idle
    /\ client = [c \in Client |-> Idle]
    /\ reviews = [v \in Version |-> None] /\ late = {}

Reviewed(v) == reviews[v] # None

-----------------------------------------------------------------------------
(* The owner.                                                              *)

\* updateAccess reads the project, writes the tier, and queues a review of the
\* version that it read if more people can reach it now.
ReadProject(c, to) ==
    /\ client[c] = Idle
    /\ client' = [client EXCEPT ![c] = [at |-> "update", to |-> to, from |-> access,
                                        version |-> current]]
    /\ UNCHANGED <<access, current, job, exec, reviews, late>>

Widens(c) == Rank[client[c].to] > Rank[client[c].from] /\ client[c].version # None

\* Missed are a version that is activated by a deployment which has read the old tier,
\* one that was activated since this request has read the project, and one that a
\* second request has hidden since: the tier is compared with the one that was read.
UpdateAccess(c) ==
    /\ client[c].at = "update"
    /\ access' = client[c].to
    /\ client' = [client EXCEPT ![c] = IF Widens(c) THEN [@ EXCEPT !.at = "queue"] ELSE Idle]
    /\ late' = late
               \cup {v \in Version : exec.at = "activate" /\ exec.version = v
                                    /\ ~IsNetworkReachable(exec.access)}
               \cup {v \in Version : v = current /\ v # client[c].version}
               \cup {v \in Version : v = current /\ ~Widens(c)
                                    /\ ~IsNetworkReachable(access)
                                    /\ IsNetworkReachable(client[c].to)}
    /\ UNCHANGED <<current, job, exec, reviews>>

\* Mutant: enqueue does nothing for a version that was reviewed before or whose
\* review was passed over.
QueuedOnce(v) == [job EXCEPT ![v] = IF @ = "absent" THEN "queued" ELSE @]

\* enqueueRerunnable
Requeued(v) == [job EXCEPT ![v] = IF @ \in {"absent", "succeeded", "failed"} THEN "queued" ELSE @]

EnqueueSiteReview(c) ==
    /\ client[c].at = "queue"
    /\ job' = Requeued(client[c].version)
    /\ client' = [client EXCEPT ![c] = Idle]
    /\ UNCHANGED <<access, current, exec, reviews, late>>

\* A review that cannot be queued is a line in the log.
NotQueued(c) ==
    /\ client[c].at = "queue"
    /\ client' = [client EXCEPT ![c] = Idle]
    /\ late' = late \cup {client[c].version}
    /\ UNCHANGED <<access, current, job, exec, reviews>>

-----------------------------------------------------------------------------
(* The executor.                                                           *)

\* deployVersion reads the tier at the beginning, with the artifact.
BeginDeploy(v) ==
    /\ exec = Idle
    /\ exec' = [at |-> "activate", version |-> v, access |-> access]
    /\ UNCHANGED <<access, current, job, client, reviews, late>>

Activate ==
    /\ exec.at = "activate"
    /\ current' = exec.version
    /\ exec' = IF IsNetworkReachable(exec.access) THEN [exec EXCEPT !.at = "enqueue"] ELSE Idle
    /\ UNCHANGED <<access, job, client, reviews, late>>

\* enqueue: the job of a version that was deployed before is left as it is.
FollowActivation ==
    /\ exec.at = "enqueue"
    /\ LET v == exec.version IN
       /\ job' = [job EXCEPT ![v] = IF @ = "absent" THEN "queued" ELSE @]
       /\ late' = IF job[v] \in {"succeeded", "failed"} THEN late \cup {v} ELSE late
    /\ exec' = Idle
    /\ UNCHANGED <<access, current, client, reviews>>

\* It cannot be queued, and the deployment succeeds all the same.
NotFollowed ==
    /\ exec.at = "enqueue"
    /\ late' = late \cup {exec.version}
    /\ exec' = Idle
    /\ UNCHANGED <<access, current, job, client, reviews>>

Claim(v) ==
    /\ exec = Idle /\ job[v] = "queued"
    /\ job' = [job EXCEPT ![v] = "running"]
    /\ exec' = [at |-> "read", version |-> v]
    /\ UNCHANGED <<access, current, client, reviews, late>>

\* reviewPublicSite: nothing to do if the page is no longer a public one, or no
\* longer the one that is served.
Read ==
    /\ exec.at = "read"
    /\ IF IsNetworkReachable(access) /\ current = exec.version
       THEN exec' = [exec EXCEPT !.at = "render"] /\ UNCHANGED job
       ELSE job' = [job EXCEPT ![exec.version] = "succeeded"] /\ exec' = Idle
    /\ UNCHANGED <<access, current, client, reviews, late>>

\* A render that fails is a page that did not answer; an opinion that cannot be
\* had or read is none.
Blank == [answered |-> FALSE, password |-> "none", brand |-> FALSE, signIn |-> FALSE,
          foreign |-> FALSE]

Review(answered, opinion) ==
    /\ exec.at = "render"
    /\ LET e == IF answered THEN PageOf[exec.version] ELSE Blank IN
       reviews' = [reviews EXCEPT ![exec.version] = ReviewSite(e, opinion)]
    /\ job' = [job EXCEPT ![exec.version] = "succeeded"]
    /\ exec' = Idle
    /\ UNCHANGED <<access, current, client, late>>

\* The database fails: the attempt is repeated, up to the third, or the executor
\* dies and the sweep queues the job again.
Retried ==
    /\ exec.at \in {"read", "render"}
    /\ job' = [job EXCEPT ![exec.version] = "queued"]
    /\ exec' = Idle
    /\ UNCHANGED <<access, current, client, reviews, late>>

GivenUp ==
    /\ exec.at \in {"read", "render"}
    /\ job' = [job EXCEPT ![exec.version] = "failed"]
    /\ late' = late \cup {exec.version}
    /\ exec' = Idle
    /\ UNCHANGED <<access, current, client, reviews>>

\* A deployment that fails before its activation leaves everything as it was.
DeployFails ==
    /\ exec.at = "activate"
    /\ exec' = Idle
    /\ UNCHANGED <<access, current, job, client, reviews, late>>

Next ==
    \/ \E c \in Client :
        \/ UpdateAccess(c) \/ EnqueueSiteReview(c) \/ NotQueued(c)
        \/ \E to \in Access : ReadProject(c, to)
    \/ \E v \in Version : BeginDeploy(v) \/ Claim(v)
    \/ \E answered \in BOOLEAN, found \in SUBSET Level : Review(answered, ModelVerdict(found))
    \/ Activate \/ FollowActivation \/ NotFollowed \/ DeployFails
    \/ Read \/ Retried \/ GivenUp

Spec == Init /\ [][Next]_vars

-----------------------------------------------------------------------------
(* Properties.                                                             *)

\* Nothing that leads to a review is under way.
Settled ==
    /\ exec = Idle
    /\ \A c \in Client : client[c] = Idle
    /\ \A v \in Version : job[v] # "queued"

\* What docs/operations.md 291 says, "Every such site is reviewed automatically", but
\* for the versions known to be missed: a review passed over because another version
\* was live by then, a tier widened during a deployment or back from what another
\* request had made of it, a review that failed or could not be queued.  Every other
\* site that strangers can reach has been reviewed as it is served, over deployments,
\* retries and steps down and up.
ReviewedUnlessOvertaken ==
    Settled /\ IsNetworkReachable(access) /\ current # None
        => Reviewed(current) \/ current \in late
=============================================================================
