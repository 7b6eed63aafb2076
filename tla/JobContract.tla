---------------------------- MODULE JobContract ----------------------------
(***************************************************************************)
(* What the executor's job table promises the rest of the platform, with   *)
(* no worker, clock, lock or restart in it: a job waits, is granted to an  *)
(* execution that owns its project exclusively, and is settled.  JobQueue  *)
(* implements this module.                                                 *)
(*                                                                         *)
(*   "none"     no row carries the job's idempotency key                   *)
(*   "waiting"  the job is owed an execution                               *)
(*   "granted"  one execution holds the job, and with it the project       *)
(*   "doubtful" the execution stopped proving that it is alive: it no      *)
(*              longer excludes anybody, and may still report a result     *)
(*   "settled"  the job succeeded, or failed for good                      *)
(***************************************************************************)
EXTENDS Naturals, FiniteSets

CONSTANTS
    Job,          \* rows of the job table, named by their idempotency keys
    Project,
    ProjectOf,    \* the project a job works on
    HeavyJob,     \* the jobs that occupy about one processor each
    HeavyLimit    \* how many of those may be granted together

VARIABLES
    phase,      \* [Job -> Phase]
    serving     \* FALSE from the moment a stop is asked for until the next start

vars == <<phase, serving>>

Phase == {"none", "waiting", "granted", "doubtful", "settled"}

Granted == {j \in Job : phase[j] = "granted"}

Becomes(S, p) == phase' = [j \in Job |-> IF j \in S THEN p ELSE phase[j]]

Init ==
    /\ phase = [j \in Job |-> "none"]
    /\ serving = TRUE

\* A job is asked for, for the first time or again.
Post(j) ==
    /\ phase[j] \in {"none", "settled"}
    /\ Becomes({j}, "waiting")
    /\ UNCHANGED serving

\* The promise: a grant is exclusive on its project and within the heavy
\* allowance.
Grant(j) ==
    /\ phase[j] = "waiting"
    /\ \A i \in Granted : ProjectOf[i] # ProjectOf[j]
    /\ j \in HeavyJob => Cardinality(Granted \cap HeavyJob) < HeavyLimit
    /\ Becomes({j}, "granted")
    /\ UNCHANGED serving

\* The holder reports: for good, or to be tried again.
Report(j) ==
    /\ phase[j] \in {"granted", "doubtful"}
    /\ \E p \in {"settled", "waiting"} : Becomes({j}, p)
    /\ UNCHANGED serving

\* The holder of a grant falls silent.
Doubt(j) ==
    /\ phase[j] = "granted"
    /\ Becomes({j}, "doubtful")
    /\ UNCHANGED serving

\* Doubtful jobs are put back; while the service is up, a granted one never is.
Reclaim ==
    /\ \E S \in SUBSET {j \in Job : phase[j] = "doubtful"} : Becomes(S, "waiting")
    /\ UNCHANGED serving

\* A stop is asked for.
Stop ==
    /\ serving
    /\ serving' = FALSE
    /\ UNCHANGED phase

\* The process is gone: nobody holds anything.
Die ==
    /\ serving' = FALSE
    /\ Becomes(Granted, "doubtful")

\* An orderly stop hands back what is still held, several jobs at once.
HandBack ==
    /\ ~serving
    /\ \E S \in SUBSET {j \in Job : phase[j] \in {"granted", "doubtful"}} :
            Becomes(S, "waiting")
    /\ UNCHANGED serving

Start ==
    /\ ~serving
    /\ serving' = TRUE
    /\ UNCHANGED phase

\* A request is withdrawn, or old results are pruned.
Forget ==
    /\ \E S \in SUBSET {j \in Job : phase[j] \in {"waiting", "settled"}} : Becomes(S, "none")
    /\ UNCHANGED serving

\* A deleted project takes its rows along, the running deletion's own included.
Erase(p) ==
    /\ Becomes({j \in Job : ProjectOf[j] = p}, "none")
    /\ UNCHANGED serving

Next ==
    \/ \E j \in Job : Post(j) \/ Grant(j) \/ Report(j) \/ Doubt(j)
    \/ \E p \in Project : Erase(p)
    \/ Forget
    \/ Reclaim
    \/ Stop
    \/ Die
    \/ HandBack
    \/ Start

Spec == Init /\ [][Next]_vars
=============================================================================
