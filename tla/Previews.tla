------------------------------ MODULE Previews ------------------------------
(***************************************************************************)
(* Renders and probes: a job whose result is a row of its own, for which   *)
(* the request that queued it waits (renderVersion and probeVersion in     *)
(* executor.ts and in lib/projects.ts, housekeeping in executor.ts).       *)
(*                                                                         *)
(* The render of a version has one job row for ever: a picture is served   *)
(* from it for a day and is made again only if the job failed or has       *)
(* expired.  A probe is a job of its own, sent once.                       *)
(***************************************************************************)
EXTENDS Naturals

CONSTANTS
    Caller,  \* requests that wait for the render
    Probe    \* probes ever asked for

VARIABLES
    job,      \* rows of jobs: the render's and each probe's
    row,      \* the row of render_results
    picture,  \* whether the file <job id>.png is there
    probe,    \* the row of probe_results of each probe
    sent,     \* history: how often a probe's request was sent
    orphaned, \* history: how often a probe's worker died
    exec,     \* what the executor is doing
    removing, \* housekeeping has deleted the row and goes on to the file
    taken,    \* history: the file of the run after that went with it
    caller    \* requests waiting for the render

vars == <<job, row, picture, probe, sent, orphaned, exec, removing, taken, caller>>

NoRow == [there |-> FALSE, shot |-> FALSE, old |-> FALSE]

Job == Probe \cup {"render"}

Idle == [at |-> "idle"]

TypeOK ==
    /\ job \in [Job -> {"absent", "queued", "running", "succeeded", "failed"}]
    /\ row \in [there : BOOLEAN, shot : BOOLEAN, old : BOOLEAN]
    /\ picture \in BOOLEAN /\ removing \in BOOLEAN /\ taken \in BOOLEAN
    /\ probe \in [Probe -> {"none", "asked", "answered"}]
    /\ sent \in [Probe -> 0 .. 2] /\ orphaned \in [Probe -> 0 .. 1]
    /\ exec \in {Idle} \cup [at : {"render"}]
                \cup [at : {"record", "report"}, shot : BOOLEAN]
                \cup [at : {"load", "send", "answer", "done"}, job : Probe]
    /\ caller \in [Caller -> {"idle", "wait", "shown", "told"}]

Init ==
    /\ job = [j \in Job |-> "absent"]
    /\ row = NoRow /\ picture = FALSE /\ removing = FALSE /\ taken = FALSE
    /\ probe = [j \in Probe |-> "none"]
    /\ sent = [j \in Probe |-> 0] /\ orphaned = [j \in Probe |-> 0]
    /\ exec = Idle
    /\ caller = [c \in Caller |-> "idle"]

renders == <<row, picture, removing, taken, caller>>

probes == <<probe, sent, orphaned>>

Finished(j, outcome) == job' = [job EXCEPT ![j] = outcome] /\ exec' = Idle

-----------------------------------------------------------------------------
(* The control plane.                                                      *)

\* renderVersion: only a failed render is run again.
AskRender(c) ==
    /\ caller[c] # "wait"
    /\ caller' = [caller EXCEPT ![c] = "wait"]
    /\ job' = [job EXCEPT !["render"] = IF @ \in {"absent", "failed"} THEN "queued" ELSE @]
    /\ UNCHANGED <<row, picture, removing, taken, probes, exec>>

\* It polls for the picture or for the failure, and gives up after a while.
Show(c) ==
    /\ caller[c] = "wait" /\ job["render"] = "succeeded" /\ row.shot
    /\ caller' = [caller EXCEPT ![c] = IF picture THEN "shown" ELSE "told"]
    /\ UNCHANGED <<job, row, picture, removing, taken, probes, exec>>

Tell(c) ==
    /\ caller[c] = "wait" /\ job["render"] # "succeeded"
    /\ caller' = [caller EXCEPT ![c] = "told"]
    /\ UNCHANGED <<job, row, picture, removing, taken, probes, exec>>

\* probeVersion queues the job first and stores the request second.
QueueProbe(j) ==
    /\ job[j] = "absent"
    /\ job' = [job EXCEPT ![j] = "queued"]
    /\ UNCHANGED <<renders, probes, exec>>

StoreProbe(j) ==
    /\ job[j] # "absent" /\ probe[j] = "none"
    /\ probe' = [probe EXCEPT ![j] = "asked"]
    /\ UNCHANGED <<job, renders, sent, orphaned, exec>>

-----------------------------------------------------------------------------
(* The executor.                                                           *)

ClaimRender ==
    /\ exec = Idle /\ job["render"] = "queued"
    /\ job' = [job EXCEPT !["render"] = "running"]
    /\ exec' = [at |-> "render"]
    /\ UNCHANGED <<renders, probes>>

\* The browser may give no picture; what it wrote is kept either way.
Render(shot) ==
    /\ exec.at = "render"
    /\ picture' = (picture \/ shot)
    /\ taken' = (taken /\ ~shot)
    /\ exec' = [at |-> "record", shot |-> shot]
    /\ UNCHANGED <<job, row, removing, caller, probes>>

\* Mutant: the row of an earlier run keeps its created_at.
AgeKept(shot) == [there |-> TRUE, shot |-> shot, old |-> row.old]

Recorded(shot) == [there |-> TRUE, shot |-> shot, old |-> FALSE]

Record ==
    /\ exec.at = "record"
    /\ row' = Recorded(exec.shot)
    /\ exec' = [at |-> "report", shot |-> exec.shot]
    /\ UNCHANGED <<job, picture, removing, taken, caller, probes>>

\* No picture is an error, and renders are not retried.
Report ==
    /\ exec.at = "report"
    /\ Finished("render", IF exec.shot THEN "succeeded" ELSE "failed")
    /\ UNCHANGED <<renders, probes>>

RenderFails ==
    /\ exec.at \in {"render", "record", "report"}
    /\ Finished("render", "failed")
    /\ UNCHANGED <<renders, probes>>

ClaimProbe(j) ==
    /\ exec = Idle /\ job[j] = "queued"
    /\ job' = [job EXCEPT ![j] = "running"]
    /\ exec' = [at |-> "load", job |-> j]
    /\ UNCHANGED <<renders, probes>>

\* Without the stored request the probe has failed, and probes are not retried.
Load ==
    /\ exec.at = "load"
    /\ IF probe[exec.job] = "none"
       THEN Finished(exec.job, "failed")
       ELSE exec' = [exec EXCEPT !.at = "send"] /\ UNCHANGED job
    /\ UNCHANGED <<renders, probes>>

Send ==
    /\ exec.at = "send"
    /\ sent' = [sent EXCEPT ![exec.job] = @ + 1]
    /\ exec' = [exec EXCEPT !.at = "answer"]
    /\ UNCHANGED <<job, renders, probe, orphaned>>

Answered ==
    /\ exec.at = "answer"
    /\ probe' = [probe EXCEPT ![exec.job] = "answered"]
    /\ exec' = [exec EXCEPT !.at = "done"]
    /\ UNCHANGED <<job, renders, sent, orphaned>>

Done ==
    /\ exec.at = "done"
    /\ Finished(exec.job, "succeeded")
    /\ UNCHANGED <<renders, probes>>

ProbeFails ==
    /\ exec.at \in {"send", "answer", "done"}
    /\ Finished(exec.job, "failed")
    /\ UNCHANGED <<renders, probes>>

\* The executor dies, and the sweep queues its job again.  A probe's worker dies
\* at most once (a bound).
Die ==
    /\ exec # Idle
    /\ LET j == IF "job" \in DOMAIN exec THEN exec.job ELSE "render" IN
       /\ Finished(j, "queued")
       /\ IF j = "render" THEN UNCHANGED orphaned
          ELSE orphaned[j] = 0 /\ orphaned' = [orphaned EXCEPT ![j] = 1]
    /\ UNCHANGED <<renders, probe, sent>>

-----------------------------------------------------------------------------
(* Housekeeping.                                                           *)

\* A day passes, but not between a row's insertion and the job's report.
Age ==
    /\ row.there /\ exec.at # "report"
    /\ row' = [row EXCEPT !.old = TRUE]
    /\ UNCHANGED <<job, picture, removing, taken, caller, probes, exec>>

\* One statement deletes the row and fails a job that had succeeded, so that the
\* next request renders again; the file goes after it.
ExpireRow ==
    /\ row.old
    /\ row' = NoRow
    /\ job' = [job EXCEPT !["render"] = IF @ = "succeeded" THEN "failed" ELSE @]
    /\ removing' = (removing \/ row.shot)
    /\ UNCHANGED <<picture, taken, caller, probes, exec>>

\* The picture of a run that is to succeed, or has and whose row has not expired.
Wanted ==
    \/ job["render"] = "succeeded"
    \/ exec.at \in {"record", "report"} /\ exec.shot

RemovePicture ==
    /\ removing
    /\ picture' = FALSE /\ removing' = FALSE
    /\ taken' = Wanted
    /\ UNCHANGED <<job, row, caller, probes, exec>>

Next ==
    \/ \E c \in Caller : AskRender(c) \/ Show(c) \/ Tell(c)
    \/ \E j \in Probe : QueueProbe(j) \/ StoreProbe(j) \/ ClaimProbe(j)
    \/ \E shot \in BOOLEAN : Render(shot)
    \/ ClaimRender \/ Record \/ Report \/ RenderFails
    \/ Load \/ Send \/ Answered \/ Done \/ ProbeFails
    \/ Die \/ Age \/ ExpireRow \/ RemovePicture

Spec == Init /\ [][Next]_vars

-----------------------------------------------------------------------------
(* Properties.                                                             *)

\* A job that succeeded has its answer, whatever expired, failed or died before:
\* a render's row names a picture, and no later request would run it again without
\* one.  The picture is there unless housekeeping removed it late, on account of a
\* row of an earlier run (taken; PictureIsThere is without this exemption).  And a
\* probe, which is an action on the tenant's site, is sent twice only if its
\* worker died.
SuccessHasAnswer ==
    /\ job["render"] = "succeeded" => row.shot /\ (picture \/ taken)
    /\ \A j \in Probe :
        /\ job[j] = "succeeded" => probe[j] = "answered"
        /\ sent[j] <= 1 + orphaned[j]

\* What lib/projects.ts 1271-1272 counts on: a job that succeeded still owns its
\* screenshot.
PictureIsThere == job["render"] = "succeeded" => picture
=============================================================================
