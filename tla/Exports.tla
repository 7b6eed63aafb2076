------------------------------ MODULE Exports ------------------------------
(***************************************************************************)
(* Database exports (exportDatabase in lib/projects.ts and in executor.ts, *)
(* housekeeping in executor.ts).  A project has one export job of a kind,  *)
(* with one row and one file, which are used again by the next request.    *)
(***************************************************************************)

CONSTANTS
    Caller  \* requests handled at once

VARIABLES
    job,      \* status of the export job
    row,      \* the row of database_exports: its file_path and its two windows
    dump,     \* whether <job id>.sql.gz is there
    partial,  \* whether <job id>.partial is there
    exec,     \* what the executor is doing
    removing, \* housekeeping has deleted a row that named the dump
    caller    \* where each request is

vars == <<job, row, dump, partial, exec, removing, caller>>

NoRow == [there |-> FALSE, path |-> FALSE, recent |-> FALSE, expired |-> FALSE]

TypeOK ==
    /\ job \in {"absent", "queued", "running", "succeeded", "failed"}
    /\ row \in [there : BOOLEAN, path : BOOLEAN, recent : BOOLEAN, expired : BOOLEAN]
    /\ dump \in BOOLEAN /\ partial \in BOOLEAN /\ removing \in BOOLEAN
    /\ exec \in {"idle", "load", "dump", "publish", "record", "report"}
    /\ caller \in [Caller -> {"idle", "enqueue", "reset", "wait"}]

Init ==
    /\ job = "absent" /\ row = NoRow
    /\ dump = FALSE /\ partial = FALSE /\ removing = FALSE
    /\ exec = "idle"
    /\ caller = [c \in Caller |-> "idle"]

Goes(c, place) == caller' = [caller EXCEPT ![c] = place]

files == <<dump, partial>>

-----------------------------------------------------------------------------
(* The control plane.                                                      *)

\* A dump of the last five minutes refuses another: 429.
Ask(c) ==
    /\ caller[c] = "idle" /\ ~(row.path /\ row.recent)
    /\ Goes(c, "enqueue")
    /\ UNCHANGED <<job, row, files, exec, removing>>

\* enqueueRerunnable: a job that is under way serves this request too.
Enqueue(c) ==
    /\ caller[c] = "enqueue"
    /\ job' = IF job \in {"absent", "succeeded", "failed"} THEN "queued" ELSE job
    /\ Goes(c, "reset")
    /\ UNCHANGED <<row, files, exec, removing>>

\* The row starts over, whatever it recorded.
Reset(c) ==
    /\ caller[c] = "reset"
    /\ row' = [there |-> TRUE, path |-> FALSE, recent |-> TRUE, expired |-> FALSE]
    /\ Goes(c, "wait")
    /\ UNCHANGED <<job, files, exec, removing>>

\* The request is told of the dump, of the failure, or that it is queued.
Told(c) ==
    /\ caller[c] = "wait"
    /\ Goes(c, "idle")
    /\ UNCHANGED <<job, row, files, exec, removing>>

-----------------------------------------------------------------------------
(* The executor.                                                           *)

Fail ==
    /\ job' = "failed" /\ exec' = "idle"
    /\ partial' = FALSE
    /\ UNCHANGED <<row, dump, removing, caller>>

Claim ==
    /\ exec = "idle" /\ job = "queued"
    /\ job' = "running" /\ exec' = "load"
    /\ UNCHANGED <<row, files, removing, caller>>

\* An export whose row is not there yet, or not there any more, fails for good:
\* exports are not retried.
Load ==
    /\ exec = "load"
    /\ IF row.there
       THEN exec' = "dump" /\ UNCHANGED <<job, row, files, removing, caller>>
       ELSE Fail

\* pg_dump writes under the partial name.
Dump ==
    /\ exec = "dump"
    /\ partial' = TRUE
    /\ exec' = "publish"
    /\ UNCHANGED <<job, row, dump, removing, caller>>

\* rename, once the size was found within the limit.
Publish ==
    /\ exec = "publish"
    /\ dump' = TRUE /\ partial' = FALSE
    /\ exec' = "record"
    /\ UNCHANGED <<job, row, removing, caller>>

\* An UPDATE: a row that has expired meanwhile is not made again.
Record ==
    /\ exec = "record"
    /\ row' = [row EXCEPT !.path = row.there]
    /\ exec' = "report"
    /\ UNCHANGED <<job, files, removing, caller>>

Report ==
    /\ exec = "report"
    /\ job' = "succeeded" /\ exec' = "idle"
    /\ UNCHANGED <<row, files, removing, caller>>

\* The database or the container fails, or the dump is over the limit.
ExportFails == exec \in {"dump", "publish", "record", "report"} /\ Fail

\* The executor dies: nothing is cleaned up, and the sweep queues the job again.
Die ==
    /\ exec # "idle"
    /\ job' = "queued" /\ exec' = "idle"
    /\ UNCHANGED <<row, files, removing, caller>>

-----------------------------------------------------------------------------
(* Time.                                                                   *)

\* Five minutes, and then an hour, since the request.
Cool ==
    /\ row.recent
    /\ row' = [row EXCEPT !.recent = FALSE]
    /\ UNCHANGED <<job, files, exec, removing, caller>>

Close ==
    /\ row.there /\ ~row.recent /\ ~row.expired
    /\ row' = [row EXCEPT !.expired = TRUE]
    /\ UNCHANGED <<job, files, exec, removing, caller>>

\* Housekeeping deletes the row, and the file that the row named.
Expire ==
    /\ row.expired
    /\ row' = NoRow
    /\ removing' = (removing \/ row.path)
    /\ UNCHANGED <<job, files, exec, caller>>

Remove ==
    /\ removing
    /\ dump' = FALSE /\ removing' = FALSE
    /\ UNCHANGED <<job, row, partial, exec, caller>>

Next ==
    \/ \E c \in Caller : Ask(c) \/ Enqueue(c) \/ Reset(c) \/ Told(c)
    \/ Claim \/ Load \/ Dump \/ Publish \/ Record \/ Report \/ ExportFails \/ Die
    \/ Cool \/ Close \/ Expire \/ Remove

Spec == Init /\ [][Next]_vars

-----------------------------------------------------------------------------
(* Properties.                                                             *)

\* What executor.ts 1820 says: "Database dumps hold tenant data, so they are
\* removed from disk as soon as their download window closes rather than being
\* left to accumulate."  With the row gone, nobody at work and nothing left to
\* remove, there is no dump.  It does not hold: a request for another export
\* clears the row's path, and if that export fails the first dump is forgotten.
DumpsAreRemoved ==
    ~row.there /\ ~removing /\ exec = "idle" /\ job \in {"absent", "succeeded", "failed"}
    /\ (\A c \in Caller : caller[c] \in {"idle", "wait"})
    => ~dump
=============================================================================
