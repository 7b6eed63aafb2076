------------------------------ MODULE Showcase ------------------------------
(***************************************************************************)
(* The card of a project in the gallery: its line of text, which only the  *)
(* owner writes, and its picture, which the owner uploads or the executor  *)
(* captures (updateAccess, setShowcaseListing, setShowcaseScreenshot,      *)
(* clearShowcaseScreenshot and showcaseScreenshot in lib/projects.ts,      *)
(* deployVersion and captureShowcase in executor.ts).                      *)
(*                                                                         *)
(* One project.  Both pictures are written to the same file; the row says  *)
(* which of the two it is.                                                 *)
(***************************************************************************)
CONSTANTS
    Client,   \* requests handled at once
    Version   \* versions of the project

VARIABLES
    listed,    \* access_mode is 'showcase'
    described, \* showcase_description is not empty
    drafted,   \* showcase_draft holds a suggestion
    current,   \* the live version, or None
    row,       \* showcase_shot_path and showcase_shot_source
    file,      \* whose picture <project>.png is
    job,       \* the capture job of each version
    exec,      \* the job of the project that is running
    client,    \* where each request is
    chosen     \* history: the owner's picture was put up and not taken down

vars == <<listed, described, drafted, current, row, file, job, exec, client, chosen>>

None == "none"

Idle == [at |-> "idle"]

Source == {"captured", "uploaded"}

NoShot == [path |-> FALSE, source |-> None]

TypeOK ==
    /\ listed \in BOOLEAN /\ described \in BOOLEAN /\ drafted \in BOOLEAN
    /\ chosen \in BOOLEAN
    /\ current \in Version \cup {None}
    /\ row \in [path : BOOLEAN, source : Source \cup {None}]
    /\ file \in Source \cup {None}
    /\ job \in [Version -> {"absent", "queued", "running", "succeeded", "failed"}]
    /\ exec \in {Idle} \cup [at : {"activate", "follow", "read", "draft"}, version : Version]
                \cup [at : {"render"}, version : Version, keep : BOOLEAN]
                \cup [at : {"record"}, version : Version, keep : BOOLEAN, shot : BOOLEAN]
    /\ client \in [Client -> {Idle} \cup [at : {"save", "clear", "remove"}]
                             \cup [at : {"list"}, version : Version \cup {None}, was : BOOLEAN]
                             \cup [at : {"queue"}, version : Version]]

Init ==
    /\ listed = FALSE /\ described = FALSE /\ drafted = FALSE /\ chosen = FALSE
    /\ current = None /\ row = NoShot /\ file = None
    /\ job = [v \in Version |-> "absent"]
    /\ exec = Idle
    /\ client = [c \in Client |-> Idle]

card == <<described, drafted>>

picture == <<row, file>>

Goes(c, place) == client' = [client EXCEPT ![c] = [at |-> place]]

Returns(c) == client' = [client EXCEPT ![c] = Idle]

-----------------------------------------------------------------------------
(* The owner, in the control plane.                                        *)

\* setShowcaseListing: any text that is not blank, at any time.
Describe(c) ==
    /\ client[c] = Idle
    /\ described' = TRUE
    /\ UNCHANGED <<listed, drafted, current, picture, job, exec, client, chosen>>

\* updateAccess: a project cannot be listed without its line.
AskToList(c) ==
    /\ client[c] = Idle /\ described
    /\ client' = [client EXCEPT ![c] = [at |-> "list", version |-> current, was |-> listed]]
    /\ UNCHANGED <<listed, card, current, picture, job, exec, chosen>>

\* A capture of the version that the request has read follows, if it is new there.
List(c) ==
    /\ client[c].at = "list"
    /\ listed' = TRUE
    /\ client' = [client EXCEPT ![c] =
                    IF @.was \/ @.version = None THEN Idle
                    ELSE [at |-> "queue", version |-> @.version]]
    /\ UNCHANGED <<card, current, picture, job, exec, chosen>>

\* enqueueRerunnable, whose failure is a line in the log.
QueueCapture(c, works) ==
    /\ client[c].at = "queue"
    /\ job' = [job EXCEPT ![client[c].version] =
                IF works /\ @ \in {"absent", "succeeded", "failed"} THEN "queued" ELSE @]
    /\ Returns(c)
    /\ UNCHANGED <<listed, card, current, picture, exec, chosen>>

\* Down to another tier: the picture goes, the row first and the file second.
Leave(c) ==
    /\ client[c] = Idle /\ listed
    /\ listed' = FALSE
    /\ Goes(c, "clear")
    /\ UNCHANGED <<card, current, picture, job, exec, chosen>>

Clear(c) ==
    /\ client[c].at = "clear"
    /\ row' = NoShot
    /\ chosen' = FALSE
    /\ IF row.path THEN Goes(c, "remove") ELSE Returns(c)
    /\ UNCHANGED <<listed, card, current, file, job, exec>>

Remove(c) ==
    /\ client[c].at = "remove"
    /\ file' = None
    /\ Returns(c)
    /\ UNCHANGED <<listed, card, current, row, job, exec, chosen>>

\* setShowcaseScreenshot writes the file, listed or not, and then the row.
Write(c) ==
    /\ client[c] = Idle
    /\ file' = "uploaded"
    /\ Goes(c, "save")
    /\ UNCHANGED <<listed, card, current, row, job, exec, chosen>>

Save(c) ==
    /\ client[c].at = "save"
    /\ row' = [path |-> TRUE, source |-> "uploaded"]
    /\ chosen' = TRUE
    /\ Returns(c)
    /\ UNCHANGED <<listed, card, current, file, job, exec>>

-----------------------------------------------------------------------------
(* The executor.                                                           *)

BeginDeploy(v) ==
    /\ exec = Idle
    /\ exec' = [at |-> "activate", version |-> v]
    /\ UNCHANGED <<listed, card, current, picture, job, client, chosen>>

Activate ==
    /\ exec.at = "activate"
    /\ current' = exec.version
    /\ exec' = [exec EXCEPT !.at = "follow"]
    /\ UNCHANGED <<listed, card, picture, job, client, chosen>>

\* A listed project's card follows, by a job whose key was never used before: a
\* version that was captured once is not captured again here.
Follow(works) ==
    /\ exec.at = "follow"
    /\ job' = [job EXCEPT ![exec.version] =
                IF works /\ listed /\ @ = "absent" THEN "queued" ELSE @]
    /\ exec' = Idle
    /\ UNCHANGED <<listed, card, current, picture, client, chosen>>

Claim(v) ==
    /\ exec = Idle /\ job[v] = "queued"
    /\ job' = [job EXCEPT ![v] = "running"]
    /\ exec' = [at |-> "read", version |-> v]
    /\ UNCHANGED <<listed, card, current, picture, client, chosen>>

Finished(outcome) == job' = [job EXCEPT ![exec.version] = outcome] /\ exec' = Idle

\* captureShowcase: what the row says of the picture is read once.
Read ==
    /\ exec.at = "read"
    /\ IF listed /\ current = exec.version
       THEN exec' = [at |-> "render", version |-> current, keep |-> row.source = "uploaded"]
            /\ UNCHANGED job
       ELSE Finished("succeeded")
    /\ UNCHANGED <<listed, card, current, picture, client, chosen>>

\* renderPage copies the picture over the file unless it is to be kept.
Render(shot) ==
    /\ exec.at = "render"
    /\ file' = IF shot /\ ~exec.keep THEN "captured" ELSE file
    /\ exec' = [at |-> "record", version |-> exec.version, keep |-> exec.keep, shot |-> shot]
    /\ UNCHANGED <<listed, card, current, row, job, client, chosen>>

\* The UPDATE asks whether the project is still listed, and nothing else.
Record ==
    /\ exec.at = "record"
    /\ row' = IF exec.shot /\ ~exec.keep /\ listed
              THEN [path |-> TRUE, source |-> "captured"] ELSE row
    /\ exec' = [at |-> "draft", version |-> exec.version]
    /\ UNCHANGED <<listed, card, current, file, job, client, chosen>>

\* The model's line, if there is one, goes where no visitor sees it.
Draft(summary) ==
    /\ exec.at = "draft"
    /\ drafted' = (drafted \/ summary)
    /\ Finished("succeeded")
    /\ UNCHANGED <<listed, described, current, picture, client, chosen>>

\* The attempt fails or the executor dies: again, or for good.
CaptureFails(outcome) ==
    /\ exec.at \in {"read", "render", "record", "draft"}
    /\ outcome \in {"queued", "failed"}
    /\ Finished(outcome)
    /\ UNCHANGED <<listed, card, current, picture, client, chosen>>

Next ==
    \/ \E c \in Client :
        \/ Describe(c) \/ AskToList(c) \/ List(c) \/ Leave(c) \/ Clear(c) \/ Remove(c)
        \/ Write(c) \/ Save(c)
        \/ \E works \in BOOLEAN : QueueCapture(c, works)
    \/ \E v \in Version : BeginDeploy(v) \/ Claim(v)
    \/ \E works \in BOOLEAN : Follow(works)
    \/ \E shot \in BOOLEAN : Render(shot) \/ Draft(shot)
    \/ \E outcome \in {"queued", "failed"} : CaptureFails(outcome)
    \/ Activate \/ Read \/ Record

Spec == Init /\ [][Next]_vars

-----------------------------------------------------------------------------
(* Properties.                                                             *)

\* What showcaseScreenshot serves: the bytes of the file of a listed project
\* whose row names it, and 404 if the file is not there.
Served == IF listed /\ row.path THEN file ELSE None

\* What executor.ts 1189 says: "An owner who uploaded their own picture chose it
\* on purpose, so a later deploy must not quietly replace it."  A picture put up
\* in a listed project is the one that is served until the owner takes it down or
\* is putting up another.  It does not hold: a capture reads the row before its
\* render and asks nothing of it afterwards.
UploadedIsKept ==
    chosen /\ listed /\ (\A c \in Client : client[c] = Idle) => Served = "uploaded"
=============================================================================
