------------------------------ MODULE Sources ------------------------------
(***************************************************************************)
(* How source reaches the platform: the chunked upload and its completion, *)
(* the direct upload, the storing of an archive, and the creation of a     *)
(* version under an idempotency key (lib/projects.ts, lib/uploads.ts).     *)
(*                                                                         *)
(* The bytes of a chunk are abstracted to whether they are the ones that   *)
(* the declared digest was computed over.                                  *)
(***************************************************************************)
EXTENDS Naturals, FiniteSets

CONSTANTS
    Request,   \* requests handled at once
    Upload,    \* uploads that can be begun
    Body,      \* archives, named by their sha256
    Key,       \* idempotency keys; a request without one draws a key of its own
    Chunks,    \* chunks of an archive
    MaxFiles,  \* bound on the archives written
    MaxBuilds  \* bound on the versions created

VARIABLES
    uploads,   \* rows of source_uploads, with their chunks
    archives,  \* files of the source root
    revisions, \* rows of source_revisions
    written,   \* files ever written, for fresh names
    builds,    \* versions with the key of their build job
    answers,   \* history: what requests to create a version were told
    request    \* where each request is

vars == <<uploads, archives, revisions, written, builds, answers, request>>

Index == 0 .. Chunks - 1

Archive == [id : 1 .. MaxFiles, body : Body]

Build == [id : 1 .. MaxBuilds, key : Key, body : Body]

UploadRow ==
    [state : {"none", "open", "completed", "gone"}, expected : Body,
     next : 0 .. Chunks, stored : [Index -> {"absent", "right", "wrong"}]]

Idle == [at |-> "idle"]

Storing == {"write", "insert", "remove", "audit"}

RequestState ==
    {Idle}
    \cup [at : {"assemble", "reopen"}, upload : Upload]
    \cup [at : Storing, upload : Upload \cup {"direct"}, body : Body, file : 0 .. MaxFiles]
    \cup [at : {"look", "create", "again"}, key : Key, body : Body]

TypeOK ==
    /\ uploads \in [Upload -> UploadRow]
    /\ archives \subseteq Archive /\ revisions \subseteq Archive
    /\ written \in 0 .. MaxFiles
    /\ builds \subseteq Build /\ answers \subseteq Build
    /\ request \in [Request -> RequestState]

Init ==
    /\ uploads \in [Upload -> {[state |-> "none", expected |-> b, next |-> 0,
                                stored |-> [i \in Index |-> "absent"]] : b \in Body}]
    /\ archives = {} /\ revisions = {} /\ written = 0
    /\ builds = {} /\ answers = {}
    /\ request = [p \in Request |-> Idle]

stored == <<archives, revisions, written>>

versions == <<builds, answers>>

At(p, s) == request[p].at = s

Goes(p, state) == request' = [request EXCEPT ![p] = state]

-----------------------------------------------------------------------------
(* The chunked upload.                                                     *)

\* beginUpload
Begin(u) ==
    /\ uploads[u].state = "none"
    /\ uploads' = [uploads EXCEPT ![u].state = "open"]
    /\ UNCHANGED <<stored, versions, request>>

\* uploadChunk: one transaction under the row's lock.  A chunk leaves no gap and
\* may replace one that is stored; with a digest of its own a wrong chunk would
\* have been refused.
SendChunk(u, i, data) ==
    /\ uploads[u].state = "open"
    /\ i <= uploads[u].next
    /\ uploads' = [uploads EXCEPT ![u].stored[i] = data,
                                  ![u].next = IF i + 1 > @ THEN i + 1 ELSE @]
    /\ UNCHANGED <<stored, versions, request>>

\* abortUpload; or the hour is over and housekeeping deletes the row.
Abort(u) ==
    /\ uploads[u].state = "open"
    /\ uploads' = [uploads EXCEPT ![u].state = "gone"]
    /\ UNCHANGED <<stored, versions, request>>

Expire(u) ==
    /\ uploads[u].state \in {"open", "completed"}
    /\ uploads' = [uploads EXCEPT ![u].state = "gone"]
    /\ UNCHANGED <<stored, versions, request>>

\* completeUpload claims the upload, and only one request can.
Claim(p, u) ==
    /\ At(p, "idle") /\ uploads[u].state = "open"
    /\ uploads' = [uploads EXCEPT ![u].state = "completed"]
    /\ Goes(p, [at |-> "assemble", upload |-> u])
    /\ UNCHANGED <<stored, versions>>

\* The chunks of a row that is gone are gone with it.
Fits(u) == uploads[u].state # "gone" /\ \A i \in Index : uploads[u].stored[i] = "right"

Assemble(p) ==
    /\ At(p, "assemble")
    /\ LET u == request[p].upload IN
       IF Fits(u)
       THEN Goes(p, [at |-> "write", upload |-> u, body |-> uploads[u].expected, file |-> 0])
       ELSE Goes(p, [at |-> "reopen", upload |-> u])
    /\ UNCHANGED <<uploads, stored, versions>>

\* The claim is given back with the error, if the row is still there.
Reopen(p) ==
    /\ At(p, "reopen")
    /\ LET u == request[p].upload IN
       uploads' = [uploads EXCEPT ![u].state = IF @ = "gone" THEN "gone" ELSE "open"]
    /\ Goes(p, Idle)
    /\ UNCHANGED <<stored, versions>>

-----------------------------------------------------------------------------
(* persistSource.                                                          *)

\* uploadSource
Direct(p, b) ==
    /\ At(p, "idle")
    /\ Goes(p, [at |-> "write", upload |-> "direct", body |-> b, file |-> 0])
    /\ UNCHANGED <<uploads, stored, versions>>

\* The archive is written under a revision id of its own.
Write(p) ==
    /\ At(p, "write") /\ written < MaxFiles
    /\ written' = written + 1
    /\ archives' = archives \cup {[id |-> written + 1, body |-> request[p].body]}
    /\ Goes(p, [request[p] EXCEPT !.at = "insert", !.file = written + 1])
    /\ UNCHANGED <<uploads, revisions, versions>>

\* INSERT ... ON CONFLICT (project_id, sha256): the row that is there stays.
Insert(p) ==
    /\ At(p, "insert")
    /\ IF \E r \in revisions : r.body = request[p].body
       THEN Goes(p, [request[p] EXCEPT !.at = "remove"]) /\ UNCHANGED revisions
       ELSE /\ revisions' = revisions \cup {[id |-> request[p].file, body |-> request[p].body]}
            /\ Goes(p, [request[p] EXCEPT !.at = "audit"])
    /\ UNCHANGED <<uploads, archives, written, versions>>

\* Mutant: the archive that the row names is removed.
TheirArchive(p) == {f \in archives : f \in revisions /\ f.body = request[p].body}

OwnArchive(p) == {f \in archives : f.id = request[p].file}

\* The bytes were stored before: the second archive is removed.
Remove(p) ==
    /\ At(p, "remove")
    /\ archives' = archives \ OwnArchive(p)
    /\ Goes(p, [request[p] EXCEPT !.at = "audit"])
    /\ UNCHANGED <<uploads, revisions, written, versions>>

Audited(p) ==
    /\ At(p, "audit")
    /\ Goes(p, Idle)
    /\ UNCHANGED <<uploads, stored, versions>>

\* An error of the disk or of the database: a claimed upload is opened again.
Fails(p) ==
    /\ request[p].at \in Storing
    /\ Goes(p, IF request[p].upload = "direct" THEN Idle
               ELSE [at |-> "reopen", upload |-> request[p].upload])
    /\ UNCHANGED <<uploads, stored, versions>>

-----------------------------------------------------------------------------
(* createVersion.                                                          *)

BuildOf(key) == {v \in builds : v.key = key}

\* The request is for a revision that exists.
Ask(p, key, b) ==
    /\ At(p, "idle") /\ \E r \in revisions : r.body = b
    /\ Goes(p, [at |-> "look", key |-> key, body |-> b])
    /\ UNCHANGED <<uploads, stored, versions>>

\* A version of this key is the answer, or a refusal if it is of another source.
Answer(p) ==
    /\ answers' = answers \cup {v \in BuildOf(request[p].key) : v.body = request[p].body}
    /\ Goes(p, Idle)
    /\ UNCHANGED <<uploads, stored, builds>>

Look(p) ==
    /\ At(p, "look")
    /\ IF BuildOf(request[p].key) # {} THEN Answer(p)
       ELSE /\ Goes(p, [request[p] EXCEPT !.at = "create"])
            /\ UNCHANGED <<uploads, stored, versions>>

\* Mutant: the job's key is not unique.
KeyUnchecked(key) == FALSE

KeyTaken(key) == BuildOf(key) # {}

\* The version and its job are inserted together: a key that was taken in the
\* meantime violates the unique index and rolls both back.
Create(p) ==
    /\ At(p, "create") /\ Cardinality(builds) < MaxBuilds
    /\ IF KeyTaken(request[p].key)
       THEN Goes(p, [request[p] EXCEPT !.at = "again"]) /\ UNCHANGED versions
       ELSE LET v == [id |-> Cardinality(builds) + 1, key |-> request[p].key,
                      body |-> request[p].body] IN
            /\ builds' = builds \cup {v}
            /\ answers' = answers \cup {v}
            /\ Goes(p, Idle)
    /\ UNCHANGED <<uploads, stored>>

\* After the rollback the other request's version is read.
Again(p) == At(p, "again") /\ Answer(p)

\* The process dies.
Crash(p) ==
    /\ ~At(p, "idle")
    /\ Goes(p, Idle)
    /\ UNCHANGED <<uploads, stored, versions>>

Next ==
    \/ \E u \in Upload : Begin(u) \/ Abort(u) \/ Expire(u)
    \/ \E u \in Upload, i \in Index, data \in {"right", "wrong"} : SendChunk(u, i, data)
    \/ \E p \in Request :
        \/ Assemble(p) \/ Reopen(p) \/ Write(p) \/ Insert(p) \/ Remove(p) \/ Audited(p)
        \/ Fails(p) \/ Look(p) \/ Create(p) \/ Again(p) \/ Crash(p)
        \/ \E u \in Upload : Claim(p, u)
        \/ \E b \in Body : Direct(p, b) \/ \E key \in Key : Ask(p, key, b)

Spec == Init /\ [][Next]_vars

-----------------------------------------------------------------------------
(* Properties.                                                             *)

\* Whatever requests store the same bytes at once, fail or are repeated, the
\* archive of a revision is on disk: a build can always unpack it.
ArchiveKept == revisions \subseteq archives

\* Requests under one key are told of one version, however they interleave
\* and whether or not they are repeated after a lost answer.
OneAnswerPerKey == \A v, w \in answers : v.key = w.key => v = w
=============================================================================
