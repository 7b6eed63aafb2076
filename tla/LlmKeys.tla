------------------------------ MODULE LlmKeys ------------------------------
(***************************************************************************)
(* The key of a project's managed LLM binding (lib/llm.ts, and its callers *)
(* in lib/projects.ts).  The key is minted and revoked on a proxy, over    *)
(* HTTP and outside of any transaction; the project's row keeps a copy,    *)
(* which every start of the runtime hands to the tenant.                   *)
(*                                                                         *)
(* The proxy keeps one key per alias and the alias is the project's id, so *)
(* minting is two calls: delete by alias, generate.  Each can fail before  *)
(* or after it took effect, and the platform can die between any two.      *)
(***************************************************************************)
EXTENDS Naturals

CONSTANTS
    Request,  \* requests handled at once
    MaxKeys   \* bound on the keys ever minted

VARIABLES
    project,   \* the row: whether it exists or is being deleted, llm_enabled, llm_key_enc
    live,      \* the key that the proxy accepts for the alias, or NoKey
    minted,    \* keys ever generated, for fresh names
    request,   \* where each request is
    unrestored \* history: the last restore could not get its key

vars == <<project, live, minted, request, unrestored>>

NoKey == 0

ProxyKey == 1 .. MaxKeys

Idle == [at |-> "idle"]

Purpose == {"create", "enable", "restore"}

RequestState ==
    {Idle}
    \cup [at : {"clear", "generate", "undo"}, for : Purpose]
    \cup [at : {"store"}, for : Purpose, key : ProxyKey]
    \cup [at : {"mark", "reopen"}, bound : BOOLEAN]
    \cup [at : {"revoke", "forget"}]

TypeOK ==
    /\ project \in [status : {"none", "ready", "deleting"}, enabled : BOOLEAN,
                    stored : ProxyKey \cup {NoKey}]
    /\ live \in ProxyKey \cup {NoKey}
    /\ minted \in 0 .. MaxKeys
    /\ request \in [Request -> RequestState]
    /\ unrestored \in BOOLEAN

Init ==
    /\ project = [status |-> "none", enabled |-> FALSE, stored |-> NoKey]
    /\ live = NoKey /\ minted = 0
    /\ request = [p \in Request |-> Idle]
    /\ unrestored = FALSE

At(p, s) == request[p].at = s

Goes(p, state) == request' = [request EXCEPT ![p] = state]

\* What is known of a restore when its key does not arrive.
KeyMissed(p) == unrestored' = (unrestored \/ request[p].for = "restore")

-----------------------------------------------------------------------------
(* Requests.                                                               *)

\* create: the id is new, so nobody else works on it.  Without the binding there
\* is no key to mint.
Create(p, wantsLlm) ==
    /\ project.status = "none" /\ \A q \in Request : At(q, "idle")
    /\ IF wantsLlm
       THEN Goes(p, [at |-> "clear", for |-> "create"]) /\ UNCHANGED project
       ELSE project' = [project EXCEPT !.status = "ready"] /\ UNCHANGED request
    /\ UNCHANGED <<live, minted, unrestored>>

\* Mutant: asking for a binding the project holds mints again.
MintsAlways == TRUE

MintsLlm == ~project.enabled

\* enableResources reads the row, and mints if the binding is new.
Enable(p) ==
    /\ At(p, "idle") /\ project.status = "ready" /\ MintsLlm
    /\ Goes(p, [at |-> "clear", for |-> "enable"])
    /\ UNCHANGED <<project, live, minted, unrestored>>

\* delete and restore read the row, and act on what llm_enabled was then; a project
\* that is being deleted has its key left alone by another delete.
Delete(p) ==
    /\ At(p, "idle") /\ project.status = "ready"
    /\ Goes(p, [at |-> "mark", bound |-> project.enabled])
    /\ UNCHANGED <<project, live, minted, unrestored>>

Restore(p) ==
    /\ At(p, "idle") /\ project.status = "deleting"
    /\ Goes(p, [at |-> "reopen", bound |-> project.enabled])
    /\ UNCHANGED <<project, live, minted, unrestored>>

-----------------------------------------------------------------------------
(* mint, for all of them.                                                  *)

\* /key/delete, which also succeeds if there is nothing to delete.
Clear(p) ==
    /\ At(p, "clear")
    /\ live' = NoKey
    /\ Goes(p, [request[p] EXCEPT !.at = "generate"])
    /\ UNCHANGED <<project, minted, unrestored>>

\* /key/generate, which the proxy refuses while the alias has a key.
Generate(p) ==
    /\ At(p, "generate") /\ live = NoKey /\ minted < MaxKeys
    /\ minted' = minted + 1
    /\ live' = minted + 1
    /\ Goes(p, [at |-> "store", for |-> request[p].for, key |-> minted + 1])
    /\ UNCHANGED <<project, unrestored>>

\* A call is refused, times out, or its answer is lost: 502.
ClearFails(p) ==
    /\ At(p, "clear")
    /\ live' \in {live, NoKey}
    /\ Goes(p, Idle) /\ KeyMissed(p)
    /\ UNCHANGED <<project, minted>>

GenerateFails(p) ==
    /\ At(p, "generate")
    /\ \/ UNCHANGED <<live, minted>>
       \/ live = NoKey /\ minted < MaxKeys /\ minted' = minted + 1 /\ live' = minted + 1
    /\ Goes(p, Idle) /\ KeyMissed(p)
    /\ UNCHANGED project

\* The transaction of create or enableResources; the last UPDATE of restore.
Store(p) ==
    /\ At(p, "store")
    /\ project' = [status |-> IF request[p].for = "create" THEN "ready" ELSE project.status,
                   enabled |-> project.enabled \/ request[p].for # "restore",
                   stored |-> request[p].key]
    /\ Goes(p, Idle)
    /\ unrestored' = (unrestored /\ request[p].for # "restore")
    /\ UNCHANGED <<live, minted>>

\* A quota, a slug, the database: the transaction is rolled back and the key
\* revoked, as far as that works.  restore has no transaction any more.
StoreFails(p) ==
    /\ At(p, "store")
    /\ Goes(p, IF request[p].for = "restore" THEN Idle
               ELSE [at |-> "undo", for |-> request[p].for])
    /\ KeyMissed(p)
    /\ UNCHANGED <<project, live, minted>>

Undo(p) ==
    /\ At(p, "undo")
    /\ live' \in {live, NoKey}
    /\ Goes(p, Idle)
    /\ UNCHANGED <<project, minted, unrestored>>

-----------------------------------------------------------------------------
(* Deleting and restoring.                                                 *)

Mark(p) ==
    /\ At(p, "mark")
    /\ project' = [project EXCEPT !.status = "deleting"]
    /\ Goes(p, IF request[p].bound THEN [at |-> "revoke"] ELSE Idle)
    /\ UNCHANGED <<live, minted, unrestored>>

\* revokeLlmKey: the row forgets the key only once the proxy has.
Revoke(p) ==
    /\ At(p, "revoke")
    /\ live' = NoKey
    /\ Goes(p, [at |-> "forget"])
    /\ UNCHANGED <<project, minted, unrestored>>

RevokeFails(p) ==
    /\ At(p, "revoke")
    /\ live' \in {live, NoKey}
    /\ Goes(p, Idle)
    /\ UNCHANGED <<project, minted, unrestored>>

Forget(p) ==
    /\ At(p, "forget")
    /\ project' = [project EXCEPT !.stored = NoKey]
    /\ Goes(p, Idle)
    /\ UNCHANGED <<live, minted, unrestored>>

\* restore commits, unless the project is not pending deletion any more, and
\* then mints a replacement.
Reopen(p) ==
    /\ At(p, "reopen")
    /\ IF project.status = "deleting"
       THEN /\ project' = [project EXCEPT !.status = "ready"]
            /\ Goes(p, IF request[p].bound THEN [at |-> "clear", for |-> "restore"] ELSE Idle)
       ELSE Goes(p, Idle) /\ UNCHANGED project
    /\ UNCHANGED <<live, minted, unrestored>>

\* The platform dies in the middle of a request.
Crash(p) ==
    /\ ~At(p, "idle")
    /\ Goes(p, Idle)
    /\ unrestored' = (unrestored \/ ("for" \in DOMAIN request[p] /\ request[p].for = "restore"))
    /\ UNCHANGED <<project, live, minted>>

Next ==
    \E p \in Request :
        \/ \E wantsLlm \in BOOLEAN : Create(p, wantsLlm)
        \/ Enable(p) \/ Delete(p) \/ Restore(p)
        \/ Clear(p) \/ Generate(p) \/ ClearFails(p) \/ GenerateFails(p)
        \/ Store(p) \/ StoreFails(p) \/ Undo(p)
        \/ Mark(p) \/ Revoke(p) \/ RevokeFails(p) \/ Forget(p) \/ Reopen(p)
        \/ Crash(p)

Spec == Init /\ [][Next]_vars

-----------------------------------------------------------------------------
(* Properties.                                                             *)

\* The key a runtime is started with is the one the proxy accepts, whatever
\* calls failed or were cut off before, as long as a project's owner asks for one
\* thing at a time and the last restore got its key.
KeyWorks ==
    /\ \A p \in Request : At(p, "idle")
    /\ project.status = "ready" /\ project.enabled /\ ~unrestored
    => live = project.stored /\ live # NoKey
=============================================================================
