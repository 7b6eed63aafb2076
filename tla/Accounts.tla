------------------------------ MODULE Accounts ------------------------------
(***************************************************************************)
(* Accounts: who holds which role, how many projects each may have, and    *)
(* the projects counted against that (create in lib/projects.ts,           *)
(* AdminWriteService.updateAccount and syncOperators in lib/admin.ts, the  *)
(* callback of routes/auth.ts).                                            *)
(*                                                                         *)
(* What the limit of an account depends on can be changed by a superadmin  *)
(* and by the host's environment while the account is creating projects.   *)
(***************************************************************************)
EXTENDS Naturals

CONSTANTS
    Account,
    Request,       \* requests handled at once
    MaxQuota,      \* bound: the largest quota a superadmin sets
    DefaultQuota,  \* PLATFORM_DEFAULT_PROJECT_QUOTA
    OperatorQuota, \* PLATFORM_OPERATOR_PROJECT_QUOTA
    MaxProjects    \* bound: projects of an account at once

VARIABLES
    role,     \* accounts.platform_role, or None before the first login
    quota,    \* accounts.project_quota
    projects, \* projects of each account that are not 'deleted'
    lock,     \* which request's transaction holds each account's row
    request   \* where each request is

vars == <<role, quota, projects, lock, request>>

None == "none"

Idle == [at |-> "idle"]

Role == {"user", "operator", "superadmin"}

\* The ladder of lib/authn.ts.
Rank == [r \in Role |-> CASE r = "user" -> 0 [] r = "operator" -> 1 [] r = "superadmin" -> 2]

RoleAtLeast(r, least) == r # None /\ Rank[r] >= Rank[least]

\* effectiveProjectQuota: a floor for operators, never a cap.
EffectiveQuota(r, q) == IF RoleAtLeast(r, "operator") /\ OperatorQuota > q THEN OperatorQuota ELSE q

\* What a superadmin may send: a quota, a role, or both; 0 and None leave them alone.
Patch == [quota : 0 .. MaxQuota, role : {"user", "operator", None}]
         \ {[quota |-> 0, role |-> None]}

TypeOK ==
    /\ role \in [Account -> Role \cup {None}]
    /\ quota \in [Account -> 1 .. MaxQuota]
    /\ projects \in [Account -> 0 .. MaxProjects]
    /\ lock \in [Account -> Request \cup {None}]
    /\ request \in [Request ->
            {Idle} \cup [at : {"create"}, on : Account]
            \cup [at : {"count"}, on : Account, limit : 1 .. MaxQuota]
            \cup [at : {"insert"}, on : Account]
            \cup [at : {"patch"}, on : Account, patch : Patch]
            \cup [at : {"write"}, on : Account, role : Role, quota : 1 .. MaxQuota]]

Init ==
    /\ role = [a \in Account |-> None]
    /\ quota = [a \in Account |-> DefaultQuota]
    /\ projects = [a \in Account |-> 0]
    /\ lock = [a \in Account |-> None]
    /\ request = [r \in Request |-> Idle]

\* The rest of a request, in the same transaction.
Goes(r, place) == request' = [request EXCEPT ![r] = place]

\* COMMIT or ROLLBACK.
Ends(r) ==
    /\ request' = [request EXCEPT ![r] = Idle]
    /\ lock' = [a \in Account |-> IF lock[a] = r THEN None ELSE lock[a]]

-----------------------------------------------------------------------------
(* Requests.                                                               *)

\* The first login makes the account; later ones leave its role and its quota.
SignIn(a) ==
    /\ role' = [role EXCEPT ![a] = IF @ = None THEN "user" ELSE @]
    /\ UNCHANGED <<quota, projects, lock, request>>

AskToCreate(r, a) ==
    /\ request[r] = Idle /\ role[a] # None
    /\ Goes(r, [at |-> "create", on |-> a])
    /\ UNCHANGED <<role, quota, projects, lock>>

\* Mutant: the account is read without FOR UPDATE.
LockIgnored(a) == TRUE

\* SELECT ... FOR UPDATE waits for the transaction that holds the row.
LockFree(a) == lock[a] = None

\* create reads the role and the quota in the database, not those of the session.
LockAccount(r) ==
    /\ request[r].at = "create" /\ LockFree(request[r].on)
    /\ LET a == request[r].on IN
       /\ lock' = [lock EXCEPT ![a] = r]
       /\ Goes(r, [at |-> "count", on |-> a, limit |-> EffectiveQuota(role[a], quota[a])])
    /\ UNCHANGED <<role, quota, projects>>

\* A project that awaits its purge still counts.
Count(r) ==
    /\ request[r].at = "count"
    /\ IF projects[request[r].on] >= request[r].limit
       THEN Ends(r)
       ELSE Goes(r, [at |-> "insert", on |-> request[r].on]) /\ UNCHANGED lock
    /\ UNCHANGED <<role, quota, projects>>

Insert(r) ==
    /\ request[r].at = "insert" /\ projects[request[r].on] < MaxProjects
    /\ projects' = [projects EXCEPT ![request[r].on] = @ + 1]
    /\ Ends(r)
    /\ UNCHANGED <<role, quota>>

\* The slug is taken, or the database fails: ROLLBACK.
CreateFails(r) ==
    /\ request[r].at \in {"count", "insert"}
    /\ Ends(r)
    /\ UNCHANGED <<role, quota, projects>>

\* assertSuperadmin reads the role again, before the transaction.
AskToPatch(r, actor, a, patch) ==
    /\ request[r] = Idle /\ role[a] # None
    /\ RoleAtLeast(role[actor], "superadmin")
    /\ Goes(r, [at |-> "patch", on |-> a, patch |-> patch])
    /\ UNCHANGED <<role, quota, projects, lock>>

\* The role of a superadmin is the host's to change: 403.  What is not in the
\* patch is written back as it was read.
LockPatched(r) ==
    /\ request[r].at = "patch" /\ LockFree(request[r].on)
    /\ LET a == request[r].on
           p == request[r].patch
       IN
       IF p.role # None /\ role[a] = "superadmin"
       THEN Ends(r)
       ELSE /\ lock' = [lock EXCEPT ![a] = r]
            /\ Goes(r, [at |-> "write", on |-> a,
                        role |-> IF p.role = None THEN role[a] ELSE p.role,
                        quota |-> IF p.quota = 0 THEN quota[a] ELSE p.quota])
    /\ UNCHANGED <<role, quota, projects>>

WritePatch(r) ==
    /\ request[r].at = "write"
    /\ role' = [role EXCEPT ![request[r].on] = request[r].role]
    /\ quota' = [quota EXCEPT ![request[r].on] = request[r].quota]
    /\ Ends(r)
    /\ UNCHANGED projects

-----------------------------------------------------------------------------
(* The rest of the system.                                                 *)

\* The executor has purged a project.
Purged(a) ==
    /\ projects[a] > 0
    /\ projects' = [projects EXCEPT ![a] = @ - 1]
    /\ UNCHANGED <<role, quota, lock, request>>

\* syncOperators, of the lists in the host's environment: nothing if both are
\* empty, and only superadmins are named if the list of operators is.
SyncOperators(operators, superadmins) ==
    LET ops == operators \ superadmins IN
    [a \in Account |->
        IF role[a] = None THEN None
        ELSE IF a \in superadmins THEN "superadmin"
        ELSE IF a \in ops THEN "operator"
        ELSE IF ops # {} THEN "user"
        ELSE role[a]]

\* The control plane starts again, with lists that may have been edited; what it
\* had not committed is rolled back.
HostStarts(operators, superadmins) ==
    /\ role' = SyncOperators(operators, superadmins)
    /\ request' = [r \in Request |-> Idle]
    /\ lock' = [a \in Account |-> None]
    /\ UNCHANGED <<quota, projects>>

Next ==
    \/ \E a \in Account : SignIn(a) \/ Purged(a)
    \/ \E r \in Request :
        \/ LockAccount(r) \/ Count(r) \/ Insert(r) \/ CreateFails(r)
        \/ LockPatched(r) \/ WritePatch(r)
        \/ \E a \in Account : AskToCreate(r, a)
        \/ \E actor \in Account, a \in Account, patch \in Patch : AskToPatch(r, actor, a, patch)
    \/ \E operators \in SUBSET Account, superadmins \in SUBSET Account :
        HostStarts(operators, superadmins)

Spec == Init /\ [][Next]_vars

-----------------------------------------------------------------------------
(* Properties.                                                             *)

\* A project is created only within what its account may have at that moment:
\* neither another create nor a change of the quota or of the role comes between
\* the count and the insertion.
QuotaHeld ==
    [][\A a \in Account :
        projects'[a] > projects[a] => projects'[a] <= EffectiveQuota(role[a], quota[a])]_vars
=============================================================================
