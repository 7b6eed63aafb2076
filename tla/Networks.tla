------------------------------ MODULE Networks ------------------------------
(***************************************************************************)
(* The Docker networks of the executor: one per project that runs code,    *)
(* one per build, out of two pools of subnets (executor.ts 2135-2177,      *)
(* 2463-2531, 3272-3368).  Jobs and the housekeeping pass change them one  *)
(* at a time, under the mutex of lib/mutex.ts.                             *)
(*                                                                         *)
(* The queue keeps the jobs of one project apart, which JobQueue shows and *)
(* Claim assumes here.  Docker does one command at a time and refuses to   *)
(* remove a network that something is attached to.                         *)
(***************************************************************************)
EXTENDS Naturals, Sequences, FiniteSets, SequencesExt

CONSTANTS
    Project,      \* projects with functions
    Build,        \* build jobs
    RuntimeRoom,  \* subnets in RUNTIME_NETWORK_POOL
    BuildRoom,    \* subnets in BUILD_NETWORK_POOL
    MaxTroubles   \* bound: crashes, failures and new gateways

VARIABLES
    made,         \* the networks that exist, by what they are for
    attached,     \* the containers on each
    status,       \* projects.status, "gone" without a row
    locked,       \* Mutex.locked
    waiters,      \* Mutex.waiters
    proc,         \* where each caller is, and what it has left to do
    troubles

vars == <<made, attached, status, locked, waiters, proc, troubles>>

Name == Project \cup Build

\* The platform's own containers on a network, and the container it is made for.
Shared(n) == IF n \in Project THEN {"gateway", "pgbouncer", "rustfs"} ELSE {"proxy"}

Work == "work"

\* A build's container that outlived the executor that ran it.
Stray == "stray"

House == [kind |-> "house", on |-> "all"]
Start(p) == [kind |-> "start", on |-> p]
Delete(p) == [kind |-> "delete", on |-> p]
Builds(b) == [kind |-> "build", on |-> b]

Process ==
    {House} \cup {Start(p) : p \in Project} \cup {Delete(p) : p \in Project}
            \cup {Builds(b) : b \in Build}

Quiet == [pc |-> "idle", todo |-> {}]

Init ==
    /\ made = {}
    /\ attached = [n \in Name |-> {}]
    /\ status = [p \in Project |-> "live"]
    /\ locked = FALSE
    /\ waiters = <<>>
    /\ proc = [x \in Process |-> Quiet]
    /\ troubles = 0

At(x, pc) == proc[x].pc = pc

Step(x, pc, todo) == [proc EXCEPT ![x] = [pc |-> pc, todo |-> todo]]

-----------------------------------------------------------------------------
(* The mutex.  A caller that finds it locked waits in line; release hands  *)
(* the lock to the first in line without unlocking it.                     *)

\* x calls, and enters at `pc` with `todo` to do, now or when it is its turn.
Acquire(x, pc, todo) ==
    IF locked
    THEN /\ waiters' = Append(waiters, [who |-> x, pc |-> pc, todo |-> todo])
         /\ proc' = Step(x, "waits", {})
         /\ UNCHANGED locked
    ELSE /\ locked' = TRUE
         /\ proc' = Step(x, pc, todo)
         /\ UNCHANGED waiters

\* Mutant: whoever is woken finds the mutex unlocked, and so does a newcomer.
Unlocks(x, next) ==
    /\ locked' = FALSE
    /\ waiters' = IF waiters = <<>> THEN <<>> ELSE Tail(waiters)
    /\ proc' = IF waiters = <<>> THEN Step(x, next, {})
               ELSE [Step(x, next, {}) EXCEPT ![Head(waiters).who] =
                         [pc |-> Head(waiters).pc, todo |-> Head(waiters).todo]]

Release(x, next) ==
    /\ locked' = (waiters # <<>>)
    /\ waiters' = IF waiters = <<>> THEN <<>> ELSE Tail(waiters)
    /\ proc' = IF waiters = <<>> THEN Step(x, next, {})
               ELSE [Step(x, next, {}) EXCEPT ![Head(waiters).who] =
                         [pc |-> Head(waiters).pc, todo |-> Head(waiters).todo]]

-----------------------------------------------------------------------------
(* Making a network and attaching the platform's containers to it.         *)

\* A job is claimed: no other job of its project is at work.  A deletion marks the
\* project and removes its containers first.
Claim(x) ==
    /\ At(x, "idle")
    /\ CASE x.kind = "start" -> status[x.on] = "live" /\ At(Delete(x.on), "idle")
         [] x.kind = "delete" ->
                status[x.on] \in {"deleting", "deleted"} /\ At(Start(x.on), "idle")
         [] x.kind = "build" -> TRUE
         [] x.kind = "house" -> FALSE
    /\ IF x.kind = "delete"
       THEN /\ status' = [status EXCEPT ![x.on] = "deleted"]
            /\ proc' = Step(x, "containers", {})
            /\ UNCHANGED <<locked, waiters>>
       ELSE Acquire(x, "create", {}) /\ UNCHANGED status
    /\ UNCHANGED <<made, attached, troubles>>

\* Some candidate subnet of the pool is not taken.
RoomFor(n) ==
    IF n \in Project THEN Cardinality(made \cap Project) < RuntimeRoom
    ELSE Cardinality(made \cap Build) < BuildRoom

\* The network is there, or is made on the first subnet that overlaps no other.
Create(x) ==
    /\ At(x, "create")
    /\ x.on \in made \/ RoomFor(x.on)
    /\ made' = made \cup {x.on}
    /\ proc' = Step(x, "connect", Shared(x.on))
    /\ UNCHANGED <<attached, status, locked, waiters, troubles>>

\* No subnet remains: the job fails.
NoRoom(x) ==
    /\ At(x, "create")
    /\ x.on \notin made /\ ~RoomFor(x.on)
    /\ Release(x, IF x.kind = "build" THEN "done" ELSE "idle")
    /\ UNCHANGED <<made, attached, status, troubles>>

Connect(x, c) ==
    /\ At(x, "connect") /\ c \in proc[x].todo
    /\ attached' = [attached EXCEPT ![x.on] = @ \cup {c}]
    /\ proc' = Step(x, "connect", proc[x].todo \ {c})
    /\ UNCHANGED <<made, status, locked, waiters, troubles>>

Connected(x) ==
    /\ At(x, "connect") /\ proc[x].todo = {}
    /\ Release(x, "run")
    /\ UNCHANGED <<made, attached, status, troubles>>

\* The container it was made for, if it starts; a site's stays up, a build's comes
\* to its end.
RunContainer(x) ==
    /\ At(x, "run")
    /\ attached' \in {attached, [attached EXCEPT ![x.on] = @ \cup {Work}]}
    /\ proc' = Step(x, IF x.kind = "build" THEN "built" ELSE "idle", {})
    /\ UNCHANGED <<made, status, locked, waiters, troubles>>

-----------------------------------------------------------------------------
(* Taking it apart.                                                        *)

\* A stop job, or the container dies.
StopContainer(p) ==
    /\ At(Start(p), "idle") /\ Work \in attached[p]
    /\ attached' = [attached EXCEPT ![p] = @ \ {Work}]
    /\ UNCHANGED <<made, status, locked, waiters, proc, troubles>>

\* removeRuntime of a deletion, or a build's `docker rm` of its own container; then
\* the network.
RemoveContainers(x) ==
    /\ At(x, "containers") \/ At(x, "built")
    /\ attached' = [attached EXCEPT ![x.on] = @ \ {Work}]
    /\ Acquire(x, "disconnect", Shared(x.on))
    /\ UNCHANGED <<made, status, troubles>>

Disconnect(x, c) ==
    /\ proc[x].pc \in {"disconnect", "again"} /\ c \in proc[x].todo
    /\ attached' = [attached EXCEPT ![x.on] = @ \ {c}]
    /\ proc' = Step(x, proc[x].pc, proc[x].todo \ {c})
    /\ UNCHANGED <<made, status, locked, waiters, troubles>>

Disconnected(x) == proc[x].pc \in {"disconnect", "again"} /\ proc[x].todo = {}

RemoveNetwork(x) ==
    /\ Disconnected(x) /\ attached[x.on] = {}
    /\ made' = made \ {x.on}
    /\ Release(x, IF x.kind = "build" THEN "done" ELSE "row")
    /\ UNCHANGED <<attached, status, troubles>>

\* "has active endpoints": a project's network is disconnected and removed once
\* more; with a build's, and the second time, the job fails.
ActiveEndpoints(x) ==
    /\ Disconnected(x) /\ attached[x.on] # {}
    /\ IF x.kind = "delete" /\ At(x, "disconnect")
       THEN proc' = Step(x, "again", Shared(x.on)) /\ UNCHANGED <<locked, waiters>>
       ELSE Release(x, IF x.kind = "build" THEN "done" ELSE "idle")
    /\ UNCHANGED <<made, attached, status, troubles>>

\* DELETE FROM projects.
RemoveRow(p) ==
    /\ At(Delete(p), "row")
    /\ status' = [status EXCEPT ![p] = "gone"]
    /\ proc' = Step(Delete(p), "idle", {})
    /\ UNCHANGED <<made, attached, locked, waiters, troubles>>

\* A delete request, and the restore of a project that is not being purged.
AskToDelete(p) ==
    /\ status[p] = "live"
    /\ status' = [status EXCEPT ![p] = "deleting"]
    /\ UNCHANGED <<made, attached, locked, waiters, proc, troubles>>

Restore(p) ==
    /\ status[p] = "deleting"
    /\ status' = [status EXCEPT ![p] = "live"]
    /\ UNCHANGED <<made, attached, locked, waiters, proc, troubles>>

-----------------------------------------------------------------------------
(* The housekeeping pass attaches the gateway to what it should be on.     *)

HousekeepingBegins ==
    /\ At(House, "idle")
    /\ Acquire(House, "list", {})
    /\ UNCHANGED <<made, attached, status, troubles>>

ListNetworks ==
    /\ At(House, "list")
    /\ proc' = Step(House, "reattach", {p \in made \cap Project : status[p] = "live"})
    /\ UNCHANGED <<made, attached, status, locked, waiters, troubles>>

\* A network that is gone is logged and passed over.
Reattach(p) ==
    /\ At(House, "reattach") /\ p \in proc[House].todo
    /\ attached' = [attached EXCEPT ![p] = IF p \in made THEN @ \cup {"gateway"} ELSE @]
    /\ proc' = Step(House, "reattach", proc[House].todo \ {p})
    /\ UNCHANGED <<made, status, locked, waiters, troubles>>

HousekeepingEnds ==
    /\ At(House, "reattach") /\ proc[House].todo = {}
    /\ Release(House, "idle")
    /\ UNCHANGED <<made, attached, status, troubles>>

-----------------------------------------------------------------------------

Trouble == troubles < MaxTroubles /\ troubles' = troubles + 1

\* A command fails under the lock: the job does.
Fails(x) ==
    /\ Trouble
    /\ proc[x].pc \in {"create", "connect", "disconnect", "again", "list"}
    /\ Release(x, IF x.kind = "build" THEN "done" ELSE "idle")
    /\ UNCHANGED <<made, attached, status>>

\* compose creates the gateway anew, on its own networks only.
GatewayRecreated ==
    /\ Trouble
    /\ attached' = [n \in Name |-> attached[n] \ {"gateway"}]
    /\ UNCHANGED <<made, status, locked, waiters, proc>>

\* The executor dies: a new mutex, the jobs are queued again, and what Docker
\* runs it goes on running; a build that is done again has another container.
Crash ==
    /\ Trouble
    /\ locked' = FALSE /\ waiters' = <<>>
    /\ proc' = [x \in Process |-> IF At(x, "done") THEN proc[x] ELSE Quiet]
    /\ attached' = [n \in Name |->
           IF n \in Build /\ Work \in attached[n] THEN (attached[n] \ {Work}) \cup {Stray}
           ELSE attached[n]]
    /\ UNCHANGED <<made, status>>

Exits(b) ==
    /\ Stray \in attached[b]
    /\ attached' = [attached EXCEPT ![b] = @ \ {Stray}]
    /\ UNCHANGED <<made, status, locked, waiters, proc, troubles>>

Next ==
    \/ \E x \in Process :
        \/ Claim(x) \/ Create(x) \/ NoRoom(x) \/ Connected(x) \/ RunContainer(x)
        \/ RemoveContainers(x) \/ RemoveNetwork(x) \/ ActiveEndpoints(x) \/ Fails(x)
        \/ \E c \in proc[x].todo : Connect(x, c) \/ Disconnect(x, c)
    \/ \E p \in Project :
        StopContainer(p) \/ RemoveRow(p) \/ AskToDelete(p) \/ Restore(p) \/ Reattach(p)
    \/ \E b \in Build : Exits(b)
    \/ HousekeepingBegins \/ ListNetworks \/ HousekeepingEnds
    \/ GatewayRecreated \/ Crash

Spec == Init /\ [][Next]_vars

-----------------------------------------------------------------------------
(* Properties.                                                             *)

Pc == {"idle", "waits", "create", "connect", "run", "built", "containers", "disconnect",
       "again", "row", "list", "reattach", "done"}

TypeOK ==
    /\ made \subseteq Name
    /\ \A n \in Name : attached[n] \subseteq Shared(n) \cup {Work, Stray}
    /\ status \in [Project -> {"live", "deleting", "deleted", "gone"}]
    /\ locked \in BOOLEAN
    /\ \A i \in DOMAIN waiters : waiters[i].who \in Process
    /\ \A x \in Process : proc[x].pc \in Pc
    /\ troubles \in 0..MaxTroubles

\* A project's network is removed at the first attempt, which nobody attached
\* anything to meanwhile, and a project that is gone has left no network behind,
\* over the passes, starts, builds and crashes around it (executor.ts 2135-2138,
\* 2516-2520).
RemovalIsClean ==
    \A p \in Project :
        /\ ~At(Delete(p), "again")
        /\ status[p] = "gone" => p \notin made
=============================================================================
