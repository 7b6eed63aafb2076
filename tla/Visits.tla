------------------------------- MODULE Visits -------------------------------
(***************************************************************************)
(* What the gateway serves of one site and to whom (gateway.ts 81-161),    *)
(* and the visits it counts (gateway.ts 603-647, lib/analytics.ts).  A     *)
(* visit is written after the response, in one statement that nobody waits *)
(* for or repeats, under the day on which it happened; housekeeping takes  *)
(* the days away again, those that name visitors first.                    *)
(*                                                                         *)
(* A visitor is an address with a user agent, of which the table holds a   *)
(* keyed hash.  A statement takes less than a day.                         *)
(***************************************************************************)
EXTENDS Naturals, FiniteSets

CONSTANTS
    Request,       \* requests in the gateway at a time
    Visitor,       \* people on the configured network, without the owner's cookie
    ReadDays,      \* MAX_READ_DAYS
    VisitorDays,   \* VISITOR_RETENTION_DAYS
    VisitDays,     \* VISIT_RETENTION_DAYS
    MaxDay,        \* bound: days
    MaxVisits      \* bound: pages and functions that were opened

VARIABLES
    day,           \* today, where the installation is
    access,        \* projects.access_mode; "none" when there is no row
    request,       \* what each request is and how far it has come
    views, calls,  \* site_visit_days: views and api_requests
    visitors,      \* site_visitor_days
    house,         \* the day on which housekeeping began to prune, and what is next
    opened, came   \* history: who opened what on a day, and who was written down

vars == <<day, access, request, views, calls, visitors, house, opened, came>>

Day == 1..MaxDay

\* Who asks: someone on the network, the owner with the session of the site, the
\* renderer with its token, or anyone else.
Who == Visitor \cup {"owner", "renderer", "stranger"}

\* What for: a page by navigation, something else that is served as HTML or not
\* (the fallback of a single-page application, a prefetch), or a function.
What == {"page", "asset", "function"}

Nothing == [pc |-> "idle"]

Init ==
    /\ day = 1
    /\ access = "owner"
    /\ request = [r \in Request |-> Nothing]
    /\ views = [d \in Day |-> 0]
    /\ calls = [d \in Day |-> 0]
    /\ visitors = [d \in Day |-> {}]
    /\ house = [next |-> "idle", today |-> 0]
    /\ opened = {}
    /\ came = [d \in Day |-> {}]

kept == <<views, calls, visitors, came>>

-----------------------------------------------------------------------------
(* Serving.                                                                *)

RequiresOwnerSession(preview) == preview \/ access = "owner"

\* A render token opens what it names; the others need the owner's session, or
\* to come from the network.
Authorized(who, preview) ==
    \/ who = "renderer"
    \/ IF RequiresOwnerSession(preview) THEN who = "owner" ELSE who # "stranger"

\* The site is resolved, by its name or by that of a version, and the request is
\* refused or goes on with what was read.
Ask(r, who, what, preview) ==
    /\ request[r].pc = "idle"
    /\ access # "none"
    /\ Authorized(who, preview)
    /\ request' = [request EXCEPT ![r] =
           [pc |-> "asked", who |-> who, what |-> what, preview |-> preview]]
    /\ UNCHANGED <<day, access, house, opened, kept>>

\* A person opened a page, or a function was called from outside.
Countable(q) ==
    /\ ~q.preview
    /\ q.who \notin {"renderer", "owner"}
    /\ q.what # "asset"

\* The response goes out.  It is counted under today, unless the pool is busy.
Serve(r) ==
    LET q == request[r] IN
    /\ q.pc = "asked"
    /\ Cardinality(opened) < MaxVisits
    /\ IF q.what = "asset" \/ q.who \in {"renderer", "owner"} \/ q.preview THEN UNCHANGED opened
       ELSE opened' = opened \cup {[by |-> q.who, day |-> day, what |-> q.what,
                                    number |-> Cardinality(opened)]}
    /\ \/ /\ Countable(q)
          /\ request' = [request EXCEPT ![r] =
                 [pc |-> "writing", who |-> q.who, what |-> q.what, day |-> day]]
       \/ request' = [request EXCEPT ![r] = Nothing]
    /\ UNCHANGED <<day, access, house, kept>>

\* The file or the runtime is not there.
NotFound(r) ==
    /\ request[r].pc = "asked"
    /\ request' = [request EXCEPT ![r] = Nothing]
    /\ UNCHANGED <<day, access, house, opened, kept>>

-----------------------------------------------------------------------------
(* Counting.                                                               *)

\* The statement: the counter and the visitor together, if there is a project.
Recorded(q) ==
    IF access = "none" THEN UNCHANGED kept
    ELSE /\ views' = [views EXCEPT ![q.day] = @ + (IF q.what = "function" THEN 0 ELSE 1)]
         /\ calls' = [calls EXCEPT ![q.day] = @ + (IF q.what = "function" THEN 1 ELSE 0)]
         /\ visitors' = [visitors EXCEPT ![q.day] = @ \cup {q.who}]
         /\ came' = [came EXCEPT ![q.day] = @ \cup {q.who}]

Write(r) ==
    /\ request[r].pc = "writing"
    /\ Recorded(request[r])
    /\ request' = [request EXCEPT ![r] = Nothing]
    /\ UNCHANGED <<day, access, house, opened>>

\* Mutant: a statement that failed is sent again.
SentAgain(r) == request[r]

\* A failure is reported at most once a minute, and that is all.
AfterFailure(r) == Nothing

\* The connection fails before the statement is done, or after it.
WriteFails(r) ==
    /\ request[r].pc = "writing"
    /\ Recorded(request[r]) \/ UNCHANGED kept
    /\ request' = [request EXCEPT ![r] = AfterFailure(r)]
    /\ UNCHANGED <<day, access, house, opened>>

GatewayDies ==
    /\ \E r \in Request : request[r] # Nothing
    /\ request' = [r \in Request |-> Nothing]
    /\ UNCHANGED <<day, access, house, opened, kept>>

-----------------------------------------------------------------------------
(* Pruning, and what goes on around it.                                    *)

\* A pass of housekeeping takes the day once.
BeginPrune ==
    /\ house.next = "idle"
    /\ house' = [next |-> "visitors", today |-> day]
    /\ UNCHANGED <<day, access, request, opened, kept>>

PrunedVisitors(today) == {d \in Day : d + VisitorDays < today}

PruneVisitors ==
    /\ house.next = "visitors"
    /\ house' = [house EXCEPT !.next = "visits"]
    /\ visitors' = [d \in Day |-> IF d \in PrunedVisitors(house.today) THEN {} ELSE visitors[d]]
    /\ UNCHANGED <<day, access, request, opened, views, calls, came>>

PruneVisits ==
    /\ house.next = "visits"
    /\ house' = [next |-> "idle", today |-> 0]
    /\ views' = [d \in Day |-> IF d + VisitDays < house.today THEN 0 ELSE views[d]]
    /\ calls' = [d \in Day |-> IF d + VisitDays < house.today THEN 0 ELSE calls[d]]
    /\ UNCHANGED <<day, access, request, opened, visitors, came>>

Midnight ==
    /\ day < MaxDay
    /\ day' = day + 1
    /\ \A r \in Request : request[r].pc = "writing" => request[r].day = day
    /\ house.next # "idle" => house.today = day
    /\ UNCHANGED <<access, request, house, opened, kept>>

UpdateAccess(to) ==
    /\ access # "none"
    /\ access' = to
    /\ UNCHANGED <<day, request, house, opened, kept>>

\* The rows of a project go with it.
Purged ==
    /\ access # "none"
    /\ access' = "none"
    /\ views' = [d \in Day |-> 0]
    /\ calls' = [d \in Day |-> 0]
    /\ visitors' = [d \in Day |-> {}]
    /\ came' = [d \in Day |-> {}]
    /\ UNCHANGED <<day, request, house, opened>>

Next ==
    \/ \E r \in Request :
        \/ \E who \in Who, what \in What, preview \in BOOLEAN : Ask(r, who, what, preview)
        \/ Serve(r) \/ NotFound(r) \/ Write(r) \/ WriteFails(r)
    \/ GatewayDies \/ BeginPrune \/ PruneVisitors \/ PruneVisits \/ Midnight \/ Purged
    \/ \E to \in {"owner", "network"} : UpdateAccess(to)

Spec == Init /\ [][Next]_vars

-----------------------------------------------------------------------------
(* Properties.                                                             *)

TypeOK ==
    /\ day \in Day
    /\ access \in {"owner", "network", "none"}
    /\ \A r \in Request : request[r].pc \in {"idle", "asked", "writing"}
    /\ views \in [Day -> 0..MaxVisits]
    /\ calls \in [Day -> 0..MaxVisits]
    /\ visitors \in [Day -> SUBSET Who]
    /\ house.next \in {"idle", "visitors", "visits"}
    /\ \A o \in opened : o.by \in Who /\ o.day \in Day

Opened(d, what) == {o \in opened : o.day = d /\ o.what = what}

\* No count is more than what people did that day, and no visitor is named who did
\* nothing or is in no count, whatever statements fail before or after they took
\* effect ("losing a count is better than inventing one").
NothingInvented ==
    \A d \in Day :
        /\ views[d] <= Cardinality(Opened(d, "page"))
        /\ calls[d] <= Cardinality(Opened(d, "function"))
        /\ visitors[d] \subseteq {o.by : o \in {o \in opened : o.day = d}}
        /\ Cardinality(visitors[d]) <= views[d] + calls[d]

\* A day that is being read, or was before midnight, still has the visitors that
\* were written down ("Pruning and reading at the same boundary would race").
WindowIsWhole ==
    \A d \in Day : d + ReadDays >= day => visitors[d] = came[d]

VisitsAreTrue == NothingInvented /\ WindowIsWhole
=============================================================================
