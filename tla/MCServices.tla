----------------------------- MODULE MCServices -----------------------------
(***************************************************************************)
(* The services around a project for TLC: what signing in hands out, how   *)
(* source arrives, the LLM key, the previews, the exports, the reviews,    *)
(* the showcase, the accounts, the migrations of tenants and of the        *)
(* platform, the Docker networks and the counting of visits.  They share   *)
(* no state that any of them models, so a behaviour exercises one and      *)
(* leaves the others as they begin: their states add up instead of being   *)
(* multiplied.  Migrations is extended and not instantiated: the property  *)
(* that is checked of it is the one that BackgroundProofs proves.          *)
(***************************************************************************)
EXTENDS Migrations, TLC

CONSTANTS
    Request, Client, Account,          \* of every part that has them, as Version
    MaxRows,                           \* of OAuthGrants
    Upload, Body, Key, Chunks, MaxFiles, MaxBuilds, \* of Sources
    Owner, MaxKeys,                    \* of LlmKeys: one owner, one thing at a time
    Probe,                             \* of Previews
    MaxQuota, DefaultQuota, OperatorQuota, MaxProjects, \* of Accounts
    RuntimeRoom, BuildRoom, MaxTroubles, \* of Networks: one project
    ReadDays, VisitorDays, VisitDays, MaxDay, MaxVisits, \* of Visits
    MaxValues                          \* of PlatformSchema

\* lib/analytics.ts 55-79: what names a visitor outlives every read, the counts outlive it.
ASSUME RetentionAssumption ==
    ReadDays \in Nat /\ VisitorDays \in Nat /\ VisitDays \in Nat
    /\ ReadDays < VisitorDays /\ VisitorDays < VisitDays

\* The bounds are numbers, and what an account may have to begin with, or as an
\* operator, is within them.
ASSUME BoundsAssumption ==
    /\ MaxRows \in Nat
    /\ Chunks \in Nat /\ MaxFiles \in Nat /\ MaxBuilds \in Nat
    /\ MaxKeys \in Nat
    /\ MaxQuota \in Nat /\ MaxProjects \in Nat
    /\ DefaultQuota \in 1 .. MaxQuota /\ OperatorQuota \in 1 .. MaxQuota
    /\ MaxTroubles \in Nat
    /\ MaxDay \in Nat \ {0} /\ MaxVisits \in Nat

\* No request or version is called what stands for none, no probe what stands for the
\* render, and no build's network what a project's is.
ASSUME NamesAssumption ==
    /\ "none" \notin Request /\ "nobody" \notin Request /\ "none" \notin Version
    /\ "render" \notin Probe
    /\ Owner \cap Request = {}

VARIABLES
    part,
    rows, holds,
    uploads, archives, revisions, written, builds, answers, request,
    project, live, minted, owner, unrestored,
    job, row, picture, probe, sent, orphaned, exec, removing, taken, caller,
    dumpJob, dumpRow, dump, partial, dumpExec, dumpRemoving, dumpCaller,
    access, served, reviewJob, reviewExec, client, reviews, late,
    listed, described, drafted, shown, cardRow, file, cardJob, cardExec, cardClient, chosen,
    role, quota, projects, lock, transaction,
    made, attached, status, locked, waiters, proc, troubles,
    day, reach, visit, views, calls, visitors, house, opened, came,
    database, applied, check, stored, start, tx, refused, stops

\* No part tells one request, worker or build from another, or one account.
Symmetry == Permutations(Request) \cup Permutations(Account)

\* The page of every version asks for a password and wears no other name.
PageOf == [v \in Version |-> [answered |-> TRUE, password |-> "own", brand |-> FALSE,
                              signIn |-> TRUE, foreign |-> FALSE]]

Grants == INSTANCE OAuthGrants WITH Account <- Owner

Source == INSTANCE Sources

Llm == INSTANCE LlmKeys WITH Request <- Owner, request <- owner

Preview == INSTANCE Previews WITH Caller <- Client

Export == INSTANCE Exports WITH
    Caller <- Request, job <- dumpJob, row <- dumpRow, exec <- dumpExec,
    removing <- dumpRemoving, caller <- dumpCaller

Review == INSTANCE Reviews WITH
    current <- served, job <- reviewJob, exec <- reviewExec

Card == INSTANCE Showcase WITH
    current <- shown, row <- cardRow, job <- cardJob, exec <- cardExec, client <- cardClient

People == INSTANCE Accounts WITH request <- transaction

Network == INSTANCE Networks WITH Project <- Owner, Build <- Request

Visit == INSTANCE Visits WITH
    Request <- Client, Visitor <- Owner, access <- reach, request <- visit

Platform == INSTANCE PlatformSchema WITH Process <- Request, troubles <- stops

Part == {"grants", "source", "llm", "preview", "export", "review", "card", "people",
         "migration", "network", "visit", "platform"}

grants == <<rows, holds>>

source == <<uploads, archives, revisions, written, builds, answers, request>>

llm == <<project, live, minted, owner, unrestored>>

preview == <<job, row, picture, probe, sent, orphaned, exec, removing, taken, caller>>

export == <<dumpJob, dumpRow, dump, partial, dumpExec, dumpRemoving, dumpCaller>>

review == <<access, served, reviewJob, reviewExec, client, reviews, late>>

card == <<listed, described, drafted, shown, cardRow, file, cardJob, cardExec, cardClient, chosen>>

people == <<role, quota, projects, lock, transaction>>

network == <<made, attached, status, locked, waiters, proc, troubles>>

counting == <<day, reach, visit, views, calls, visitors, house, opened, came>>

upgrade == <<database, applied, check, stored, start, tx, refused, stops>>

services == <<part, grants, source, llm, preview, export, review, card, people,
              vars, network, counting, upgrade>>

ServicesInit ==
    /\ part \in Part
    /\ Grants!Init /\ Source!Init /\ Llm!Init /\ Preview!Init
    /\ Export!Init /\ Review!Init /\ Card!Init /\ People!Init
    /\ Network!Init /\ Visit!Init
    /\ IF part = "migration" THEN Init ELSE Rests
    /\ IF part = "platform" THEN Platform!Init ELSE Platform!Rests

InGrants(A) ==
    part = "grants" /\ A
    /\ UNCHANGED <<part, source, llm, preview, export, review, card,
                   people, vars, network, counting, upgrade>>

InSource(A) ==
    part = "source" /\ A
    /\ UNCHANGED <<part, grants, llm, preview, export, review, card,
                   people, vars, network, counting, upgrade>>

InLlm(A) ==
    part = "llm" /\ A
    /\ UNCHANGED <<part, grants, source, preview, export, review, card,
                   people, vars, network, counting, upgrade>>

InPreview(A) ==
    part = "preview" /\ A
    /\ UNCHANGED <<part, grants, source, llm, export, review, card,
                   people, vars, network, counting, upgrade>>

InExport(A) ==
    part = "export" /\ A
    /\ UNCHANGED <<part, grants, source, llm, preview, review, card,
                   people, vars, network, counting, upgrade>>

InReview(A) ==
    part = "review" /\ A
    /\ UNCHANGED <<part, grants, source, llm, preview, export, card,
                   people, vars, network, counting, upgrade>>

InCard(A) ==
    part = "card" /\ A
    /\ UNCHANGED <<part, grants, source, llm, preview, export, review,
                   people, vars, network, counting, upgrade>>

InPeople(A) ==
    part = "people" /\ A
    /\ UNCHANGED <<part, grants, source, llm, preview, export, review,
                   card, vars, network, counting, upgrade>>

InMigration(A) ==
    part = "migration" /\ A
    /\ UNCHANGED <<part, grants, source, llm, preview, export, review,
                   card, people, network, counting, upgrade>>

InNetwork(A) ==
    part = "network" /\ A
    /\ UNCHANGED <<part, grants, source, llm, preview, export, review,
                   card, people, vars, counting, upgrade>>

InVisit(A) ==
    part = "visit" /\ A
    /\ UNCHANGED <<part, grants, source, llm, preview, export, review,
                   card, people, vars, network, upgrade>>

InPlatform(A) ==
    part = "platform" /\ A
    /\ UNCHANGED <<part, grants, source, llm, preview, export, review,
                   card, people, vars, network, counting>>

-----------------------------------------------------------------------------
(* Next of each part, action by action.                                    *)

GrantsNext ==
    \/ \E a \in Owner, c \in Client :
        \/ InGrants(Grants!StartLogin(a, c)) \/ InGrants(Grants!AskConsent(a, c))
        \/ InGrants(Grants!GetTicket(a, c))
    \/ \E g \in Grants!Inserted :
        \/ InGrants(Grants!RedeemAtOnce(g)) \/ InGrants(Grants!Wasted(g))
        \/ InGrants(Grants!Revoke(g)) \/ InGrants(Grants!Expire(g))
    \/ \E p \in Request :
        \/ InGrants(Grants!Commit(p)) \/ InGrants(Grants!Deny(p)) \/ InGrants(Grants!Rollback(p))
        \/ \E g \in Grants!Inserted : InGrants(Grants!Look(p, g))

SourceNext ==
    \/ \E u \in Upload :
        InSource(Source!Begin(u)) \/ InSource(Source!Abort(u)) \/ InSource(Source!Expire(u))
    \/ \E u \in Upload, i \in Source!Index, data \in {"right", "wrong"} :
        InSource(Source!SendChunk(u, i, data))
    \/ \E p \in Request :
        \/ InSource(Source!Assemble(p)) \/ InSource(Source!Reopen(p)) \/ InSource(Source!Write(p))
        \/ InSource(Source!Insert(p)) \/ InSource(Source!Remove(p)) \/ InSource(Source!Audited(p))
        \/ InSource(Source!Fails(p)) \/ InSource(Source!Look(p)) \/ InSource(Source!Create(p))
        \/ InSource(Source!Again(p)) \/ InSource(Source!Crash(p))
        \/ \E u \in Upload : InSource(Source!Claim(p, u))
        \/ \E b \in Body :
            InSource(Source!Direct(p, b)) \/ \E key \in Key : InSource(Source!Ask(p, key, b))

LlmNext ==
    \E p \in Owner :
        \/ \E wantsLlm \in BOOLEAN : InLlm(Llm!Create(p, wantsLlm))
        \/ InLlm(Llm!Enable(p)) \/ InLlm(Llm!Delete(p)) \/ InLlm(Llm!Restore(p))
        \/ InLlm(Llm!Clear(p)) \/ InLlm(Llm!Generate(p))
        \/ InLlm(Llm!ClearFails(p)) \/ InLlm(Llm!GenerateFails(p))
        \/ InLlm(Llm!Store(p)) \/ InLlm(Llm!StoreFails(p)) \/ InLlm(Llm!Undo(p))
        \/ InLlm(Llm!Mark(p)) \/ InLlm(Llm!Revoke(p)) \/ InLlm(Llm!RevokeFails(p))
        \/ InLlm(Llm!Forget(p)) \/ InLlm(Llm!Reopen(p)) \/ InLlm(Llm!Crash(p))

PreviewNext ==
    \/ \E c \in Client :
        InPreview(Preview!AskRender(c)) \/ InPreview(Preview!Show(c)) \/ InPreview(Preview!Tell(c))
    \/ \E j \in Probe :
        \/ InPreview(Preview!QueueProbe(j)) \/ InPreview(Preview!StoreProbe(j))
        \/ InPreview(Preview!ClaimProbe(j))
    \/ \E shot \in BOOLEAN : InPreview(Preview!Render(shot))
    \/ InPreview(Preview!ClaimRender) \/ InPreview(Preview!Record) \/ InPreview(Preview!Report)
    \/ InPreview(Preview!RenderFails)
    \/ InPreview(Preview!Load) \/ InPreview(Preview!Send) \/ InPreview(Preview!Answered)
    \/ InPreview(Preview!Done) \/ InPreview(Preview!ProbeFails)
    \/ InPreview(Preview!Die) \/ InPreview(Preview!Age) \/ InPreview(Preview!ExpireRow)
    \/ InPreview(Preview!RemovePicture)

ExportNext ==
    \/ \E c \in Request :
        \/ InExport(Export!Ask(c)) \/ InExport(Export!Enqueue(c))
        \/ InExport(Export!Reset(c)) \/ InExport(Export!Told(c))
    \/ InExport(Export!Claim) \/ InExport(Export!Load) \/ InExport(Export!Dump)
    \/ InExport(Export!Publish) \/ InExport(Export!Record) \/ InExport(Export!Report)
    \/ InExport(Export!ExportFails) \/ InExport(Export!Die)
    \/ InExport(Export!Cool) \/ InExport(Export!Close) \/ InExport(Export!Expire)
    \/ InExport(Export!Remove)

ReviewNext ==
    \/ \E c \in Client :
        \/ InReview(Review!UpdateAccess(c)) \/ InReview(Review!EnqueueSiteReview(c))
        \/ InReview(Review!NotQueued(c))
        \/ \E to \in Review!Access : InReview(Review!ReadProject(c, to))
    \/ \E v \in Version : InReview(Review!BeginDeploy(v)) \/ InReview(Review!Claim(v))
    \/ \E answered \in BOOLEAN, found \in SUBSET Review!Level :
        InReview(Review!Review(answered, Review!ModelVerdict(found)))
    \/ InReview(Review!Activate) \/ InReview(Review!FollowActivation)
    \/ InReview(Review!NotFollowed) \/ InReview(Review!DeployFails)
    \/ InReview(Review!Read) \/ InReview(Review!Retried) \/ InReview(Review!GivenUp)

CardNext ==
    \/ \E c \in Client :
        \/ InCard(Card!Describe(c)) \/ InCard(Card!AskToList(c)) \/ InCard(Card!List(c))
        \/ InCard(Card!Leave(c)) \/ InCard(Card!Clear(c)) \/ InCard(Card!Remove(c))
        \/ InCard(Card!Write(c)) \/ InCard(Card!Save(c))
        \/ \E works \in BOOLEAN : InCard(Card!QueueCapture(c, works))
    \/ \E v \in Version : InCard(Card!BeginDeploy(v)) \/ InCard(Card!Claim(v))
    \/ \E works \in BOOLEAN : InCard(Card!Follow(works))
    \/ \E shot \in BOOLEAN : InCard(Card!Render(shot)) \/ InCard(Card!Draft(shot))
    \/ \E outcome \in {"queued", "failed"} : InCard(Card!CaptureFails(outcome))
    \/ InCard(Card!Activate) \/ InCard(Card!Read) \/ InCard(Card!Record)

PeopleNext ==
    \/ \E a \in Account : InPeople(People!SignIn(a)) \/ InPeople(People!Purged(a))
    \/ \E r \in Request :
        \/ InPeople(People!LockAccount(r)) \/ InPeople(People!Count(r))
        \/ InPeople(People!Insert(r)) \/ InPeople(People!CreateFails(r))
        \/ InPeople(People!LockPatched(r)) \/ InPeople(People!WritePatch(r))
        \/ \E a \in Account : InPeople(People!AskToCreate(r, a))
        \/ \E actor \in Account, a \in Account, patch \in People!Patch :
            InPeople(People!AskToPatch(r, actor, a, patch))
    \/ \E operators \in SUBSET Account, superadmins \in SUBSET Account :
        InPeople(People!HostStarts(operators, superadmins))

MigrationNext ==
    \/ InMigration(EnableResources) \/ InMigration(Provisioned)
    \/ \E w \in Worker :
        \/ \E v \in Version : InMigration(Deploy(w, v))
        \/ InMigration(Open(w)) \/ InMigration(Look(w))
        \/ InMigration(Run(w)) \/ InMigration(Insert(w))
        \/ InMigration(Commit(w)) \/ InMigration(CommitUnknown(w))
        \/ InMigration(Fails(w)) \/ InMigration(Activate(w))

NetworkNext ==
    \/ \E x \in Network!Process :
        \/ InNetwork(Network!Claim(x)) \/ InNetwork(Network!Create(x))
        \/ InNetwork(Network!NoRoom(x)) \/ InNetwork(Network!Connected(x))
        \/ InNetwork(Network!RunContainer(x)) \/ InNetwork(Network!RemoveContainers(x))
        \/ InNetwork(Network!RemoveNetwork(x)) \/ InNetwork(Network!ActiveEndpoints(x))
        \/ InNetwork(Network!Fails(x))
        \/ \E c \in proc[x].todo :
            InNetwork(Network!Connect(x, c)) \/ InNetwork(Network!Disconnect(x, c))
    \/ \E p \in Owner :
        \/ InNetwork(Network!StopContainer(p)) \/ InNetwork(Network!RemoveRow(p))
        \/ InNetwork(Network!AskToDelete(p)) \/ InNetwork(Network!Restore(p))
        \/ InNetwork(Network!Reattach(p))
    \/ \E b \in Request : InNetwork(Network!Exits(b))
    \/ InNetwork(Network!HousekeepingBegins) \/ InNetwork(Network!ListNetworks)
    \/ InNetwork(Network!HousekeepingEnds)
    \/ InNetwork(Network!GatewayRecreated) \/ InNetwork(Network!Crash)

VisitNext ==
    \/ \E r \in Client :
        \/ \E who \in Visit!Who, what \in Visit!What, early \in BOOLEAN :
            InVisit(Visit!Ask(r, who, what, early))
        \/ InVisit(Visit!Serve(r)) \/ InVisit(Visit!NotFound(r))
        \/ InVisit(Visit!Write(r)) \/ InVisit(Visit!WriteFails(r))
    \/ InVisit(Visit!GatewayDies) \/ InVisit(Visit!Midnight) \/ InVisit(Visit!Purged)
    \/ InVisit(Visit!BeginPrune) \/ InVisit(Visit!PruneVisitors) \/ InVisit(Visit!PruneVisits)
    \/ \E to \in {"owner", "network"} : InVisit(Visit!UpdateAccess(to))

PlatformNext ==
    \/ \E p \in Request :
        \/ InPlatform(Platform!EnsureDatabase(p)) \/ InPlatform(Platform!CreateDatabase(p))
        \/ InPlatform(Platform!LockSchema(p)) \/ InPlatform(Platform!Apply(p))
        \/ InPlatform(Platform!Commit(p)) \/ InPlatform(Platform!Stop(p))
    \/ \E c \in Platform!Column : \E v \in Platform!Uses[c] : InPlatform(Platform!Write(c, v))

ServicesNext ==
    \/ GrantsNext \/ SourceNext \/ LlmNext \/ PreviewNext
    \/ ExportNext \/ ReviewNext \/ CardNext \/ PeopleNext
    \/ MigrationNext \/ NetworkNext \/ VisitNext \/ PlatformNext

ServicesSpec == ServicesInit /\ [][ServicesNext]_services

-----------------------------------------------------------------------------
(* Properties.                                                             *)

\* What lib/site-review.ts makes of any page it was shown and of any answer of the
\* model: nothing the model says makes it better than the signals, and a page that
\* gave no evidence, or asks for a password, is never clean.
ASSUME ModelOnlyEscalates ==
    \A e \in Review!Page : Review!Plausible(e) => \A found \in SUBSET Review!Level :
        LET verdict == Review!ReviewSite(e, Review!ModelVerdict(found)) IN
        /\ Review!LevelOrder[verdict] >= Review!LevelOrder[Review!WorstOf(Review!StaticSignals(e))]
        /\ \A l \in found : Review!LevelOrder[verdict] >= Review!LevelOrder[l]
        /\ ~e.answered \/ e.password # "none" => verdict # "clean"

\* The names and forms of migrations are such as BackgroundProofs takes for granted.
ASSUME MigrationAssumption == FilesInOrder

\* What a part promises includes its types.
Kept(p, typed, promise) == part = p => typed /\ promise

\* One click has one secret in force (routes/oauth.ts, routes/auth.ts, gateway.ts).
OneInForce == Kept("grants", Grants!TypeOK, Grants!OneInForce)

\* The archive of a revision is on disk (persistSource, lib/projects.ts).
ArchiveKept == Kept("source", Source!TypeOK, Source!ArchiveKept)

\* One key, one version (createVersion, lib/projects.ts).
OneAnswerPerKey == part = "source" => Source!OneAnswerPerKey

\* The stored LLM key is the live one (lib/llm.ts and its callers).
KeyWorks == Kept("llm", Llm!TypeOK, Llm!KeyWorks)

\* A render that succeeded has its row, and its picture unless a late removal took
\* it; a probe is sent once (executor.ts); of exports only the types hold.
SuccessHasAnswer ==
    /\ Kept("preview", Preview!TypeOK, Preview!SuccessHasAnswer)
    /\ Kept("export", Export!TypeOK, TRUE)

\* What is public has been reviewed, but for the known gaps (executor.ts 718); of
\* the cards only the types hold.
ReviewedUnlessOvertaken ==
    /\ Kept("review", Review!TypeOK, Review!ReviewedUnlessOvertaken)
    /\ Kept("card", Card!TypeOK, TRUE)

\* A project is created within its account's limit (create, lib/projects.ts).
QuotaHeld ==
    /\ [](part = "people" => People!TypeOK)
    /\ [][\A a \in Account : projects'[a] > projects[a] =>
            projects'[a] <= People!EffectiveQuota(role[a], quota[a])]_services

\* A project's network goes at the first attempt (executor.ts 2135).
RemovalIsClean == Kept("network", Network!TypeOK, Network!RemovalIsClean)

\* Visits are counted once or not at all (lib/analytics.ts).
VisitsAreTrue == Kept("visit", Visit!TypeOK, Visit!VisitsAreTrue)

\* Every release can be upgraded to this one (lib/schema.ts); SchemaIsSound, which is
\* of the databases of tenants, leaves their types to this.
SchemaIsWhole ==
    /\ Kept("platform", Platform!TypeOK, Platform!SchemaIsWhole)
    /\ Kept("migration", TypeOK, TRUE)

\* No dump outlives its window (violated, executor.ts 1820).
DumpsAreRemoved == Export!DumpsAreRemoved

\* A render that succeeded has its picture (violated, executor.ts 1817).
PictureIsThere == Preview!PictureIsThere

\* A picture that the owner put up stays (violated, executor.ts 1189).
UploadedIsKept == Card!UploadedIsKept
=============================================================================
