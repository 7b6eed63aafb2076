--------------------------- MODULE PlatformSchema ---------------------------
(***************************************************************************)
(* The schema of the control database (lib/schema.ts), which every start   *)
(* of a control plane brings up to date in one transaction, under an       *)
(* advisory lock.  A fresh database gets a baseline that already knows     *)
(* much of what the later migrations add, and then those migrations; an    *)
(* older one gets those it lacks, while its old code goes on writing.      *)
(*                                                                         *)
(* Of the tables only the three checks are kept that the migrations drop   *)
(* and add again: the kinds of jobs, the roles of accounts, the access     *)
(* modes of projects.  A value stands for the rows that have it.           *)
(***************************************************************************)
EXTENDS Naturals, FiniteSets

CONSTANTS
    Process,     \* control planes that may start at once
    MaxValues,   \* bound: distinct values stored
    MaxTroubles  \* bound: starts that are cut off

VARIABLES
    database,  \* the control database exists
    applied,   \* schema_migrations
    check,     \* what each check admits
    stored,    \* the values in the rows, with their columns
    start,     \* where each control plane is
    tx,        \* the transaction that holds the advisory lock, or Free
    refused,   \* history: a migration was refused
    troubles

vars == <<database, applied, check, stored, start, tx, refused, troubles>>

Latest == 10

Column == {"kind", "role", "mode"}

\* Eight kinds of jobs are older than any migration and stand for one.
FirstKinds == {"operation"}

BaselineKinds == FirstKinds \cup {"export_database", "probe_version"}

BaselineRoles == {"user", "operator", "superadmin"}

BaselineModes == {"owner", "network"}

Baseline == [kind |-> BaselineKinds, role |-> BaselineRoles, mode |-> BaselineModes]

\* The baseline of the first release had nothing that a later migration adds.
FirstBaseline == [kind |-> FirstKinds, role |-> {"user", "operator"}, mode |-> BaselineModes]

RemediationKinds == FirstKinds \cup {"export_database", "probe_version"}

ReviewKinds == FirstKinds \cup {"export_database", "probe_version", "review_site"}

\* Mutant: the list is written from the baseline's, as a branch without reviews had it.
ShowcaseKindsOfBranch == BaselineKinds \cup {"capture_showcase"}

ShowcaseKinds ==
    FirstKinds \cup {"export_database", "probe_version", "review_site", "capture_showcase"}

ShowcaseModes == {"owner", "network", "showcase"}

SuperadminRoles == {"user", "operator", "superadmin"}

\* The checks that a migration drops and adds again; the others add tables and columns.
Replaced(m) ==
    CASE m = 1 -> Column
      [] m \in {2, 7} -> {"kind"}
      [] m = 8 -> {"kind", "mode"}
      [] m = 9 -> {"role"}
      [] OTHER -> {}

After(m, checks) ==
    CASE m = 1 -> Baseline
      [] m = 2 -> [checks EXCEPT !.kind = RemediationKinds]
      [] m = 7 -> [checks EXCEPT !.kind = ReviewKinds]
      [] m = 8 -> [checks EXCEPT !.kind = ShowcaseKinds, !.mode = ShowcaseModes]
      [] m = 9 -> [checks EXCEPT !.role = SuperadminRoles]
      [] OTHER -> checks

\* What an installation of an earlier release has come to.
ReleaseCheck[k \in 0..Latest] ==
    IF k = 0 THEN [c \in Column |-> {}]
    ELSE IF k = 1 THEN FirstBaseline
    ELSE After(k, ReleaseCheck[k - 1])

JobKind ==
    FirstKinds \cup {"export_database", "probe_version", "review_site", "capture_showcase"}

PlatformRole == {"user", "operator", "superadmin"}

AccessMode == {"owner", "network", "showcase"}

\* What this release's code writes.
Uses == [kind |-> JobKind, role |-> PlatformRole, mode |-> AccessMode]

Free == [by |-> "nobody", applied |-> {}, check |-> ReleaseCheck[0], locked |-> {}]

Init ==
    /\ \E k \in 0..Latest :
        /\ database \in (IF k = 0 THEN BOOLEAN ELSE {TRUE})
        /\ applied = 1..k
        /\ check = ReleaseCheck[k]
    /\ stored = {}
    /\ start = [p \in Process |-> "down"]
    /\ tx = Free
    /\ refused = FALSE
    /\ troubles = 0

\* Nothing to bring up to date, for a composition that exercises another part.
Rests ==
    /\ database = TRUE
    /\ applied = 1..Latest
    /\ check = ReleaseCheck[Latest]
    /\ stored = {}
    /\ start = [p \in Process |-> "down"]
    /\ tx = Free
    /\ refused = FALSE
    /\ troubles = 0

At(p, step) == start[p] = step

Goes(p, step) == start' = [start EXCEPT ![p] = step]

-----------------------------------------------------------------------------

EnsureDatabase(p) ==
    /\ At(p, "down")
    /\ Goes(p, IF database THEN "connected" ELSE "create")
    /\ UNCHANGED <<database, applied, check, stored, tx, refused, troubles>>

\* CREATE DATABASE knows no IF NOT EXISTS: whoever comes second starts over.
CreateDatabase(p) ==
    /\ At(p, "create")
    /\ Goes(p, IF database THEN "down" ELSE "connected")
    /\ database' = TRUE
    /\ UNCHANGED <<applied, check, stored, tx, refused, troubles>>

\* BEGIN, the advisory lock, and only then what has been applied.
LockSchema(p) ==
    /\ At(p, "connected")
    /\ tx = Free
    /\ tx' = [by |-> p, applied |-> applied, check |-> check, locked |-> {}]
    /\ Goes(p, "migrating")
    /\ UNCHANGED <<database, applied, check, stored, refused, troubles>>

Missing == {m \in 1..Latest : m \notin tx.applied}

NextMigration == CHOOSE m \in Missing : \A n \in Missing : m <= n

\* ADD CONSTRAINT reads every row of the table, which nobody writes until COMMIT.
Accepts(checks, columns) == \A v \in stored : v[1] \in columns => v[2] \in checks[v[1]]

\* One refusal undoes the transaction and ends the start.
Apply(p) ==
    /\ tx.by = p
    /\ Missing # {}
    /\ LET m == NextMigration IN
        IF Accepts(After(m, tx.check), Replaced(m))
        THEN /\ tx' = [tx EXCEPT !.applied = @ \cup {m}, !.check = After(m, @),
                                 !.locked = @ \cup Replaced(m)]
             /\ UNCHANGED <<start, refused>>
        ELSE /\ tx' = Free
             /\ refused' = TRUE
             /\ Goes(p, "down")
    /\ UNCHANGED <<database, applied, check, stored, troubles>>

Commit(p) ==
    /\ tx.by = p
    /\ Missing = {}
    /\ applied' = tx.applied
    /\ check' = tx.check
    /\ tx' = Free
    /\ Goes(p, "up")
    /\ UNCHANGED <<database, stored, refused, troubles>>

\* A start is cut off, a control plane stopped: what is open is rolled back.
Stop(p) ==
    /\ ~At(p, "down")
    /\ troubles < MaxTroubles
    /\ troubles' = troubles + 1
    /\ tx' = IF tx.by = p THEN Free ELSE tx
    /\ Goes(p, "down")
    /\ UNCHANGED <<database, applied, check, stored, refused>>

\* A row, by whatever release is running: its check decides, and a table that a
\* migration has altered is locked.
Write(c, v) ==
    /\ c \notin tx.locked
    /\ v \in check[c]
    /\ Cardinality(stored) < MaxValues
    /\ stored' = stored \cup {<<c, v>>}
    /\ UNCHANGED <<database, applied, check, start, tx, refused, troubles>>

Next ==
    \/ \E p \in Process :
        \/ EnsureDatabase(p) \/ CreateDatabase(p) \/ LockSchema(p)
        \/ Apply(p) \/ Commit(p) \/ Stop(p)
    \/ \E c \in Column : \E v \in Uses[c] : Write(c, v)

Spec == Init /\ [][Next]_vars

-----------------------------------------------------------------------------
(* Properties.                                                             *)

TypeOK ==
    /\ database \in BOOLEAN
    /\ applied \subseteq 1..Latest
    /\ check \in [Column -> SUBSET UNION {Uses[c] : c \in Column}]
    /\ \A v \in stored : v[1] \in Column /\ v[2] \in Uses[v[1]]
    /\ start \in [Process -> {"down", "create", "connected", "migrating", "up"}]
    /\ tx = Free \/ tx.by \in Process
    /\ troubles \in 0..MaxTroubles

\* From every release, and from nothing, over starts that overlap or are cut off and
\* over rows written meanwhile: no migration is refused, what is applied is complete
\* up to a number, a control plane that is up finds everything its code writes
\* admitted, and rows stay admitted ("after this runs, both a fresh database and a
\* migrated one carry the same constraint", lib/schema.ts 742).
SchemaIsWhole ==
    /\ ~refused
    /\ \E k \in 0..Latest : applied = 1..k
    /\ \A v \in stored : v[2] \in check[v[1]]
    /\ (\E p \in Process : At(p, "up")) => check = Uses
=============================================================================
