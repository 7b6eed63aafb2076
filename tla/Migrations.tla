----------------------------- MODULE Migrations -----------------------------
(***************************************************************************)
(* The migrations of one project's database (applyMigrations, executor.ts  *)
(* 1906, and the gate of lib/deploy-checks.ts).  A deployment applies the  *)
(* files of its version that the table _ritsdev_migrations does not name,  *)
(* each in a transaction of its own together with its row, and activates   *)
(* the version when all are there.                                         *)
(*                                                                         *)
(* Two workers may be at it at once: one that lost its lease goes on while *)
(* another does the job again.  A file is the number it sorts as; its form *)
(* is its checksum.  A file of SQL runs or fails as a whole and does not   *)
(* end the transaction that it runs in.                                    *)
(***************************************************************************)
EXTENDS Naturals, Sequences, FiniteSets

CONSTANTS
    Worker,      \* what runs deploy_version, overlapping or not
    Version,     \* ready versions
    File,        \* file names, 1..n in their order
    Form,        \* checksums
    MaxForms     \* bound: forms of a file that got into the database

VARIABLES
    directory,   \* of each version: its migration files and their forms
    postgres,    \* the project's database: "off", "coming" or "there"
    recorded,    \* _ritsdev_migrations
    schema,      \* history: the forms of each file whose SQL was committed
    current,     \* projects.current_version_id
    worker       \* what each worker does

vars == <<directory, postgres, recorded, schema, current, worker>>

None == "none"

\* Files have numbers from one on, any of them can be sorted, and "none" is no form.
FilesInOrder ==
    /\ File \subseteq Nat \ {0}
    /\ \A S \in SUBSET File : S # {} => \E f \in S : \A g \in S : f <= g
    /\ None \notin Form

Idle == [pc |-> "idle", version |-> None, file |-> 0]

\* A version's files: a function from their names to their forms.  A version
\* with a database block has at least one, or its build would have failed.
Directory == UNION {[names -> Form] : names \in SUBSET File}

Init ==
    /\ directory \in [Version -> Directory]
    /\ postgres \in {"off", "there"}
    /\ recorded = [f \in File |-> None]
    /\ schema = [f \in File |-> <<>>]
    /\ current = None
    /\ worker = [w \in Worker |-> Idle]

\* Nothing to migrate, for a composition that exercises another part.
Rests ==
    /\ directory = [v \in Version |-> <<>>]
    /\ postgres = "off"
    /\ recorded = [f \in File |-> None]
    /\ schema = [f \in File |-> <<>>]
    /\ current = None
    /\ worker = [w \in Worker |-> Idle]

At(w, pc) == worker[w].pc = pc

Goes(w, pc) == worker' = [worker EXCEPT ![w].pc = pc]

FormOf(w) == directory[worker[w].version][worker[w].file]

\* The files of w's version that come after the one it is at.
Rest(w) == {f \in DOMAIN directory[worker[w].version] : f > worker[w].file}

\* On to the next file in order, or to the activation.
Advance(w) ==
    worker' = [worker EXCEPT ![w] =
        IF Rest(w) = {} THEN [@ EXCEPT !.pc = "activate"]
        ELSE [@ EXCEPT !.pc = "look", !.file = CHOOSE f \in Rest(w) : \A g \in Rest(w) : f <= g]]

\* The deployment fails; one with that version may be asked for again.
GivesUp(w) == worker' = [worker EXCEPT ![w] = Idle]

-----------------------------------------------------------------------------

\* Enabling the database queues a provisioning; its record comes at the end.
EnableResources ==
    /\ postgres = "off"
    /\ postgres' = "coming"
    /\ UNCHANGED <<directory, recorded, schema, current, worker>>

Provisioned ==
    /\ postgres = "coming"
    /\ postgres' = "there"
    /\ UNCHANGED <<directory, recorded, schema, current, worker>>

\* Mutant: what is not provisioned yet is skipped, as it once was.
GateSkips(v) ==
    IF DOMAIN directory[v] = {} \/ postgres # "there" THEN "skip" ELSE "apply"

\* Whether the version may be activated, and whether it has anything to apply.
Gate(v) ==
    IF DOMAIN directory[v] = {} THEN "skip"
    ELSE IF postgres = "there" THEN "apply" ELSE "refuse"

Deploy(w, v) ==
    /\ At(w, "idle")
    /\ worker' = [worker EXCEPT ![w] =
           [pc |-> CASE Gate(v) = "apply" -> "open"
                     [] Gate(v) = "skip" -> "activate"
                     [] Gate(v) = "refuse" -> "refused",
            version |-> v, file |-> 0]]
    /\ UNCHANGED <<directory, postgres, recorded, schema, current>>

\* The table is there and the directory is listed.
Open(w) ==
    /\ At(w, "open")
    /\ Advance(w)
    /\ UNCHANGED <<directory, postgres, recorded, schema, current>>

\* The row of the file: it is skipped, has changed, or is to be applied.
Look(w) ==
    /\ At(w, "look")
    /\ CASE recorded[worker[w].file] = None -> Goes(w, "begin")
         [] recorded[worker[w].file] = FormOf(w) -> Advance(w)
         [] OTHER -> GivesUp(w)
    /\ UNCHANGED <<directory, postgres, recorded, schema, current>>

\* BEGIN, the guards, the file and the size of the database after it.
Run(w) ==
    /\ At(w, "begin")
    /\ Goes(w, "ran")
    /\ UNCHANGED <<directory, postgres, recorded, schema, current>>

\* The primary key: the name is not in the table, nor in an open transaction.
KeyFree(w) ==
    /\ recorded[worker[w].file] = None
    /\ \A x \in Worker \ {w} : ~(At(x, "inserted") /\ worker[x].file = worker[w].file)

\* The row.  It waits for a transaction that inserted the same one, and fails
\* with it committed, or after five seconds.
Insert(w) ==
    /\ At(w, "ran")
    /\ KeyFree(w)
    /\ Goes(w, "inserted")
    /\ UNCHANGED <<directory, postgres, recorded, schema, current>>

Committed(w) ==
    /\ recorded' = [recorded EXCEPT ![worker[w].file] = FormOf(w)]
    /\ schema' = [schema EXCEPT ![worker[w].file] = Append(@, FormOf(w))]

Commit(w) ==
    /\ At(w, "inserted")
    /\ Len(schema[worker[w].file]) < MaxForms
    /\ Committed(w)
    /\ Advance(w)
    /\ UNCHANGED <<directory, postgres, current>>

\* The connection is lost over COMMIT, which was done.
CommitUnknown(w) ==
    /\ At(w, "inserted")
    /\ Len(schema[worker[w].file]) < MaxForms
    /\ Committed(w)
    /\ GivesUp(w)
    /\ UNCHANGED <<directory, postgres, current>>

\* A step fails, times out or is cut off by the end of the process, the quota is
\* exceeded, or the gate refuses: what is open is rolled back.
Fails(w) ==
    /\ ~At(w, "idle")
    /\ GivesUp(w)
    /\ UNCHANGED <<directory, postgres, recorded, schema, current>>

\* The transaction that makes the version the live one.
Activate(w) ==
    /\ At(w, "activate")
    /\ current' = worker[w].version
    /\ GivesUp(w)
    /\ UNCHANGED <<directory, postgres, recorded, schema>>

Next ==
    \/ EnableResources
    \/ Provisioned
    \/ \E w \in Worker :
        \/ \E v \in Version : Deploy(w, v)
        \/ Open(w) \/ Look(w) \/ Run(w) \/ Insert(w)
        \/ Commit(w) \/ CommitUnknown(w) \/ Fails(w) \/ Activate(w)

Spec == Init /\ [][Next]_vars

-----------------------------------------------------------------------------
(* Properties.                                                             *)

Pc == {"idle", "refused", "open", "look", "begin", "ran", "inserted", "activate"}

TypeOK ==
    /\ directory \in [Version -> Directory]
    /\ postgres \in {"off", "coming", "there"}
    /\ recorded \in [File -> Form \cup {None}]
    /\ schema \in [File -> Seq(Form)]
    /\ current \in Version \cup {None}
    /\ worker \in [Worker -> [pc : Pc, version : Version \cup {None}, file : File \cup {0}]]

\* What a file does to the database it does once, and the table says in which
\* form, whatever commits were cut off, repeated by another worker or done by two
\* at a time (applyMigrations).
AppliedOnce ==
    \A f \in File : schema[f] = IF recorded[f] = None THEN <<>> ELSE <<recorded[f]>>

\* The live version finds its migrations applied, all of them and as it has them
\* (assertDeployableMigrations: "Throws when migrations were declared but cannot
\* run").
LiveIsMigrated ==
    current # None =>
        \A f \in DOMAIN directory[current] : recorded[f] = directory[current][f]

SchemaIsSound == AppliedOnce /\ LiveIsMigrated
=============================================================================
