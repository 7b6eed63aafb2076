-------------------------- MODULE BackgroundProofs --------------------------
(***************************************************************************)
(* What goes on behind the services, for any workers, versions, files,     *)
(* callers, probes, processes, projects, days and bounds: the migrations   *)
(* of tenants, previews and exports, the control database's own            *)
(* migration, the counting of visits, the Docker networks, the gallery and *)
(* the reviews of what strangers can reach.                                *)
(***************************************************************************)
EXTENDS ServicesProofs

-----------------------------------------------------------------------------
(* Migrations, with FilesInOrder.  A row of the table is never changed,    *)
(* and one worker at a time is about to commit a given file.  So what a    *)
(* worker has seen recorded stays, and when it has come to the end of its  *)
(* directory everything is.                                                *)

Under == {"look", "begin", "ran", "inserted"}

Holds(v, f) == recorded[f] = directory[v][f]

\* A worker at a file has a version, and the files before it are recorded.
Way(w) ==
    /\ worker[w].pc \in {"open", "activate"} \cup Under => worker[w].version \in Version
    /\ At(w, "open") => worker[w].file = 0
    /\ worker[w].pc \in Under =>
        /\ worker[w].file \in DOMAIN directory[worker[w].version]
        /\ \A f \in DOMAIN directory[worker[w].version] :
               f < worker[w].file => Holds(worker[w].version, f)
    /\ At(w, "activate") =>
        \A f \in DOMAIN directory[worker[w].version] : Holds(worker[w].version, f)

\* Whoever is about to commit a file is the only one, and it is not recorded.
Sole(w) ==
    At(w, "inserted") =>
        /\ recorded[worker[w].file] = None
        /\ \A x \in Worker \ {w} : ~(At(x, "inserted") /\ worker[x].file = worker[w].file)

Live == current # None => \A f \in DOMAIN directory[current] : Holds(current, f)

MigrationInv ==
    /\ TypeOK
    /\ \A w \in Worker : Way(w) /\ Sole(w)
    /\ AppliedOnce
    /\ Live

-----------------------------------------------------------------------------
(* Directories.                                                            *)

LEMMA DirectoryTyped ==
    ASSUME FilesInOrder, NEW d \in Directory
    PROVE  /\ DOMAIN d \subseteq File
           /\ \A f \in DOMAIN d : d[f] \in Form /\ d[f] # None
  <1>1. PICK names \in SUBSET File : d \in [names -> Form]
    BY DEF Directory
  <1>2. DOMAIN d = names
    BY <1>1
  <1> QED
    BY <1>1, <1>2 DEF FilesInOrder

\* Advance goes to the next file or, past the last one, to the activation.
LEMMA Advances ==
    ASSUME FilesInOrder, TypeOK, NEW w \in Worker, worker[w].version \in Version,
           worker[w].file \in Nat, worker[w].file \in File \cup {0}, Advance(w),
           \A f \in DOMAIN directory[worker[w].version] :
               f <= worker[w].file => recorded'[f] = directory[worker[w].version][f],
           UNCHANGED directory
    PROVE  /\ worker' \in [Worker -> [pc : Pc, version : Version \cup {None}, file : File \cup {0}]]
           /\ \A x \in Worker \ {w} : worker'[x] = worker[x]
           /\ worker'[w].pc \in {"look", "activate"}
           /\ Way(w)'
  <1> DEFINE v == worker[w].version
             n == worker[w].file
             d == directory[v]
  <1>1. d \in Directory /\ DOMAIN d \subseteq File /\ File \subseteq Nat \ {0}
    BY DirectoryTyped DEF TypeOK, FilesInOrder
  <1>a. n \in Nat /\ \A f \in DOMAIN d : f \in Nat
    <2>1. \A f \in DOMAIN d : f \in Nat
      BY <1>1
    <2> QED
      BY <2>1
  <1>b. \A f \in DOMAIN d : f \notin Rest(w) => f <= n
    BY <1>a DEF Rest
  <1>2. CASE Rest(w) = {}
    <2>1. worker' = [worker EXCEPT ![w] = [@ EXCEPT !.pc = "activate"]]
      BY <1>2 DEF Advance
    <2>2. worker'[w].pc = "activate" /\ worker'[w].version = v /\ worker'[w].file = n
      BY <2>1 DEF TypeOK
    <2>3. \A f \in DOMAIN d : f <= n
      BY <1>b, <1>2
    <2>4. Way(w)'
      BY <2>2, <2>3 DEF Way, At, Under, Holds
    <2> QED
      BY <2>1, <2>2, <2>4 DEF TypeOK, Pc
  <1>3. CASE Rest(w) # {}
    <2> DEFINE m == CHOOSE f \in Rest(w) : \A g \in Rest(w) : f <= g
    <2>1. Rest(w) \in SUBSET File
      BY <1>1 DEF Rest
    <2>2. \E f \in Rest(w) : \A g \in Rest(w) : f <= g
      BY <1>3, <2>1 DEF FilesInOrder
    <2>3. m \in Rest(w) /\ \A g \in Rest(w) : m <= g
      BY <2>2
    <2>4. worker' = [worker EXCEPT ![w] = [@ EXCEPT !.pc = "look", !.file = m]]
      BY <1>3 DEF Advance
    <2>5. worker'[w].pc = "look" /\ worker'[w].version = v /\ worker'[w].file = m
      BY <2>4 DEF TypeOK
    <2>6. m \in DOMAIN d /\ m \in File
      BY <1>1, <2>3 DEF Rest
    <2>7. \A f \in DOMAIN d : f < m => f <= n
      <3> SUFFICES ASSUME NEW f \in DOMAIN d, f < m PROVE f <= n
        OBVIOUS
      <3>1. f \notin Rest(w)
        BY <1>a, <2>3, <2>6
      <3> QED
        BY <3>1, <1>b
    <2>8. Way(w)'
      BY <2>5, <2>6, <2>7 DEF Way, At, Under, Holds
    <2> QED
      BY <2>4, <2>5, <2>6, <2>8 DEF TypeOK, Pc
  <1> QED
    BY <1>2, <1>3

LEMMA Compared == ASSUME NEW i \in Nat, NEW j \in Nat PROVE i <= j => i < j \/ i = j
  OBVIOUS

-----------------------------------------------------------------------------
(* The invariant.                                                          *)

\* What is recorded stays.
RowsKept == \A f \in File : recorded[f] # None => recorded'[f] = recorded[f]

LEMMA KeptHolds ==
    ASSUME FilesInOrder, TypeOK, RowsKept, UNCHANGED directory, NEW v \in Version
    PROVE  \A f \in DOMAIN directory[v] : Holds(v, f) => Holds(v, f)'
  <1>1. directory[v] \in Directory
    BY DEF TypeOK
  <1> QED
    BY <1>1, DirectoryTyped DEF RowsKept, Holds

\* What another worker has come to is not undone.
LEMMA WayStays ==
    ASSUME FilesInOrder, TypeOK, RowsKept, UNCHANGED directory,
           NEW x \in Worker, Way(x), worker'[x] = worker[x]
    PROVE  Way(x)'
  <1>1. CASE worker[x].pc \in {"open", "activate"} \cup Under
    <2>1. worker[x].version \in Version
      BY <1>1 DEF Way
    <2>2. \A f \in DOMAIN directory[worker[x].version] :
              Holds(worker[x].version, f) => Holds(worker[x].version, f)'
      BY <2>1, KeptHolds
    <2> QED
      BY <1>1, <2>1, <2>2 DEF Way, At, Under, Holds
  <1>2. CASE worker[x].pc \notin {"open", "activate"} \cup Under
    BY <1>2 DEF Way, At, Under
  <1> QED
    BY <1>1, <1>2

LEMMA LiveStays ==
    ASSUME FilesInOrder, TypeOK, RowsKept, UNCHANGED <<directory, current>>, Live
    PROVE  Live'
  <1>1. CASE current \in Version
    BY <1>1, KeptHolds DEF Live, Holds
  <1>2. CASE current = None
    BY <1>2 DEF Live
  <1> QED
    BY <1>1, <1>2 DEF TypeOK

\* A step that touches neither the tables nor the live version: what is left to
\* show is that its worker is where it says.
LEMMA Moves ==
    ASSUME FilesInOrder, MigrationInv, NEW w \in Worker,
           UNCHANGED <<directory, recorded, schema, current>>,
           postgres' \in {"off", "coming", "there"},
           worker' \in [Worker -> [pc : Pc, version : Version \cup {None}, file : File \cup {0}]],
           \A x \in Worker \ {w} : worker'[x] = worker[x],
           Way(w)', worker'[w].pc # "inserted"
    PROVE  MigrationInv'
  <1>1. TypeOK'
    BY DEF MigrationInv, TypeOK
  <1>2. RowsKept
    BY DEF RowsKept
  <1>3. \A x \in Worker : Way(x)'
    BY <1>2, WayStays DEF MigrationInv
  <1>4. \A x \in Worker : Sole(x)'
    BY DEF MigrationInv, Sole, At
  <1>5. Live'
    BY <1>2, LiveStays DEF MigrationInv
  <1>6. AppliedOnce'
    BY DEF MigrationInv, AppliedOnce
  <1> QED
    BY <1>1, <1>3, <1>4, <1>5, <1>6 DEF MigrationInv

LEMMA GivesUpMoves ==
    ASSUME TypeOK, NEW w \in Worker, GivesUp(w)
    PROVE  /\ worker' \in [Worker -> [pc : Pc, version : Version \cup {None}, file : File \cup {0}]]
           /\ \A x \in Worker \ {w} : worker'[x] = worker[x]
           /\ Way(w)'
           /\ worker'[w].pc = "idle"
  BY DEF TypeOK, GivesUp, Idle, Pc, Way, At, Under

\* The commit of a file, whatever becomes of the worker.
LEMMA CommitStep ==
    ASSUME FilesInOrder, MigrationInv, NEW w \in Worker, At(w, "inserted"), Committed(w),
           UNCHANGED <<directory, postgres, current>>,
           worker' \in [Worker -> [pc : Pc, version : Version \cup {None}, file : File \cup {0}]],
           \A x \in Worker \ {w} : worker'[x] = worker[x],
           Way(w)', worker'[w].pc # "inserted"
    PROVE  MigrationInv'
  <1> DEFINE n == worker[w].file
             form == FormOf(w)
  <1>1. worker[w].version \in Version /\ n \in DOMAIN directory[worker[w].version]
    BY DEF MigrationInv, Way, At, Under
  <1>2. directory[worker[w].version] \in Directory
    BY <1>1 DEF MigrationInv, TypeOK
  <1>3. n \in File /\ form \in Form /\ form # None
    BY <1>1, <1>2, DirectoryTyped DEF FormOf
  <1>4. recorded[n] = None
    BY DEF MigrationInv, Sole
  <1>5. recorded' = [recorded EXCEPT ![n] = form] /\ schema' = [schema EXCEPT ![n] = Append(@, form)]
    BY DEF Committed
  <1> HIDE DEF n, form
  <1>6. TypeOK'
    BY <1>3, <1>5 DEF MigrationInv, TypeOK
  <1>7. RowsKept
    BY <1>3, <1>4, <1>5 DEF RowsKept, MigrationInv, TypeOK
  <1>8. \A x \in Worker : Way(x)'
    BY <1>7, WayStays DEF MigrationInv
  <1>9. \A x \in Worker : Sole(x)'
    <2>1. \A x \in Worker \ {w} : At(x, "inserted") => worker[x].file # n
      BY DEF MigrationInv, Sole, n
    <2>2. Sole(w)'
      BY DEF Sole, At
    <2>3. ASSUME NEW x \in Worker \ {w}, worker[x].pc = "inserted"
          PROVE  recorded'[worker[x].file] = None
      <3>1. worker[x].version \in Version /\ worker[x].file \in DOMAIN directory[worker[x].version]
        BY <2>3 DEF MigrationInv, Way, At, Under
      <3>2. worker[x].file \in File
        BY <3>1, DirectoryTyped DEF MigrationInv, TypeOK
      <3>3. recorded[worker[x].file] = None
        BY <2>3 DEF MigrationInv, Sole, At
      <3>4. worker[x].file # n
        BY <2>1, <2>3 DEF At
      <3> QED
        BY <1>5, <3>2, <3>3, <3>4 DEF MigrationInv, TypeOK
    <2>4. \A x \in Worker \ {w} : Sole(x)'
      <3> TAKE x \in Worker \ {w}
      <3> QED
        BY <2>3 DEF MigrationInv, Sole, At
    <2> QED
      BY <2>2, <2>4
  <1>10. AppliedOnce'
    <2>1. schema[n] = <<>>
      BY <1>3, <1>4 DEF MigrationInv, AppliedOnce
    <2>2. schema'[n] = <<form>> /\ recorded'[n] = form
      BY <1>3, <1>5, <2>1 DEF MigrationInv, TypeOK
    <2> QED
      BY <1>3, <1>5, <2>2 DEF MigrationInv, TypeOK, AppliedOnce
  <1>11. Live'
    BY <1>7, LiveStays DEF MigrationInv
  <1> QED
    BY <1>6, <1>8, <1>9, <1>10, <1>11 DEF MigrationInv

\* What Advances asks for, of a worker under way.
LEMMA FileIsNumber ==
    ASSUME FilesInOrder, TypeOK, NEW w \in Worker
    PROVE  worker[w].file \in Nat /\ worker[w].file \in File \cup {0}
  <1>1. worker[w].file \in File \cup {0}
    BY DEF TypeOK
  <1>2. File \cup {0} \subseteq Nat
    BY DEF FilesInOrder
  <1> QED
    BY <1>1, <1>2

-----------------------------------------------------------------------------
(* Every step keeps it.                                                    *)

\* Open and Look may come to the next file without a change to the tables.
LEMMA AdvanceMoves ==
    ASSUME FilesInOrder, MigrationInv, NEW w \in Worker, Advance(w),
           worker[w].pc \in {"open", "look"},
           \A f \in DOMAIN directory[worker[w].version] :
               f <= worker[w].file => Holds(worker[w].version, f),
           UNCHANGED <<directory, postgres, recorded, schema, current>>
    PROVE  MigrationInv'
  <1>1. worker[w].version \in Version
    BY DEF MigrationInv, Way, Under
  <1>2. TypeOK
    BY DEF MigrationInv
  <1>3. \A f \in DOMAIN directory[worker[w].version] :
            f <= worker[w].file => recorded'[f] = directory[worker[w].version][f]
    BY DEF Holds
  <1>4. /\ worker' \in [Worker -> [pc : Pc, version : Version \cup {None}, file : File \cup {0}]]
        /\ \A x \in Worker \ {w} : worker'[x] = worker[x]
        /\ worker'[w].pc \in {"look", "activate"}
        /\ Way(w)'
    BY <1>1, <1>2, <1>3, FileIsNumber, Advances
  <1> QED
    BY <1>2, <1>4, Moves DEF TypeOK

\* The committed file is the last one recorded, so the worker may go on to the next.
LEMMA CommitAdvances ==
    ASSUME FilesInOrder, MigrationInv, NEW w \in Worker, Commit(w)
    PROVE  MigrationInv'
  <1> DEFINE v == worker[w].version
             n == worker[w].file
  <1>1. At(w, "inserted") /\ Committed(w) /\ Advance(w) /\ UNCHANGED <<directory, postgres, current>>
    BY DEF Commit
  <1>2. /\ v \in Version /\ n \in DOMAIN directory[v]
        /\ \A f \in DOMAIN directory[v] : f < n => Holds(v, f)
    BY <1>1 DEF MigrationInv, Way, At, Under
  <1>3. TypeOK
    BY DEF MigrationInv
  <1>4. DOMAIN directory[v] \subseteq File
    BY <1>2, <1>3, DirectoryTyped DEF TypeOK
  <1>5. recorded' = [recorded EXCEPT ![n] = directory[v][n]]
    BY <1>1 DEF Committed, FormOf
  <1>6. \A f \in DOMAIN directory[v] : f <= n => recorded'[f] = directory[v][f]
    <2>1. File \subseteq Nat
      BY DEF FilesInOrder
    <2>2. \A f \in DOMAIN directory[v] : f <= n => f < n \/ f = n
      <3> TAKE f \in DOMAIN directory[v]
      <3>1. f \in Nat /\ n \in Nat
        BY <1>2, <1>4, <2>1
      <3> QED
        BY <3>1, Compared
    <2> QED
      BY <1>2, <1>3, <1>4, <1>5, <2>2 DEF TypeOK, Holds
  <1>7. /\ worker' \in [Worker -> [pc : Pc, version : Version \cup {None}, file : File \cup {0}]]
        /\ \A x \in Worker \ {w} : worker'[x] = worker[x]
        /\ worker'[w].pc \in {"look", "activate"}
        /\ Way(w)'
    BY <1>1, <1>2, <1>3, <1>6, FileIsNumber, Advances
  <1> QED
    BY <1>1, <1>7, CommitStep

\* The row of a file is there, so whoever was to insert it again cannot.
LEMMA InsertStep ==
    ASSUME FilesInOrder, MigrationInv, NEW w \in Worker, Insert(w)
    PROVE  MigrationInv'
  <1>1. /\ At(w, "ran") /\ KeyFree(w) /\ Goes(w, "inserted")
        /\ UNCHANGED <<directory, postgres, recorded, schema, current>>
    BY DEF Insert
  <1>2. /\ \A x \in Worker \ {w} : worker'[x] = worker[x]
        /\ worker'[w] = [worker[w] EXCEPT !.pc = "inserted"]
        /\ worker' \in [Worker -> [pc : Pc, version : Version \cup {None}, file : File \cup {0}]]
    BY <1>1 DEF MigrationInv, TypeOK, Goes, Pc
  <1>3. TypeOK'
    BY <1>1, <1>2 DEF MigrationInv, TypeOK
  <1>4. \A x \in Worker : Way(x)'
    <2>1. Way(w)'
      BY <1>1, <1>2 DEF MigrationInv, TypeOK, Way, At, Under, Holds
    <2>2. \A x \in Worker \ {w} : Way(x)'
      BY <1>1, <1>2, WayStays DEF MigrationInv, RowsKept
    <2> QED
      BY <2>1, <2>2
  <1>5. \A x \in Worker : Sole(x)'
    <2>1. worker'[w].pc = "inserted" /\ worker'[w].file = worker[w].file
      BY <1>2 DEF MigrationInv, TypeOK
    <2>2. Sole(w)'
      BY <1>1, <1>2, <2>1 DEF KeyFree, Sole, At
    <2>3. ASSUME NEW x \in Worker \ {w}, worker[x].pc = "inserted"
          PROVE  worker[x].file # worker[w].file
      BY <1>1, <2>3 DEF KeyFree, At
    <2>4. \A x \in Worker \ {w} : Sole(x)'
      BY <1>1, <1>2, <2>1, <2>3 DEF MigrationInv, Sole, At
    <2> QED
      BY <2>2, <2>4
  <1>6. Live' /\ AppliedOnce'
    BY <1>1 DEF MigrationInv, Live, Holds, AppliedOnce
  <1> QED
    BY <1>3, <1>4, <1>5, <1>6 DEF MigrationInv

LEMMA ActivateStep ==
    ASSUME FilesInOrder, MigrationInv, NEW w \in Worker, Activate(w)
    PROVE  MigrationInv'
  <1>1. /\ At(w, "activate") /\ current' = worker[w].version /\ GivesUp(w)
        /\ UNCHANGED <<directory, postgres, recorded, schema>>
    BY DEF Activate
  <1>2. /\ worker[w].version \in Version
        /\ \A f \in DOMAIN directory[worker[w].version] : Holds(worker[w].version, f)
    BY <1>1 DEF MigrationInv, Way, At
  <1>3. /\ worker' \in [Worker -> [pc : Pc, version : Version \cup {None}, file : File \cup {0}]]
        /\ \A x \in Worker \ {w} : worker'[x] = worker[x]
        /\ Way(w)' /\ worker'[w].pc = "idle"
    BY <1>1, GivesUpMoves DEF MigrationInv
  <1>4. TypeOK'
    BY <1>1, <1>2, <1>3 DEF MigrationInv, TypeOK
  <1>5. \A x \in Worker : Way(x)'
    BY <1>1, <1>3, WayStays DEF MigrationInv, RowsKept
  <1>6. \A x \in Worker : Sole(x)'
    BY <1>1, <1>3 DEF MigrationInv, Sole, At
  <1>7. Live' /\ AppliedOnce'
    BY <1>1, <1>2 DEF MigrationInv, Live, Holds, AppliedOnce
  <1> QED
    BY <1>4, <1>5, <1>6, <1>7 DEF MigrationInv

LEMMA MigrationStep ==
    ASSUME FilesInOrder
    PROVE  MigrationInv /\ [Next]_vars => MigrationInv'
  <1> SUFFICES ASSUME MigrationInv, [Next]_vars PROVE MigrationInv'
    OBVIOUS
  <1> USE DEF MigrationInv
  <1>1. CASE EnableResources \/ Provisioned
    <2>1. UNCHANGED <<directory, recorded, schema, current, worker>> /\ postgres' \in {"off", "coming", "there"}
      BY <1>1 DEF EnableResources, Provisioned
    <2> QED
      BY <2>1 DEF TypeOK, Way, Sole, Live, Holds, At, Under, AppliedOnce
  <1>2. ASSUME NEW w \in Worker, NEW v \in Version, Deploy(w, v) PROVE MigrationInv'
    <2>1. /\ \A x \in Worker \ {w} : worker'[x] = worker[x]
          /\ worker'[w].version = v /\ worker'[w].file = 0
          /\ worker'[w].pc \in {"open", "activate", "refused"}
          /\ worker'[w].pc = "activate" => DOMAIN directory[v] = {}
          /\ worker' \in [Worker -> [pc : Pc, version : Version \cup {None}, file : File \cup {0}]]
          /\ UNCHANGED <<directory, postgres, recorded, schema, current>>
      BY <1>2 DEF Deploy, Gate, TypeOK, Pc
    <2>2. Way(w)'
      BY <2>1 DEF Way, At, Under
    <2> QED
      BY <2>1, <2>2, Moves DEF TypeOK
  <1>3. ASSUME NEW w \in Worker, Open(w) PROVE MigrationInv'
    <2>1. /\ At(w, "open") /\ Advance(w) /\ worker[w].file = 0 /\ worker[w].version \in Version
          /\ UNCHANGED <<directory, postgres, recorded, schema, current>>
      BY <1>3 DEF Open, Way, At
    <2>2. DOMAIN directory[worker[w].version] \subseteq File
      BY <2>1, DirectoryTyped DEF TypeOK
    <2>3. File \subseteq Nat \ {0}
      BY DEF FilesInOrder
    <2>4. \A f \in DOMAIN directory[worker[w].version] : ~(f <= worker[w].file)
      <3> TAKE f \in DOMAIN directory[worker[w].version]
      <3>1. f \in Nat \ {0}
        BY <2>2, <2>3
      <3>2. ~(f <= 0)
        BY <3>1
      <3> QED
        BY <2>1, <3>2
    <2> QED
      BY <2>1, <2>4, AdvanceMoves DEF At
  <1>4. ASSUME NEW w \in Worker, Look(w) PROVE MigrationInv'
    <2>1. /\ At(w, "look") /\ worker[w].version \in Version
          /\ worker[w].file \in DOMAIN directory[worker[w].version]
          /\ \A f \in DOMAIN directory[worker[w].version] :
                 f < worker[w].file => Holds(worker[w].version, f)
          /\ UNCHANGED <<directory, postgres, recorded, schema, current>>
      BY <1>4 DEF Look, Way, At, Under
    <2>5. FormOf(w) # None
      BY <2>1, DirectoryTyped DEF TypeOK, FormOf
    <2>2. CASE recorded[worker[w].file] = None
      <3>1. Goes(w, "begin")
        BY <1>4, <2>2, <2>5 DEF Look
      <3>2. /\ \A x \in Worker \ {w} : worker'[x] = worker[x]
            /\ worker'[w] = [worker[w] EXCEPT !.pc = "begin"]
            /\ worker' \in [Worker -> [pc : Pc, version : Version \cup {None}, file : File \cup {0}]]
        BY <3>1 DEF Goes, TypeOK, Pc
      <3>3. Way(w)' /\ worker'[w].pc = "begin"
        BY <2>1, <3>2 DEF TypeOK, Way, At, Under, Holds
      <3> QED
        BY <2>1, <3>2, <3>3, Moves DEF TypeOK
    <2>3. CASE recorded[worker[w].file] # None /\ recorded[worker[w].file] = FormOf(w)
      <3>1. Advance(w)
        BY <1>4, <2>3 DEF Look
      <3>2. DOMAIN directory[worker[w].version] \subseteq File /\ File \subseteq Nat
        BY <2>1, DirectoryTyped DEF TypeOK, FilesInOrder
      <3>3. \A f \in DOMAIN directory[worker[w].version] :
                f <= worker[w].file => f < worker[w].file \/ f = worker[w].file
        <4> TAKE f \in DOMAIN directory[worker[w].version]
        <4>1. f \in Nat /\ worker[w].file \in Nat
          BY <2>1, <3>2
        <4> QED
          BY <4>1, Compared
      <3>4. Holds(worker[w].version, worker[w].file)
        BY <2>3 DEF FormOf, Holds
      <3> QED
        BY <2>1, <3>1, <3>3, <3>4, AdvanceMoves DEF At
    <2>4. CASE recorded[worker[w].file] # None /\ recorded[worker[w].file] # FormOf(w)
      <3>1. GivesUp(w)
        BY <1>4, <2>4 DEF Look
      <3> QED
        BY <2>1, <3>1, GivesUpMoves, Moves DEF TypeOK
    <2> QED
      BY <2>2, <2>3, <2>4
  <1>5. ASSUME NEW w \in Worker, Run(w) PROVE MigrationInv'
    <2>1. /\ At(w, "begin") /\ UNCHANGED <<directory, postgres, recorded, schema, current>>
          /\ \A x \in Worker \ {w} : worker'[x] = worker[x]
          /\ worker'[w] = [worker[w] EXCEPT !.pc = "ran"]
          /\ worker' \in [Worker -> [pc : Pc, version : Version \cup {None}, file : File \cup {0}]]
      BY <1>5 DEF Run, Goes, TypeOK, Pc
    <2>2. Way(w)' /\ worker'[w].pc = "ran"
      BY <2>1 DEF TypeOK, Way, At, Under, Holds
    <2> QED
      BY <2>1, <2>2, Moves DEF TypeOK
  <1>6. ASSUME NEW w \in Worker, CommitUnknown(w) PROVE MigrationInv'
    <2>1. /\ At(w, "inserted") /\ Committed(w) /\ GivesUp(w)
          /\ UNCHANGED <<directory, postgres, current>>
      BY <1>6 DEF CommitUnknown
    <2> QED
      BY <2>1, GivesUpMoves, CommitStep
  <1>7. ASSUME NEW w \in Worker, Fails(w) PROVE MigrationInv'
    <2>1. GivesUp(w) /\ UNCHANGED <<directory, postgres, recorded, schema, current>>
      BY <1>7 DEF Fails
    <2> QED
      BY <2>1, GivesUpMoves, Moves DEF TypeOK
  <1>8. CASE UNCHANGED vars
    BY <1>8 DEF vars, TypeOK, Way, Sole, Live, Holds, At, Under, AppliedOnce
  <1> QED
    BY <1>1, <1>2, <1>3, <1>4, <1>5, <1>6, <1>7, <1>8,
       InsertStep, CommitAdvances, ActivateStep DEF Next

\* Each migration takes effect once, in the form the table says, and the live
\* version finds all of its migrations there (applyMigrations, the gate and the
\* activation of deployVersion).
THEOREM SchemaSound == ASSUME FilesInOrder PROVE Spec => []SchemaIsSound
  <1>1. Init => MigrationInv
    BY DEF Init, MigrationInv, TypeOK, Idle, Pc, Way, Sole, Live, At, Under, AppliedOnce
  <1>2. MigrationInv => SchemaIsSound
    BY DEF MigrationInv, SchemaIsSound, Live, LiveIsMigrated, Holds
  <1>3. MigrationInv /\ [Next]_vars => MigrationInv'
    BY MigrationStep
  <1> QED
    BY <1>1, <1>2, <1>3, PTL DEF Spec

-----------------------------------------------------------------------------
(* Previews.  What the executor is at tells what the row says of a render  *)
(* and how often a probe may have been sent.                               *)

RenderAnswered ==
    /\ job["render"] = "succeeded" => row.shot
    /\ exec.at \in {"render", "record", "report"} => job["render"] = "running"
    /\ exec.at = "report" => ~row.old /\ (row.shot <=> exec.shot)
    /\ Preview!Wanted => picture \/ taken

\* The rest of a probe's life allows no more sending than its worker's deaths do.
SentAsAllowed(j) ==
    /\ sent[j] <= 1 + orphaned[j]
    /\ job[j] \in {"absent", "queued"} => sent[j] <= orphaned[j]
    /\ exec.at \in {"load", "send"} /\ exec.job = j => sent[j] <= orphaned[j]

ProbeAnswered ==
    /\ \A j \in Probe : job[j] = "succeeded" => probe[j] = "answered"
    /\ exec.at \in {"load", "send", "answer", "done"} => job[exec.job] = "running"
    /\ exec.at = "done" => probe[exec.job] = "answered"

PreviewInv ==
    Preview!TypeOK /\ RenderAnswered /\ ProbeAnswered /\ \A j \in Probe : SentAsAllowed(j)

LEMMA PreviewTypes ==
  ASSUME Preview!TypeOK
  PROVE  /\ job \in [Probe \cup {"render"} -> {"absent", "queued", "running", "succeeded", "failed"}]
         /\ row \in [there : BOOLEAN, shot : BOOLEAN, old : BOOLEAN]
         /\ picture \in BOOLEAN /\ removing \in BOOLEAN /\ taken \in BOOLEAN
         /\ probe \in [Probe -> {"none", "asked", "answered"}]
         /\ sent \in [Probe -> 0 .. 2] /\ orphaned \in [Probe -> 0 .. 1]
         /\ caller \in [Client -> {"idle", "wait", "shown", "told"}]
         /\ exec.at \in {"idle", "render", "record", "report", "load", "send", "answer", "done"}
         /\ exec.at = "idle" => exec = Preview!Idle
         /\ exec.at \in {"record", "report"} => exec \in [at : {"record", "report"}, shot : BOOLEAN]
         /\ exec.at \in {"load", "send", "answer", "done"} =>
              exec \in [at : {"load", "send", "answer", "done"}, job : Probe]
         /\ exec.at = "render" => exec = [at |-> "render"]
  BY DEF Preview!TypeOK, Preview!Idle, Preview!Job

Doing ==
    {Preview!Idle} \cup [at : {"render"}] \cup [at : {"record", "report"}, shot : BOOLEAN]
    \cup [at : {"load", "send", "answer", "done"}, job : Probe]

LEMMA DoingPlaces ==
  /\ Preview!Idle \in Doing /\ Preview!Idle.at = "idle"
  /\ [at |-> "render"] \in Doing
  /\ \A shot \in BOOLEAN : [at |-> "record", shot |-> shot] \in Doing
  /\ \A shot \in BOOLEAN : [at |-> "report", shot |-> shot] \in Doing
  /\ \A j \in Probe : \A at \in {"load", "send", "answer", "done"} :
       [at |-> at, job |-> j] \in Doing
  BY DEF Doing, Preview!Idle

\* The callers and what is not wanted promise nothing.
LEMMA PreviewAround ==
  ASSUME PreviewInv,
         UNCHANGED <<job, row, probe, sent, orphaned, exec>>,
         Preview!Wanted => picture' \/ taken',
         picture' \in BOOLEAN, removing' \in BOOLEAN, taken' \in BOOLEAN,
         caller' \in [Client -> {"idle", "wait", "shown", "told"}]
  PROVE  PreviewInv'
  <1>1. Preview!TypeOK'
    BY DEF PreviewInv, Preview!TypeOK
  <1>2. RenderAnswered' /\ ProbeAnswered' /\ \A j \in Probe : SentAsAllowed(j)'
    BY DEF PreviewInv, RenderAnswered, ProbeAnswered, SentAsAllowed, Preview!Wanted
  <1>3. QED
    BY <1>1, <1>2 DEF PreviewInv

\* A step of the render: the probes keep what they have.
LEMMA PreviewRender ==
  ASSUME PreviewInv,
         UNCHANGED probe, UNCHANGED sent, UNCHANGED orphaned,
         picture' \in BOOLEAN, removing' \in BOOLEAN, taken' \in BOOLEAN,
         caller' \in [Client -> {"idle", "wait", "shown", "told"}],
         row' \in [there : BOOLEAN, shot : BOOLEAN, old : BOOLEAN],
         job' \in [Probe \cup {"render"} -> {"absent", "queued", "running", "succeeded", "failed"}],
         \A j \in Probe : job'[j] = job[j],
         exec' = exec \/ (exec' \in Doing /\ exec'.at \in {"idle", "render", "record", "report"}),
         RenderAnswered'
  PROVE  PreviewInv'
  <1>1. Preview!TypeOK'
    BY DEF PreviewInv, Preview!TypeOK, Doing, Preview!Job
  <1>2. exec'.at \in {"load", "send", "answer", "done"} => exec' = exec /\ exec.job \in Probe
    BY PreviewTypes DEF PreviewInv
  <1>3. ProbeAnswered' /\ \A j \in Probe : SentAsAllowed(j)'
    BY <1>2 DEF PreviewInv, ProbeAnswered, SentAsAllowed
  <1>4. QED
    BY <1>1, <1>3 DEF PreviewInv

LEMMA PreviewCalls ==
  ASSUME PreviewInv, NEW c \in Client,
         Preview!AskRender(c) \/ Preview!Show(c) \/ Preview!Tell(c)
  PROVE  PreviewInv'
  <1>1. Preview!TypeOK /\ RenderAnswered
    BY DEF PreviewInv
  <1>2. CASE Preview!Show(c) \/ Preview!Tell(c)
    <2>1. /\ caller' \in [Client -> {"idle", "wait", "shown", "told"}]
          /\ UNCHANGED <<job, row, picture, removing, taken, probe, sent, orphaned, exec>>
      BY <1>1, <1>2, PreviewTypes DEF Preview!Show, Preview!Tell, Preview!probes
    <2>2. Preview!Wanted => picture' \/ taken'
      BY <1>1, <2>1 DEF RenderAnswered
    <2>3. QED
      BY <1>1, <2>1, <2>2, PreviewTypes, PreviewAround
  <1>3. CASE Preview!AskRender(c)
    <2>1. /\ caller' \in [Client -> {"idle", "wait", "shown", "told"}]
          /\ UNCHANGED <<row, picture, removing, taken, probe, sent, orphaned, exec>>
          /\ job' = [job EXCEPT !["render"] = IF @ \in {"absent", "failed"} THEN "queued" ELSE @]
      BY <1>1, <1>3, PreviewTypes DEF Preview!AskRender, Preview!probes
    <2>2. /\ job' \in [Probe \cup {"render"} ->
                         {"absent", "queued", "running", "succeeded", "failed"}]
          /\ \A j \in Probe : job'[j] = job[j]
          /\ job'["render"] = "succeeded" => job["render"] = "succeeded"
          /\ job["render"] = "running" => job'["render"] = "running"
      BY <1>1, <2>1, PreviewTypes, NamesAssumption
    <2>3. RenderAnswered'
      BY <1>1, <2>1, <2>2 DEF RenderAnswered, Preview!Wanted
    <2>4. QED
      BY <1>1, <2>1, <2>2, <2>3, PreviewTypes, PreviewRender
  <1>4. QED
    BY <1>2, <1>3

LEMMA PreviewRenders ==
  ASSUME PreviewInv,
         \/ Preview!ClaimRender \/ Preview!Record \/ Preview!Report \/ Preview!RenderFails
         \/ \E shot \in BOOLEAN : Preview!Render(shot)
  PROVE  PreviewInv'
  <1>1. /\ Preview!TypeOK /\ RenderAnswered
        /\ caller \in [Client -> {"idle", "wait", "shown", "told"}]
        /\ picture \in BOOLEAN /\ removing \in BOOLEAN /\ taken \in BOOLEAN
        /\ row \in [there : BOOLEAN, shot : BOOLEAN, old : BOOLEAN]
        /\ job \in [Probe \cup {"render"} ->
                      {"absent", "queued", "running", "succeeded", "failed"}]
        /\ exec.at \in {"record", "report"} => exec.shot \in BOOLEAN
    BY PreviewTypes DEF PreviewInv
  <1>2. ASSUME NEW value \in {"absent", "queued", "running", "succeeded", "failed"},
               job' = [job EXCEPT !["render"] = value]
        PROVE  /\ job' \in [Probe \cup {"render"} ->
                              {"absent", "queued", "running", "succeeded", "failed"}]
               /\ \A j \in Probe : job'[j] = job[j]
               /\ job'["render"] = value
    BY <1>1, <1>2, NamesAssumption
  <1>3. CASE Preview!ClaimRender
    <2>1. /\ job' = [job EXCEPT !["render"] = "running"] /\ exec' = [at |-> "render"]
          /\ UNCHANGED <<row, picture, removing, taken, caller, probe, sent, orphaned>>
      BY <1>3 DEF Preview!ClaimRender, Preview!renders, Preview!probes
    <2>2. RenderAnswered'
      BY <1>2, <2>1 DEF RenderAnswered, Preview!Wanted
    <2>3. QED
      BY <1>1, <1>2, <2>1, <2>2, DoingPlaces, PreviewRender
  <1>4. ASSUME NEW shot \in BOOLEAN, Preview!Render(shot) PROVE PreviewInv'
    <2>1. /\ exec' = [at |-> "record", shot |-> shot] /\ exec.at = "render"
          /\ picture' = (picture \/ shot) /\ taken' = (taken /\ ~shot)
          /\ UNCHANGED <<job, row, removing, caller, probe, sent, orphaned>>
      BY <1>4 DEF Preview!Render, Preview!probes
    <2>2. RenderAnswered'
      <3>1. job["render"] = "running"
        BY <1>1, <2>1 DEF RenderAnswered
      <3>2. Preview!Wanted' => picture'
        BY <2>1, <3>1 DEF Preview!Wanted
      <3>3. QED
        BY <1>1, <2>1, <3>1, <3>2 DEF RenderAnswered
    <2>3. picture' \in BOOLEAN /\ taken' \in BOOLEAN
      BY <1>1, <2>1
    <2>4. QED
      BY <1>1, <2>1, <2>2, <2>3, DoingPlaces, PreviewRender
  <1>5. CASE Preview!Record
    <2>1. /\ exec' = [at |-> "report", shot |-> exec.shot] /\ exec.at = "record"
          /\ row' = [there |-> TRUE, shot |-> exec.shot, old |-> FALSE]
          /\ UNCHANGED <<job, picture, removing, taken, caller, probe, sent, orphaned>>
      BY <1>5 DEF Preview!Record, Preview!Recorded, Preview!probes
    <2>2. RenderAnswered'
      BY <1>1, <2>1 DEF RenderAnswered, Preview!Wanted
    <2>3. row' \in [there : BOOLEAN, shot : BOOLEAN, old : BOOLEAN] /\ exec' \in Doing
      BY <1>1, <2>1, DoingPlaces
    <2>4. QED
      BY <1>1, <2>1, <2>2, <2>3, PreviewRender
  <1>6. CASE Preview!Report \/ Preview!RenderFails
    <2>1. PICK value \in {"succeeded", "failed"} :
            /\ job' = [job EXCEPT !["render"] = value]
            /\ value = "succeeded" => exec.at = "report" /\ exec.shot
      BY <1>6 DEF Preview!Report, Preview!RenderFails, Preview!Finished
    <2>2. /\ exec' = Preview!Idle
          /\ UNCHANGED <<row, picture, removing, taken, caller, probe, sent, orphaned>>
      BY <1>6 DEF Preview!Report, Preview!RenderFails, Preview!Finished, Preview!renders,
         Preview!probes
    <2>3. /\ job' \in [Probe \cup {"render"} ->
                         {"absent", "queued", "running", "succeeded", "failed"}]
          /\ \A j \in Probe : job'[j] = job[j]
          /\ job'["render"] = value
      BY <1>2, <2>1
    <2>4. RenderAnswered'
      BY <1>1, <2>1, <2>2, <2>3, DoingPlaces DEF RenderAnswered, Preview!Wanted
    <2>5. QED
      BY <1>1, <2>2, <2>3, <2>4, DoingPlaces, PreviewRender
  <1>7. QED
    BY <1>3, <1>4, <1>5, <1>6

\* Housekeeping lets no job that succeeded lose its row.
LEMMA PreviewHousekeeping ==
  ASSUME PreviewInv, Preview!Age \/ Preview!ExpireRow \/ Preview!RemovePicture
  PROVE  PreviewInv'
  <1>1. /\ Preview!TypeOK /\ RenderAnswered
        /\ caller \in [Client -> {"idle", "wait", "shown", "told"}]
        /\ picture \in BOOLEAN /\ removing \in BOOLEAN /\ taken \in BOOLEAN
        /\ row \in [there : BOOLEAN, shot : BOOLEAN, old : BOOLEAN]
        /\ job \in [Probe \cup {"render"} ->
                      {"absent", "queued", "running", "succeeded", "failed"}]
    BY PreviewTypes DEF PreviewInv
  <1>2. CASE Preview!Age
    <2>1. /\ row' = [row EXCEPT !.old = TRUE] /\ exec.at # "report"
          /\ UNCHANGED <<job, picture, removing, taken, caller, probe, sent, orphaned, exec>>
      BY <1>2 DEF Preview!Age, Preview!probes
    <2>2. row' \in [there : BOOLEAN, shot : BOOLEAN, old : BOOLEAN] /\ row'.shot = row.shot
      BY <1>1, <2>1
    <2>3. RenderAnswered'
      BY <1>1, <2>1, <2>2 DEF RenderAnswered, Preview!Wanted
    <2>4. QED
      BY <1>1, <2>1, <2>2, <2>3, PreviewRender
  <1>3. CASE Preview!ExpireRow
    <2>1. /\ row' = Preview!NoRow /\ row.old
          /\ job' = [job EXCEPT !["render"] = IF @ = "succeeded" THEN "failed" ELSE @]
          /\ removing' = (removing \/ row.shot)
          /\ UNCHANGED <<picture, taken, caller, probe, sent, orphaned, exec>>
      BY <1>3 DEF Preview!ExpireRow, Preview!probes
    <2>2. /\ row' \in [there : BOOLEAN, shot : BOOLEAN, old : BOOLEAN] /\ removing' \in BOOLEAN
      BY <1>1, <2>1 DEF Preview!NoRow
    <2>3. /\ job' \in [Probe \cup {"render"} ->
                         {"absent", "queued", "running", "succeeded", "failed"}]
          /\ \A j \in Probe : job'[j] = job[j]
          /\ job'["render"] # "succeeded"
          /\ job["render"] = "running" => job'["render"] = "running"
      BY <1>1, <2>1, NamesAssumption
    <2>4. RenderAnswered'
      BY <1>1, <2>1, <2>3 DEF RenderAnswered, Preview!Wanted
    <2>5. QED
      BY <1>1, <2>1, <2>2, <2>3, <2>4, PreviewRender
  <1>4. CASE Preview!RemovePicture
    <2>1. /\ picture' \in BOOLEAN /\ removing' \in BOOLEAN /\ taken' \in BOOLEAN
          /\ UNCHANGED <<job, row, caller, probe, sent, orphaned, exec>>
          /\ Preview!Wanted => picture' \/ taken'
      BY <1>4 DEF Preview!RemovePicture, Preview!probes, Preview!Wanted
    <2>2. QED
      BY <1>1, <2>1, PreviewAround
  <1>5. QED
    BY <1>2, <1>3, <1>4

\* A step of one probe: the render and the other probes keep what they have.
LEMMA PreviewProbe ==
  ASSUME PreviewInv, NEW j \in Probe,
         UNCHANGED <<row, picture, removing, taken, caller>>,
         job' \in [Probe \cup {"render"} -> {"absent", "queued", "running", "succeeded", "failed"}],
         probe' \in [Probe -> {"none", "asked", "answered"}],
         sent' \in [Probe -> 0 .. 2], orphaned' \in [Probe -> 0 .. 1],
         job'["render"] = job["render"],
         \A k \in Probe \ {j} : /\ job'[k] = job[k] /\ probe'[k] = probe[k]
                                /\ sent'[k] = sent[k] /\ orphaned'[k] = orphaned[k],
         \/ exec' = exec
         \/ exec' = Preview!Idle
         \/ exec' \in [at : {"load", "send", "answer", "done"}, job : Probe] /\ exec'.job = j,
         job'[j] = "succeeded" => probe'[j] = "answered",
         exec'.at \in {"load", "send", "answer", "done"} /\ exec'.job = j =>
            job'[j] = "running",
         exec'.at = "done" /\ exec'.job = j => probe'[j] = "answered",
         SentAsAllowed(j)'
  PROVE  PreviewInv'
  <1>1. Preview!TypeOK'
    BY DEF PreviewInv, Preview!TypeOK, Preview!Job
  <1>2. /\ exec.at \in {"load", "send", "answer", "done"} => exec.job \in Probe
        /\ exec'.at \in {"load", "send", "answer", "done"} => exec'.job \in Probe
        /\ exec' # exec => exec'.at \notin {"render", "record", "report"}
        /\ exec' # exec /\ exec'.at \in {"load", "send", "answer", "done"} => exec'.job = j
    BY PreviewTypes, DoingPlaces DEF PreviewInv
  <1>3. RenderAnswered'
    BY <1>2 DEF PreviewInv, RenderAnswered, Preview!Wanted
  <1>4. ProbeAnswered'
    <2>1. ASSUME exec'.at \in {"load", "send", "answer", "done"}, exec'.job # j
          PROVE  exec' = exec /\ exec.job \in Probe \ {j}
      BY <1>2, <2>1
    <2>2. QED
      BY <1>2, <2>1 DEF PreviewInv, ProbeAnswered
  <1>5. ASSUME NEW k \in Probe PROVE SentAsAllowed(k)'
    <2>1. CASE k = j
      BY <2>1
    <2>2. CASE k # j
      <3>1. exec'.at \in {"load", "send"} /\ exec'.job = k => exec' = exec
        BY <1>2, <2>2
      <3>2. QED
        BY <2>2, <3>1 DEF PreviewInv, SentAsAllowed
    <2>3. QED
      BY <2>1, <2>2
  <1>6. QED
    BY <1>1, <1>3, <1>4, <1>5 DEF PreviewInv

LEMMA PreviewProbes ==
  ASSUME PreviewInv,
         \/ \E j \in Probe : Preview!QueueProbe(j) \/ Preview!StoreProbe(j) \/ Preview!ClaimProbe(j)
         \/ Preview!Load \/ Preview!Send \/ Preview!Answered \/ Preview!Done \/ Preview!ProbeFails
  PROVE  PreviewInv'
  <1> USE NamesAssumption
  <1>1. /\ Preview!TypeOK /\ RenderAnswered /\ ProbeAnswered
        /\ job \in [Probe \cup {"render"} ->
                      {"absent", "queued", "running", "succeeded", "failed"}]
        /\ probe \in [Probe -> {"none", "asked", "answered"}]
        /\ sent \in [Probe -> 0 .. 2] /\ orphaned \in [Probe -> 0 .. 1]
        /\ exec.at \in {"load", "send", "answer", "done"} =>
              exec \in [at : {"load", "send", "answer", "done"}, job : Probe]
    BY PreviewTypes DEF PreviewInv
  <1>2. ASSUME NEW j \in Probe, Preview!QueueProbe(j) PROVE PreviewInv'
    <2>1. /\ job' = [job EXCEPT ![j] = "queued"] /\ job[j] = "absent"
          /\ UNCHANGED <<row, picture, removing, taken, caller, probe, sent, orphaned, exec>>
      BY <1>2 DEF Preview!QueueProbe, Preview!renders, Preview!probes
    <2>2. exec.at \in {"load", "send", "answer", "done"} => exec.job # j
      BY <1>1, <2>1 DEF ProbeAnswered
    <2>3. SentAsAllowed(j)'
      BY <1>1, <2>1 DEF PreviewInv, SentAsAllowed
    <2>4. QED
      BY <1>1, <2>1, <2>2, <2>3, PreviewProbe
  <1>3. ASSUME NEW j \in Probe, Preview!StoreProbe(j) PROVE PreviewInv'
    <2>1. /\ probe' = [probe EXCEPT ![j] = "asked"] /\ probe[j] = "none"
          /\ UNCHANGED <<job, row, picture, removing, taken, caller, sent, orphaned, exec>>
      BY <1>3 DEF Preview!StoreProbe, Preview!renders
    <2>2. /\ job[j] # "succeeded"
          /\ exec.at = "done" => exec.job # j
      BY <1>1, <2>1 DEF ProbeAnswered
    <2>3. SentAsAllowed(j)'
      BY <2>1 DEF PreviewInv, SentAsAllowed
    <2>4. QED
      BY <1>1, <2>1, <2>2, <2>3, PreviewProbe DEF ProbeAnswered
  <1>4. ASSUME NEW j \in Probe, Preview!ClaimProbe(j) PROVE PreviewInv'
    <2>1. /\ job' = [job EXCEPT ![j] = "running"] /\ job[j] = "queued"
          /\ exec' = [at |-> "load", job |-> j]
          /\ UNCHANGED <<row, picture, removing, taken, caller, probe, sent, orphaned>>
      BY <1>4 DEF Preview!ClaimProbe, Preview!renders, Preview!probes
    <2>2. SentAsAllowed(j)'
      BY <1>1, <2>1 DEF PreviewInv, SentAsAllowed
    <2>3. QED
      BY <1>1, <2>1, <2>2, PreviewProbe
  <1>5. ASSUME exec.at \in {"load", "send", "answer", "done"},
               Preview!Load \/ Preview!Send \/ Preview!Answered \/ Preview!Done \/ Preview!ProbeFails
        PROVE  PreviewInv'
    <2>1. PICK j \in Probe : exec.job = j
      BY <1>1, <1>5
    <2>2. /\ exec \in [at : {"load", "send", "answer", "done"}, job : Probe]
          /\ job[j] = "running" /\ SentAsAllowed(j) /\ sent[j] \in 0 .. 2 /\ orphaned[j] \in 0 .. 1
      BY <1>1, <1>5, <2>1 DEF PreviewInv, ProbeAnswered
    <2>3. ASSUME NEW at \in {"load", "send", "answer", "done"}, exec' = [exec EXCEPT !.at = at]
          PROVE  /\ exec' \in [at : {"load", "send", "answer", "done"}, job : Probe]
                 /\ exec'.at = at /\ exec'.job = j
      BY <2>1, <2>2, <2>3
    <2>4. CASE exec.at = "load" /\ exec' = [exec EXCEPT !.at = "send"]
               /\ UNCHANGED <<job, row, picture, removing, taken, caller, probe, sent, orphaned>>
      <3>1. SentAsAllowed(j)'
        BY <2>1, <2>2, <2>3, <2>4 DEF SentAsAllowed
      <3>2. QED
        BY <1>1, <2>2, <2>3, <2>4, <3>1, PreviewProbe DEF ProbeAnswered
    <2>5. CASE Preview!Send
      <3>1. /\ sent' = [sent EXCEPT ![j] = @ + 1] /\ exec' = [exec EXCEPT !.at = "answer"]
            /\ exec.at = "send"
            /\ UNCHANGED <<job, row, picture, removing, taken, caller, probe, orphaned>>
        BY <2>1, <2>5 DEF Preview!Send, Preview!renders
      <3>2. sent[j] <= orphaned[j]
        BY <2>1, <2>2, <3>1 DEF SentAsAllowed
      <3>3. sent' \in [Probe -> 0 .. 2] /\ sent'[j] = sent[j] + 1
            /\ \A k \in Probe \ {j} : sent'[k] = sent[k]
        BY <1>1, <2>2, <3>1, <3>2
      <3>4. SentAsAllowed(j)'
        BY <2>2, <2>3, <3>1, <3>2, <3>3 DEF SentAsAllowed
      <3>5. QED
        BY <1>1, <2>2, <2>3, <3>1, <3>3, <3>4, PreviewProbe DEF ProbeAnswered
    <2>6. CASE Preview!Answered
      <3>1. /\ probe' = [probe EXCEPT ![j] = "answered"] /\ exec' = [exec EXCEPT !.at = "done"]
            /\ UNCHANGED <<job, row, picture, removing, taken, caller, sent, orphaned>>
        BY <2>1, <2>6 DEF Preview!Answered, Preview!renders
      <3>2. probe' \in [Probe -> {"none", "asked", "answered"}] /\ probe'[j] = "answered"
            /\ \A k \in Probe \ {j} : probe'[k] = probe[k]
        BY <1>1, <3>1
      <3>3. SentAsAllowed(j)'
        BY <2>2, <2>3, <3>1 DEF SentAsAllowed
      <3>4. QED
        BY <1>1, <2>2, <2>3, <3>1, <3>2, <3>3, PreviewProbe
    <2>7. ASSUME NEW outcome \in {"succeeded", "failed"}, job' = [job EXCEPT ![j] = outcome],
                 outcome = "succeeded" => exec.at = "done",
                 exec' = Preview!Idle, UNCHANGED <<row, picture, removing, taken, caller, probe, sent, orphaned>>
          PROVE  PreviewInv'
      <3>1. /\ job' \in [Probe \cup {"render"} ->
                           {"absent", "queued", "running", "succeeded", "failed"}]
            /\ job'["render"] = job["render"] /\ job'[j] = outcome
            /\ \A k \in Probe \ {j} : job'[k] = job[k]
        BY <1>1, <2>7
      <3>2. outcome = "succeeded" => probe[j] = "answered"
        BY <1>1, <2>1, <2>7 DEF ProbeAnswered
      <3>3. SentAsAllowed(j)'
        BY <2>2, <2>7, <3>1, DoingPlaces DEF SentAsAllowed
      <3>4. QED
        BY <1>1, <2>7, <3>1, <3>2, <3>3, DoingPlaces, PreviewProbe
    <2>8. QED
      <3>1. CASE Preview!Load
        BY <2>1, <2>4, <2>7, <3>1 DEF Preview!Load, Preview!Finished, Preview!renders, Preview!probes
      <3>2. CASE Preview!Done \/ Preview!ProbeFails
        BY <2>1, <2>7, <3>2 DEF Preview!Done, Preview!ProbeFails, Preview!Finished,
           Preview!renders, Preview!probes
      <3>3. QED
        BY <1>5, <2>5, <2>6, <3>1, <3>2
  <1>6. QED
    BY <1>2, <1>3, <1>4, <1>5
       DEF Preview!Load, Preview!Send, Preview!Answered, Preview!Done, Preview!ProbeFails

\* The worker dies; a probe that was sent may be sent once more.
LEMMA PreviewDies ==
  ASSUME PreviewInv, Preview!Die
  PROVE  PreviewInv'
  <1> USE NamesAssumption
  <1>1. /\ Preview!TypeOK /\ RenderAnswered /\ ProbeAnswered
        /\ job \in [Probe \cup {"render"} ->
                      {"absent", "queued", "running", "succeeded", "failed"}]
        /\ probe \in [Probe -> {"none", "asked", "answered"}]
        /\ sent \in [Probe -> 0 .. 2] /\ orphaned \in [Probe -> 0 .. 1]
        /\ caller \in [Client -> {"idle", "wait", "shown", "told"}]
        /\ picture \in BOOLEAN /\ removing \in BOOLEAN /\ taken \in BOOLEAN
        /\ row \in [there : BOOLEAN, shot : BOOLEAN, old : BOOLEAN]
    BY PreviewTypes DEF PreviewInv
  <1>2. exec # Preview!Idle /\ exec' = Preview!Idle
        /\ UNCHANGED <<row, picture, removing, taken, caller, probe, sent>>
    BY DEF Preview!Die, Preview!Finished, Preview!renders
  <1>3. CASE exec \in [at : {"load", "send", "answer", "done"}, job : Probe]
    <2>1. PICK j \in Probe : exec.job = j
      BY <1>3
    <2>2. "job" \in DOMAIN exec
      BY <1>3
    <2>3. /\ job' = [job EXCEPT ![j] = "queued"]
          /\ orphaned[j] = 0 /\ orphaned' = [orphaned EXCEPT ![j] = 1]
      BY <2>1, <2>2 DEF Preview!Die, Preview!Finished
    <2>4. /\ job' \in [Probe \cup {"render"} ->
                         {"absent", "queued", "running", "succeeded", "failed"}]
          /\ job'["render"] = job["render"] /\ job'[j] = "queued"
          /\ orphaned' \in [Probe -> 0 .. 1] /\ orphaned'[j] = 1
          /\ \A k \in Probe \ {j} : job'[k] = job[k] /\ orphaned'[k] = orphaned[k]
      BY <1>1, <2>3
    <2>5. sent[j] <= 1
      BY <1>1, <2>3 DEF PreviewInv, SentAsAllowed
    <2>6. SentAsAllowed(j)'
      BY <1>1, <1>2, <2>4, <2>5, DoingPlaces DEF SentAsAllowed
    <2>7. QED
      BY <1>1, <1>2, <2>4, <2>6, DoingPlaces, PreviewProbe
  <1>4. CASE exec \in [at : {"render"}] \cup [at : {"record", "report"}, shot : BOOLEAN]
    <2>1. "job" \notin DOMAIN exec
      <3>1. exec \in [at : {"render"}] => "job" \notin DOMAIN exec
        OBVIOUS
      <3>2. exec \in [at : {"record", "report"}, shot : BOOLEAN] => "job" \notin DOMAIN exec
        OBVIOUS
      <3>3. QED
        BY <1>4, <3>1, <3>2
    <2>2. job' = [job EXCEPT !["render"] = "queued"] /\ UNCHANGED orphaned
      BY <2>1 DEF Preview!Die, Preview!Finished
    <2>3. /\ job' \in [Probe \cup {"render"} ->
                         {"absent", "queued", "running", "succeeded", "failed"}]
          /\ \A j \in Probe : job'[j] = job[j]
          /\ job'["render"] = "queued"
      BY <1>1, <2>2
    <2>4. RenderAnswered'
      BY <1>2, <2>3, DoingPlaces DEF RenderAnswered, Preview!Wanted
    <2>5. QED
      BY <1>1, <1>2, <2>2, <2>3, <2>4, DoingPlaces, PreviewRender
  <1>5. QED
    BY <1>1, <1>2, <1>3, <1>4 DEF Preview!TypeOK

LEMMA PreviewStep ==
  ASSUME PreviewInv, PreviewNext
  PROVE  PreviewInv'
  <1>1. CASE \E c \in Client : Preview!AskRender(c) \/ Preview!Show(c) \/ Preview!Tell(c)
    BY <1>1, PreviewCalls
  <1>2. CASE \/ Preview!ClaimRender \/ Preview!Record \/ Preview!Report \/ Preview!RenderFails
             \/ \E shot \in BOOLEAN : Preview!Render(shot)
    BY <1>2, PreviewRenders
  <1>3. CASE \/ \E j \in Probe : \/ Preview!QueueProbe(j) \/ Preview!StoreProbe(j)
                                 \/ Preview!ClaimProbe(j)
             \/ Preview!Load \/ Preview!Send \/ Preview!Answered \/ Preview!Done
             \/ Preview!ProbeFails
    BY <1>3, PreviewProbes
  <1>4. CASE Preview!Age \/ Preview!ExpireRow \/ Preview!RemovePicture
    BY <1>4, PreviewHousekeeping
  <1>5. QED
    BY <1>1, <1>2, <1>3, <1>4, PreviewDies DEF PreviewNext, InPreview

LEMMA PreviewUnchanged ==
  ASSUME PreviewInv, UNCHANGED preview
  PROVE  PreviewInv'
  <1>1. /\ UNCHANGED <<job, row, probe, sent, orphaned, exec>>
        /\ UNCHANGED <<picture, removing, taken, caller>>
        /\ Preview!Wanted => picture' \/ taken'
    BY DEF preview, PreviewInv, RenderAnswered
  <1>2. QED
    BY <1>1, PreviewTypes, PreviewAround DEF PreviewInv

LEMMA PreviewInit == ServicesInit => PreviewInv
  <1>1. SUFFICES ASSUME Preview!Init PROVE PreviewInv
    BY DEF ServicesInit
  <1>2. Preview!TypeOK
    <2>1. Preview!NoRow \in [there : BOOLEAN, shot : BOOLEAN, old : BOOLEAN]
      BY DEF Preview!NoRow
    <2>2. /\ row \in [there : BOOLEAN, shot : BOOLEAN, old : BOOLEAN]
          /\ picture \in BOOLEAN /\ removing \in BOOLEAN /\ taken \in BOOLEAN
      BY <1>1, <2>1 DEF Preview!Init
    <2>3. /\ job \in [Preview!Job -> {"absent", "queued", "running", "succeeded", "failed"}]
          /\ probe \in [Probe -> {"none", "asked", "answered"}]
          /\ sent \in [Probe -> 0 .. 2] /\ orphaned \in [Probe -> 0 .. 1]
          /\ caller \in [Client -> {"idle", "wait", "shown", "told"}]
      BY <1>1 DEF Preview!Init
    <2>4. QED
      BY <1>1, <2>2, <2>3 DEF Preview!Init, Preview!TypeOK
  <1>3. RenderAnswered /\ ProbeAnswered /\ \A j \in Probe : SentAsAllowed(j)
    BY <1>1, DoingPlaces DEF Preview!Init, RenderAnswered, ProbeAnswered, SentAsAllowed, Preview!Job,
       Preview!Wanted
  <1>4. QED
    BY <1>2, <1>3 DEF PreviewInv

-----------------------------------------------------------------------------
(* Exports keep their types.                                               *)

LEMMA ExportStep ==
  ASSUME Export!TypeOK, ExportNext
  PROVE  Export!TypeOK'
  <1> DEFINE Row == [there : BOOLEAN, path : BOOLEAN, recent : BOOLEAN, expired : BOOLEAN]
  <1> USE DEF Export!files, Export!Goes
  <1>1. ASSUME NEW c \in Request,
               Export!Ask(c) \/ Export!Enqueue(c) \/ Export!Reset(c) \/ Export!Told(c)
        PROVE  Export!TypeOK'
    <2>1. dumpRow' \in Row
      <3>1. \/ dumpRow' = dumpRow
            \/ dumpRow' = [there |-> TRUE, path |-> FALSE, recent |-> TRUE, expired |-> FALSE]
        BY <1>1 DEF Export!Ask, Export!Enqueue, Export!Reset, Export!Told
      <3>2. [there |-> TRUE, path |-> FALSE, recent |-> TRUE, expired |-> FALSE] \in Row
        OBVIOUS
      <3>3. dumpRow \in Row
        BY DEF Export!TypeOK
      <3> HIDE DEF Row
      <3>4. QED
        BY <3>1, <3>2, <3>3
    <2>2. QED
      BY <1>1, <2>1 DEF Export!TypeOK, Export!Ask, Export!Enqueue, Export!Reset, Export!Told
  <1>2. CASE \/ Export!Claim \/ Export!Load \/ Export!Dump \/ Export!Publish
             \/ Export!Report \/ Export!ExportFails \/ Export!Die
    BY <1>2 DEF Export!TypeOK, Export!Claim, Export!Load, Export!Dump, Export!Publish,
       Export!Report, Export!ExportFails, Export!Die, Export!Fail
  <1>3. CASE Export!Record \/ Export!Cool \/ Export!Close
    <2>1. /\ UNCHANGED <<dumpJob, dump, partial, dumpRemoving, dumpCaller>>
          /\ dumpExec' \in {dumpExec, "report"}
      BY <1>3 DEF Export!Record, Export!Cool, Export!Close
    <2>2. dumpRow' \in Row
      BY <1>3 DEF Export!TypeOK, Export!Record, Export!Cool, Export!Close
    <2>3. QED
      BY <2>1, <2>2 DEF Export!TypeOK
  <1>4. CASE Export!Expire \/ Export!Remove
    <2>1. Export!NoRow \in Row
      BY DEF Export!NoRow
    <2>2. dumpRow' \in Row /\ dump' \in BOOLEAN /\ dumpRemoving' \in BOOLEAN
      BY <1>4, <2>1 DEF Export!TypeOK, Export!Expire, Export!Remove
    <2>3. QED
      BY <1>4, <2>2 DEF Export!TypeOK, Export!Expire, Export!Remove
  <1>5. QED
    BY <1>1, <1>2, <1>3, <1>4 DEF ExportNext, InExport

LEMMA ExportUnchanged ==
  ASSUME Export!TypeOK, UNCHANGED export
  PROVE  Export!TypeOK'
  BY DEF export, Export!TypeOK

LEMMA ExportInit == ServicesInit => Export!TypeOK
  <1>1. Export!NoRow \in [there : BOOLEAN, path : BOOLEAN, recent : BOOLEAN, expired : BOOLEAN]
    BY DEF Export!NoRow
  <1>2. QED
    BY <1>1 DEF ServicesInit, Export!Init, Export!TypeOK

\* A render that succeeded has its row, which names its picture, and the picture unless
\* the removal for an earlier run's row took it; a probe has its answer and is sent twice
\* only if its worker died, whatever expired or failed (renderVersion, probeVersion and
\* housekeeping, executor.ts): for any callers and probes.
THEOREM SuccessIsAnswered == ServicesSpec => []SuccessHasAnswer
  <1>1. (part = "preview" => PreviewInv) /\ [ServicesNext]_services
            => (part = "preview" => PreviewInv)'
    BY Turns, PreviewStep, PreviewUnchanged
  <1>2. (part = "export" => Export!TypeOK) /\ [ServicesNext]_services
            => (part = "export" => Export!TypeOK)'
    BY Turns, ExportStep, ExportUnchanged
  <1>3. ServicesInit => (part = "preview" => PreviewInv) /\ (part = "export" => Export!TypeOK)
    BY PreviewInit, ExportInit
  <1>4. (part = "preview" => PreviewInv) /\ (part = "export" => Export!TypeOK)
            => SuccessHasAnswer
    BY DEF PreviewInv, SuccessHasAnswer, Kept, Preview!SuccessHasAnswer, RenderAnswered,
       ProbeAnswered, SentAsAllowed, Preview!Wanted
  <1>5. QED
    BY <1>1, <1>2, <1>3, <1>4, PTL DEF ServicesSpec

-----------------------------------------------------------------------------
(* The control database's schema.  What the checks are at every number,    *)
(* from a release and from nothing; they only ever admit more.             *)

KindAt(k) ==
    IF k = 1 THEN Platform!FirstKinds
    ELSE IF k < 7 THEN Platform!RemediationKinds
    ELSE IF k = 7 THEN Platform!ReviewKinds ELSE Platform!ShowcaseKinds

ModeAt(k) == IF k < 8 THEN Platform!BaselineModes ELSE Platform!ShowcaseModes

RoleAt(k) == IF k < 9 THEN {"user", "operator"} ELSE Platform!SuperadminRoles

ReleaseAt ==
    [k \in 0 .. 10 |->
        IF k = 0 THEN [c \in Platform!Column |-> {}]
        ELSE [kind |-> KindAt(k), role |-> RoleAt(k), mode |-> ModeAt(k)]]

\* Of a database that was at k when the transaction began, at m.
CheckAt(k, m) ==
    IF k = 0 /\ m # 0
    THEN [kind |-> IF m = 1 THEN Platform!BaselineKinds ELSE KindAt(m),
          role |-> Platform!SuperadminRoles, mode |-> ModeAt(m)]
    ELSE ReleaseAt[m]

LEMMA Afters ==
  ASSUME NEW a, NEW b, NEW d
  PROVE  LET checks == [kind |-> a, role |-> b, mode |-> d] IN
         /\ Platform!After(2, checks) =
              [kind |-> Platform!RemediationKinds, role |-> b, mode |-> d]
         /\ \A k \in {3, 4, 5, 6, 10} : Platform!After(k, checks) = checks
         /\ Platform!After(7, checks) = [kind |-> Platform!ReviewKinds, role |-> b, mode |-> d]
         /\ Platform!After(8, checks) =
              [kind |-> Platform!ShowcaseKinds, role |-> b, mode |-> Platform!ShowcaseModes]
         /\ Platform!After(9, checks) = [kind |-> a, role |-> Platform!SuperadminRoles, mode |-> d]
  <1> DEFINE checks == [kind |-> a, role |-> b, mode |-> d]
             mid == [checks EXCEPT !.kind = Platform!ShowcaseKinds]
  <1>1. mid = [kind |-> Platform!ShowcaseKinds, role |-> b, mode |-> d]
    OBVIOUS
  <1>2. Platform!After(8, checks) = [mid EXCEPT !.mode = Platform!ShowcaseModes]
    BY DEF Platform!After
  <1>3. Platform!After(8, checks) =
          [kind |-> Platform!ShowcaseKinds, role |-> b, mode |-> Platform!ShowcaseModes]
    BY <1>1, <1>2
  <1>4. \A k \in {3, 4, 5, 6, 10} : Platform!After(k, checks) = checks
    BY DEF Platform!After
  <1>5. /\ Platform!After(2, checks) =
             [kind |-> Platform!RemediationKinds, role |-> b, mode |-> d]
        /\ Platform!After(7, checks) = [kind |-> Platform!ReviewKinds, role |-> b, mode |-> d]
        /\ Platform!After(9, checks) =
             [kind |-> a, role |-> Platform!SuperadminRoles, mode |-> d]
    BY DEF Platform!After
  <1>6. QED
    BY <1>3, <1>4, <1>5

LEMMA ChainSteps ==
  ASSUME NEW k \in 0 .. 9, NEW m \in (k + 1) .. 10
  PROVE  CheckAt(k, m) = Platform!After(m, CheckAt(k, m - 1))
  <1>1. CASE m = 1
    <2>1. k = 0
      BY <1>1
    <2>2. QED
      BY <1>1, <2>1 DEF CheckAt, Platform!After, Platform!Baseline, ModeAt, Platform!BaselineRoles,
         Platform!SuperadminRoles
  <1>2. ASSUME m \in 2 .. 10
        PROVE  \E a, b, d :
                 /\ CheckAt(k, m - 1) = [kind |-> a, role |-> b, mode |-> d]
                 /\ CheckAt(k, m) =
                      [kind |-> KindAt(m),
                       role |-> IF m = 9 THEN Platform!SuperadminRoles ELSE b,
                       mode |-> IF m = 8 THEN Platform!ShowcaseModes ELSE d]
                 /\ m \notin {2, 7, 8} => KindAt(m) = a
    <2>1. CASE k = 0
      <3> DEFINE a == IF m - 1 = 1 THEN Platform!BaselineKinds ELSE KindAt(m - 1)
      <3>1. CheckAt(k, m - 1) = [kind |-> a, role |-> Platform!SuperadminRoles, mode |-> ModeAt(m - 1)]
        BY <1>2, <2>1 DEF CheckAt
      <3>2. CheckAt(k, m) = [kind |-> KindAt(m), role |-> Platform!SuperadminRoles, mode |-> ModeAt(m)]
        BY <1>2, <2>1 DEF CheckAt
      <3>3. ModeAt(m) = IF m = 8 THEN Platform!ShowcaseModes ELSE ModeAt(m - 1)
        BY <1>2 DEF ModeAt
      <3>4. m \notin {2, 7, 8} => KindAt(m) = a
        BY <1>2 DEF KindAt
      <3>5. QED
        BY <3>1, <3>2, <3>3, <3>4
    <2>2. CASE k # 0
      <3>1. /\ CheckAt(k, m - 1) =
                 [kind |-> KindAt(m - 1), role |-> RoleAt(m - 1), mode |-> ModeAt(m - 1)]
            /\ CheckAt(k, m) = [kind |-> KindAt(m), role |-> RoleAt(m), mode |-> ModeAt(m)]
        BY <1>2, <2>2 DEF CheckAt, ReleaseAt
      <3>2. ModeAt(m) = IF m = 8 THEN Platform!ShowcaseModes ELSE ModeAt(m - 1)
        BY <1>2 DEF ModeAt
      <3>3. RoleAt(m) = IF m = 9 THEN Platform!SuperadminRoles ELSE RoleAt(m - 1)
        BY <1>2 DEF RoleAt
      <3>4. m \notin {2, 7, 8} => KindAt(m) = KindAt(m - 1)
        BY <1>2 DEF KindAt
      <3>5. QED
        BY <3>1, <3>2, <3>3, <3>4
    <2>3. QED
      BY <2>1, <2>2
  <1>3. ASSUME m \in 2 .. 10
        PROVE  CheckAt(k, m) = Platform!After(m, CheckAt(k, m - 1))
    <2>1. PICK a, b, d :
                 /\ CheckAt(k, m - 1) = [kind |-> a, role |-> b, mode |-> d]
                 /\ CheckAt(k, m) =
                      [kind |-> KindAt(m),
                       role |-> IF m = 9 THEN Platform!SuperadminRoles ELSE b,
                       mode |-> IF m = 8 THEN Platform!ShowcaseModes ELSE d]
                 /\ m \notin {2, 7, 8} => KindAt(m) = a
      BY <1>2, <1>3
    <2>2. m \in {3, 4, 5, 6, 10} \/ m \in {2, 7, 8, 9}
      BY <1>3
    <2>3. KindAt(2) = Platform!RemediationKinds /\ KindAt(7) = Platform!ReviewKinds
          /\ KindAt(8) = Platform!ShowcaseKinds
      BY DEF KindAt
    <2>4. /\ Platform!After(2, CheckAt(k, m - 1)) =
                [kind |-> Platform!RemediationKinds, role |-> b, mode |-> d]
          /\ \A i \in {3, 4, 5, 6, 10} : Platform!After(i, CheckAt(k, m - 1)) = CheckAt(k, m - 1)
          /\ Platform!After(7, CheckAt(k, m - 1)) =
                [kind |-> Platform!ReviewKinds, role |-> b, mode |-> d]
          /\ Platform!After(8, CheckAt(k, m - 1)) =
                [kind |-> Platform!ShowcaseKinds, role |-> b, mode |-> Platform!ShowcaseModes]
          /\ Platform!After(9, CheckAt(k, m - 1)) =
                [kind |-> a, role |-> Platform!SuperadminRoles, mode |-> d]
      BY <2>1, Afters
    <2>5. CASE m \in {3, 4, 5, 6, 10}
      <3>1. Platform!After(m, CheckAt(k, m - 1)) = CheckAt(k, m - 1)
        BY <2>4, <2>5
      <3>2. KindAt(m) = a /\ m # 9 /\ m # 8
        BY <2>1, <2>5
      <3>3. QED
        BY <2>1, <3>1, <3>2
    <2>6. CASE m = 9
      <3>1. CheckAt(k, m) = [kind |-> a, role |-> Platform!SuperadminRoles, mode |-> d]
        BY <2>1, <2>6
      <3>2. QED
        BY <2>4, <2>6, <3>1
    <2>7. CASE m = 2
      <3>1. CheckAt(k, m) = [kind |-> Platform!RemediationKinds, role |-> b, mode |-> d]
        BY <2>1, <2>3, <2>7
      <3>2. QED
        BY <2>4, <2>7, <3>1
    <2>8. CASE m = 7
      <3>1. CheckAt(k, m) = [kind |-> Platform!ReviewKinds, role |-> b, mode |-> d]
        BY <2>1, <2>3, <2>8
      <3>2. QED
        BY <2>4, <2>8, <3>1
    <2>9. CASE m = 8
      <3>1. CheckAt(k, m) =
              [kind |-> Platform!ShowcaseKinds, role |-> b, mode |-> Platform!ShowcaseModes]
        BY <2>1, <2>3, <2>9
      <3>2. QED
        BY <2>4, <2>9, <3>1
    <2>10. QED
      BY <2>2, <2>5, <2>6, <2>7, <2>8, <2>9
  <1>4. QED
    BY <1>1, <1>3

LEMMA ReleaseSteps ==
  ReleaseAt = [k \in 0 .. Platform!Latest |->
    IF k = 0 THEN [c \in Platform!Column |-> {}]
    ELSE IF k = 1 THEN Platform!FirstBaseline
    ELSE Platform!After(k, ReleaseAt[k - 1])]
  <1>1. ASSUME NEW k \in 2 .. 10 PROVE ReleaseAt[k] = Platform!After(k, ReleaseAt[k - 1])
    <2>1. CheckAt(1, k) = ReleaseAt[k] /\ CheckAt(1, k - 1) = ReleaseAt[k - 1]
      BY DEF CheckAt
    <2>2. QED
      BY <2>1, ChainSteps
  <1>2. ReleaseAt[1] = Platform!FirstBaseline
    BY DEF ReleaseAt, Platform!FirstBaseline, KindAt, RoleAt, ModeAt
  <1>3. QED
    BY <1>1, <1>2 DEF ReleaseAt, Platform!Latest

\* The recursive definition has one solution.
LEMMA Releases ==
  ASSUME NEW k \in 0 .. 10
  PROVE  Platform!ReleaseCheck[k] = ReleaseAt[k]
  <1> DEFINE P(f) == f = [i \in 0 .. Platform!Latest |->
                IF i = 0 THEN [c \in Platform!Column |-> {}]
                ELSE IF i = 1 THEN Platform!FirstBaseline
                ELSE Platform!After(i, f[i - 1])]
             release == Platform!ReleaseCheck
  <1>1. release = CHOOSE f : P(f)
    BY DEF Platform!ReleaseCheck
  <1>2. \E f : P(f)
    BY ReleaseSteps
  <1> HIDE DEF P
  <1>3. P(release) /\ P(ReleaseAt)
    BY <1>1, <1>2, ReleaseSteps DEF P
  <1> HIDE DEF release
  <1>4. /\ release[0] = ReleaseAt[0] /\ release[1] = ReleaseAt[1]
        /\ \A i \in 2 .. 10 : /\ release[i] = Platform!After(i, release[i - 1])
                              /\ ReleaseAt[i] = Platform!After(i, ReleaseAt[i - 1])
    <2>1. /\ release[0] = [c \in Platform!Column |-> {}]
          /\ release[1] = Platform!FirstBaseline
          /\ \A i \in 2 .. 10 : release[i] = Platform!After(i, release[i - 1])
      BY <1>3 DEF P, Platform!Latest
    <2>2. /\ ReleaseAt[0] = [c \in Platform!Column |-> {}]
          /\ ReleaseAt[1] = Platform!FirstBaseline
          /\ \A i \in 2 .. 10 : ReleaseAt[i] = Platform!After(i, ReleaseAt[i - 1])
      BY <1>3 DEF P, Platform!Latest
    <2>3. QED
      BY <2>1, <2>2
  <1>5. \A i \in 2 .. 10 : release[i - 1] = ReleaseAt[i - 1] => release[i] = ReleaseAt[i]
    BY <1>4
  <1>6. release[2] = ReleaseAt[2] /\ release[3] = ReleaseAt[3] /\ release[4] = ReleaseAt[4]
    BY <1>4, <1>5
  <1>7. release[5] = ReleaseAt[5] /\ release[6] = ReleaseAt[6] /\ release[7] = ReleaseAt[7]
    BY <1>5, <1>6
  <1>8. release[8] = ReleaseAt[8] /\ release[9] = ReleaseAt[9] /\ release[10] = ReleaseAt[10]
    BY <1>5, <1>7
  <1>9. QED
    BY <1>4, <1>6, <1>7, <1>8 DEF release

\* Every way ends with what the code uses.
LEMMA ChainEnds ==
  ASSUME NEW k \in 0 .. 10
  PROVE  CheckAt(k, k) = Platform!ReleaseCheck[k] /\ CheckAt(k, 10) = Platform!Uses
  <1>1. CheckAt(k, k) = Platform!ReleaseCheck[k]
    BY Releases DEF CheckAt
  <1>2. CheckAt(k, 10) = Platform!Uses
    <2>1. CheckAt(k, 10) = [kind |-> Platform!ShowcaseKinds, role |-> Platform!SuperadminRoles,
                            mode |-> Platform!ShowcaseModes]
      BY DEF CheckAt, ReleaseAt, KindAt, RoleAt, ModeAt
    <2>2. QED
      BY <2>1 DEF Platform!Uses, Platform!ShowcaseKinds, Platform!SuperadminRoles,
         Platform!ShowcaseModes, Platform!JobKind, Platform!PlatformRole, Platform!AccessMode
  <1>3. QED
    BY <1>1, <1>2

\* No migration takes away what a release before it admitted.
LEMMA ChainGrows ==
  ASSUME NEW k \in 0 .. 10, NEW m \in k .. 10, NEW c \in Platform!Column
  PROVE  /\ CheckAt(k, k)[c] \subseteq CheckAt(k, m)[c]
         /\ CheckAt(k, m)[c] \subseteq Platform!Uses[c]
  <1> USE DEF Platform!FirstKinds, Platform!RemediationKinds, Platform!ReviewKinds,
              Platform!ShowcaseKinds, Platform!BaselineModes, Platform!ShowcaseModes,
              Platform!SuperadminRoles, Platform!BaselineKinds
  <1>1. /\ KindAt(m) \subseteq Platform!JobKind /\ RoleAt(m) \subseteq Platform!PlatformRole
        /\ ModeAt(m) \subseteq Platform!AccessMode
        /\ Platform!SuperadminRoles \subseteq Platform!PlatformRole
        /\ Platform!BaselineKinds \subseteq Platform!JobKind
    BY DEF KindAt, RoleAt, ModeAt, Platform!JobKind, Platform!PlatformRole, Platform!AccessMode
  <1>2. k # 0 => /\ KindAt(k) \subseteq KindAt(m) /\ RoleAt(k) \subseteq RoleAt(m)
                 /\ ModeAt(k) \subseteq ModeAt(m)
    BY DEF KindAt, RoleAt, ModeAt
  <1>3. ReleaseAt[0][c] = {}
    BY DEF ReleaseAt
  <1>4. /\ Platform!Uses["kind"] = Platform!JobKind /\ Platform!Uses["role"] = Platform!PlatformRole
        /\ Platform!Uses["mode"] = Platform!AccessMode
    BY DEF Platform!Uses
  <1>5. CASE m = 0
    BY <1>3, <1>5 DEF CheckAt
  <1>6. CASE k = 0 /\ m # 0
    <2>1. CheckAt(k, m) = [kind |-> IF m = 1 THEN Platform!BaselineKinds ELSE KindAt(m),
                           role |-> Platform!SuperadminRoles, mode |-> ModeAt(m)]
      BY <1>6 DEF CheckAt
    <2>2. CheckAt(k, k)[c] = {}
      BY <1>3, <1>6 DEF CheckAt
    <2>3. PICK kinds : /\ kinds \subseteq Platform!JobKind
                       /\ kinds = IF m = 1 THEN Platform!BaselineKinds ELSE KindAt(m)
      BY <1>1
    <2>4. CheckAt(k, m) = [kind |-> kinds, role |-> Platform!SuperadminRoles, mode |-> ModeAt(m)]
      BY <2>1, <2>3
    <2>5. CheckAt(k, m)[c] \subseteq Platform!Uses[c]
      BY <1>1, <1>4, <2>3, <2>4 DEF Platform!Column
    <2>6. QED
      BY <2>2, <2>5
  <1>7. CASE k # 0
    <2>1. /\ CheckAt(k, m) = [kind |-> KindAt(m), role |-> RoleAt(m), mode |-> ModeAt(m)]
          /\ CheckAt(k, k) = [kind |-> KindAt(k), role |-> RoleAt(k), mode |-> ModeAt(k)]
      BY <1>7 DEF CheckAt, ReleaseAt
    <2>2. CASE c = "kind"
      BY <1>1, <1>2, <1>4, <1>7, <2>1, <2>2
    <2>3. CASE c = "role"
      BY <1>1, <1>2, <1>4, <1>7, <2>1, <2>3
    <2>4. CASE c = "mode"
      BY <1>1, <1>2, <1>4, <1>7, <2>1, <2>4
    <2>5. QED
      BY <2>2, <2>3, <2>4 DEF Platform!Column
  <1>8. QED
    BY <1>5, <1>6, <1>7

\* The transaction that is open has come from the number in the database to a later one.
TxOnWay(k) ==
    \/ tx = Platform!Free
    \/ \E p \in Request, m \in k .. 10, columns \in SUBSET Platform!Column :
        tx = [by |-> p, applied |-> 1 .. m, check |-> CheckAt(k, m), locked |-> columns]

Upgraded ==
    \E k \in 0 .. 10 :
        /\ applied = 1 .. k /\ check = CheckAt(k, k) /\ TxOnWay(k)
        /\ (\E p \in Request : start[p] = "up") => k = 10

StoredAdmitted ==
    \A v \in stored :
        v[1] \in Platform!Column /\ v[2] \in Platform!Uses[v[1]] /\ v[2] \in check[v[1]]

PlatformInv ==
    /\ database \in BOOLEAN
    /\ start \in [Request -> {"down", "create", "connected", "migrating", "up"}]
    /\ stops \in 0 .. MaxTroubles
    /\ ~refused /\ Upgraded /\ StoredAdmitted

LEMMA FreeBy == Platform!Free.by = "nobody"
  BY DEF Platform!Free

\* Where a control plane is, and nothing of the schema.
LEMMA PlatformMoves ==
  ASSUME PlatformInv, database' \in BOOLEAN, stops' \in 0 .. MaxTroubles,
         start' \in [Request -> {"down", "create", "connected", "migrating", "up"}],
         \A p \in Request : start'[p] = "up" => start[p] = "up",
         tx' = tx \/ tx' = Platform!Free,
         UNCHANGED applied, UNCHANGED check, UNCHANGED stored, UNCHANGED refused
  PROVE  PlatformInv'
  <1>1. Upgraded'
    BY DEF PlatformInv, Upgraded, TxOnWay
  <1>2. StoredAdmitted'
    BY DEF PlatformInv, StoredAdmitted
  <1>3. QED
    BY <1>1, <1>2 DEF PlatformInv

LEMMA PlatformStarts ==
  ASSUME PlatformInv, NEW p \in Request,
         Platform!EnsureDatabase(p) \/ Platform!CreateDatabase(p) \/ Platform!Stop(p)
  PROVE  PlatformInv'
  <1>1. /\ database \in BOOLEAN /\ stops \in 0 .. MaxTroubles
        /\ start \in [Request -> {"down", "create", "connected", "migrating", "up"}]
    BY DEF PlatformInv
  <1>2. PICK place \in {"down", "create", "connected"} : start' = [start EXCEPT ![p] = place]
    BY DEF Platform!EnsureDatabase, Platform!CreateDatabase, Platform!Stop, Platform!Goes
  <1>3. /\ start' \in [Request -> {"down", "create", "connected", "migrating", "up"}]
        /\ \A q \in Request : start'[q] = "up" => start[q] = "up"
    BY <1>1, <1>2
  <1>4. /\ database' \in BOOLEAN /\ stops' \in 0 .. MaxTroubles
        /\ tx' = tx \/ tx' = Platform!Free
        /\ applied' = applied /\ check' = check /\ stored' = stored /\ refused' = refused
    <2>1. CASE Platform!EnsureDatabase(p)
      BY <1>1, <2>1 DEF Platform!EnsureDatabase
    <2>2. CASE Platform!CreateDatabase(p)
      BY <1>1, <2>2 DEF Platform!CreateDatabase
    <2>3. CASE Platform!Stop(p)
      <3>1. /\ stops < MaxTroubles /\ stops' = stops + 1 /\ MaxTroubles \in Nat
            /\ tx' = (IF tx.by = p THEN Platform!Free ELSE tx)
            /\ UNCHANGED <<database, applied, check, stored, refused>>
        BY <2>3, BoundsAssumption DEF Platform!Stop
      <3>2. stops' \in 0 .. MaxTroubles
        BY <1>1, <3>1
      <3>3. QED
        BY <1>1, <3>1, <3>2
    <2>4. QED
      BY <2>1, <2>2, <2>3
  <1>5. QED
    BY <1>3, <1>4, PlatformMoves

LEMMA PlatformLocks ==
  ASSUME PlatformInv, NEW p \in Request, Platform!LockSchema(p)
  PROVE  PlatformInv'
  <1>1. PICK k \in 0 .. 10 :
          /\ applied = 1 .. k /\ check = CheckAt(k, k)
          /\ (\E q \in Request : start[q] = "up") => k = 10
    BY DEF PlatformInv, Upgraded
  <1>2. /\ tx' = [by |-> p, applied |-> 1 .. k, check |-> CheckAt(k, k), locked |-> {}]
        /\ start' = [start EXCEPT ![p] = "migrating"]
        /\ UNCHANGED <<database, applied, check, stored, refused, stops>>
    BY <1>1 DEF Platform!LockSchema, Platform!Goes
  <1>3. /\ start' \in [Request -> {"down", "create", "connected", "migrating", "up"}]
        /\ \A q \in Request : start'[q] = "up" => start[q] = "up"
    BY <1>2 DEF PlatformInv
  <1>4. TxOnWay(k)'
    <2>1. k \in k .. 10 /\ {} \in SUBSET Platform!Column
      OBVIOUS
    <2>2. \E q \in Request, m \in k .. 10, columns \in SUBSET Platform!Column :
            tx' = [by |-> q, applied |-> 1 .. m, check |-> CheckAt(k, m), locked |-> columns]
      BY <1>2, <2>1
    <2>3. QED
      BY <2>2 DEF TxOnWay
  <1>5. Upgraded' /\ StoredAdmitted'
    BY <1>1, <1>2, <1>3, <1>4 DEF Upgraded, StoredAdmitted, PlatformInv
  <1>6. QED
    BY <1>2, <1>3, <1>5 DEF PlatformInv

\* A transaction at m has every later migration before it.
LEMMA Nexts ==
  ASSUME NEW m \in 0 .. 10, tx.applied = 1 .. m
  PROVE  /\ Platform!Missing = (m + 1) .. 10
         /\ m < 10 => Platform!NextMigration = m + 1
  <1>1. Platform!Missing = (m + 1) .. 10
    BY DEF Platform!Missing, Platform!Latest
  <1>2. ASSUME m < 10 PROVE Platform!NextMigration = m + 1
    <2>1. m + 1 \in Platform!Missing /\ \A n \in Platform!Missing : m + 1 <= n
      BY <1>1, <1>2
    <2>2. \A i, j \in Platform!Missing : i <= j /\ j <= i => i = j
      BY <1>1
    <2>3. \A i \in Platform!Missing :
            (\A n \in Platform!Missing : i <= n) => i = m + 1
      BY <2>1, <2>2
    <2>4. QED
      BY <2>1, <2>3 DEF Platform!NextMigration
  <1>3. QED
    BY <1>1, <1>2

\* No row is in the way of a migration.
LEMMA PlatformApplies ==
  ASSUME PlatformInv, NEW p \in Request, Platform!Apply(p)
  PROVE  PlatformInv'
  <1>1. PICK k \in 0 .. 10 :
          /\ applied = 1 .. k /\ check = CheckAt(k, k) /\ TxOnWay(k)
          /\ (\E q \in Request : start[q] = "up") => k = 10
    BY DEF PlatformInv, Upgraded
  <1>2. tx.by = p /\ tx # Platform!Free
    BY FreeBy, NamesAssumption DEF Platform!Apply
  <1>3. PICK m \in k .. 10, columns \in SUBSET Platform!Column :
          tx = [by |-> p, applied |-> 1 .. m, check |-> CheckAt(k, m), locked |-> columns]
    BY <1>1, <1>2 DEF TxOnWay
  <1>4. tx.applied = 1 .. m /\ tx.check = CheckAt(k, m) /\ m \in 0 .. 10
    BY <1>3
  <1>5. m < 10 /\ Platform!NextMigration = m + 1
    <2>1. Platform!Missing = (m + 1) .. 10 /\ (m < 10 => Platform!NextMigration = m + 1)
      BY <1>4, Nexts
    <2>2. Platform!Missing # {}
      BY DEF Platform!Apply
    <2>3. m < 10
      BY <1>4, <2>1, <2>2
    <2>4. QED
      BY <2>1, <2>3
  <1>6. k \in 0 .. 9 /\ m + 1 \in (k + 1) .. 10 /\ m + 1 \in k .. 10 /\ (m + 1) - 1 = m
    BY <1>5
  <1>7. Platform!After(m + 1, tx.check) = CheckAt(k, m + 1)
    BY <1>4, <1>6, ChainSteps
  <1>8. Platform!Replaced(m + 1) \subseteq Platform!Column
    BY <1>6 DEF Platform!Replaced, Platform!Column
  <1>9. Platform!Accepts(CheckAt(k, m + 1), Platform!Replaced(m + 1))
    BY <1>1, <1>6, ChainGrows DEF PlatformInv, StoredAdmitted, Platform!Accepts
  <1>10. /\ tx' = [tx EXCEPT !.applied = @ \cup {m + 1}, !.check = Platform!After(m + 1, @),
                            !.locked = @ \cup Platform!Replaced(m + 1)]
         /\ UNCHANGED <<start, refused, database, applied, check, stored, stops>>
    BY <1>5, <1>7, <1>9 DEF Platform!Apply
  <1>11. tx' = [by |-> p, applied |-> 1 .. (m + 1), check |-> CheckAt(k, m + 1),
                locked |-> columns \cup Platform!Replaced(m + 1)]
    <2>1. (1 .. m) \cup {m + 1} = 1 .. (m + 1)
      BY <1>4
    <2>2. ASSUME NEW x, NEW y, NEW z
          PROVE  [tx EXCEPT !.applied = x, !.check = y, !.locked = z]
                   = [by |-> p, applied |-> x, check |-> y, locked |-> z]
      <3> DEFINE tx1 == [tx EXCEPT !.applied = x]
                 tx2 == [tx1 EXCEPT !.check = y]
      <3>1. tx1 = [by |-> p, applied |-> x, check |-> CheckAt(k, m), locked |-> columns]
        BY <1>3
      <3> HIDE DEF tx1
      <3>2. tx2 = [by |-> p, applied |-> x, check |-> y, locked |-> columns]
        BY <3>1
      <3> HIDE DEF tx2
      <3>3. [tx2 EXCEPT !.locked = z] = [by |-> p, applied |-> x, check |-> y, locked |-> z]
        BY <3>2
      <3>4. QED
        BY <3>3 DEF tx1, tx2
    <2>3. tx.locked = columns
      BY <1>3
    <2> DEFINE ids == tx.applied \cup {m + 1}
               checks == Platform!After(m + 1, tx.check)
               locks == tx.locked \cup Platform!Replaced(m + 1)
    <2>4. tx' = [tx EXCEPT !.applied = ids, !.check = checks, !.locked = locks]
      BY <1>10
    <2>5. /\ ids = 1 .. (m + 1) /\ checks = CheckAt(k, m + 1)
          /\ locks = columns \cup Platform!Replaced(m + 1)
      BY <1>4, <1>7, <2>1, <2>3
    <2> HIDE DEF ids, checks, locks
    <2>6. tx' = [by |-> p, applied |-> ids, check |-> checks, locked |-> locks]
      BY <2>2, <2>4
    <2>7. QED
      BY <2>5, <2>6
  <1>12. TxOnWay(k)'
    BY <1>6, <1>8, <1>11 DEF TxOnWay
  <1>13. Upgraded' /\ StoredAdmitted'
    BY <1>1, <1>10, <1>12 DEF Upgraded, StoredAdmitted, PlatformInv
  <1>14. QED
    BY <1>10, <1>13 DEF PlatformInv

LEMMA PlatformCommits ==
  ASSUME PlatformInv, NEW p \in Request, Platform!Commit(p)
  PROVE  PlatformInv'
  <1>1. PICK k \in 0 .. 10 : applied = 1 .. k /\ check = CheckAt(k, k) /\ TxOnWay(k)
    BY DEF PlatformInv, Upgraded
  <1>2. tx.by = p /\ tx # Platform!Free
    BY FreeBy, NamesAssumption DEF Platform!Commit
  <1>3. PICK m \in k .. 10, columns \in SUBSET Platform!Column :
          tx = [by |-> p, applied |-> 1 .. m, check |-> CheckAt(k, m), locked |-> columns]
    BY <1>1, <1>2 DEF TxOnWay
  <1>4. tx.applied = 1 .. m /\ tx.check = CheckAt(k, m) /\ m \in 0 .. 10
    BY <1>3
  <1>5. m = 10
    <2>1. Platform!Missing = (m + 1) .. 10
      BY <1>4, Nexts
    <2>2. Platform!Missing = {}
      BY DEF Platform!Commit
    <2>3. m < 10 => m + 1 \in (m + 1) .. 10
      BY <1>4
    <2>4. QED
      BY <1>4, <2>1, <2>2, <2>3
  <1>6. /\ applied' = 1 .. 10 /\ check' = CheckAt(k, 10) /\ tx' = Platform!Free
        /\ start' = [start EXCEPT ![p] = "up"]
        /\ UNCHANGED <<database, stored, refused, stops>>
    BY <1>4, <1>5 DEF Platform!Commit, Platform!Goes
  <1>7. check' = CheckAt(10, 10) /\ check' = Platform!Uses
    BY <1>6, ChainEnds
  <1>8. Upgraded'
    BY <1>6, <1>7 DEF Upgraded, TxOnWay
  <1>9. StoredAdmitted'
    BY <1>6, <1>7 DEF PlatformInv, StoredAdmitted
  <1>10. start' \in [Request -> {"down", "create", "connected", "migrating", "up"}]
    BY <1>6 DEF PlatformInv
  <1>11. QED
    BY <1>6, <1>8, <1>9, <1>10 DEF PlatformInv

LEMMA PlatformWrites ==
  ASSUME PlatformInv, NEW c \in Platform!Column, NEW value \in Platform!Uses[c],
         Platform!Write(c, value)
  PROVE  PlatformInv'
  <1>1. /\ value \in check[c] /\ stored' = stored \cup {<<c, value>>}
        /\ UNCHANGED <<database, applied, check, start, tx, refused, stops>>
    BY DEF Platform!Write
  <1>2. StoredAdmitted'
    BY <1>1 DEF PlatformInv, StoredAdmitted
  <1>3. Upgraded'
    BY <1>1 DEF PlatformInv, Upgraded, TxOnWay
  <1>4. QED
    BY <1>1, <1>2, <1>3 DEF PlatformInv

LEMMA PlatformStep ==
  ASSUME PlatformInv, PlatformNext
  PROVE  PlatformInv'
  BY PlatformStarts, PlatformLocks, PlatformApplies, PlatformCommits, PlatformWrites
     DEF PlatformNext, InPlatform

LEMMA PlatformUnchanged ==
  ASSUME PlatformInv, UNCHANGED upgrade
  PROVE  PlatformInv'
  BY DEF upgrade, PlatformInv, Upgraded, TxOnWay, StoredAdmitted

LEMMA PlatformInit ==
  ASSUME ServicesInit, part = "platform"
  PROVE  PlatformInv
  <1>1. Platform!Init
    BY DEF ServicesInit
  <1>2. PICK k \in 0 .. 10 : applied = 1 .. k /\ check = Platform!ReleaseCheck[k]
    BY <1>1 DEF Platform!Init, Platform!Latest
  <1>3. check = CheckAt(k, k)
    BY <1>2, ChainEnds
  <1>4. database \in BOOLEAN
    BY <1>1 DEF Platform!Init
  <1>5. QED
    BY <1>1, <1>2, <1>3, <1>4, BoundsAssumption
       DEF Platform!Init, PlatformInv, Upgraded, TxOnWay, StoredAdmitted

LEMMA PlatformTypes == PlatformInv => Platform!TypeOK /\ Platform!SchemaIsWhole
  <1>1. SUFFICES ASSUME PlatformInv PROVE Platform!TypeOK /\ Platform!SchemaIsWhole
    OBVIOUS
  <1>2. PICK k \in 0 .. 10 :
          /\ applied = 1 .. k /\ check = CheckAt(k, k) /\ TxOnWay(k)
          /\ (\E p \in Request : start[p] = "up") => k = 10
    BY <1>1 DEF PlatformInv, Upgraded
  <1>3. check \in [Platform!Column -> SUBSET UNION {Platform!Uses[c] : c \in Platform!Column}]
    <2>1. DOMAIN check = Platform!Column /\ check = [c \in Platform!Column |-> check[c]]
      <3>1. CASE k = 0
        BY <1>2, <3>1 DEF CheckAt, ReleaseAt
      <3>2. CASE k # 0
        BY <1>2, <3>2 DEF CheckAt, ReleaseAt, Platform!Column
      <3>3. QED
        BY <3>1, <3>2
    <2>2. \A c \in Platform!Column : check[c] \subseteq Platform!Uses[c]
      BY <1>2, ChainGrows
    <2>3. QED
      BY <2>1, <2>2
  <1>4. tx = Platform!Free \/ tx.by \in Request
    BY <1>2 DEF TxOnWay
  <1>5. Platform!TypeOK
    BY <1>1, <1>2, <1>3, <1>4 DEF PlatformInv, StoredAdmitted, Platform!TypeOK, Platform!Latest
  <1>6. (\E p \in Request : start[p] = "up") => check = Platform!Uses
    BY <1>2, ChainEnds
  <1>7. Platform!SchemaIsWhole
    BY <1>1, <1>2, <1>6 DEF PlatformInv, StoredAdmitted, Platform!SchemaIsWhole, Platform!At,
       Platform!Latest
  <1>8. QED
    BY <1>5, <1>7

\* From every release and from nothing, over starts that overlap or are cut off and over
\* rows written meanwhile: no migration is refused, what is applied is complete up to a
\* number, and a control plane that is up finds everything its code writes admitted
\* (lib/schema.ts): for any number of control planes, rows and cut-offs.
THEOREM SchemaStaysWhole == ServicesSpec => []SchemaIsWhole
  <1>1. (part = "platform" => PlatformInv) /\ [ServicesNext]_services
            => (part = "platform" => PlatformInv)'
    BY Turns, PlatformStep, PlatformUnchanged
  <1>2. (part = "migration" => MigrationInv) /\ [ServicesNext]_services
            => (part = "migration" => MigrationInv)'
    <2>1. MigrationNext => Next
      BY DEF MigrationNext, InMigration, Next
    <2>2. QED
      BY <2>1, Turns, MigrationStep, MigrationAssumption
  <1>3. ServicesInit => (part = "platform" => PlatformInv) /\ (part = "migration" => MigrationInv)
    <2>1. Init => MigrationInv
      BY DEF Init, MigrationInv, TypeOK, Idle, Pc, Way, Sole, Live, At, Under, AppliedOnce
    <2>2. QED
      BY <2>1, PlatformInit DEF ServicesInit
  <1>4. (part = "platform" => PlatformInv) /\ (part = "migration" => MigrationInv)
            => SchemaIsWhole
    BY PlatformTypes DEF SchemaIsWhole, Kept, MigrationInv
  <1>5. QED
    BY <1>1, <1>2, <1>3, <1>4, PTL DEF ServicesSpec

-----------------------------------------------------------------------------
(* Visits.  Whoever is being written down has opened something, each       *)
(* something of its own; a statement is at most a day late, and by then    *)
(* its day is in no pass of housekeeping.                                  *)

VisitState ==
    {Visit!Nothing}
      \cup [pc : {"asked"}, who : Visit!Who, what : Visit!What, preview : BOOLEAN]
      \cup [pc : {"writing"}, who : Visit!Who, what : {"page", "function"}, day : Visit!Day]

Counter(d, what) == IF what = "page" THEN views[d] ELSE calls[d]

Pending(d, what) ==
    {r \in Client : visit[r].pc = "writing" /\ visit[r].day = d /\ visit[r].what = what}

\* The days and requests.
VisitTyped ==
    /\ day \in Visit!Day
    /\ reach \in {"owner", "network", "none"}
    /\ visit \in [Client -> VisitState]
    /\ views \in [Visit!Day -> Nat] /\ calls \in [Visit!Day -> Nat]
    /\ visitors \in [Visit!Day -> SUBSET Visit!Who]
    /\ came \in [Visit!Day -> SUBSET Visit!Who]
    /\ house \in [next : {"idle", "visitors", "visits"}, today : 0 .. day]

\* What was opened is numbered.
LedgerKept ==
    /\ IsFiniteSet(opened) /\ Cardinality(opened) <= MaxVisits
    /\ \A o \in opened :
        /\ o.by \in Visit!Who /\ o.day \in Visit!Day
        /\ o.number \in Nat /\ o.number < Cardinality(opened)

\* A statement is about something opened today or yesterday, and no two about one thing.
WritersOpened ==
    /\ \A r \in Client : visit[r].pc = "writing" =>
        /\ day <= visit[r].day + 1
        /\ \E o \in opened : o.by = visit[r].who /\ o.day = visit[r].day
    /\ \A d \in Visit!Day, what \in {"page", "function"} :
        /\ IsFiniteSet(Pending(d, what))
        /\ Counter(d, what) + Cardinality(Pending(d, what)) <= Cardinality(Visit!Opened(d, what))

\* A visitor is named with a count, until the day is too old for it.
VisitorsCounted ==
    \A d \in Visit!Day :
        /\ IsFiniteSet(visitors[d]) /\ Cardinality(visitors[d]) <= views[d] + calls[d]
        /\ \A who \in visitors[d] : \E o \in opened : o.by = who /\ o.day = d
        /\ visitors[d] = came[d] \/ d + VisitorDays < day
        /\ house.next = "visits" /\ d + VisitorDays < house.today => visitors[d] = {}

VisitInv == VisitTyped /\ LedgerKept /\ WritersOpened /\ VisitorsCounted

LEMMA VisitNames ==
  /\ "page" \in {"page", "function"} /\ "function" \in {"page", "function"}
  /\ Visit!Nothing \in VisitState /\ Visit!Nothing.pc = "idle"
  /\ \A q \in VisitState : q.pc \in {"idle", "asked", "writing"}
  /\ \A q \in VisitState : q.pc = "asked" =>
        q \in [pc : {"asked"}, who : Visit!Who, what : Visit!What, preview : BOOLEAN]
  /\ \A q \in VisitState : q.pc = "writing" =>
        q \in [pc : {"writing"}, who : Visit!Who, what : {"page", "function"}, day : Visit!Day]
  BY DEF VisitState, Visit!Nothing

\* The cardinality of the library is the one that Visits counts with.
LEMMA VisitCounts == ASSUME NEW S PROVE Visit!Cardinality(S) = Cardinality(S)
  BY DEF Visit!Cardinality, Cardinality

LEMMA OpenedFinite ==
  ASSUME LedgerKept, NEW d, NEW what
  PROVE  /\ IsFiniteSet(Visit!Opened(d, what)) /\ Cardinality(Visit!Opened(d, what)) \in Nat
         /\ Cardinality(opened) \in Nat
         /\ Cardinality(Visit!Opened(d, what)) <= Cardinality(opened)
  <1>1. IsFiniteSet(opened)
    BY DEF LedgerKept
  <1>2. Visit!Opened(d, what) \in SUBSET opened
    BY DEF Visit!Opened
  <1>3. /\ IsFiniteSet(Visit!Opened(d, what))
        /\ Cardinality(Visit!Opened(d, what)) <= Cardinality(opened)
    BY <1>1, <1>2, FS_Subset
  <1>4. QED
    BY <1>1, <1>3, FS_CardinalityType

LEMMA VisitTypes == VisitInv => Visit!TypeOK /\ Visit!VisitsAreTrue
  <1>1. SUFFICES ASSUME VisitInv PROVE Visit!TypeOK /\ Visit!VisitsAreTrue
    OBVIOUS
  <1>2. ASSUME NEW d \in Visit!Day
        PROVE  /\ views[d] \in Nat /\ calls[d] \in Nat
               /\ views[d] <= Cardinality(Visit!Opened(d, "page"))
               /\ calls[d] <= Cardinality(Visit!Opened(d, "function"))
               /\ views[d] <= MaxVisits /\ calls[d] <= MaxVisits
    <2>1. views[d] \in Nat /\ calls[d] \in Nat
      BY <1>1 DEF VisitInv, VisitTyped
    <2>2. /\ IsFiniteSet(Pending(d, "page")) /\ IsFiniteSet(Pending(d, "function"))
          /\ views[d] + Cardinality(Pending(d, "page")) <= Cardinality(Visit!Opened(d, "page"))
          /\ calls[d] + Cardinality(Pending(d, "function"))
                <= Cardinality(Visit!Opened(d, "function"))
      BY <1>1, VisitNames DEF VisitInv, WritersOpened, Counter
    <2>3. Cardinality(Pending(d, "page")) \in Nat /\ Cardinality(Pending(d, "function")) \in Nat
      BY <2>2, FS_CardinalityType
    <2>4. Cardinality(opened) <= MaxVisits
      BY <1>1 DEF VisitInv, LedgerKept
    <2>5. LedgerKept
      BY <1>1 DEF VisitInv
    <2>6. QED
      BY <2>1, <2>2, <2>3, <2>4, <2>5, OpenedFinite, BoundsAssumption
  <1>3. Visit!TypeOK
    <2>1. views \in [Visit!Day -> 0 .. MaxVisits] /\ calls \in [Visit!Day -> 0 .. MaxVisits]
      BY <1>1, <1>2, BoundsAssumption DEF VisitInv, VisitTyped
    <2>2. QED
      BY <1>1, <2>1, VisitNames DEF VisitInv, VisitTyped, LedgerKept, Visit!TypeOK
  <1>4. Visit!NothingInvented
    <2>1. ASSUME NEW d \in Visit!Day
          PROVE  /\ visitors[d] \subseteq {o.by : o \in {o \in opened : o.day = d}}
                 /\ Cardinality(visitors[d]) <= views[d] + calls[d]
      BY <1>1 DEF VisitInv, VisitorsCounted
    <2>2. QED
      BY <1>2, <2>1, VisitCounts DEF Visit!NothingInvented
  <1>5. Visit!WindowIsWhole
    <2>1. day \in Nat /\ \A d \in Visit!Day : d \in Nat
      BY <1>1 DEF VisitInv, VisitTyped, Visit!Day
    <2>2. QED
      BY <1>1, <2>1, RetentionAssumption DEF VisitInv, VisitorsCounted, Visit!WindowIsWhole
  <1>6. QED
    BY <1>3, <1>4, <1>5 DEF Visit!VisitsAreTrue

\* Statements that are not sent, or are lost.
LEMMA VisitMoves ==
  ASSUME VisitInv, visit' \in [Client -> VisitState],
         \A r \in Client : visit'[r].pc = "writing" => visit'[r] = visit[r],
         reach' \in {"owner", "network", "none"},
         UNCHANGED day, UNCHANGED house, UNCHANGED opened, UNCHANGED views, UNCHANGED calls,
         UNCHANGED visitors, UNCHANGED came
  PROVE  VisitInv'
  <1>1. VisitTyped' /\ LedgerKept' /\ VisitorsCounted'
    BY DEF VisitInv, VisitTyped, LedgerKept, VisitorsCounted
  <1>2. ASSUME NEW d \in Visit!Day, NEW what \in {"page", "function"}
        PROVE  /\ IsFiniteSet(Pending(d, what)')
               /\ Counter(d, what)' + Cardinality(Pending(d, what)')
                    <= Cardinality(Visit!Opened(d, what)')
    <2>1. Pending(d, what)' \in SUBSET Pending(d, what)
      BY DEF Pending
    <2>2. IsFiniteSet(Pending(d, what))
      BY DEF VisitInv, WritersOpened
    <2>3. /\ IsFiniteSet(Pending(d, what)')
          /\ Cardinality(Pending(d, what)') <= Cardinality(Pending(d, what))
      BY <2>1, <2>2, FS_Subset
    <2>4. /\ Cardinality(Pending(d, what)') \in Nat /\ Cardinality(Pending(d, what)) \in Nat
          /\ Cardinality(Visit!Opened(d, what)) \in Nat /\ Counter(d, what) \in Nat
      BY <2>2, <2>3, FS_CardinalityType, OpenedFinite DEF VisitInv, VisitTyped, Counter
    <2>5. Counter(d, what)' = Counter(d, what) /\ Visit!Opened(d, what)' = Visit!Opened(d, what)
      BY DEF Counter, Visit!Opened
    <2>6. Counter(d, what) + Cardinality(Pending(d, what)) <= Cardinality(Visit!Opened(d, what))
      BY DEF VisitInv, WritersOpened
    <2>7. QED
      BY <2>3, <2>4, <2>5, <2>6
  <1>3. \A r \in Client : visit'[r].pc = "writing" =>
          /\ day' <= visit'[r].day + 1
          /\ \E o \in opened' : o.by = visit'[r].who /\ o.day = visit'[r].day
    BY DEF VisitInv, WritersOpened
  <1>4. WritersOpened'
    BY <1>2, <1>3 DEF WritersOpened
  <1>5. QED
    BY <1>1, <1>4 DEF VisitInv

\* What happens to the counts while nobody opens anything and no day ends.
LEMMA VisitTables ==
  ASSUME VisitInv, VisitTyped', VisitorsCounted', UNCHANGED visit, UNCHANGED opened,
         UNCHANGED day,
         \A d \in Visit!Day : views'[d] <= views[d] /\ calls'[d] <= calls[d]
  PROVE  VisitInv'
  <1>1. LedgerKept'
    BY DEF VisitInv, LedgerKept
  <1>2. ASSUME NEW d \in Visit!Day, NEW what \in {"page", "function"}
        PROVE  /\ IsFiniteSet(Pending(d, what)')
               /\ Counter(d, what)' + Cardinality(Pending(d, what)')
                    <= Cardinality(Visit!Opened(d, what)')
    <2>1. Pending(d, what)' = Pending(d, what) /\ Visit!Opened(d, what)' = Visit!Opened(d, what)
      BY DEF Pending, Visit!Opened
    <2>2. /\ IsFiniteSet(Pending(d, what))
          /\ Counter(d, what) + Cardinality(Pending(d, what)) <= Cardinality(Visit!Opened(d, what))
      BY DEF VisitInv, WritersOpened
    <2>3. /\ Counter(d, what) \in Nat /\ Counter(d, what)' \in Nat
          /\ Counter(d, what)' <= Counter(d, what)
      BY DEF VisitInv, VisitTyped, Counter
    <2>4. Cardinality(Pending(d, what)) \in Nat /\ Cardinality(Visit!Opened(d, what)) \in Nat
      BY <2>2, FS_CardinalityType, OpenedFinite DEF VisitInv
    <2>5. QED
      BY <2>1, <2>2, <2>3, <2>4
  <1>3. WritersOpened'
    BY <1>2 DEF VisitInv, WritersOpened
  <1>4. QED
    BY <1>1, <1>3 DEF VisitInv

LEMMA VisitAsks ==
  ASSUME VisitInv, NEW r \in Client,
         \/ \E who \in Visit!Who, what \in Visit!What, early \in BOOLEAN :
                Visit!Ask(r, who, what, early)
         \/ Visit!NotFound(r) \/ Visit!GatewayDies
         \/ \E to \in {"owner", "network"} : Visit!UpdateAccess(to)
  PROVE  VisitInv'
  <1>1. visit \in [Client -> VisitState] /\ reach \in {"owner", "network", "none"}
    BY DEF VisitInv, VisitTyped
  <1>2. CASE \E who \in Visit!Who, what \in Visit!What, early \in BOOLEAN :
                Visit!Ask(r, who, what, early)
    <2>1. PICK who \in Visit!Who, what \in Visit!What, early \in BOOLEAN :
            Visit!Ask(r, who, what, early)
      BY <1>2
    <2> DEFINE asked == [pc |-> "asked", who |-> who, what |-> what, preview |-> early]
    <2>2. /\ visit' = [visit EXCEPT ![r] = asked]
          /\ UNCHANGED <<day, reach, house, opened, views, calls, visitors, came>>
      BY <2>1 DEF Visit!Ask, Visit!kept
    <2>3. asked \in VisitState /\ asked.pc = "asked"
      BY DEF VisitState
    <2> HIDE DEF asked
    <2>4. /\ visit' \in [Client -> VisitState]
          /\ \A q \in Client : visit'[q].pc = "writing" => visit'[q] = visit[q]
      BY <1>1, <2>2, <2>3
    <2>5. QED
      BY <1>1, <2>2, <2>4, VisitMoves
  <1>3. CASE Visit!NotFound(r)
    BY <1>1, <1>3, VisitNames, VisitMoves DEF Visit!NotFound, Visit!kept
  <1>4. CASE Visit!GatewayDies
    BY <1>1, <1>4, VisitNames, VisitMoves DEF Visit!GatewayDies, Visit!kept
  <1>5. CASE \E to \in {"owner", "network"} : Visit!UpdateAccess(to)
    BY <1>1, <1>5, VisitMoves DEF Visit!UpdateAccess, Visit!kept
  <1>6. QED
    BY <1>2, <1>3, <1>4, <1>5

LEMMA VisitPrunes ==
  ASSUME VisitInv, Visit!BeginPrune \/ Visit!PruneVisitors \/ Visit!PruneVisits \/ Visit!Purged
  PROVE  VisitInv'
  <1>1. /\ VisitTyped /\ VisitorsCounted /\ day \in Nat /\ house.today \in Nat
        /\ \A d \in Visit!Day : d \in Nat /\ views[d] \in Nat /\ calls[d] \in Nat
    BY DEF VisitInv, VisitTyped, Visit!Day
  <1>2. CASE Visit!BeginPrune
    <2>1. /\ house' = [next |-> "visitors", today |-> day]
          /\ UNCHANGED <<day, reach, visit, opened, views, calls, visitors, came>>
      BY <1>2 DEF Visit!BeginPrune, Visit!kept
    <2>2. VisitTyped' /\ VisitorsCounted'
      BY <1>1, <2>1 DEF VisitTyped, VisitorsCounted
    <2>3. QED
      BY <1>1, <2>1, <2>2, VisitTables
  <1>3. CASE Visit!PruneVisitors
    <2>1. /\ house' = [house EXCEPT !.next = "visits"]
          /\ visitors' = [d \in Visit!Day |->
                 IF d + VisitorDays < house.today THEN {} ELSE visitors[d]]
          /\ UNCHANGED <<day, reach, visit, opened, views, calls, came>>
      BY <1>3 DEF Visit!PruneVisitors, Visit!PrunedVisitors
    <2>2. house' = [next |-> "visits", today |-> house.today]
      BY <1>1, <2>1 DEF VisitTyped
    <2>3. VisitTyped'
      BY <1>1, <2>1, <2>2 DEF VisitTyped
    <2>4. ASSUME NEW d \in Visit!Day
          PROVE  /\ IsFiniteSet(visitors'[d]) /\ Cardinality(visitors'[d]) <= views[d] + calls[d]
                 /\ \A who \in visitors'[d] : \E o \in opened : o.by = who /\ o.day = d
                 /\ visitors'[d] = came[d] \/ d + VisitorDays < day
                 /\ d + VisitorDays < house.today => visitors'[d] = {}
      BY <1>1, <2>1, FS_EmptySet, RetentionAssumption DEF VisitTyped, VisitorsCounted
    <2>5. VisitorsCounted'
      BY <2>1, <2>2, <2>4 DEF VisitorsCounted
    <2>6. QED
      BY <1>1, <2>1, <2>3, <2>5, VisitTables
  <1>4. CASE Visit!PruneVisits
    <2>1. /\ house.next = "visits" /\ house' = [next |-> "idle", today |-> 0]
          /\ views' = [d \in Visit!Day |-> IF d + VisitDays < house.today THEN 0 ELSE views[d]]
          /\ calls' = [d \in Visit!Day |-> IF d + VisitDays < house.today THEN 0 ELSE calls[d]]
          /\ UNCHANGED <<day, reach, visit, opened, visitors, came>>
      BY <1>4 DEF Visit!PruneVisits
    <2>2. VisitTyped'
      BY <1>1, <2>1 DEF VisitTyped
    <2>3. ASSUME NEW d \in Visit!Day
          PROVE  /\ views'[d] <= views[d] /\ calls'[d] <= calls[d]
                 /\ Cardinality(visitors[d]) <= views'[d] + calls'[d]
      <3>1. CASE d + VisitDays < house.today
        <4>1. visitors[d] = {}
          BY <1>1, <2>1, <3>1, RetentionAssumption DEF VisitorsCounted
        <4>2. QED
          BY <1>1, <2>1, <3>1, <4>1, FS_EmptySet
      <3>2. CASE ~(d + VisitDays < house.today)
        BY <1>1, <2>1, <3>2 DEF VisitorsCounted
      <3>3. QED
        BY <3>1, <3>2
    <2>4. VisitorsCounted'
      BY <1>1, <2>1, <2>3 DEF VisitorsCounted
    <2>5. QED
      BY <1>1, <2>1, <2>2, <2>3, <2>4, VisitTables
  <1>5. CASE Visit!Purged
    <2>1. /\ reach' = "none"
          /\ views' = [d \in Visit!Day |-> 0] /\ calls' = [d \in Visit!Day |-> 0]
          /\ visitors' = [d \in Visit!Day |-> {}] /\ came' = [d \in Visit!Day |-> {}]
          /\ UNCHANGED <<day, visit, house, opened>>
      BY <1>5 DEF Visit!Purged
    <2>2. VisitTyped'
      BY <1>1, <2>1 DEF VisitTyped
    <2>3. VisitorsCounted'
      BY <2>1, FS_EmptySet DEF VisitorsCounted
    <2>4. QED
      BY <1>1, <2>1, <2>2, <2>3, VisitTables
  <1>6. QED
    BY <1>2, <1>3, <1>4, <1>5

\* Every statement that is under way is of the day that ends.
LEMMA VisitMidnight ==
  ASSUME VisitInv, Visit!Midnight
  PROVE  VisitInv'
  <1>1. /\ day \in Visit!Day /\ day < MaxDay /\ day' = day + 1
        /\ \A r \in Client : visit[r].pc = "writing" => visit[r].day = day
        /\ UNCHANGED <<reach, visit, house, opened, views, calls, visitors, came>>
    BY DEF VisitInv, VisitTyped, Visit!Midnight, Visit!kept
  <1>2. day \in Nat /\ day' \in Visit!Day /\ \A d \in Visit!Day : d \in Nat
    BY <1>1, BoundsAssumption DEF Visit!Day
  <1>3. VisitTyped' /\ LedgerKept'
    BY <1>1, <1>2 DEF VisitInv, VisitTyped, LedgerKept
  <1>4. WritersOpened'
    <2>1. \A d \in Visit!Day, what \in {"page", "function"} :
            /\ Pending(d, what)' = Pending(d, what) /\ Counter(d, what)' = Counter(d, what)
            /\ Visit!Opened(d, what)' = Visit!Opened(d, what)
      BY <1>1 DEF Pending, Counter, Visit!Opened
    <2>2. QED
      BY <1>1, <1>2, <2>1 DEF VisitInv, WritersOpened
  <1>5. VisitorsCounted'
    <2>1. \A d \in Visit!Day : d + VisitorDays < day => d + VisitorDays < day'
      BY <1>1, <1>2, RetentionAssumption
    <2>2. QED
      BY <1>1, <2>1 DEF VisitInv, VisitorsCounted
  <1>6. QED
    BY <1>3, <1>4, <1>5 DEF VisitInv

LEMMA VisitOpens ==
  ASSUME VisitInv, NEW who \in Visit!Who, NEW what \in {"page", "function"},
         Cardinality(opened) < MaxVisits, UNCHANGED day,
         opened' = opened \cup
             {[by |-> who, day |-> day, what |-> what, number |-> Cardinality(opened)]}
  PROVE  /\ LedgerKept'
         /\ \A o \in opened : o \in opened'
         /\ \E o \in opened' : o.by = who /\ o.day = day
         /\ \A d \in Visit!Day, w \in {"page", "function"} :
             Cardinality(Visit!Opened(d, w)') = Cardinality(Visit!Opened(d, w))
                                                  + (IF d = day /\ w = what THEN 1 ELSE 0)
  <1> DEFINE new == [by |-> who, day |-> day, what |-> what, number |-> Cardinality(opened)]
  <1>1. LedgerKept /\ day \in Visit!Day /\ Cardinality(opened) \in Nat
    BY OpenedFinite DEF VisitInv, VisitTyped
  <1>2. new \notin opened
    BY <1>1 DEF LedgerKept
  <1>3. new.by = who /\ new.day = day /\ new.what = what /\ new.number = Cardinality(opened)
    OBVIOUS
  <1>4. opened' = opened \cup {new}
    OBVIOUS
  <1> HIDE DEF new
  <1>5. IsFiniteSet(opened') /\ Cardinality(opened') = Cardinality(opened) + 1
    <2>1. IsFiniteSet(opened)
      BY <1>1 DEF LedgerKept
    <2>2. /\ IsFiniteSet(opened \cup {new})
          /\ Cardinality(opened \cup {new}) = Cardinality(opened) + 1
      BY <1>2, <2>1, FS_AddElement
    <2>3. QED
      BY <1>4, <2>2
  <1>6. LedgerKept'
    <2>1. Cardinality(opened') <= MaxVisits
      BY <1>1, <1>5, BoundsAssumption
    <2>2. /\ new.by \in Visit!Who /\ new.day \in Visit!Day
          /\ new.number \in Nat /\ new.number < Cardinality(opened')
      BY <1>1, <1>3, <1>5
    <2>3. ASSUME NEW o \in opened
          PROVE  /\ o.by \in Visit!Who /\ o.day \in Visit!Day
                 /\ o.number \in Nat /\ o.number < Cardinality(opened')
      BY <1>1, <1>5 DEF LedgerKept
    <2>4. QED
      BY <1>4, <1>5, <2>1, <2>2, <2>3 DEF LedgerKept
  <1>7. ASSUME NEW d \in Visit!Day, NEW w \in {"page", "function"}
        PROVE  Cardinality(Visit!Opened(d, w)') = Cardinality(Visit!Opened(d, w))
                                                   + (IF d = day /\ w = what THEN 1 ELSE 0)
    <2>1. IsFiniteSet(Visit!Opened(d, w)) /\ Cardinality(Visit!Opened(d, w)) \in Nat
      BY <1>1, OpenedFinite
    <2>2. new \notin Visit!Opened(d, w)
      BY <1>2 DEF Visit!Opened
    <2>3. CASE d = day /\ w = what
      <3>1. Visit!Opened(d, w)' = Visit!Opened(d, w) \cup {new}
        BY <1>3, <1>4, <2>3 DEF Visit!Opened
      <3>2. QED
        BY <2>1, <2>2, <2>3, <3>1, FS_AddElement
    <2>4. CASE ~(d = day /\ w = what)
      <3>1. Visit!Opened(d, w)' = Visit!Opened(d, w)
        BY <1>3, <1>4, <2>4 DEF Visit!Opened
      <3>2. QED
        BY <2>1, <2>4, <3>1
    <2>5. QED
      BY <2>3, <2>4
  <1>8. QED
    BY <1>3, <1>4, <1>6, <1>7

\* What is opened is numbered, and whoever writes it down is about it and nothing else.
LEMMA VisitServes ==
  ASSUME VisitInv, NEW r \in Client, Visit!Serve(r)
  PROVE  VisitInv'
  <1> DEFINE q == visit[r]
  <1>1. /\ visit \in [Client -> VisitState] /\ day \in Visit!Day
        /\ \A d \in Visit!Day : views[d] \in Nat /\ calls[d] \in Nat
    BY DEF VisitInv, VisitTyped
  <1>2. q.pc = "asked"
    BY DEF Visit!Serve
  <1>3. q.who \in Visit!Who /\ q.what \in Visit!What
    BY <1>1, <1>2, VisitNames
  <1>4. UNCHANGED <<day, reach, house, views, calls, visitors, came>>
    BY DEF Visit!Serve, Visit!kept
  <1>5. CASE q.what = "asset" \/ q.who \in {"renderer", "owner"} \/ q.preview
    <2>1. UNCHANGED opened /\ visit' = [visit EXCEPT ![r] = Visit!Nothing]
      BY <1>5 DEF Visit!Serve, Visit!Countable
    <2>2. QED
      BY <1>1, <1>4, <2>1, VisitNames, VisitMoves DEF VisitInv, VisitTyped
  <1>6. CASE ~(q.what = "asset" \/ q.who \in {"renderer", "owner"} \/ q.preview)
    <2> DEFINE put == [pc |-> "writing", who |-> q.who, what |-> q.what, day |-> day]
    <2>1. /\ Cardinality(opened) < MaxVisits
          /\ opened' = opened \cup
                 {[by |-> q.who, day |-> day, what |-> q.what, number |-> Cardinality(opened)]}
          /\ \/ visit' = [visit EXCEPT ![r] = put]
             \/ visit' = [visit EXCEPT ![r] = Visit!Nothing]
      BY <1>6, VisitCounts DEF Visit!Serve
    <2>2. q.what \in {"page", "function"}
      BY <1>3, <1>6 DEF Visit!What
    <2>3. /\ LedgerKept' /\ \A o \in opened : o \in opened'
          /\ \E o \in opened' : o.by = q.who /\ o.day = day
          /\ \A d \in Visit!Day, w \in {"page", "function"} :
              Cardinality(Visit!Opened(d, w)') = Cardinality(Visit!Opened(d, w))
                                                   + (IF d = day /\ w = q.what THEN 1 ELSE 0)
      BY <1>3, <1>4, <2>1, <2>2, VisitOpens
    <2>4. put \in VisitState
      BY <1>1, <1>3, <2>2 DEF VisitState
    <2>5. /\ put.pc = "writing" /\ put.who = q.who /\ put.what = q.what /\ put.day = day
      OBVIOUS
    <2> HIDE DEF put, q
    <2>6. VisitTyped'
      BY <1>1, <1>4, <2>1, <2>4, VisitNames DEF VisitInv, VisitTyped
    <2>7. VisitorsCounted'
      BY <1>4, <2>3 DEF VisitInv, VisitorsCounted
    <2>8. ASSUME NEW p \in Client, visit'[p].pc = "writing"
          PROVE  day' <= visit'[p].day + 1
                 /\ \E o \in opened' : o.by = visit'[p].who /\ o.day = visit'[p].day
      <3>1. CASE visit'[p] = visit[p]
        BY <1>4, <2>3, <2>8, <3>1 DEF VisitInv, WritersOpened
      <3>2. CASE visit'[p] = put
        BY <1>1, <1>4, <2>3, <2>5, <3>2 DEF Visit!Day
      <3>3. QED
        BY <1>1, <2>1, <2>8, <3>1, <3>2, VisitNames
    <2>9. ASSUME NEW d \in Visit!Day, NEW w \in {"page", "function"}
          PROVE  /\ IsFiniteSet(Pending(d, w)')
                 /\ Counter(d, w)' + Cardinality(Pending(d, w)')
                      <= Cardinality(Visit!Opened(d, w)')
      <3>1. /\ IsFiniteSet(Pending(d, w)) /\ Cardinality(Pending(d, w)) \in Nat
            /\ Counter(d, w) + Cardinality(Pending(d, w)) <= Cardinality(Visit!Opened(d, w))
            /\ Counter(d, w)' = Counter(d, w) /\ Counter(d, w) \in Nat
            /\ Cardinality(Visit!Opened(d, w)) \in Nat
        BY <1>1, <1>4, FS_CardinalityType, OpenedFinite
           DEF VisitInv, WritersOpened, Counter
      <3>2. r \notin Pending(d, w)
        BY <1>2 DEF Pending, q
      <3>3. CASE visit' = [visit EXCEPT ![r] = put] /\ d = day /\ w = q.what
        <4>1. Pending(d, w)' = Pending(d, w) \cup {r}
          BY <1>1, <2>5, <3>3 DEF Pending
        <4>2. IsFiniteSet(Pending(d, w)') /\ Cardinality(Pending(d, w)') = Cardinality(Pending(d, w)) + 1
          BY <3>1, <3>2, <4>1, FS_AddElement
        <4>3. Cardinality(Visit!Opened(d, w)') = Cardinality(Visit!Opened(d, w)) + 1
          BY <2>3, <3>3
        <4>4. QED
          BY <3>1, <4>2, <4>3
      <3>4. CASE ~(visit' = [visit EXCEPT ![r] = put] /\ d = day /\ w = q.what)
        <4>1. Pending(d, w)' = Pending(d, w)
          BY <1>1, <2>1, <2>5, <3>2, <3>4, VisitNames DEF Pending
        <4>2. Cardinality(Visit!Opened(d, w)') >= Cardinality(Visit!Opened(d, w))
          BY <2>3, <3>1
        <4>3. Cardinality(Visit!Opened(d, w)') \in Nat
          BY <2>3, <3>1
        <4>4. QED
          BY <3>1, <4>1, <4>2, <4>3
      <3>5. QED
        BY <3>3, <3>4
    <2>10. WritersOpened'
      BY <2>8, <2>9 DEF WritersOpened
    <2>11. QED
      BY <2>3, <2>6, <2>7, <2>10 DEF VisitInv
  <1>7. QED
    BY <1>5, <1>6

\* A statement that takes effect: its page or function goes from those that are under
\* way to those that are counted, and its visitor with it.
LEMMA VisitRecords ==
  ASSUME VisitInv, NEW r \in Client, visit[r].pc = "writing", reach # "none",
         Visit!Recorded(visit[r]), visit' = [visit EXCEPT ![r] = Visit!Nothing],
         UNCHANGED <<day, reach, house, opened>>
  PROVE  VisitInv'
  <1> DEFINE q == visit[r]
             by == q.who
             on == q.day
             added(w) == IF q.what = w THEN 1 ELSE 0
  <1>1. /\ visit \in [Client -> VisitState] /\ day \in Nat /\ on \in Visit!Day /\ on \in Nat
        /\ by \in Visit!Who /\ q.what \in {"page", "function"}
        /\ \A d \in Visit!Day : views[d] \in Nat /\ calls[d] \in Nat
    BY VisitNames DEF VisitInv, VisitTyped, Visit!Day
  <1>2. /\ views' = [views EXCEPT ![on] = @ + added("page")]
        /\ calls' = [calls EXCEPT ![on] = @ + added("function")]
        /\ visitors' = [visitors EXCEPT ![on] = @ \cup {by}]
        /\ came' = [came EXCEPT ![on] = @ \cup {by}]
    BY <1>1 DEF Visit!Recorded
  <1>3. day <= on + 1 /\ \E o \in opened : o.by = by /\ o.day = on
    BY DEF VisitInv, WritersOpened
  <1>4. /\ visit' \in [Client -> VisitState]
        /\ \A p \in Client : visit'[p].pc = "writing" => p # r /\ visit'[p] = visit[p]
    BY <1>1, VisitNames
  <1>5. /\ added("page") \in 0 .. 1 /\ added("function") \in 0 .. 1
        /\ added("page") + added("function") = 1
    BY <1>1
  <1>6. VisitTyped'
    <2>1. /\ views' \in [Visit!Day -> Nat] /\ calls' \in [Visit!Day -> Nat]
      BY <1>1, <1>2, <1>5 DEF VisitInv, VisitTyped
    <2>2. /\ visitors' \in [Visit!Day -> SUBSET Visit!Who] /\ came' \in [Visit!Day -> SUBSET Visit!Who]
      BY <1>1, <1>2 DEF VisitInv, VisitTyped
    <2>3. QED
      BY <1>4, <2>1, <2>2 DEF VisitInv, VisitTyped
  <1>7. LedgerKept'
    BY DEF VisitInv, LedgerKept
  <1>8. ASSUME NEW d \in Visit!Day, NEW w \in {"page", "function"}
        PROVE  /\ IsFiniteSet(Pending(d, w)')
               /\ Counter(d, w)' + Cardinality(Pending(d, w)')
                    <= Cardinality(Visit!Opened(d, w)')
    <2>1. /\ IsFiniteSet(Pending(d, w)) /\ Cardinality(Pending(d, w)) \in Nat
          /\ Counter(d, w) + Cardinality(Pending(d, w)) <= Cardinality(Visit!Opened(d, w))
          /\ Counter(d, w) \in Nat /\ Cardinality(Visit!Opened(d, w)) \in Nat
      BY <1>1, FS_CardinalityType, OpenedFinite DEF VisitInv, WritersOpened, Counter
    <2>2. Visit!Opened(d, w)' = Visit!Opened(d, w)
      BY DEF Visit!Opened
    <2>3. CASE d = on /\ w = q.what
      <3>1. r \in Pending(d, w) /\ Pending(d, w)' = Pending(d, w) \ {r}
        BY <1>1, <1>4, <2>3 DEF Pending
      <3>2. IsFiniteSet(Pending(d, w)') /\ Cardinality(Pending(d, w)') = Cardinality(Pending(d, w)) - 1
        BY <2>1, <3>1, FS_RemoveElement
      <3>3. Counter(d, w)' = Counter(d, w) + 1
        BY <1>1, <1>2, <2>3 DEF Counter, VisitInv, VisitTyped
      <3>4. QED
        BY <2>1, <2>2, <3>2, <3>3
    <2>4. CASE ~(d = on /\ w = q.what)
      <3>1. Pending(d, w)' = Pending(d, w)
        BY <1>1, <1>4, <2>4 DEF Pending
      <3>2. Counter(d, w)' = Counter(d, w)
        BY <1>1, <1>2, <2>4 DEF Counter, VisitInv, VisitTyped
      <3>3. QED
        BY <2>1, <2>2, <3>1, <3>2
    <2>5. QED
      BY <2>3, <2>4
  <1>9. WritersOpened'
    BY <1>4, <1>8 DEF WritersOpened, VisitInv
  <1>10. ASSUME NEW d \in Visit!Day
         PROVE  /\ IsFiniteSet(visitors'[d])
                /\ Cardinality(visitors'[d]) <= views'[d] + calls'[d]
                /\ \A who \in visitors'[d] : \E o \in opened : o.by = who /\ o.day = d
                /\ visitors'[d] = came'[d] \/ d + VisitorDays < day
                /\ house.next = "visits" /\ d + VisitorDays < house.today => visitors'[d] = {}
    <2>1. /\ IsFiniteSet(visitors[d]) /\ Cardinality(visitors[d]) <= views[d] + calls[d]
          /\ Cardinality(visitors[d]) \in Nat
          /\ \A who \in visitors[d] : \E o \in opened : o.by = who /\ o.day = d
          /\ visitors[d] = came[d] \/ d + VisitorDays < day
          /\ house.next = "visits" /\ d + VisitorDays < house.today => visitors[d] = {}
      BY FS_CardinalityType DEF VisitInv, VisitorsCounted
    <2>2. CASE d = on
      <3>1. /\ visitors'[d] = visitors[d] \cup {by} /\ came'[d] = came[d] \cup {by}
            /\ views'[d] = views[d] + added("page") /\ calls'[d] = calls[d] + added("function")
        BY <1>2, <2>2 DEF VisitInv, VisitTyped
      <3>2. /\ IsFiniteSet(visitors'[d]) /\ Cardinality(visitors'[d]) \in Nat
            /\ Cardinality(visitors'[d]) <= Cardinality(visitors[d]) + 1
        <4>1. /\ IsFiniteSet(visitors[d] \cup {by})
              /\ Cardinality(visitors[d] \cup {by})
                   \in {Cardinality(visitors[d]), Cardinality(visitors[d]) + 1}
          BY <2>1, FS_AddElement
        <4>2. QED
          BY <2>1, <3>1, <4>1
      <3>3. views'[d] + calls'[d] = views[d] + calls[d] + 1
        BY <1>1, <1>5, <3>1
      <3>4. house.today <= day /\ house.today \in Nat
        BY <1>1 DEF VisitInv, VisitTyped
      <3>5. ~(d + VisitorDays < day) /\ ~(d + VisitorDays < house.today)
        BY <1>1, <1>3, <2>2, <3>4, RetentionAssumption
      <3>6. visitors'[d] = came'[d]
        BY <2>1, <3>1, <3>5
      <3>7. Cardinality(visitors'[d]) <= views'[d] + calls'[d]
        BY <1>1, <2>1, <3>2, <3>3
      <3>8. QED
        BY <1>3, <2>1, <2>2, <3>1, <3>2, <3>5, <3>6, <3>7
    <2>3. CASE d # on
      BY <1>2, <2>1, <2>3 DEF VisitInv, VisitTyped
    <2>4. QED
      BY <2>2, <2>3
  <1>11. VisitorsCounted'
    BY <1>10 DEF VisitorsCounted
  <1>12. QED
    BY <1>6, <1>7, <1>9, <1>11 DEF VisitInv

LEMMA VisitWrites ==
  ASSUME VisitInv, NEW r \in Client, Visit!Write(r) \/ Visit!WriteFails(r)
  PROVE  VisitInv'
  <1>1. /\ visit[r].pc = "writing" /\ visit' = [visit EXCEPT ![r] = Visit!Nothing]
        /\ Visit!Recorded(visit[r]) \/ UNCHANGED <<views, calls, visitors, came>>
        /\ UNCHANGED <<day, reach, house, opened>>
    BY DEF Visit!Write, Visit!WriteFails, Visit!AfterFailure, Visit!kept
  <1>2. CASE UNCHANGED <<views, calls, visitors, came>>
    BY <1>1, <1>2, VisitNames, VisitMoves DEF VisitInv, VisitTyped
  <1>3. CASE Visit!Recorded(visit[r]) /\ reach # "none"
    BY <1>1, <1>3, VisitRecords
  <1>4. CASE Visit!Recorded(visit[r]) /\ reach = "none"
    BY <1>2, <1>4 DEF Visit!Recorded, Visit!kept
  <1>5. QED
    BY <1>1, <1>2, <1>3, <1>4

LEMMA VisitUnchanged == VisitInv /\ UNCHANGED counting => VisitInv'
  <1>1. SUFFICES ASSUME VisitInv, UNCHANGED counting PROVE VisitInv'
    OBVIOUS
  <1>2. UNCHANGED <<day, reach, visit, views, calls, visitors, house, opened, came>>
    BY <1>1 DEF counting
  <1>3. VisitTyped' /\ VisitorsCounted'
    BY <1>1, <1>2 DEF VisitInv, VisitTyped, VisitorsCounted
  <1>4. QED
    BY <1>1, <1>2, <1>3, VisitTables DEF VisitInv, VisitTyped

LEMMA VisitStep == VisitInv /\ VisitNext => VisitInv'
  <1>1. SUFFICES ASSUME VisitInv, VisitNext PROVE VisitInv'
    OBVIOUS
  <1>2. CASE \E r \in Client : \/ \E who \in Visit!Who, what \in Visit!What, early \in BOOLEAN :
                                    InVisit(Visit!Ask(r, who, what, early))
                               \/ InVisit(Visit!NotFound(r))
    BY <1>1, <1>2, VisitAsks DEF InVisit
  <1>3. CASE InVisit(Visit!GatewayDies) \/ \E to \in {"owner", "network"} : InVisit(Visit!UpdateAccess(to))
    <2>1. CASE Client = {}
      BY <1>1, <1>3, <2>1, VisitMoves
         DEF InVisit, Visit!GatewayDies, Visit!UpdateAccess, Visit!kept, VisitInv, VisitTyped
    <2>2. CASE Client # {}
      BY <1>1, <1>3, <2>2, VisitAsks DEF InVisit
    <2>3. QED
      BY <2>1, <2>2
  <1>4. CASE \E r \in Client : \/ InVisit(Visit!Serve(r)) \/ InVisit(Visit!Write(r))
                               \/ InVisit(Visit!WriteFails(r))
    BY <1>1, <1>4, VisitServes, VisitWrites DEF InVisit
  <1>5. CASE InVisit(Visit!BeginPrune) \/ InVisit(Visit!PruneVisitors)
                \/ InVisit(Visit!PruneVisits) \/ InVisit(Visit!Purged)
    BY <1>1, <1>5, VisitPrunes DEF InVisit
  <1>6. CASE InVisit(Visit!Midnight)
    BY <1>1, <1>6, VisitMidnight DEF InVisit
  <1>7. QED
    BY <1>1, <1>2, <1>3, <1>4, <1>5, <1>6 DEF VisitNext

LEMMA VisitInit == Visit!Init => VisitInv
  <1>1. SUFFICES ASSUME Visit!Init PROVE VisitInv
    OBVIOUS
  <1>2. day = 1 /\ 1 \in Visit!Day /\ \A d \in Visit!Day : d \in Nat
    BY <1>1, BoundsAssumption DEF Visit!Init, Visit!Day
  <1>3. /\ opened = {} /\ house.next = "idle" /\ house \in [next : {"idle", "visitors", "visits"}, today : 0 .. day]
        /\ visit = [r \in Client |-> Visit!Nothing] /\ reach = "owner"
        /\ \A d \in Visit!Day : views[d] = 0 /\ calls[d] = 0 /\ visitors[d] = {} /\ came[d] = {}
    BY <1>1, <1>2 DEF Visit!Init
  <1>4. VisitTyped
    BY <1>1, <1>2, <1>3, VisitNames DEF Visit!Init, VisitTyped
  <1>5. LedgerKept /\ VisitorsCounted
    <2>1. IsFiniteSet({}) /\ Cardinality({}) = 0
      BY FS_EmptySet
    <2>2. LedgerKept
      BY <1>3, <2>1, BoundsAssumption DEF LedgerKept
    <2>3. ASSUME NEW d \in Visit!Day
          PROVE  /\ IsFiniteSet(visitors[d]) /\ Cardinality(visitors[d]) <= views[d] + calls[d]
                 /\ \A who \in visitors[d] : \E o \in opened : o.by = who /\ o.day = d
                 /\ visitors[d] = came[d]
      <3>1. visitors[d] = {} /\ came[d] = {} /\ views[d] = 0 /\ calls[d] = 0
        BY <1>3
      <3>2. Cardinality(visitors[d]) <= views[d] + calls[d] /\ IsFiniteSet(visitors[d])
        BY <2>1, <3>1
      <3>3. QED
        BY <3>1, <3>2
    <2>4. VisitorsCounted
      BY <1>3, <2>3 DEF VisitorsCounted
    <2>5. QED
      BY <2>2, <2>4
  <1>6. ASSUME NEW d \in Visit!Day, NEW w \in {"page", "function"}
        PROVE  /\ IsFiniteSet(Pending(d, w))
               /\ Counter(d, w) + Cardinality(Pending(d, w)) <= Cardinality(Visit!Opened(d, w))
    <2>1. Pending(d, w) = {} /\ Visit!Opened(d, w) = {} /\ Counter(d, w) = 0
      BY <1>3, VisitNames DEF Pending, Counter, Visit!Opened
    <2>2. QED
      BY <2>1, FS_EmptySet
  <1>7. WritersOpened
    BY <1>3, <1>6, VisitNames DEF WritersOpened
  <1>8. QED
    BY <1>4, <1>5, <1>7 DEF VisitInv

\* No count is more than what people did that day, no visitor is named who did nothing
\* or is in no count, and a day that may be read has all its visitors: whatever
\* statements fail before or after they took effect, over the passes of housekeeping
\* and the nights (gateway.ts 603-647, lib/analytics.ts).
THEOREM VisitsCountTruly == ServicesSpec => []VisitsAreTrue
  <1>1. (part = "visit" => VisitInv) /\ [ServicesNext]_services => (part = "visit" => VisitInv)'
    BY Turns, VisitStep, VisitUnchanged
  <1>2. ServicesInit => (part = "visit" => VisitInv)
    BY VisitInit DEF ServicesInit
  <1>3. (part = "visit" => VisitInv) => VisitsAreTrue
    BY VisitTypes DEF VisitsAreTrue, Kept
  <1>4. QED
    BY <1>1, <1>2, <1>3, PTL DEF ServicesSpec

-----------------------------------------------------------------------------
(* Networks.  One caller at a time is under the mutex, those that wait     *)
(* wait once and enter where they asked to; a project that is being purged *)
(* is not started, so that while its network is taken apart nothing is     *)
(* attached to it.                                                         *)

PcsOf ==
    [start |-> {"idle", "waits", "create", "connect", "run"},
     delete |-> {"idle", "waits", "containers", "disconnect", "row"},
     build |-> {"idle", "waits", "create", "connect", "run", "built", "disconnect", "done"},
     house |-> {"idle", "waits", "list", "reattach"}]

EntriesOf ==
    [start |-> {"create"}, delete |-> {"disconnect"}, build |-> {"create", "disconnect"},
     house |-> {"list"}]

Inside == {"create", "connect", "disconnect", "list", "reattach"}

ToDoAt(x, pc) == IF pc = "disconnect" THEN Network!Shared(x.on) ELSE {}

Things == Owner \cup {"gateway", "pgbouncer", "rustfs", "proxy"}

PlaceOf == [pc : Network!Pc, todo : SUBSET Things]

WaiterOf == [who : Network!Process, pc : Network!Pc, todo : SUBSET Things]

MutexInv ==
    /\ proc \in [Network!Process -> PlaceOf] /\ waiters \in Seq(WaiterOf) /\ locked \in BOOLEAN
    /\ \A x \in Network!Process : proc[x].pc \in PcsOf[x.kind]
    /\ \A i \in 1 .. Len(waiters) :
        /\ waiters[i].pc \in EntriesOf[waiters[i].who.kind]
        /\ waiters[i].todo = ToDoAt(waiters[i].who, waiters[i].pc)
        /\ proc[waiters[i].who].pc = "waits"
        /\ \A j \in 1 .. Len(waiters) : waiters[i].who = waiters[j].who => i = j
    /\ \A x \in Network!Process : proc[x].pc \in Inside =>
        locked /\ \A y \in Network!Process : proc[y].pc \in Inside => x = y

\* What a caller has come to is right for the network it works on.
Fits(x) ==
    /\ proc[x].pc \in {"connect", "disconnect"} => proc[x].todo \subseteq Network!Shared(x.on)
    /\ x.kind = "start" /\ proc[x].pc # "idle" => status[x.on] \in {"live", "deleting"}
    /\ x.kind = "delete" /\ proc[x].pc # "idle" => status[x.on] = "deleted"
    /\ x.kind = "delete" /\ proc[x].pc \in {"waits", "disconnect"} =>
        Network!Work \notin attached[x.on]
    /\ x.kind = "delete" /\ proc[x].pc = "disconnect" => attached[x.on] \subseteq proc[x].todo
    /\ x.kind = "delete" /\ proc[x].pc = "row" => x.on \notin made

NetworksTyped ==
    /\ made \subseteq Network!Name
    /\ attached \in [Network!Name -> SUBSET {"gateway", "pgbouncer", "rustfs", "proxy",
                                             Network!Work, Network!Stray}]
    /\ \A n \in Network!Name :
        attached[n] \subseteq Network!Shared(n) \cup {Network!Work, Network!Stray}
    /\ status \in [Owner -> {"live", "deleting", "deleted", "gone"}]
    /\ troubles \in 0 .. MaxTroubles

ProjectsClean ==
    \A p \in Owner :
        /\ Network!Stray \notin attached[p]
        /\ status[p] = "gone" => p \notin made

NetworkInv == MutexInv /\ NetworksTyped /\ ProjectsClean /\ \A x \in Network!Process : Fits(x)

LEMMA NetworkNames ==
  ASSUME NEW x \in Network!Process
  PROVE  /\ x.kind \in {"start", "delete", "build", "house"}
         /\ x.kind \in {"start", "delete"} => x.on \in Owner /\ x = [kind |-> x.kind, on |-> x.on]
         /\ x.kind = "build" => /\ x.on \in Request /\ x.on \notin Owner
                                /\ x = [kind |-> "build", on |-> x.on]
         /\ x.kind = "house" => x = Network!House
         /\ x.kind # "house" => x.on \in Network!Name
  BY NamesAssumption DEF Network!Process, Network!House, Network!Start, Network!Delete,
     Network!Builds, Network!Name

LEMMA NetworkKnown ==
  /\ Network!House \in Network!Process /\ Network!House.kind = "house"
  /\ \A p \in Owner : /\ Network!Start(p) \in Network!Process /\ Network!Start(p).on = p
                      /\ Network!Delete(p) \in Network!Process /\ Network!Delete(p).on = p
                      /\ Network!Start(p).kind = "start" /\ Network!Delete(p).kind = "delete"
  BY DEF Network!Process, Network!House, Network!Start, Network!Delete

LEMMA ThingsShared ==
  ASSUME NEW n
  PROVE  /\ Network!Shared(n) \in SUBSET Things
         /\ Network!Work \notin Network!Shared(n) /\ Network!Stray \notin Network!Shared(n)
  BY DEF Network!Shared, Things, Network!Work, Network!Stray

LEMMA PcsKnown ==
  ASSUME NEW k \in {"start", "delete", "build", "house"}
  PROVE  /\ PcsOf[k] \subseteq Network!Pc /\ EntriesOf[k] \subseteq PcsOf[k]
         /\ "idle" \in PcsOf[k] /\ "waits" \in PcsOf[k] /\ "again" \notin PcsOf[k]
         /\ "again" \notin EntriesOf[k] /\ EntriesOf[k] \subseteq Inside
         /\ EntriesOf[k] \subseteq {"create", "disconnect", "list"}
  BY DEF PcsOf, EntriesOf, Inside, Network!Pc

\* Two callers with the same network are not at work at once.
LEMMA Alone ==
  ASSUME NetworkInv, NEW x \in Network!Process, NEW y \in Network!Process, x.on = y.on,
         x.kind # "house", y.kind # "house", proc[x].pc # "idle", proc[y].pc # "idle"
  PROVE  x = y
  BY NetworkNames DEF NetworkInv, Fits

-----------------------------------------------------------------------------
(* The mutex.                                                              *)

LEMMA WaitersKnown ==
  ASSUME MutexInv, NEW i \in 1 .. Len(waiters)
  PROVE  /\ waiters[i].who \in Network!Process /\ waiters[i] \in WaiterOf
         /\ waiters[i].pc \in EntriesOf[waiters[i].who.kind]
         /\ waiters[i].todo = ToDoAt(waiters[i].who, waiters[i].pc)
         /\ proc[waiters[i].who].pc = "waits"
         /\ \A j \in 1 .. Len(waiters) : waiters[i].who = waiters[j].who => i = j
  <1>1. waiters[i] \in WaiterOf
    BY DEF MutexInv
  <1>2. waiters[i].who \in Network!Process
    BY <1>1 DEF WaiterOf
  <1>3. QED
    BY <1>1, <1>2 DEF MutexInv

LEMMA MutexAcquire ==
  ASSUME MutexInv, NEW x \in Network!Process, NEW pc \in EntriesOf[x.kind], NEW todo,
         todo = ToDoAt(x, pc), proc[x].pc \notin Inside \cup {"waits"},
         Network!Acquire(x, pc, todo)
  PROVE  /\ MutexInv' /\ proc' \in [Network!Process -> PlaceOf]
         /\ proc'[x] \in {[pc |-> "waits", todo |-> {}], [pc |-> pc, todo |-> todo]}
         /\ \A y \in Network!Process : y # x => proc'[y] = proc[y]
  <1>1. x.kind \in {"start", "delete", "build", "house"}
    BY NetworkNames
  <1>2. pc \in Network!Pc /\ pc \in PcsOf[x.kind] /\ pc \in Inside /\ todo \in SUBSET Things
    BY <1>1, PcsKnown, ThingsShared DEF ToDoAt
  <1>3. CASE locked
    <2> DEFINE new == [who |-> x, pc |-> pc, todo |-> todo]
               waiting == [pc |-> "waits", todo |-> {}]
    <2>1. /\ waiters' = Append(waiters, new) /\ proc' = [proc EXCEPT ![x] = waiting]
          /\ locked' = locked
      BY <1>3 DEF Network!Acquire, Network!Step
    <2>2. /\ new \in WaiterOf /\ new.who = x /\ new.pc = pc /\ new.todo = todo
          /\ waiting \in PlaceOf /\ waiting.pc = "waits"
      BY <1>1, <1>2 DEF WaiterOf, PlaceOf, Network!Pc
    <2> HIDE DEF new, waiting
    <2>3. /\ proc' \in [Network!Process -> PlaceOf] /\ proc'[x] = waiting
          /\ \A y \in Network!Process : y # x => proc'[y] = proc[y]
      BY <2>1, <2>2 DEF MutexInv
    <2>4. /\ waiters' \in Seq(WaiterOf) /\ Len(waiters') = Len(waiters) + 1
          /\ waiters'[Len(waiters) + 1] = new /\ Len(waiters) \in Nat
          /\ \A i \in 1 .. Len(waiters) : waiters'[i] = waiters[i]
      BY <2>1, <2>2 DEF MutexInv
    <2>5. \A i \in 1 .. Len(waiters) : waiters[i].who # x /\ waiters[i].who \in Network!Process
      BY WaitersKnown
    <2>6. ASSUME NEW i \in 1 .. Len(waiters')
          PROVE  /\ waiters'[i].pc \in EntriesOf[waiters'[i].who.kind]
                 /\ waiters'[i].todo = ToDoAt(waiters'[i].who, waiters'[i].pc)
                 /\ proc'[waiters'[i].who].pc = "waits"
                 /\ \A j \in 1 .. Len(waiters') : waiters'[i].who = waiters'[j].who => i = j
      BY <2>2, <2>3, <2>4, <2>5 DEF MutexInv
    <2>7. \A y \in Network!Process : proc'[y].pc \in PcsOf[y.kind]
      BY <1>1, <2>2, <2>3, PcsKnown DEF MutexInv
    <2>8. \A y \in Network!Process : proc'[y].pc \in Inside =>
            locked' /\ \A z \in Network!Process : proc'[z].pc \in Inside => y = z
      <3>1. \A y \in Network!Process : proc'[y].pc \in Inside => proc[y].pc \in Inside
        BY <2>2, <2>3 DEF Inside
      <3>2. QED
        BY <2>1, <3>1 DEF MutexInv
    <2>9. MutexInv'
      <3>1. locked' \in BOOLEAN
        BY <2>1 DEF MutexInv
      <3>2. QED
        BY <2>3, <2>4, <2>6, <2>7, <2>8, <3>1 DEF MutexInv, ToDoAt
    <2>10. QED
      BY <2>3, <2>9 DEF waiting
  <1>4. CASE ~locked
    <2> DEFINE entered == [pc |-> pc, todo |-> todo]
    <2>1. waiters' = waiters /\ proc' = [proc EXCEPT ![x] = entered] /\ locked' = TRUE
      BY <1>4 DEF Network!Acquire, Network!Step
    <2>2. entered \in PlaceOf /\ entered.pc = pc
      BY <1>2 DEF PlaceOf
    <2> HIDE DEF entered
    <2>3. /\ proc' \in [Network!Process -> PlaceOf] /\ proc'[x] = entered
          /\ \A y \in Network!Process : y # x => proc'[y] = proc[y]
      BY <2>1, <2>2 DEF MutexInv
    <2>4. \A i \in 1 .. Len(waiters) : waiters[i].who # x /\ waiters[i].who \in Network!Process
      BY WaitersKnown
    <2>5. \A y \in Network!Process : proc[y].pc \notin Inside
      BY <1>4 DEF MutexInv
    <2>6. \A y \in Network!Process : proc'[y].pc \in PcsOf[y.kind]
      BY <1>2, <2>2, <2>3 DEF MutexInv
    <2>7. \A y \in Network!Process : proc'[y].pc \in Inside => y = x
      BY <2>3, <2>5
    <2>8. ASSUME NEW i \in 1 .. Len(waiters')
          PROVE  /\ waiters'[i].pc \in EntriesOf[waiters'[i].who.kind]
                 /\ waiters'[i].todo = ToDoAt(waiters'[i].who, waiters'[i].pc)
                 /\ proc'[waiters'[i].who].pc = "waits"
                 /\ \A j \in 1 .. Len(waiters') : waiters'[i].who = waiters'[j].who => i = j
      BY <2>1, <2>3, <2>4 DEF MutexInv
    <2>9. MutexInv'
      <3>1. locked' \in BOOLEAN /\ waiters' \in Seq(WaiterOf)
        BY <2>1 DEF MutexInv
      <3>2. QED
        BY <2>1, <2>3, <2>6, <2>7, <2>8, <3>1 DEF MutexInv, ToDoAt
    <2>10. QED
      BY <2>3, <2>9 DEF entered
  <1>5. QED
    BY <1>3, <1>4

\* A caller goes on where it is, under the mutex or without it.
LEMMA MutexStays ==
  ASSUME MutexInv, NEW x \in Network!Process, NEW pc \in PcsOf[x.kind],
         NEW todo \in SUBSET Things, proc[x].pc # "waits", pc # "waits",
         pc \in Inside <=> proc[x].pc \in Inside,
         proc' = Network!Step(x, pc, todo), UNCHANGED locked, UNCHANGED waiters
  PROVE  /\ MutexInv'
         /\ proc'[x] = [pc |-> pc, todo |-> todo]
         /\ \A y \in Network!Process : y # x => proc'[y] = proc[y]
  <1> DEFINE next == [pc |-> pc, todo |-> todo]
  <1>1. x.kind \in {"start", "delete", "build", "house"}
    BY NetworkNames
  <1>2. next \in PlaceOf /\ next.pc = pc
    BY <1>1, PcsKnown DEF PlaceOf
  <1>3. proc' = [proc EXCEPT ![x] = next]
    BY DEF Network!Step
  <1> HIDE DEF next
  <1>4. /\ proc' \in [Network!Process -> PlaceOf] /\ proc'[x] = next
        /\ \A y \in Network!Process : y # x => proc'[y] = proc[y]
    BY <1>2, <1>3 DEF MutexInv
  <1>5. \A y \in Network!Process : proc'[y].pc \in Inside <=> proc[y].pc \in Inside
    BY <1>2, <1>4
  <1>6. \A i \in 1 .. Len(waiters) : waiters[i].who # x /\ waiters[i].who \in Network!Process
    BY WaitersKnown
  <1>7. \A y \in Network!Process : proc'[y].pc \in PcsOf[y.kind]
    BY <1>2, <1>4 DEF MutexInv
  <1>8. ASSUME NEW i \in 1 .. Len(waiters')
        PROVE  /\ waiters'[i].pc \in EntriesOf[waiters'[i].who.kind]
               /\ waiters'[i].todo = ToDoAt(waiters'[i].who, waiters'[i].pc)
               /\ proc'[waiters'[i].who].pc = "waits"
               /\ \A j \in 1 .. Len(waiters') : waiters'[i].who = waiters'[j].who => i = j
    BY <1>4, <1>6 DEF MutexInv
  <1>9. MutexInv'
    BY <1>4, <1>5, <1>7, <1>8 DEF MutexInv, ToDoAt
  <1>10. QED
    BY <1>4, <1>9 DEF next

\* Whoever is first in line is in, if anyone is; the others are where they were.
LEMMA MutexRelease ==
  ASSUME MutexInv, NEW x \in Network!Process, proc[x].pc \in Inside,
         NEW next \in PcsOf[x.kind], next \notin Inside \cup {"waits"},
         Network!Release(x, next)
  PROVE  /\ MutexInv'
         /\ proc'[x] = [pc |-> next, todo |-> {}]
         /\ \A y \in Network!Process : y # x =>
             \/ proc'[y] = proc[y]
             \/ /\ proc[y].pc = "waits"
                /\ proc'[y].pc \in EntriesOf[y.kind]
                /\ proc'[y].todo = ToDoAt(y, proc'[y].pc)
  <1> DEFINE left == [pc |-> next, todo |-> {}]
  <1>1. x.kind \in {"start", "delete", "build", "house"}
    BY NetworkNames
  <1>2. left \in PlaceOf /\ left.pc = next
    BY <1>1, PcsKnown DEF PlaceOf
  <1>3. /\ locked' = (waiters # <<>>)
        /\ waiters' = IF waiters = <<>> THEN <<>> ELSE Tail(waiters)
    BY DEF Network!Release
  <1>4. /\ \A y \in Network!Process : proc[y].pc \in Inside => y = x
        /\ proc \in [Network!Process -> PlaceOf] /\ waiters \in Seq(WaiterOf)
        /\ \A y \in Network!Process : proc[y].pc \in PcsOf[y.kind]
    BY DEF MutexInv
  <1>5. CASE waiters = <<>>
    <2>1. /\ waiters' = <<>> /\ locked' = FALSE /\ proc' = [proc EXCEPT ![x] = left]
      BY <1>3, <1>5 DEF Network!Release, Network!Step
    <2> HIDE DEF left
    <2>2. /\ proc' \in [Network!Process -> PlaceOf] /\ proc'[x] = left
          /\ \A y \in Network!Process : y # x => proc'[y] = proc[y]
      BY <1>2, <1>4, <2>1
    <2>3. \A y \in Network!Process : proc'[y].pc \notin Inside /\ proc'[y].pc \in PcsOf[y.kind]
      BY <1>2, <1>4, <2>2
    <2>4. /\ Len(waiters') = 0 /\ waiters' \in Seq(WaiterOf) /\ locked' \in BOOLEAN
          /\ \A i \in 1 .. Len(waiters') : FALSE
      <3>1. waiters' \in Seq(WaiterOf) /\ Len(waiters') = 0
        BY <2>1
      <3>2. \A i \in 1 .. 0 : FALSE
        OBVIOUS
      <3>3. QED
        BY <2>1, <3>1, <3>2
    <2>5. MutexInv'
      BY <2>2, <2>3, <2>4 DEF MutexInv, ToDoAt
    <2>6. QED
      BY <2>2, <2>5 DEF left
  <1>6. CASE waiters # <<>>
    <2> DEFINE first == waiters[1]
               in == [pc |-> first.pc, todo |-> first.todo]
               gone == [proc EXCEPT ![x] = left]
    <2>1. /\ Len(waiters) \in Nat /\ 1 \in 1 .. Len(waiters)
      BY <1>4, <1>6
    <2>2. /\ first.who \in Network!Process /\ first \in WaiterOf
          /\ first.pc \in EntriesOf[first.who.kind] /\ first.todo = ToDoAt(first.who, first.pc)
          /\ proc[first.who].pc = "waits"
          /\ \A j \in 1 .. Len(waiters) : first.who = waiters[j].who => j = 1
      BY <2>1, WaitersKnown
    <2>3. first.who # x /\ first.who.kind \in {"start", "delete", "build", "house"}
      BY <2>2, NetworkNames DEF Inside
    <2>4. /\ in \in PlaceOf /\ in.pc = first.pc /\ in.todo = first.todo
          /\ in.pc \in PcsOf[first.who.kind] /\ in.pc \in Inside
      <3>1. in \in PlaceOf
        BY <2>2 DEF WaiterOf, PlaceOf
      <3>2. QED
        BY <2>2, <2>3, <3>1, PcsKnown
    <2>5. proc' = [gone EXCEPT ![first.who] = in]
      <3>1. Head(waiters) = first
        BY <1>4, <1>6
      <3>2. proc' = [gone EXCEPT ![Head(waiters).who] =
                        [pc |-> Head(waiters).pc, todo |-> Head(waiters).todo]]
        BY <1>6 DEF Network!Release, Network!Step
      <3>3. QED
        BY <3>1, <3>2
    <2> HIDE DEF left, in
    <2>6. /\ gone \in [Network!Process -> PlaceOf] /\ gone[x] = left
          /\ \A y \in Network!Process : y # x => gone[y] = proc[y]
      BY <1>2, <1>4
    <2> HIDE DEF gone, first
    <2>7. /\ proc' \in [Network!Process -> PlaceOf] /\ proc'[x] = left /\ proc'[first.who] = in
          /\ \A y \in Network!Process : y # x /\ y # first.who => proc'[y] = proc[y]
      BY <2>2, <2>3, <2>4, <2>5, <2>6
    <2>8. /\ waiters' = Tail(waiters) /\ locked' = TRUE
      BY <1>3, <1>6
    <2>9. /\ waiters' \in Seq(WaiterOf) /\ Len(waiters') = Len(waiters) - 1
          /\ \A i \in 1 .. Len(waiters') : waiters'[i] = waiters[i + 1] /\ i + 1 \in 2 .. Len(waiters)
      BY <1>4, <1>6, <2>1, <2>8
    <2>10. \A y \in Network!Process : proc'[y].pc \in PcsOf[y.kind]
      BY <1>2, <1>4, <2>4, <2>7
    <2>11. \A y \in Network!Process : proc'[y].pc \in Inside => y = first.who
      BY <1>2, <1>4, <2>7
    <2>12. ASSUME NEW i \in 1 .. Len(waiters')
           PROVE  /\ waiters'[i].pc \in EntriesOf[waiters'[i].who.kind]
                  /\ waiters'[i].todo = ToDoAt(waiters'[i].who, waiters'[i].pc)
                  /\ proc'[waiters'[i].who].pc = "waits"
                  /\ \A j \in 1 .. Len(waiters') : waiters'[i].who = waiters'[j].who => i = j
      <3> DEFINE k == i + 1
      <3>1. k \in 2 .. Len(waiters) /\ k \in 1 .. Len(waiters) /\ waiters'[i] = waiters[k] /\ k # 1
        BY <2>1, <2>9
      <3>2. /\ waiters[k].who \in Network!Process
            /\ waiters[k].pc \in EntriesOf[waiters[k].who.kind]
            /\ waiters[k].todo = ToDoAt(waiters[k].who, waiters[k].pc)
            /\ proc[waiters[k].who].pc = "waits"
            /\ \A j \in 1 .. Len(waiters) : waiters[k].who = waiters[j].who => k = j
        BY <3>1, WaitersKnown
      <3>3. waiters[k].who # x /\ waiters[k].who # first.who
        BY <2>2, <3>1, <3>2 DEF Inside
      <3>4. proc'[waiters[k].who] = proc[waiters[k].who]
        BY <2>7, <3>2, <3>3
      <3>5. \A j \in 1 .. Len(waiters') : waiters'[i].who = waiters'[j].who => i = j
        <4>1. SUFFICES ASSUME NEW j \in 1 .. Len(waiters'), waiters'[i].who = waiters'[j].who
                       PROVE  i = j
          OBVIOUS
        <4>2. waiters'[j] = waiters[j + 1] /\ j + 1 \in 1 .. Len(waiters)
          BY <2>1, <2>9
        <4>3. k = j + 1
          BY <3>1, <3>2, <4>1, <4>2
        <4>4. QED
          BY <2>1, <2>9, <4>3
      <3>6. QED
        BY <3>1, <3>2, <3>4, <3>5
    <2>13. locked' \in BOOLEAN
      BY <2>8
    <2>14. MutexInv'
      BY <2>7, <2>8, <2>9, <2>10, <2>11, <2>12, <2>13 DEF MutexInv, ToDoAt
    <2>15. QED
      BY <2>2, <2>4, <2>7, <2>14 DEF left
  <1>7. QED
    BY <1>5, <1>6

-----------------------------------------------------------------------------
(* The networks.                                                           *)

\* One that was waiting is at its place.
Entered(y) ==
    /\ proc[y].pc = "waits"
    /\ proc'[y].pc \in EntriesOf[y.kind] /\ proc'[y].todo = ToDoAt(y, proc'[y].pc)

\* A step of one caller leaves the others what they need.
LEMMA NetworkMoves ==
  ASSUME NetworkInv, NEW x \in Network!Process, MutexInv', NetworksTyped', ProjectsClean', Fits(x)',
         \A y \in Network!Process : y # x => proc'[y] = proc[y] \/ Entered(y),
         \A y \in Network!Process : y # x /\ proc[y].pc # "idle" =>
             /\ y.kind = "start" => status'[y.on] \in {"live", "deleting"}
             /\ y.kind = "delete" =>
                 /\ status'[y.on] = status[y.on]
                 /\ proc[y].pc \in {"waits", "disconnect"} =>
                     (Network!Work \in attached'[y.on] => Network!Work \in attached[y.on])
                 /\ proc[y].pc = "disconnect" => attached'[y.on] \subseteq attached[y.on]
                 /\ y.on \in made' => y.on \in made
  PROVE  NetworkInv'
  <1>1. ASSUME NEW y \in Network!Process, y # x PROVE Fits(y)'
    <2>1. /\ Fits(y) /\ y.kind \in {"start", "delete", "build", "house"}
          /\ proc'[y] = proc[y] \/ Entered(y)
      BY <1>1, NetworkNames DEF NetworkInv
    <2>2. /\ proc[y].pc # "idle" =>
             /\ y.kind = "start" => status'[y.on] \in {"live", "deleting"}
             /\ y.kind = "delete" =>
                 /\ status'[y.on] = status[y.on]
                 /\ proc[y].pc \in {"waits", "disconnect"} =>
                     (Network!Work \in attached'[y.on] => Network!Work \in attached[y.on])
                 /\ proc[y].pc = "disconnect" => attached'[y.on] \subseteq attached[y.on]
                 /\ y.on \in made' => y.on \in made
      BY <1>1
    <2>3. CASE proc'[y] = proc[y]
      BY <2>1, <2>2, <2>3 DEF Fits, Network!Shared
    <2>4. CASE Entered(y)
      <3>1. /\ proc[y].pc = "waits" /\ proc'[y].pc \in Inside
            /\ proc'[y].pc = "disconnect" => proc'[y].todo = Network!Shared(y.on)
            /\ proc'[y].pc \in {"create", "disconnect", "list"}
        BY <2>1, <2>4, PcsKnown DEF Entered, ToDoAt
      <3>2. ASSUME y.kind = "delete"
            PROVE  /\ status'[y.on] = "deleted" /\ Network!Work \notin attached'[y.on]
                   /\ attached'[y.on] \subseteq Network!Shared(y.on)
        <4>1. y.on \in Owner /\ y.on \in Network!Name
          BY <3>2, NetworkNames
        <4>2. Network!Stray \notin attached'[y.on]
          BY <4>1 DEF ProjectsClean
        <4>3. attached'[y.on] \subseteq Network!Shared(y.on) \cup {Network!Work, Network!Stray}
          BY <4>1 DEF NetworksTyped, Network!Shared
        <4>4. status'[y.on] = "deleted" /\ Network!Work \notin attached'[y.on]
          BY <2>1, <2>2, <3>1, <3>2 DEF Fits
        <4>5. QED
          BY <4>2, <4>3, <4>4
      <3>3. y.kind = "start" => status'[y.on] \in {"live", "deleting"}
        BY <2>2, <3>1
      <3>4. QED
        BY <3>1, <3>2, <3>3 DEF Fits, Network!Shared
    <2>5. QED
      BY <2>1, <2>3, <2>4
  <1>2. \A y \in Network!Process : Fits(y)'
    BY <1>1
  <1>3. QED
    BY <1>2 DEF NetworkInv

\* A caller that is at work on its own network.
LEMMA NetworkWorks ==
  ASSUME NetworkInv, NEW x \in Network!Process, MutexInv', NetworksTyped', ProjectsClean', Fits(x)',
         x.kind # "house", proc[x].pc # "idle",
         \A y \in Network!Process : y # x => proc'[y] = proc[y] \/ Entered(y),
         \A n \in Network!Name : n # x.on =>
             attached'[n] = attached[n] /\ (n \in made' <=> n \in made),
         \A p \in Owner : p # x.on => status'[p] = status[p]
  PROVE  NetworkInv'
  <1>1. ASSUME NEW y \in Network!Process, y # x, proc[y].pc # "idle", y.kind \in {"start", "delete"}
        PROVE  /\ status'[y.on] = status[y.on] /\ attached'[y.on] = attached[y.on]
               /\ (y.on \in made' <=> y.on \in made)
    <2>1. y.on # x.on /\ y.on \in Network!Name /\ y.on \in Owner
      BY <1>1, Alone, NetworkNames
    <2>2. QED
      BY <2>1
  <1>2. \A y \in Network!Process : y.kind = "start" /\ proc[y].pc # "idle" =>
            status[y.on] \in {"live", "deleting"}
    BY DEF NetworkInv, Fits
  <1>3. QED
    BY <1>1, <1>2, NetworkMoves

\* What housekeeping and Docker do.
LEMMA NetworkTidies ==
  ASSUME NetworkInv, MutexInv', NetworksTyped', ProjectsClean',
         \A y \in Network!Process : y # Network!House => proc'[y] = proc[y] \/ Entered(y),
         \A p \in Owner : status'[p] # status[p] =>
             status[p] \in {"live", "deleting"} /\ status'[p] \in {"live", "deleting"},
         made' = made,
         \A p \in Owner : /\ Network!Work \in attached'[p] => Network!Work \in attached[p]
                          /\ proc[Network!Delete(p)].pc = "disconnect" =>
                              attached'[p] \subseteq attached[p]
  PROVE  NetworkInv'
  <1>1. Fits(Network!House)'
    <2>1. proc'[Network!House].pc \in PcsOf["house"] /\ Network!House.kind = "house"
      BY NetworkKnown DEF MutexInv
    <2>2. QED
      BY <2>1 DEF Fits, PcsOf
  <1>2. ASSUME NEW y \in Network!Process, proc[y].pc # "idle"
        PROVE  /\ y.kind = "start" => status'[y.on] \in {"live", "deleting"}
               /\ y.kind = "delete" =>
                   /\ status'[y.on] = status[y.on]
                   /\ proc[y].pc \in {"waits", "disconnect"} =>
                       (Network!Work \in attached'[y.on] => Network!Work \in attached[y.on])
                   /\ proc[y].pc = "disconnect" => attached'[y.on] \subseteq attached[y.on]
                   /\ y.on \in made' => y.on \in made
    <2>1. Fits(y)
      BY DEF NetworkInv
    <2>2. y.kind \in {"start", "delete"} => y.on \in Owner /\ y = [kind |-> y.kind, on |-> y.on]
      BY NetworkNames
    <2>3. y.kind = "delete" => y = Network!Delete(y.on)
      BY <2>2 DEF Network!Delete
    <2>4. QED
      BY <1>2, <2>1, <2>2, <2>3 DEF Fits
  <1>3. QED
    BY <1>1, <1>2, NetworkKnown, NetworkMoves

LEMMA MutexKept ==
  ASSUME MutexInv, UNCHANGED proc, UNCHANGED waiters, UNCHANGED locked
  PROVE  MutexInv'
  <1>1. ASSUME NEW i \in 1 .. Len(waiters')
        PROVE  /\ waiters'[i].pc \in EntriesOf[waiters'[i].who.kind]
               /\ waiters'[i].todo = ToDoAt(waiters'[i].who, waiters'[i].pc)
               /\ proc'[waiters'[i].who].pc = "waits"
               /\ \A j \in 1 .. Len(waiters') : waiters'[i].who = waiters'[j].who => i = j
    BY WaitersKnown
  <1>2. QED
    BY <1>1 DEF MutexInv, ToDoAt

LEMMA TypedAttached ==
  ASSUME NetworksTyped, NEW n \in Network!Name,
         NEW S \in SUBSET (Network!Shared(n) \cup {Network!Work, Network!Stray}),
         attached' = [attached EXCEPT ![n] = S], made' \subseteq Network!Name,
         status' \in [Owner -> {"live", "deleting", "deleted", "gone"}],
         troubles' \in 0 .. MaxTroubles
  PROVE  /\ NetworksTyped' /\ attached'[n] = S
         /\ \A k \in Network!Name : k # n => attached'[k] = attached[k]
  <1>1. S \in SUBSET {"gateway", "pgbouncer", "rustfs", "proxy", Network!Work, Network!Stray}
    BY DEF Network!Shared
  <1>2. /\ attached'[n] = S
        /\ \A k \in Network!Name : k # n => attached'[k] = attached[k]
    BY DEF NetworksTyped
  <1>3. attached' \in [Network!Name -> SUBSET {"gateway", "pgbouncer", "rustfs", "proxy",
                                               Network!Work, Network!Stray}]
    BY <1>1 DEF NetworksTyped
  <1>4. \A k \in Network!Name :
          attached'[k] \subseteq Network!Shared(k) \cup {Network!Work, Network!Stray}
    BY <1>2 DEF NetworksTyped
  <1>5. NetworksTyped'
    BY <1>3, <1>4 DEF NetworksTyped, Network!Shared
  <1>6. QED
    BY <1>2, <1>5

LEMMA TypedElse ==
  ASSUME NetworksTyped, UNCHANGED attached, made' \subseteq Network!Name,
         status' \in [Owner -> {"live", "deleting", "deleted", "gone"}],
         troubles' \in 0 .. MaxTroubles
  PROVE  NetworksTyped'
  BY DEF NetworksTyped, Network!Shared

LEMMA NetworkHousekeeping ==
  ASSUME NetworkInv,
         \/ Network!HousekeepingBegins \/ Network!ListNetworks \/ Network!HousekeepingEnds
         \/ \E p \in Owner : Network!Reattach(p)
  PROVE  NetworkInv'
  <1>1. /\ MutexInv /\ NetworksTyped /\ ProjectsClean
        /\ Network!House \in Network!Process /\ Network!House.kind = "house"
        /\ proc \in [Network!Process -> PlaceOf]
    BY NetworkKnown DEF NetworkInv, MutexInv
  <1>2. CASE UNCHANGED <<made, attached, status, troubles>>
    <2>1. NetworksTyped' /\ ProjectsClean'
      BY <1>1, <1>2, TypedElse DEF NetworksTyped, ProjectsClean
    <2>2. MutexInv' /\ \A y \in Network!Process : y # Network!House => proc'[y] = proc[y] \/ Entered(y)
      <3>1. CASE Network!HousekeepingBegins
        <4>1. "list" \in EntriesOf["house"] /\ {} = ToDoAt(Network!House, "list")
          BY DEF EntriesOf, ToDoAt
        <4>2. QED
          BY <1>1, <3>1, <4>1, MutexAcquire DEF Network!HousekeepingBegins, Network!At, Inside
      <3>2. CASE Network!ListNetworks
        <4> DEFINE on == {p \in made \cap Owner : status[p] = "live"}
        <4>1. "reattach" \in PcsOf["house"] /\ on \in SUBSET Things
          BY DEF PcsOf, Things
        <4>2. /\ proc[Network!House].pc = "list" /\ proc' = Network!Step(Network!House, "reattach", on)
              /\ UNCHANGED <<locked, waiters>>
          BY <3>2 DEF Network!ListNetworks, Network!At
        <4> HIDE DEF on
        <4>3. "reattach" \in Inside /\ "list" \in Inside
          BY DEF Inside
        <4>4. QED
          BY <1>1, <4>1, <4>2, <4>3, MutexStays
      <3>3. CASE Network!HousekeepingEnds
        <4>1. "idle" \in PcsOf["house"] /\ "idle" \notin Inside /\ "reattach" \in Inside
          BY DEF PcsOf, Inside
        <4>2. QED
          BY <1>1, <3>3, <4>1, MutexRelease DEF Network!HousekeepingEnds, Network!At, Entered
      <3>4. CASE \E p \in Owner : Network!Reattach(p)
        <4>1. PICK p \in Owner : Network!Reattach(p)
          BY <3>4
        <4> DEFINE left == proc[Network!House].todo \ {p}
        <4>2. /\ proc[Network!House].pc = "reattach"
              /\ proc' = Network!Step(Network!House, "reattach", left)
              /\ UNCHANGED <<locked, waiters>>
          BY <4>1 DEF Network!Reattach, Network!At
        <4>3. left \in SUBSET Things /\ "reattach" \in PcsOf["house"]
          BY <1>1 DEF PlaceOf, PcsOf
        <4> HIDE DEF left
        <4>4. QED
          BY <1>1, <4>2, <4>3, MutexStays
      <3>5. QED
        BY <3>1, <3>2, <3>3, <3>4
    <2>3. QED
      BY <1>2, <2>1, <2>2, NetworkTidies
  <1>3. CASE \E p \in Owner : Network!Reattach(p)
    <2>1. PICK p \in Owner : Network!Reattach(p)
      BY <1>3
    <2> DEFINE left == proc[Network!House].todo \ {p}
    <2>2. /\ proc[Network!House].pc = "reattach"
          /\ proc' = Network!Step(Network!House, "reattach", left)
          /\ UNCHANGED <<made, status, locked, waiters, troubles>>
          /\ attached' = [attached EXCEPT ![p] =
                             IF p \in made THEN attached[p] \cup {"gateway"} ELSE attached[p]]
      BY <2>1 DEF Network!Reattach, Network!At
    <2>3. left \in SUBSET Things /\ "reattach" \in PcsOf["house"]
      BY <1>1 DEF PlaceOf, PcsOf
    <2> HIDE DEF left
    <2>4. /\ MutexInv' /\ \A y \in Network!Process : y # Network!House => proc'[y] = proc[y]
      BY <1>1, <2>2, <2>3, MutexStays
    <2> DEFINE now == IF p \in made THEN attached[p] \cup {"gateway"} ELSE attached[p]
    <2>5. now \in SUBSET (Network!Shared(p) \cup {Network!Work, Network!Stray}) /\ p \in Network!Name
      BY <1>1 DEF NetworksTyped, Network!Shared, Network!Name
    <2>6. /\ \A s : s \in now => s \in attached[p] \/ s = "gateway"
          /\ Network!Work # "gateway" /\ Network!Stray # "gateway"
      BY DEF Network!Work, Network!Stray
    <2>7. attached' = [attached EXCEPT ![p] = now]
      BY <2>2
    <2> HIDE DEF now
    <2>8. NetworksTyped' /\ attached'[p] = now /\ \A k \in Network!Name : k # p => attached'[k] = attached[k]
      BY <1>1, <2>2, <2>5, <2>7, TypedAttached DEF NetworksTyped
    <2>9. \A k \in Owner : k \in Network!Name
      BY DEF Network!Name
    <2>10. ProjectsClean'
      BY <1>1, <2>2, <2>6, <2>8, <2>9 DEF ProjectsClean
    <2>11. ASSUME NEW k \in Owner
           PROVE  /\ Network!Work \in attached'[k] => Network!Work \in attached[k]
                  /\ proc[Network!Delete(k)].pc # "disconnect"
      <3>1. "reattach" \in Inside /\ "disconnect" \in Inside
        BY DEF Inside
      <3>2. Network!Delete(k) \in Network!Process /\ Network!Delete(k) # Network!House
        BY NetworkKnown
      <3>3. QED
        BY <1>1, <2>2, <2>6, <2>8, <2>9, <3>1, <3>2 DEF MutexInv
    <2>12. QED
      BY <2>2, <2>4, <2>8, <2>10, <2>11, NetworkTidies
  <1>4. QED
    BY <1>2, <1>3 DEF Network!HousekeepingBegins, Network!ListNetworks, Network!HousekeepingEnds

LEMMA NetworkAround ==
  ASSUME NetworkInv,
         \/ \E p \in Owner : Network!StopContainer(p) \/ Network!AskToDelete(p) \/ Network!Restore(p)
         \/ \E b \in Request : Network!Exits(b)
         \/ Network!GatewayRecreated
  PROVE  NetworkInv'
  <1>1. /\ MutexInv /\ NetworksTyped /\ ProjectsClean
    BY DEF NetworkInv
  <1>2. UNCHANGED <<made, locked, waiters, proc>>
    BY DEF Network!StopContainer, Network!AskToDelete, Network!Restore, Network!Exits,
       Network!GatewayRecreated
  <1>3. MutexInv'
    BY <1>1, <1>2, MutexKept
  <1>4. /\ \A p \in Owner : p \in Network!Name
        /\ \A b \in Request : b \in Network!Name
    BY DEF Network!Name
  <1>5. /\ \A n \in Network!Name : attached'[n] \in SUBSET attached[n]
        /\ NetworksTyped'
    <2>1. CASE \E p \in Owner : Network!StopContainer(p)
      <3>1. PICK p \in Owner : Network!StopContainer(p)
        BY <2>1
      <3> DEFINE rest == attached[p] \ {Network!Work}
      <3>2. /\ attached' = [attached EXCEPT ![p] = rest] /\ UNCHANGED <<status, troubles>>
            /\ rest \in SUBSET (Network!Shared(p) \cup {Network!Work, Network!Stray})
            /\ rest \subseteq attached[p]
        BY <1>1, <1>4, <3>1 DEF Network!StopContainer, NetworksTyped
      <3> HIDE DEF rest
      <3>3. QED
        BY <1>1, <1>2, <1>4, <3>2, TypedAttached DEF NetworksTyped
    <2>2. CASE \E b \in Request : Network!Exits(b)
      <3>1. PICK b \in Request : Network!Exits(b)
        BY <2>2
      <3> DEFINE rest == attached[b] \ {Network!Stray}
      <3>2. /\ attached' = [attached EXCEPT ![b] = rest] /\ UNCHANGED <<status, troubles>>
            /\ rest \in SUBSET (Network!Shared(b) \cup {Network!Work, Network!Stray})
            /\ rest \subseteq attached[b]
        BY <1>1, <1>4, <3>1 DEF Network!Exits, NetworksTyped
      <3> HIDE DEF rest
      <3>3. QED
        BY <1>1, <1>2, <1>4, <3>2, TypedAttached DEF NetworksTyped
    <2>3. CASE Network!GatewayRecreated
      <3>1. /\ attached' = [n \in Network!Name |-> attached[n] \ {"gateway"}] /\ UNCHANGED status
            /\ troubles < MaxTroubles /\ troubles' = troubles + 1
        BY <2>3 DEF Network!GatewayRecreated, Network!Trouble
      <3>2. troubles' \in 0 .. MaxTroubles
        BY <1>1, <3>1, BoundsAssumption DEF NetworksTyped
      <3>3. QED
        BY <1>1, <1>2, <3>1, <3>2 DEF NetworksTyped, Network!Shared
    <2>4. CASE \E p \in Owner : Network!AskToDelete(p) \/ Network!Restore(p)
      BY <1>1, <1>2, <2>4, TypedElse DEF Network!AskToDelete, Network!Restore, NetworksTyped
    <2>5. QED
      BY <2>1, <2>2, <2>3, <2>4
  <1>6. \A p \in Owner : status'[p] # status[p] =>
            status[p] \in {"live", "deleting"} /\ status'[p] \in {"live", "deleting"}
    <2>1. CASE \E p \in Owner : Network!AskToDelete(p) \/ Network!Restore(p)
      BY <1>1, <2>1 DEF Network!AskToDelete, Network!Restore, NetworksTyped
    <2>2. CASE UNCHANGED status
      BY <2>2
    <2>3. QED
      BY <2>1, <2>2 DEF Network!StopContainer, Network!Exits, Network!GatewayRecreated
  <1>7. ProjectsClean'
    BY <1>1, <1>2, <1>4, <1>5, <1>6 DEF ProjectsClean
  <1>8. QED
    BY <1>2, <1>3, <1>4, <1>5, <1>6, <1>7, NetworkTidies

\* A caller that attaches or detaches on its own network, under the mutex.
LEMMA NetworkConnects ==
  ASSUME NetworkInv, NEW x \in Network!Process, NEW c \in proc[x].todo,
         Network!Connect(x, c) \/ Network!Disconnect(x, c)
  PROVE  NetworkInv'
  <1> DEFINE left == proc[x].todo \ {c}
             pc == proc[x].pc
  <1>1. /\ MutexInv /\ NetworksTyped /\ ProjectsClean /\ Fits(x)
        /\ x.kind \in {"start", "delete", "build", "house"} /\ proc[x] \in PlaceOf
        /\ pc \in PcsOf[x.kind]
    BY NetworkNames DEF NetworkInv, MutexInv
  <1>2. /\ proc' = Network!Step(x, pc, left) /\ UNCHANGED <<made, status, locked, waiters, troubles>>
        /\ pc \in {"connect", "disconnect"} /\ pc # "waits"
    BY <1>1, PcsKnown DEF Network!Connect, Network!Disconnect, Network!At
  <1>3. x.kind # "house"
    BY <1>1, <1>2 DEF PcsOf
  <1>4. left \in SUBSET Things /\ c \in Network!Shared(x.on) /\ left \subseteq Network!Shared(x.on)
    BY <1>1, <1>2 DEF PlaceOf, Fits
  <1>5. MutexInv' /\ proc'[x].pc = pc /\ proc'[x].todo = left
        /\ \A y \in Network!Process : y # x => proc'[y] = proc[y]
    <2>1. pc = proc[x].pc
      OBVIOUS
    <2> HIDE DEF left, pc
    <2>2. MutexInv' /\ proc'[x] = [pc |-> pc, todo |-> left]
          /\ \A y \in Network!Process : y # x => proc'[y] = proc[y]
      BY <1>1, <1>2, <1>4, <2>1, MutexStays
    <2>3. QED
      BY <2>2
  <1>6. x.on \in Network!Name
    BY <1>3, NetworkNames
  <1>7. PICK S \in SUBSET (Network!Shared(x.on) \cup {Network!Work, Network!Stray}) :
        /\ attached' = [attached EXCEPT ![x.on] = S]
        /\ \/ S = attached[x.on] \cup {c} /\ pc = "connect"
           \/ S = attached[x.on] \ {c} /\ pc # "connect"
    <2>1. CASE Network!Connect(x, c)
      <3>1. attached[x.on] \cup {c} \in SUBSET (Network!Shared(x.on) \cup {Network!Work, Network!Stray})
        BY <1>1, <1>4, <1>6 DEF NetworksTyped
      <3>2. QED
        BY <2>1, <3>1 DEF Network!Connect, Network!At
    <2>2. CASE Network!Disconnect(x, c)
      <3>1. attached[x.on] \ {c} \in SUBSET (Network!Shared(x.on) \cup {Network!Work, Network!Stray})
        BY <1>1, <1>6 DEF NetworksTyped
      <3>2. QED
        BY <2>2, <3>1 DEF Network!Disconnect
    <2>3. QED
      BY <2>1, <2>2
  <1>8. /\ NetworksTyped' /\ attached'[x.on] = S
        /\ \A k \in Network!Name : k # x.on => attached'[k] = attached[k]
    BY <1>1, <1>2, <1>6, <1>7, TypedAttached DEF NetworksTyped
  <1>9. /\ Network!Work # c /\ Network!Stray # c
    BY <1>4, ThingsShared
  <1>10. ProjectsClean'
    <2>1. \A p \in Owner : p \in Network!Name
      BY DEF Network!Name
    <2>2. QED
      BY <1>1, <1>2, <1>7, <1>8, <1>9, <2>1 DEF ProjectsClean
  <1>11. Fits(x)'
    <2>1. CASE x.kind = "delete"
      <3>1. pc = "disconnect"
        BY <1>1, <1>2, <2>1 DEF PcsOf
      <3>2. S \subseteq left /\ Network!Work \notin S
        BY <1>1, <1>7, <2>1, <3>1 DEF Fits
      <3>3. QED
        BY <1>1, <1>2, <1>4, <1>5, <1>8, <2>1, <3>1, <3>2 DEF Fits, Network!Shared
    <2>2. CASE x.kind # "delete"
      BY <1>1, <1>2, <1>4, <1>5, <2>2 DEF Fits, Network!Shared
    <2>3. QED
      BY <2>1, <2>2
  <1>12. QED
    BY <1>2, <1>3, <1>5, <1>8, <1>10, <1>11, NetworkWorks

LEMMA NetworkCreates ==
  ASSUME NetworkInv, NEW x \in Network!Process, Network!Create(x)
  PROVE  NetworkInv'
  <1>1. /\ MutexInv /\ NetworksTyped /\ ProjectsClean /\ Fits(x) /\ proc[x].pc = "create"
        /\ proc[x].pc \in PcsOf[x.kind] /\ x.kind \in {"start", "delete", "build", "house"}
    BY NetworkNames DEF NetworkInv, MutexInv, Network!Create, Network!At
  <1>2. x.kind \in {"start", "build"} /\ "connect" \in PcsOf[x.kind]
    BY <1>1 DEF PcsOf
  <1>3. /\ made' = made \cup {x.on} /\ proc' = Network!Step(x, "connect", Network!Shared(x.on))
        /\ UNCHANGED <<attached, status, locked, waiters, troubles>>
    BY DEF Network!Create
  <1>4. x.on \in Network!Name /\ Network!Shared(x.on) \in SUBSET Things
    BY <1>2, NetworkNames, ThingsShared
  <1>5. "connect" \in Inside /\ "create" \in Inside
    BY DEF Inside
  <1>6. /\ MutexInv' /\ proc'[x] = [pc |-> "connect", todo |-> Network!Shared(x.on)]
        /\ \A y \in Network!Process : y # x => proc'[y] = proc[y]
    BY <1>1, <1>2, <1>3, <1>4, <1>5, MutexStays
  <1>7. made' \subseteq Network!Name
    BY <1>1, <1>3, <1>4 DEF NetworksTyped
  <1>8. NetworksTyped'
    BY <1>1, <1>3, <1>7, TypedElse DEF NetworksTyped
  <1>9. \A p \in Owner : status[p] = "gone" => p # x.on
    BY <1>1, <1>2, NetworkNames DEF Fits
  <1>10. ProjectsClean'
    BY <1>1, <1>3, <1>9 DEF ProjectsClean
  <1>11. Fits(x)'
    BY <1>1, <1>2, <1>3, <1>6 DEF Fits, Network!Shared
  <1>12. QED
    BY <1>1, <1>2, <1>3, <1>6, <1>8, <1>10, <1>11, NetworkWorks

\* A caller that leaves the mutex: what it comes to fits, as nothing but `made` changes.
LEMMA NetworkLeaves ==
  ASSUME NetworkInv, NEW x \in Network!Process, proc[x].pc \in Inside,
         NEW next \in PcsOf[x.kind] \cap {"idle", "run", "row", "done"},
         Network!Release(x, next), UNCHANGED attached, UNCHANGED status,
         made' = made \/ made' = made \ {x.on},
         made' # made => x.kind # "house",
         next = "row" => x.on \notin made', troubles' \in 0 .. MaxTroubles
  PROVE  NetworkInv'
  <1>1. /\ MutexInv /\ NetworksTyped /\ ProjectsClean /\ Fits(x)
        /\ x.kind \in {"start", "delete", "build", "house"} /\ proc[x].pc \in PcsOf[x.kind]
        /\ "idle" \notin Inside /\ "waits" \notin Inside
    BY NetworkNames DEF NetworkInv, MutexInv, Inside
  <1>2. next \notin Inside \cup {"waits"}
    BY DEF Inside
  <1>3. /\ MutexInv' /\ proc'[x] = [pc |-> next, todo |-> {}]
        /\ \A y \in Network!Process : y # x => proc'[y] = proc[y] \/ Entered(y)
    BY <1>1, <1>2, MutexRelease DEF Entered
  <1>4. made' \subseteq made /\ \A n : n # x.on => (n \in made' <=> n \in made)
    OBVIOUS
  <1>5. NetworksTyped' /\ ProjectsClean'
    <2>1. made' \subseteq Network!Name
      BY <1>1, <1>4 DEF NetworksTyped
    <2>2. QED
      BY <1>1, <1>4, <2>1, TypedElse DEF NetworksTyped, ProjectsClean
  <1>6. Fits(x)'
    BY <1>1, <1>3 DEF Fits
  <1>7. CASE x.kind # "house"
    BY <1>1, <1>3, <1>4, <1>5, <1>6, <1>7, NetworkWorks
  <1>8. CASE x.kind = "house"
    BY <1>3, <1>5, <1>8, NetworkNames, NetworkTidies
  <1>9. QED
    BY <1>7, <1>8

\* A purge never finds a container on the network it takes apart.
LEMMA NetworkEnds ==
  ASSUME NetworkInv, NEW x \in Network!Process,
         \/ Network!NoRoom(x) \/ Network!Connected(x) \/ Network!RemoveNetwork(x)
         \/ Network!ActiveEndpoints(x) \/ Network!Fails(x)
  PROVE  NetworkInv'
  <1>1. /\ MutexInv /\ NetworksTyped /\ Fits(x)
        /\ x.kind \in {"start", "delete", "build", "house"} /\ proc[x].pc \in PcsOf[x.kind]
    BY NetworkNames DEF NetworkInv, MutexInv
  <1>2. proc[x].pc # "again"
    BY <1>1, PcsKnown
  <1>3. {"create", "connect", "disconnect", "list"} \subseteq Inside
    BY DEF Inside
  <1>4. (IF x.kind = "build" THEN "done" ELSE "idle") \in PcsOf[x.kind] \cap {"idle", "run", "row", "done"}
    BY <1>1 DEF PcsOf
  <1>5. CASE Network!NoRoom(x)
    BY <1>1, <1>3, <1>4, <1>5, NetworkLeaves DEF Network!NoRoom, Network!At, NetworksTyped
  <1>6. CASE Network!Connected(x)
    <2>1. "run" \in PcsOf[x.kind] \cap {"idle", "run", "row", "done"}
      BY <1>1, <1>6 DEF PcsOf, Network!Connected, Network!At
    <2>2. QED
      BY <1>1, <1>3, <1>6, <2>1, NetworkLeaves DEF Network!Connected, Network!At, NetworksTyped
  <1>7. CASE Network!RemoveNetwork(x)
    <2>1. proc[x].pc = "disconnect" /\ x.kind \in {"delete", "build"}
      BY <1>1, <1>2, <1>7 DEF Network!RemoveNetwork, Network!Disconnected, PcsOf
    <2>2. (IF x.kind = "build" THEN "done" ELSE "row") \in PcsOf[x.kind] \cap {"idle", "run", "row", "done"}
      BY <2>1 DEF PcsOf
    <2>3. x.on \notin made' /\ made' = made \ {x.on} /\ UNCHANGED <<attached, status, troubles>>
          /\ Network!Release(x, IF x.kind = "build" THEN "done" ELSE "row")
      BY <1>7 DEF Network!RemoveNetwork
    <2>4. QED
      BY <1>1, <1>3, <2>1, <2>2, <2>3, NetworkLeaves DEF NetworksTyped
  <1>8. CASE Network!ActiveEndpoints(x)
    <2>1. proc[x].pc = "disconnect" /\ proc[x].todo = {} /\ attached[x.on] # {}
      BY <1>2, <1>8 DEF Network!ActiveEndpoints, Network!Disconnected
    <2>2. x.kind # "delete"
      BY <1>1, <2>1 DEF Fits
    <2>3. QED
      BY <1>1, <1>3, <1>4, <1>8, <2>1, <2>2, NetworkLeaves DEF Network!ActiveEndpoints, NetworksTyped
  <1>9. CASE Network!Fails(x)
    <2>1. /\ proc[x].pc \in Inside /\ UNCHANGED <<made, attached, status>>
          /\ troubles < MaxTroubles /\ troubles' = troubles + 1
          /\ Network!Release(x, IF x.kind = "build" THEN "done" ELSE "idle")
      BY <1>2, <1>3, <1>9 DEF Network!Fails, Network!Trouble
    <2>2. troubles' \in 0 .. MaxTroubles
      BY <1>1, <2>1, BoundsAssumption DEF NetworksTyped
    <2>3. QED
      BY <1>4, <2>1, <2>2, NetworkLeaves
  <1>10. QED
    BY <1>5, <1>6, <1>7, <1>8, <1>9

LEMMA NetworkRuns ==
  ASSUME NetworkInv, NEW x \in Network!Process, Network!RunContainer(x)
  PROVE  NetworkInv'
  <1> DEFINE pc == IF x.kind = "build" THEN "built" ELSE "idle"
  <1>1. /\ MutexInv /\ NetworksTyped /\ ProjectsClean /\ Fits(x) /\ proc[x].pc = "run"
        /\ proc[x].pc \in PcsOf[x.kind] /\ x.kind \in {"start", "delete", "build", "house"}
    BY NetworkNames DEF NetworkInv, MutexInv, Network!RunContainer, Network!At
  <1>2. x.kind \in {"start", "build"} /\ pc \in PcsOf[x.kind] /\ pc \in {"built", "idle"}
    BY <1>1 DEF PcsOf
  <1>3. /\ proc' = Network!Step(x, pc, {}) /\ UNCHANGED <<made, status, locked, waiters, troubles>>
        /\ attached' \in {attached, [attached EXCEPT ![x.on] = attached[x.on] \cup {Network!Work}]}
    BY DEF Network!RunContainer
  <1>4. pc \notin Inside /\ "run" \notin Inside /\ pc # "waits"
    BY <1>2 DEF Inside
  <1> HIDE DEF pc
  <1>5. /\ MutexInv' /\ proc'[x] = [pc |-> pc, todo |-> {}]
        /\ \A y \in Network!Process : y # x => proc'[y] = proc[y]
    <2>1. {} \in SUBSET Things
      OBVIOUS
    <2>2. QED
      BY <1>1, <1>2, <1>3, <1>4, <2>1, MutexStays
  <1>6. x.on \in Network!Name
    BY <1>2, NetworkNames
  <1>7. PICK S \in SUBSET (Network!Shared(x.on) \cup {Network!Work, Network!Stray}) :
          /\ attached' = [attached EXCEPT ![x.on] = S]
          /\ S \subseteq attached[x.on] \cup {Network!Work}
    <2>1. attached[x.on] \cup {Network!Work} \in SUBSET (Network!Shared(x.on) \cup {Network!Work, Network!Stray})
      BY <1>1, <1>6 DEF NetworksTyped
    <2>2. attached = [attached EXCEPT ![x.on] = attached[x.on]]
      BY <1>1, <1>6 DEF NetworksTyped
    <2>3. CASE attached' = attached
      BY <2>1, <2>2, <2>3
    <2>4. CASE attached' # attached
      BY <1>3, <2>1, <2>4
    <2>5. QED
      BY <2>3, <2>4
  <1>8. /\ NetworksTyped' /\ attached'[x.on] = S
        /\ \A k \in Network!Name : k # x.on => attached'[k] = attached[k]
    BY <1>1, <1>3, <1>6, <1>7, TypedAttached DEF NetworksTyped
  <1>9. ProjectsClean'
    <2>1. \A p \in Owner : p \in Network!Name
      BY DEF Network!Name
    <2>2. Network!Work # Network!Stray
      BY DEF Network!Work, Network!Stray
    <2>3. QED
      BY <1>1, <1>3, <1>7, <1>8, <2>1, <2>2 DEF ProjectsClean
  <1>10. Fits(x)'
    BY <1>1, <1>2, <1>3, <1>5 DEF Fits, Network!Shared
  <1>11. QED
    BY <1>1, <1>2, <1>3, <1>5, <1>8, <1>9, <1>10, NetworkWorks

LEMMA NetworkRemoves ==
  ASSUME NetworkInv, NEW x \in Network!Process, Network!RemoveContainers(x)
  PROVE  NetworkInv'
  <1> DEFINE rest == attached[x.on] \ {Network!Work}
             todo == Network!Shared(x.on)
  <1>1. /\ MutexInv /\ NetworksTyped /\ ProjectsClean /\ Fits(x)
        /\ proc[x].pc \in {"containers", "built"}
        /\ proc[x].pc \in PcsOf[x.kind] /\ x.kind \in {"start", "delete", "build", "house"}
    BY NetworkNames DEF NetworkInv, MutexInv, Network!RemoveContainers, Network!At
  <1>2. x.kind \in {"delete", "build"} /\ "disconnect" \in EntriesOf[x.kind]
    BY <1>1 DEF PcsOf, EntriesOf
  <1>3. /\ attached' = [attached EXCEPT ![x.on] = rest] /\ UNCHANGED <<made, status, troubles>>
        /\ Network!Acquire(x, "disconnect", todo)
    BY DEF Network!RemoveContainers
  <1>4. todo = ToDoAt(x, "disconnect") /\ proc[x].pc \notin Inside \cup {"waits"}
    BY <1>1 DEF ToDoAt, Inside
  <1>5. x.on \in Network!Name /\ rest \in SUBSET (Network!Shared(x.on) \cup {Network!Work, Network!Stray})
    BY <1>1, <1>2, NetworkNames DEF NetworksTyped
  <1> HIDE DEF todo, rest
  <1>6. /\ MutexInv'
        /\ proc'[x] \in {[pc |-> "waits", todo |-> {}], [pc |-> "disconnect", todo |-> todo]}
        /\ \A y \in Network!Process : y # x => proc'[y] = proc[y]
    BY <1>1, <1>2, <1>3, <1>4, MutexAcquire
  <1>7. /\ NetworksTyped' /\ attached'[x.on] = rest
        /\ \A k \in Network!Name : k # x.on => attached'[k] = attached[k]
    BY <1>1, <1>3, <1>5, TypedAttached DEF NetworksTyped
  <1>8. ProjectsClean'
    <2>1. \A p \in Owner : p \in Network!Name
      BY DEF Network!Name
    <2>2. QED
      BY <1>1, <1>3, <1>7, <2>1 DEF ProjectsClean, rest
  <1>9. Fits(x)'
    <2>1. Network!Work \notin rest
      BY DEF rest
    <2>2. CASE x.kind = "delete"
      <3>1. x.on \in Owner /\ Network!Stray \notin rest
        BY <1>1, <2>2, NetworkNames DEF ProjectsClean, rest
      <3>2. rest \subseteq todo /\ todo \subseteq Network!Shared(x.on)
        BY <1>5, <2>1, <3>1 DEF todo
      <3>3. status'[x.on] = "deleted"
        BY <1>1, <1>3, <2>2 DEF Fits
      <3>4. QED
        BY <1>6, <1>7, <2>1, <2>2, <3>2, <3>3, NetworkNames DEF Fits, Network!Shared
    <2>3. CASE x.kind = "build"
      BY <1>6, <2>3 DEF Fits, todo, Network!Shared
    <2>4. QED
      BY <1>2, <2>2, <2>3
  <1>10. QED
    BY <1>1, <1>2, <1>3, <1>6, <1>7, <1>8, <1>9, NetworkWorks

LEMMA NetworkRows ==
  ASSUME NetworkInv, NEW p \in Owner, Network!RemoveRow(p)
  PROVE  NetworkInv'
  <1> DEFINE x == Network!Delete(p)
  <1>1. /\ x \in Network!Process /\ x.kind = "delete" /\ x.on = p
        /\ MutexInv /\ NetworksTyped /\ ProjectsClean
    BY NetworkKnown DEF NetworkInv
  <1>2. /\ proc[x].pc = "row" /\ proc' = Network!Step(x, "idle", {})
        /\ status' = [status EXCEPT ![p] = "gone"]
        /\ UNCHANGED <<made, attached, locked, waiters, troubles>>
    BY DEF Network!RemoveRow, Network!At
  <1> HIDE DEF x
  <1>3. p \notin made
    BY <1>1, <1>2 DEF NetworkInv, Fits
  <1>4. "idle" \in PcsOf[x.kind] /\ "idle" \notin Inside /\ "row" \notin Inside
    BY <1>1 DEF PcsOf, Inside
  <1>5. /\ MutexInv' /\ proc'[x] = [pc |-> "idle", todo |-> {}]
        /\ \A y \in Network!Process : y # x => proc'[y] = proc[y]
    <2>1. {} \in SUBSET Things
      OBVIOUS
    <2>2. QED
      BY <1>1, <1>2, <1>4, <2>1, MutexStays
  <1>6. NetworksTyped'
    <2>1. status' \in [Owner -> {"live", "deleting", "deleted", "gone"}]
      BY <1>1, <1>2 DEF NetworksTyped
    <2>2. QED
      BY <1>1, <1>2, <2>1, TypedElse DEF NetworksTyped
  <1>7. ProjectsClean'
    BY <1>1, <1>2, <1>3 DEF ProjectsClean, NetworksTyped
  <1>8. Fits(x)'
    BY <1>5 DEF Fits
  <1>9. \A q \in Owner : q # x.on => status'[q] = status[q]
    BY <1>1, <1>2 DEF NetworksTyped
  <1>10. QED
    BY <1>1, <1>2, <1>5, <1>6, <1>7, <1>8, <1>9, NetworkWorks

LEMMA NetworkClaims ==
  ASSUME NetworkInv, NEW x \in Network!Process, Network!Claim(x)
  PROVE  NetworkInv'
  <1>1. /\ MutexInv /\ NetworksTyped /\ ProjectsClean /\ proc[x].pc = "idle"
        /\ x.kind \in {"start", "delete", "build", "house"} /\ "idle" \notin Inside
        /\ UNCHANGED <<made, attached, troubles>>
    BY NetworkNames DEF NetworkInv, Network!Claim, Network!At, Inside
  <1>2. CASE x.kind = "delete"
    <2>1. /\ status[x.on] \in {"deleting", "deleted"} /\ proc[Network!Start(x.on)].pc = "idle"
          /\ status' = [status EXCEPT ![x.on] = "deleted"]
          /\ proc' = Network!Step(x, "containers", {}) /\ UNCHANGED <<locked, waiters>>
      BY <1>2 DEF Network!Claim, Network!At
    <2>2. x.on \in Owner /\ "containers" \in PcsOf[x.kind] /\ "containers" \notin Inside
      BY <1>2, NetworkNames DEF PcsOf, Inside
    <2>3. /\ MutexInv' /\ proc'[x] = [pc |-> "containers", todo |-> {}]
          /\ \A y \in Network!Process : y # x => proc'[y] = proc[y]
      <3>1. {} \in SUBSET Things
        OBVIOUS
      <3>2. QED
        BY <1>1, <2>1, <2>2, <3>1, MutexStays
    <2>4. /\ status' \in [Owner -> {"live", "deleting", "deleted", "gone"}]
          /\ status'[x.on] = "deleted" /\ \A p \in Owner : p # x.on => status'[p] = status[p]
      BY <1>1, <2>1, <2>2 DEF NetworksTyped
    <2>5. NetworksTyped' /\ ProjectsClean'
      BY <1>1, <2>4, TypedElse DEF NetworksTyped, ProjectsClean
    <2>6. Fits(x)'
      BY <1>2, <2>3, <2>4 DEF Fits
    <2>7. ASSUME NEW y \in Network!Process, y # x, y.kind \in {"start", "delete"}, proc[y].pc # "idle"
          PROVE  status'[y.on] = status[y.on] \/ (status'[y.on] = "deleted" /\ y.kind = "delete")
      <3>1. y.on \in Owner /\ y = [kind |-> y.kind, on |-> y.on]
        BY <2>7, NetworkNames
      <3>2. CASE y.on # x.on
        BY <2>4, <3>1, <3>2
      <3>3. CASE y.on = x.on /\ y.kind = "start"
        BY <2>1, <2>7, <3>1, <3>3 DEF Network!Start
      <3>4. CASE y.on = x.on /\ y.kind = "delete"
        BY <2>4, <3>4
      <3>5. QED
        BY <2>7, <3>2, <3>3, <3>4
    <2>8. \A y \in Network!Process : Fits(y)
      BY DEF NetworkInv
    <2>9. ASSUME NEW y \in Network!Process, y # x, proc[y].pc # "idle"
          PROVE  /\ y.kind = "start" => status'[y.on] \in {"live", "deleting"}
                 /\ y.kind = "delete" => status'[y.on] = status[y.on]
      BY <2>7, <2>8, <2>9 DEF Fits
    <2>10. QED
      BY <1>1, <2>3, <2>5, <2>6, <2>9, NetworkMoves
  <1>3. CASE x.kind \in {"start", "build"}
    <2>1. /\ x.kind = "start" => status[x.on] = "live"
          /\ Network!Acquire(x, "create", {}) /\ UNCHANGED status
      BY <1>3 DEF Network!Claim
    <2>2. "create" \in EntriesOf[x.kind] /\ {} = ToDoAt(x, "create") /\ proc[x].pc \notin Inside \cup {"waits"}
      BY <1>1, <1>3 DEF EntriesOf, ToDoAt
    <2>3. /\ MutexInv'
          /\ proc'[x] \in {[pc |-> "waits", todo |-> {}], [pc |-> "create", todo |-> {}]}
          /\ \A y \in Network!Process : y # x => proc'[y] = proc[y]
      BY <1>1, <2>1, <2>2, MutexAcquire
    <2>4. NetworksTyped' /\ ProjectsClean'
      BY <1>1, <2>1, TypedElse DEF NetworksTyped, ProjectsClean
    <2>5. Fits(x)'
      BY <1>3, <2>1, <2>3 DEF Fits
    <2>6. \A y \in Network!Process : y.kind = "start" /\ proc[y].pc # "idle" =>
              status[y.on] \in {"live", "deleting"}
      BY DEF NetworkInv, Fits
    <2>7. QED
      BY <1>1, <2>1, <2>3, <2>4, <2>5, <2>6, NetworkMoves
  <1>4. CASE x.kind = "house"
    BY <1>4 DEF Network!Claim
  <1>5. QED
    BY <1>1, <1>2, <1>3, <1>4

LEMMA NetworkCrashes ==
  ASSUME NetworkInv, Network!Crash
  PROVE  NetworkInv'
  <1>1. MutexInv /\ NetworksTyped /\ ProjectsClean /\ \A y \in Network!Process : Fits(y)
    BY DEF NetworkInv
  <1>2. /\ locked' = FALSE /\ waiters' = <<>> /\ UNCHANGED <<made, status>>
        /\ proc' = [x \in Network!Process |-> IF proc[x].pc = "done" THEN proc[x] ELSE Network!Quiet]
        /\ troubles < MaxTroubles /\ troubles' = troubles + 1
        /\ attached' = [n \in Network!Name |->
               IF n \in Request /\ Network!Work \in attached[n]
               THEN (attached[n] \ {Network!Work}) \cup {Network!Stray} ELSE attached[n]]
    BY DEF Network!Crash, Network!Trouble, Network!At
  <1>3. Network!Quiet \in PlaceOf /\ Network!Quiet.pc = "idle"
    BY DEF Network!Quiet, PlaceOf, Network!Pc
  <1>4. \A x \in Network!Process :
          proc'[x] = Network!Quiet \/ (proc'[x] = proc[x] /\ proc[x].pc = "done")
    BY <1>2
  <1>5. MutexInv'
    <2>1. proc' \in [Network!Process -> PlaceOf]
      BY <1>1, <1>2, <1>3 DEF MutexInv
    <2>2. /\ waiters' \in Seq(WaiterOf) /\ Len(waiters') = 0 /\ locked' \in BOOLEAN
      <3>1. waiters' \in Seq(WaiterOf) /\ Len(waiters') = 0
        BY <1>2
      <3>2. locked' \in BOOLEAN
        BY <1>2
      <3>3. QED
        BY <3>1, <3>2
    <2>3. \A i \in 1 .. 0 : FALSE
      OBVIOUS
    <2>4. ASSUME NEW x \in Network!Process
          PROVE  proc'[x].pc \in PcsOf[x.kind] /\ proc'[x].pc \notin Inside
      <3>1. x.kind \in {"start", "delete", "build", "house"} /\ "done" \notin Inside /\ "idle" \notin Inside
        BY NetworkNames DEF Inside
      <3>2. QED
        BY <1>1, <1>3, <1>4, <3>1, PcsKnown DEF MutexInv
    <2>5. QED
      BY <2>1, <2>2, <2>3, <2>4 DEF MutexInv, ToDoAt
  <1>6. NetworksTyped'
    <2>1. troubles' \in 0 .. MaxTroubles
      BY <1>1, <1>2, BoundsAssumption DEF NetworksTyped
    <2>2. QED
      BY <1>1, <1>2, <2>1 DEF NetworksTyped, Network!Shared
  <1>7. ProjectsClean'
    <2>1. \A p \in Owner : p \in Network!Name /\ p \notin Request
      BY NamesAssumption DEF Network!Name
    <2>2. QED
      BY <1>1, <1>2, <2>1 DEF ProjectsClean
  <1>8. ASSUME NEW x \in Network!Process PROVE Fits(x)'
    <2>1. CASE proc'[x] = Network!Quiet
      BY <1>3, <2>1 DEF Fits
    <2>2. CASE proc'[x] = proc[x] /\ proc[x].pc = "done"
      <3>1. x.kind = "build"
        <4>1. proc[x].pc \in PcsOf[x.kind] /\ x.kind \in {"start", "delete", "build", "house"}
          BY <1>1, NetworkNames DEF MutexInv
        <4>2. QED
          BY <2>2, <4>1 DEF PcsOf
      <3>2. QED
        BY <2>2, <3>1 DEF Fits
    <2>3. QED
      BY <1>4, <2>1, <2>2
  <1>9. QED
    BY <1>5, <1>6, <1>7, <1>8 DEF NetworkInv

LEMMA NetworkUnchanged == NetworkInv /\ UNCHANGED network => NetworkInv'
  <1>1. SUFFICES ASSUME NetworkInv, UNCHANGED network PROVE NetworkInv'
    OBVIOUS
  <1>2. UNCHANGED <<made, attached, status, locked, waiters, proc, troubles>>
    BY <1>1 DEF network
  <1>3. MutexInv'
    BY <1>1, <1>2, MutexKept DEF NetworkInv
  <1>4. NetworksTyped' /\ ProjectsClean'
    BY <1>1, <1>2, TypedElse DEF NetworkInv, NetworksTyped, ProjectsClean
  <1>5. QED
    BY <1>1, <1>2, <1>3, <1>4, NetworkTidies

LEMMA NetworkStep == NetworkInv /\ NetworkNext => NetworkInv'
  <1>1. SUFFICES ASSUME NetworkInv, NetworkNext PROVE NetworkInv'
    OBVIOUS
  <1>2. CASE \E x \in Network!Process :
              \/ InNetwork(Network!Claim(x)) \/ InNetwork(Network!Create(x))
              \/ InNetwork(Network!NoRoom(x)) \/ InNetwork(Network!Connected(x))
              \/ InNetwork(Network!RunContainer(x)) \/ InNetwork(Network!RemoveContainers(x))
              \/ InNetwork(Network!RemoveNetwork(x)) \/ InNetwork(Network!ActiveEndpoints(x))
              \/ InNetwork(Network!Fails(x))
              \/ \E c \in proc[x].todo :
                  InNetwork(Network!Connect(x, c)) \/ InNetwork(Network!Disconnect(x, c))
    BY <1>1, <1>2, NetworkClaims, NetworkCreates, NetworkEnds, NetworkRuns, NetworkRemoves,
       NetworkConnects DEF InNetwork
  <1>3. CASE \E p \in Owner :
              \/ InNetwork(Network!StopContainer(p)) \/ InNetwork(Network!RemoveRow(p))
              \/ InNetwork(Network!AskToDelete(p)) \/ InNetwork(Network!Restore(p))
              \/ InNetwork(Network!Reattach(p))
    BY <1>1, <1>3, NetworkAround, NetworkRows, NetworkHousekeeping DEF InNetwork
  <1>4. CASE (\E b \in Request : InNetwork(Network!Exits(b))) \/ InNetwork(Network!GatewayRecreated)
    BY <1>1, <1>4, NetworkAround DEF InNetwork
  <1>5. CASE InNetwork(Network!HousekeepingBegins) \/ InNetwork(Network!ListNetworks)
                \/ InNetwork(Network!HousekeepingEnds)
    BY <1>1, <1>5, NetworkHousekeeping DEF InNetwork
  <1>6. CASE InNetwork(Network!Crash)
    BY <1>1, <1>6, NetworkCrashes DEF InNetwork
  <1>7. QED
    BY <1>1, <1>2, <1>3, <1>4, <1>5, <1>6 DEF NetworkNext

LEMMA NetworkInit == Network!Init => NetworkInv
  <1>1. SUFFICES ASSUME Network!Init PROVE NetworkInv
    OBVIOUS
  <1>2. /\ made = {} /\ attached = [n \in Network!Name |-> {}] /\ status = [p \in Owner |-> "live"]
        /\ locked = FALSE /\ waiters = <<>> /\ proc = [x \in Network!Process |-> Network!Quiet]
        /\ troubles = 0
    BY <1>1 DEF Network!Init
  <1>3. Network!Quiet \in PlaceOf /\ Network!Quiet.pc = "idle"
    BY DEF Network!Quiet, PlaceOf, Network!Pc
  <1>4. MutexInv
    <2>1. proc \in [Network!Process -> PlaceOf] /\ \A x \in Network!Process : proc[x].pc = "idle"
      BY <1>2, <1>3
    <2>2. waiters \in Seq(WaiterOf) /\ Len(waiters) = 0 /\ locked \in BOOLEAN
      <3>1. waiters \in Seq(WaiterOf) /\ Len(waiters) = 0
        BY <1>2
      <3>2. locked \in BOOLEAN
        BY <1>2
      <3>3. QED
        BY <3>1, <3>2
    <2>3. (\A i \in 1 .. 0 : FALSE) /\ "idle" \notin Inside
      BY DEF Inside
    <2>4. \A x \in Network!Process : proc[x].pc \in PcsOf[x.kind]
      BY <2>1, NetworkNames, PcsKnown
    <2>5. QED
      BY <2>1, <2>2, <2>3, <2>4 DEF MutexInv
  <1>5. NetworksTyped /\ ProjectsClean
    <2>1. \A p \in Owner : p \in Network!Name
      BY DEF Network!Name
    <2>2. QED
      BY <1>2, <2>1, BoundsAssumption DEF NetworksTyped, ProjectsClean
  <1>6. \A x \in Network!Process : Fits(x)
    BY <1>2, <1>3 DEF Fits
  <1>7. QED
    BY <1>4, <1>5, <1>6 DEF NetworkInv

LEMMA NetworkTypes == NetworkInv => Network!TypeOK /\ Network!RemovalIsClean
  <1>1. SUFFICES ASSUME NetworkInv PROVE Network!TypeOK /\ Network!RemovalIsClean
    OBVIOUS
  <1>2. /\ MutexInv /\ NetworksTyped /\ ProjectsClean
    BY <1>1 DEF NetworkInv
  <1>3. \A x \in Network!Process : proc[x].pc \in Network!Pc /\ proc[x].pc # "again"
    <2>1. \A x \in Network!Process : proc[x].pc \in PcsOf[x.kind]
      BY <1>2 DEF MutexInv
    <2>2. QED
      BY <2>1, NetworkNames, PcsKnown
  <1>4. \A i \in DOMAIN waiters : waiters[i].who \in Network!Process
    <2>1. DOMAIN waiters = 1 .. Len(waiters)
      BY <1>2 DEF MutexInv
    <2>2. QED
      BY <1>2, <2>1, WaitersKnown
  <1>5. Network!TypeOK
    BY <1>2, <1>3, <1>4 DEF MutexInv, NetworksTyped, Network!TypeOK
  <1>6. Network!RemovalIsClean
    BY <1>2, <1>3, NetworkKnown DEF ProjectsClean, Network!RemovalIsClean, Network!At
  <1>7. QED
    BY <1>5, <1>6

\* A project's network is removed at the first attempt, and a project that is gone has
\* left none behind, for any number of projects and builds, over the passes of
\* housekeeping, failures, crashes and new gateways around it (executor.ts 2135-2177,
\* 2463-2531, 3272-3368; lib/mutex.ts).
THEOREM RemovalStaysClean == ServicesSpec => []RemovalIsClean
  <1>1. (part = "network" => NetworkInv) /\ [ServicesNext]_services => (part = "network" => NetworkInv)'
    BY Turns, NetworkStep, NetworkUnchanged
  <1>2. ServicesInit => (part = "network" => NetworkInv)
    BY NetworkInit DEF ServicesInit
  <1>3. (part = "network" => NetworkInv) => RemovalIsClean
    BY NetworkTypes DEF RemovalIsClean, Kept
  <1>4. QED
    BY <1>1, <1>2, <1>3, PTL DEF ServicesSpec

-----------------------------------------------------------------------------
(* The card in the gallery, of which the types are kept.                   *)

LEMMA CardOwner ==
  ASSUME Card!TypeOK, NEW c \in Client,
         \/ Card!Describe(c) \/ Card!AskToList(c) \/ Card!List(c) \/ Card!Leave(c)
         \/ Card!Clear(c) \/ Card!Remove(c) \/ Card!Write(c) \/ Card!Save(c)
         \/ \E works \in BOOLEAN : Card!QueueCapture(c, works)
  PROVE  Card!TypeOK'
  <1> USE DEF Card!TypeOK, Card!card, Card!picture
  <1>1. CASE Card!Describe(c)
    BY <1>1 DEF Card!Describe
  <1>2. CASE Card!AskToList(c)
    <2>1. [at |-> "list", version |-> shown, was |-> listed]
            \in [at : {"list"}, version : Version \cup {Card!None}, was : BOOLEAN]
      OBVIOUS
    <2>2. QED
      BY <1>2, <2>1 DEF Card!AskToList
  <1>3. CASE Card!List(c)
    <2>1. cardClient[c].version \in Version \cup {Card!None}
      BY <1>3 DEF Card!List, Card!Idle
    <2>2. cardClient' \in [Client -> {Card!Idle} \cup [at : {"save", "clear", "remove"}]
                  \cup [at : {"list"}, version : Version \cup {Card!None}, was : BOOLEAN]
                  \cup [at : {"queue"}, version : Version]]
      <3>1. CASE cardClient[c].was \/ cardClient[c].version = Card!None
        BY <1>3, <3>1 DEF Card!List
      <3>2. CASE ~(cardClient[c].was \/ cardClient[c].version = Card!None)
        <4>1. [at |-> "queue", version |-> cardClient[c].version]
                \in [at : {"queue"}, version : Version]
          BY <2>1, <3>2
        <4>2. QED
          BY <1>3, <3>2, <4>1 DEF Card!List
      <3>3. QED
        BY <3>1, <3>2
    <2>3. QED
      BY <1>3, <2>2 DEF Card!List
  <1>4. CASE Card!Leave(c) \/ Card!Clear(c) \/ Card!Remove(c)
    <2>1. Card!NoShot \in [path : BOOLEAN, source : Card!Source \cup {Card!None}]
      BY DEF Card!NoShot
    <2>2. CASE Card!Leave(c)
      BY <2>2 DEF Card!Leave, Card!Goes
    <2>3. CASE Card!Clear(c)
      <3>1. [at |-> "remove"] \in [at : {"save", "clear", "remove"}]
        OBVIOUS
      <3>2. \/ cardClient' = [cardClient EXCEPT ![c] = [at |-> "remove"]]
            \/ cardClient' = [cardClient EXCEPT ![c] = Card!Idle]
        BY <2>3 DEF Card!Clear, Card!Goes, Card!Returns
      <3>3. chosen' \in BOOLEAN
        BY <2>3 DEF Card!Clear
      <3>4. /\ cardRow' = Card!NoShot
            /\ UNCHANGED <<listed, described, drafted, shown, file, cardJob, cardExec>>
        BY <2>3 DEF Card!Clear
      <3>5. QED
        BY <2>1, <3>1, <3>2, <3>3, <3>4
    <2>4. CASE Card!Remove(c)
      BY <2>4 DEF Card!Remove, Card!Returns
    <2>5. QED
      BY <1>4, <2>2, <2>3, <2>4
  <1>5. CASE Card!Write(c) \/ Card!Save(c)
    <2>1. [path |-> TRUE, source |-> "uploaded"]
            \in [path : BOOLEAN, source : Card!Source \cup {Card!None}]
      BY DEF Card!Source
    <2>2. "uploaded" \in Card!Source
      BY DEF Card!Source
    <2>3. [at |-> "save"] \in [at : {"save", "clear", "remove"}]
      OBVIOUS
    <2>4. CASE Card!Write(c)
      BY <2>2, <2>3, <2>4 DEF Card!Write, Card!Goes
    <2>5. CASE Card!Save(c)
      BY <2>1, <2>5 DEF Card!Save, Card!Returns
    <2>6. QED
      BY <1>5, <2>4, <2>5
  <1>6. CASE \E works \in BOOLEAN : Card!QueueCapture(c, works)
    <2>1. PICK works \in BOOLEAN : Card!QueueCapture(c, works)
      BY <1>6
    <2>2. /\ cardClient' = [cardClient EXCEPT ![c] = Card!Idle]
          /\ UNCHANGED <<listed, described, drafted, shown, cardRow, file, cardExec, chosen>>
      BY <2>1 DEF Card!QueueCapture, Card!Returns
    <2>3. cardJob' \in [Version -> {"absent", "queued", "running", "succeeded", "failed"}]
      BY <2>1 DEF Card!QueueCapture
    <2>4. QED
      BY <2>2, <2>3
  <1>7. QED
    BY <1>1, <1>2, <1>3, <1>4, <1>5, <1>6

LEMMA CardExecutor ==
  ASSUME Card!TypeOK,
         \/ \E v \in Version : Card!BeginDeploy(v) \/ Card!Claim(v)
         \/ \E works \in BOOLEAN : Card!Follow(works)
         \/ \E shot \in BOOLEAN : Card!Render(shot) \/ Card!Draft(shot)
         \/ \E outcome \in {"queued", "failed"} : Card!CaptureFails(outcome)
         \/ Card!Activate \/ Card!Read \/ Card!Record
  PROVE  Card!TypeOK'
  <1> USE DEF Card!TypeOK, Card!card, Card!picture, Card!Finished
  <1>1. cardExec.at # "idle" => cardExec.version \in Version
    BY DEF Card!Idle
  <1>2. cardExec.at \in {"render", "record"} => cardExec.keep \in BOOLEAN
    BY DEF Card!Idle
  <1>3. CASE (\E v \in Version : Card!BeginDeploy(v) \/ Card!Claim(v)) \/ Card!Activate
    <2>1. CASE \E v \in Version : Card!BeginDeploy(v)
      BY <2>1 DEF Card!BeginDeploy
    <2>2. CASE \E v \in Version : Card!Claim(v)
      BY <2>2 DEF Card!Claim
    <2>3. CASE Card!Activate
      <3>1. cardExec \in [at : {"activate", "follow", "read", "draft"}, version : Version]
        BY <2>3 DEF Card!Activate, Card!Idle
      <3>2. cardExec' \in [at : {"activate", "follow", "read", "draft"}, version : Version]
        BY <2>3, <3>1 DEF Card!Activate
      <3>3. shown' \in Version
        BY <2>3, <3>1 DEF Card!Activate
      <3>4. QED
        BY <2>3, <3>2, <3>3 DEF Card!Activate
    <2>4. QED
      BY <1>3, <2>1, <2>2, <2>3
  <1>4. CASE \E works \in BOOLEAN : Card!Follow(works)
    BY <1>1, <1>4 DEF Card!Follow
  <1>5. CASE Card!Read
    <2>1. (cardRow.source = "uploaded") \in BOOLEAN
      OBVIOUS
    <2>2. ASSUME cardExec' = [at |-> "render", version |-> shown,
                              keep |-> cardRow.source = "uploaded"], shown \in Version
          PROVE  cardExec' \in [at : {"render"}, version : Version, keep : BOOLEAN]
      BY <2>1, <2>2
    <2>3. QED
      BY <1>1, <1>5, <2>2 DEF Card!Read
  <1>6. CASE \E shot \in BOOLEAN : Card!Render(shot)
    <2>1. PICK shot \in BOOLEAN : Card!Render(shot)
      BY <1>6
    <2>2. [at |-> "record", version |-> cardExec.version, keep |-> cardExec.keep, shot |-> shot]
            \in [at : {"record"}, version : Version, keep : BOOLEAN, shot : BOOLEAN]
      BY <1>1, <1>2, <2>1 DEF Card!Render
    <2>3. file' \in Card!Source \cup {Card!None}
      BY <2>1 DEF Card!Render, Card!Source
    <2>4. QED
      BY <2>1, <2>2, <2>3 DEF Card!Render
  <1>7. CASE Card!Record
    <2>1. [path |-> TRUE, source |-> "captured"]
            \in [path : BOOLEAN, source : Card!Source \cup {Card!None}]
      BY DEF Card!Source
    <2>2. QED
      BY <1>1, <1>7, <2>1 DEF Card!Record
  <1>8. CASE \E shot \in BOOLEAN : Card!Draft(shot)
    <2>1. drafted' \in BOOLEAN
      BY <1>8 DEF Card!Draft
    <2>2. QED
      BY <1>1, <1>8, <2>1 DEF Card!Draft
  <1>9. CASE \E outcome \in {"queued", "failed"} : Card!CaptureFails(outcome)
    BY <1>1, <1>9 DEF Card!CaptureFails
  <1>10. QED
    BY <1>3, <1>4, <1>5, <1>6, <1>7, <1>8, <1>9

LEMMA CardStep == Card!TypeOK /\ CardNext => Card!TypeOK'
  BY CardOwner, CardExecutor DEF CardNext, InCard

LEMMA CardUnchanged == Card!TypeOK /\ UNCHANGED card => Card!TypeOK'
  BY DEF card, Card!TypeOK

LEMMA CardInit == Card!Init => Card!TypeOK
  <1>1. Card!NoShot \in [path : BOOLEAN, source : Card!Source \cup {Card!None}]
    BY DEF Card!NoShot
  <1>2. QED
    BY <1>1 DEF Card!Init, Card!TypeOK

-----------------------------------------------------------------------------
(* Reviews.  What is served to strangers was reviewed, is known to be      *)
(* missed, or has its review coming: queued, being done, about to be       *)
(* queued by the deployment that activated it or by the request that       *)
(* opened the site.                                                        *)

Reachable(a) == Review!IsNetworkReachable(a)

Queues(c, v) == client[c].at = "queue" /\ client[c].version = v

Coming(v) ==
    \/ reviewJob[v] = "queued"
    \/ reviewExec.at \in {"read", "render", "enqueue"} /\ reviewExec.version = v
    \/ \E c \in Client : Queues(c, v)

\* A request queues the review of a version.
VersionsQueued == \A c \in Client : client[c].at = "queue" => client[c].version \in Version

\* A review that runs is what the executor does.
RunningIsHeld ==
    \A v \in Version : reviewJob[v] = "running" =>
        reviewExec.at \in {"read", "render"} /\ reviewExec.version = v

\* A deployment that has not seen the site opened is known to miss it.
DeploysKnown ==
    reviewExec.at = "activate" /\ ~Reachable(reviewExec.access) /\ Reachable(access)
        => reviewExec.version \in late

ReviewComes ==
    Reachable(access) /\ served # Review!None =>
        Review!Reviewed(served) \/ served \in late \/ Coming(served)

ReviewInv ==
    /\ Review!TypeOK /\ VersionsQueued
    /\ RunningIsHeld /\ DeploysKnown /\ ReviewComes

LEMMA WorstKnown ==
  ASSUME NEW levels \in SUBSET Review!Level
  PROVE  Review!WorstOf(levels) \in Review!Level
  <1>1. CASE levels = {}
    BY <1>1 DEF Review!WorstOf, Review!Level
  <1>2. CASE levels # {}
    <2>1. PICK worst \in levels : \A m \in levels : Review!LevelOrder[worst] >= Review!LevelOrder[m]
      <3>1. /\ Review!LevelOrder["clean"] = 0 /\ Review!LevelOrder["review"] = 1
            /\ Review!LevelOrder["urgent"] = 2
        BY DEF Review!LevelOrder, Review!Level
      <3>2. \A m \in levels : m = "clean" \/ m = "review" \/ m = "urgent"
        BY DEF Review!Level
      <3>3. CASE "urgent" \in levels
        BY <3>1, <3>2, <3>3
      <3>4. CASE "urgent" \notin levels /\ "review" \in levels
        BY <3>1, <3>2, <3>4
      <3>5. CASE "urgent" \notin levels /\ "review" \notin levels
        BY <1>2, <3>1, <3>2, <3>5
      <3>6. QED
        BY <3>3, <3>4, <3>5
    <2>2. (CHOOSE l \in levels : \A m \in levels : Review!LevelOrder[l] >= Review!LevelOrder[m])
            \in levels
      BY <2>1
    <2>3. QED
      BY <1>2, <2>2 DEF Review!WorstOf
  <1>3. QED
    BY <1>1, <1>2

\* Every review says something.
LEMMA VerdictKnown ==
  ASSUME NEW e, NEW found \in SUBSET Review!Level
  PROVE  Review!ReviewSite(e, Review!ModelVerdict(found)) \in Review!Level
  <1>1. Review!StaticSignals(e) \in SUBSET Review!Level
    BY DEF Review!StaticSignals
  <1>2. Review!WorstOf(Review!StaticSignals(e)) \in Review!Level
    BY <1>1, WorstKnown
  <1>3. Review!ModelVerdict(found) \in Review!Level \cup {Review!None}
    BY WorstKnown DEF Review!ModelVerdict
  <1>4. QED
    BY <1>2, <1>3 DEF Review!ReviewSite, Review!MaxLevel

LEMMA ReviewOwner ==
  ASSUME ReviewInv, NEW c \in Client,
         \/ Review!UpdateAccess(c) \/ Review!EnqueueSiteReview(c) \/ Review!NotQueued(c)
         \/ \E to \in Review!Access : Review!ReadProject(c, to)
  PROVE  ReviewInv'
  <1> DEFINE Asking == [at : {"update", "queue"}, to : Review!Access, from : Review!Access,
                        version : Version \cup {Review!None}]
  <1>1. /\ client \in [Client -> {Review!Idle} \cup Asking]
        /\ reviewJob \in [Version -> {"absent", "queued", "running", "succeeded", "failed"}]
        /\ late \subseteq Version /\ served \in Version \cup {Review!None}
        /\ access \in Review!Access
    BY DEF ReviewInv, Review!TypeOK
  <1>2. Review!None \notin {"idle"} /\ Review!Idle.at = "idle"
    BY DEF Review!None, Review!Idle
  <1>3. CASE \E to \in Review!Access : Review!ReadProject(c, to)
    <2>1. PICK to \in Review!Access : Review!ReadProject(c, to)
      BY <1>3
    <2>2. [at |-> "update", to |-> to, from |-> access, version |-> served] \in Asking
      BY <1>1
    <2>3. /\ client' = [client EXCEPT ![c] =
                [at |-> "update", to |-> to, from |-> access, version |-> served]]
          /\ UNCHANGED <<access, served, reviewJob, reviewExec, reviews, late>>
      BY <2>1 DEF Review!ReadProject
    <2>4. Review!TypeOK'
      BY <2>2, <2>3 DEF ReviewInv, Review!TypeOK
    <2>5. \A d \in Client : client'[d].at = "queue" <=> client[d].at = "queue"
      BY <1>1, <1>2, <2>1, <2>3 DEF Review!ReadProject
    <2>6. \A d \in Client : client'[d].at = "queue" => client'[d] = client[d]
      BY <1>1, <2>3
    <2>7. \A v : Coming(v)' <=> Coming(v)
      BY <2>3, <2>5, <2>6 DEF Coming, Queues
    <2>8. VersionsQueued'
      BY <2>5, <2>6 DEF ReviewInv, VersionsQueued
    <2>9. RunningIsHeld' /\ DeploysKnown' /\ ReviewComes'
      BY <2>3, <2>7 DEF ReviewInv, RunningIsHeld, DeploysKnown, ReviewComes, Reachable,
         Review!Reviewed
    <2>10. QED
      BY <2>4, <2>8, <2>9 DEF ReviewInv
  <1>4. CASE Review!UpdateAccess(c)
    <2>1. client[c] \in Asking
      BY <1>1, <1>2, <1>4 DEF Review!UpdateAccess
    <2>2. /\ access' = client[c].to
          /\ UNCHANGED <<served, reviewJob, reviewExec, reviews>>
          /\ client[c].at = "update"
      BY <1>4 DEF Review!UpdateAccess
    <2>3. /\ Review!Widens(c) =>
                client' = [client EXCEPT ![c] = [client[c] EXCEPT !.at = "queue"]]
          /\ ~Review!Widens(c) => client' = [client EXCEPT ![c] = Review!Idle]
      BY <1>4 DEF Review!UpdateAccess
    <2>4. [client[c] EXCEPT !.at = "queue"] \in Asking
      BY <2>1
    <2>5. client' \in [Client -> {Review!Idle} \cup Asking]
      BY <1>1, <2>3, <2>4
    <2>6. late' \subseteq Version /\ late \subseteq late'
      BY <1>1, <1>4 DEF Review!UpdateAccess
    <2>7. Review!TypeOK'
      BY <2>1, <2>2, <2>5, <2>6 DEF ReviewInv, Review!TypeOK
    <2>8. Review!Widens(c) => client[c].version \in Version
      BY <2>1 DEF Review!Widens
    <2>9. VersionsQueued'
      BY <1>1, <1>2, <2>1, <2>3, <2>8 DEF ReviewInv, VersionsQueued
    <2>10. DeploysKnown'
      <3>1. ASSUME reviewExec.at = "activate", ~Reachable(reviewExec.access)
            PROVE  reviewExec.version \in late'
        <4>1. reviewExec.version \in Version
          BY <3>1 DEF ReviewInv, Review!TypeOK, Review!Idle
        <4>2. QED
          BY <1>4, <3>1, <4>1 DEF Review!UpdateAccess, Reachable
      <3>2. QED
        BY <2>2, <3>1 DEF DeploysKnown, Reachable
    <2>11. ReviewComes'
      <3>1. SUFFICES ASSUME Reachable(client[c].to), served \in Version, served \notin late'
                     PROVE  Review!Reviewed(served) \/ Coming(served)'
        BY <1>1, <2>2 DEF ReviewComes, Reachable, Review!Reviewed
      <3>2. client[c].version = served
        BY <1>4, <3>1 DEF Review!UpdateAccess
      <3>3. Review!Widens(c) \/ Reachable(access)
        BY <1>4, <3>1 DEF Review!UpdateAccess, Reachable
      <3>4. CASE Review!Widens(c)
        <4>1. client'[c].at = "queue" /\ client'[c].version = served
          BY <1>1, <2>1, <2>3, <3>2, <3>4
        <4>2. QED
          BY <2>2, <4>1 DEF Coming, Queues
      <3>5. CASE Reachable(access) /\ ~Review!Widens(c)
        <4>1. Review!Reviewed(served) \/ Coming(served)
          <5>1. served \notin late /\ served # Review!None
            <6>1. served \notin late
              BY <2>6, <3>1
            <6>2. served # Review!None
              BY <3>1, NamesAssumption DEF Review!None
            <6>3. QED
              BY <6>1, <6>2
          <5>2. QED
            BY <3>5, <5>1 DEF ReviewInv, ReviewComes
        <4>2. \A d \in Client : client[d].at = "queue" => client'[d] = client[d]
          BY <1>1, <2>2, <2>3, <3>5
        <4>3. QED
          BY <2>2, <4>1, <4>2 DEF Coming, Queues
      <3>6. QED
        BY <3>3, <3>4, <3>5
    <2>12. RunningIsHeld'
      BY <2>2 DEF ReviewInv, RunningIsHeld
    <2>13. QED
      BY <2>7, <2>9, <2>10, <2>11, <2>12 DEF ReviewInv
  <1>5. CASE Review!EnqueueSiteReview(c) \/ Review!NotQueued(c)
    <2>1. /\ client[c].at = "queue" /\ client[c].version \in Version
          /\ client' = [client EXCEPT ![c] = Review!Idle]
          /\ UNCHANGED <<access, served, reviewExec, reviews>>
      BY <1>5 DEF ReviewInv, VersionsQueued, Review!EnqueueSiteReview, Review!NotQueued
    <2>2. /\ reviewJob' \in [Version -> {"absent", "queued", "running", "succeeded", "failed"}]
          /\ \A v \in Version : reviewJob'[v] = "running" => reviewJob[v] = "running"
          /\ \A v \in Version : reviewJob[v] = "queued" => reviewJob'[v] = "queued"
          /\ late' \subseteq Version /\ late \subseteq late'
      BY <1>1, <1>5, <2>1 DEF Review!EnqueueSiteReview, Review!NotQueued, Review!Requeued
    <2>3. \/ client[c].version \in late'
          \/ reviewJob'[client[c].version] \in {"queued", "running"}
      BY <1>1, <1>5, <2>1 DEF Review!EnqueueSiteReview, Review!NotQueued, Review!Requeued
    <2>4. Review!TypeOK'
      BY <2>1, <2>2 DEF ReviewInv, Review!TypeOK
    <2>5. \A d \in Client : client'[d].at = "queue" => client'[d] = client[d]
      BY <1>1, <1>2, <2>1
    <2>6. \A d \in Client : d # c => client'[d] = client[d]
      BY <1>1, <2>1
    <2>7. VersionsQueued' /\ RunningIsHeld' /\ DeploysKnown'
      BY <2>1, <2>2, <2>5 DEF ReviewInv, VersionsQueued, RunningIsHeld, DeploysKnown, Reachable
    <2>8. ASSUME NEW v \in Version, Coming(v), v \notin late'
          PROVE  Coming(v)'
      <3>1. CASE client[c].version = v
        <4>1. reviewJob'[v] = "queued" \/ reviewJob'[v] = "running"
          BY <2>3, <2>8, <3>1
        <4>2. reviewJob'[v] = "running" =>
                reviewExec.at \in {"read", "render"} /\ reviewExec.version = v
          BY <2>2 DEF ReviewInv, RunningIsHeld
        <4>3. QED
          BY <2>1, <4>1, <4>2 DEF Coming
      <3>2. CASE client[c].version # v
        BY <2>1, <2>2, <2>6, <2>8, <3>2 DEF Coming, Queues
      <3>3. QED
        BY <3>1, <3>2
    <2>9. ReviewComes'
      BY <1>1, <2>1, <2>2, <2>8 DEF ReviewInv, ReviewComes, Reachable, Review!Reviewed
    <2>10. QED
      BY <2>4, <2>7, <2>9 DEF ReviewInv
  <1>6. QED
    BY <1>3, <1>4, <1>5

\* A deployment and its review.
LEMMA ReviewDeploy ==
  ASSUME ReviewInv,
         \/ \E v \in Version : Review!BeginDeploy(v)
         \/ Review!Activate \/ Review!FollowActivation \/ Review!NotFollowed
         \/ Review!DeployFails
  PROVE  ReviewInv'
  <1>1. /\ reviewJob \in [Version -> {"absent", "queued", "running", "succeeded", "failed"}]
        /\ late \subseteq Version /\ served \in Version \cup {Review!None}
        /\ access \in Review!Access
    BY DEF ReviewInv, Review!TypeOK
  <1>2. Review!Idle.at = "idle"
    BY DEF Review!Idle
  <1>3. CASE \E v \in Version : Review!BeginDeploy(v)
    <2>1. PICK v \in Version : Review!BeginDeploy(v)
      BY <1>3
    <2>2. /\ reviewExec = Review!Idle
          /\ reviewExec' = [at |-> "activate", version |-> v, access |-> access]
          /\ UNCHANGED <<access, served, reviewJob, client, reviews, late>>
      BY <2>1 DEF Review!BeginDeploy
    <2>3. reviewExec' \in [at : {"activate"}, version : Version, access : Review!Access]
      BY <1>1, <2>2
    <2>4. Review!TypeOK'
      BY <2>2, <2>3 DEF ReviewInv, Review!TypeOK
    <2>5. \A w : Coming(w) => Coming(w)'
      BY <1>2, <2>2 DEF Coming, Queues
    <2>6. VersionsQueued' /\ RunningIsHeld' /\ DeploysKnown' /\ ReviewComes'
      BY <1>2, <2>2, <2>5 DEF ReviewInv, VersionsQueued, RunningIsHeld, DeploysKnown,
         ReviewComes, Reachable, Review!Reviewed
    <2>7. QED
      BY <2>4, <2>6 DEF ReviewInv
  <1>4. CASE Review!Activate
    <2>1. /\ reviewExec.at = "activate"
          /\ served' = reviewExec.version
          /\ UNCHANGED <<access, reviewJob, client, reviews, late>>
      BY <1>4 DEF Review!Activate
    <2>2. reviewExec \in [at : {"activate"}, version : Version, access : Review!Access]
      BY <1>2, <2>1 DEF ReviewInv, Review!TypeOK
    <2>3. [reviewExec EXCEPT !.at = "enqueue"]
            \in [at : {"enqueue"}, version : Version, access : Review!Access]
      BY <2>2
    <2>4. /\ Reachable(reviewExec.access) => reviewExec' = [reviewExec EXCEPT !.at = "enqueue"]
          /\ ~Reachable(reviewExec.access) => reviewExec' = Review!Idle
      BY <1>4 DEF Review!Activate, Reachable
    <2>5. Review!TypeOK'
      BY <2>1, <2>2, <2>3, <2>4 DEF ReviewInv, Review!TypeOK
    <2>6. reviewExec'.at # "activate"
      BY <1>2, <2>3, <2>4
    <2>7. VersionsQueued' /\ RunningIsHeld' /\ DeploysKnown'
      BY <2>1, <2>6 DEF ReviewInv, VersionsQueued, RunningIsHeld, DeploysKnown
    <2>8. ReviewComes'
      <3>1. CASE Reachable(reviewExec.access)
        <4>1. reviewExec'.at = "enqueue" /\ reviewExec'.version = served'
          BY <2>1, <2>2, <2>4, <3>1
        <4>2. QED
          BY <4>1 DEF ReviewComes, Coming
      <3>2. CASE ~Reachable(reviewExec.access)
        BY <2>1, <3>2 DEF ReviewInv, DeploysKnown, ReviewComes, Reachable
      <3>3. QED
        BY <3>1, <3>2
    <2>9. QED
      BY <2>5, <2>7, <2>8 DEF ReviewInv
  <1>5. CASE Review!FollowActivation \/ Review!NotFollowed
    <2>1. /\ reviewExec.at = "enqueue" /\ reviewExec' = Review!Idle
          /\ UNCHANGED <<access, served, client, reviews>>
      BY <1>5 DEF Review!FollowActivation, Review!NotFollowed
    <2>2. reviewExec.version \in Version
      BY <1>2, <2>1 DEF ReviewInv, Review!TypeOK
    <2>3. /\ reviewJob' \in [Version -> {"absent", "queued", "running", "succeeded", "failed"}]
          /\ \A v \in Version : reviewJob'[v] = "running" => reviewJob[v] = "running"
          /\ \A v \in Version : reviewJob[v] = "queued" => reviewJob'[v] = "queued"
          /\ late' \subseteq Version /\ late \subseteq late'
      BY <1>1, <1>5, <2>2 DEF Review!FollowActivation, Review!NotFollowed
    <2>4. reviewJob[reviewExec.version] # "running"
      BY <2>1, <2>2 DEF ReviewInv, RunningIsHeld
    <2>5. reviewExec.version \in late' \/ reviewJob'[reviewExec.version] = "queued"
      BY <1>1, <1>5, <2>2, <2>4 DEF Review!FollowActivation, Review!NotFollowed
    <2>6. Review!TypeOK'
      BY <2>1, <2>3 DEF ReviewInv, Review!TypeOK
    <2>7. VersionsQueued' /\ RunningIsHeld' /\ DeploysKnown'
      BY <1>2, <2>1, <2>3 DEF ReviewInv, VersionsQueued, RunningIsHeld, DeploysKnown
    <2>8. \A v \in Version : Coming(v) => Coming(v)' \/ v \in late'
      BY <2>1, <2>3, <2>5 DEF Coming, Queues
    <2>9. ReviewComes'
      BY <1>1, <2>1, <2>3, <2>8 DEF ReviewInv, ReviewComes, Reachable, Review!Reviewed
    <2>10. QED
      BY <2>6, <2>7, <2>9 DEF ReviewInv
  <1>6. CASE Review!DeployFails
    <2>1. /\ reviewExec.at = "activate" /\ reviewExec' = Review!Idle
          /\ UNCHANGED <<access, served, reviewJob, client, reviews, late>>
      BY <1>6 DEF Review!DeployFails
    <2>2. Review!TypeOK'
      BY <2>1 DEF ReviewInv, Review!TypeOK
    <2>3. \A w : Coming(w) => Coming(w)'
      BY <1>2, <2>1 DEF Coming, Queues
    <2>4. VersionsQueued' /\ RunningIsHeld' /\ DeploysKnown' /\ ReviewComes'
      BY <1>2, <2>1, <2>3 DEF ReviewInv, VersionsQueued, RunningIsHeld, DeploysKnown,
         ReviewComes, Reachable, Review!Reviewed
    <2>5. QED
      BY <2>2, <2>4 DEF ReviewInv
  <1>7. QED
    BY <1>3, <1>4, <1>5, <1>6

\* The review job.
LEMMA ReviewJobs ==
  ASSUME ReviewInv,
         \/ \E v \in Version : Review!Claim(v)
         \/ \E answered \in BOOLEAN, found \in SUBSET Review!Level :
                Review!Review(answered, Review!ModelVerdict(found))
         \/ Review!Read \/ Review!Retried \/ Review!GivenUp
  PROVE  ReviewInv'
  <1>1. /\ reviewJob \in [Version -> {"absent", "queued", "running", "succeeded", "failed"}]
        /\ reviews \in [Version -> Review!Level \cup {Review!None}]
        /\ late \subseteq Version /\ served \in Version \cup {Review!None}
    BY DEF ReviewInv, Review!TypeOK
  <1>2. Review!Idle.at = "idle"
    BY DEF Review!Idle
  <1>3. CASE \E v \in Version : Review!Claim(v)
    <2>1. PICK v \in Version : Review!Claim(v)
      BY <1>3
    <2>2. /\ reviewExec = Review!Idle /\ reviewJob[v] = "queued"
          /\ reviewJob' = [reviewJob EXCEPT ![v] = "running"]
          /\ reviewExec' = [at |-> "read", version |-> v]
          /\ UNCHANGED <<access, served, client, reviews, late>>
      BY <2>1 DEF Review!Claim
    <2>3. reviewExec' \in [at : {"read", "render"}, version : Version]
      BY <2>2
    <2>4. Review!TypeOK'
      BY <2>2, <2>3 DEF ReviewInv, Review!TypeOK
    <2>5. \A w \in Version : Coming(w) => Coming(w)'
      BY <1>1, <1>2, <2>2 DEF Coming, Queues
    <2>6. RunningIsHeld'
      BY <1>1, <1>2, <2>2 DEF ReviewInv, RunningIsHeld
    <2>7. VersionsQueued' /\ DeploysKnown' /\ ReviewComes'
      BY <1>1, <2>2, <2>5 DEF ReviewInv, VersionsQueued, DeploysKnown, ReviewComes, Reachable,
         Review!Reviewed
    <2>8. QED
      BY <2>4, <2>6, <2>7 DEF ReviewInv
  <1>4. CASE Review!Read /\ Reachable(access) /\ served = reviewExec.version
    <2>1. /\ reviewExec.at = "read" /\ reviewExec' = [reviewExec EXCEPT !.at = "render"]
          /\ UNCHANGED <<access, served, reviewJob, client, reviews, late>>
      BY <1>4 DEF Review!Read, Reachable
    <2>2. reviewExec \in [at : {"read", "render"}, version : Version]
      BY <1>2, <2>1 DEF ReviewInv, Review!TypeOK
    <2>3. /\ reviewExec' \in [at : {"read", "render"}, version : Version]
          /\ reviewExec'.at = "render" /\ reviewExec'.version = reviewExec.version
      BY <2>1, <2>2
    <2>4. Review!TypeOK'
      BY <2>1, <2>3 DEF ReviewInv, Review!TypeOK
    <2>5. \A w : Coming(w) => Coming(w)'
      BY <2>1, <2>3 DEF Coming, Queues
    <2>6. VersionsQueued' /\ RunningIsHeld' /\ DeploysKnown' /\ ReviewComes'
      BY <2>1, <2>3, <2>5 DEF ReviewInv, VersionsQueued, RunningIsHeld, DeploysKnown,
         ReviewComes, Reachable, Review!Reviewed
    <2>7. QED
      BY <2>4, <2>6 DEF ReviewInv
  <1> DEFINE Finishes ==
        /\ reviewExec.at \in {"read", "render"} /\ reviewExec' = Review!Idle
        /\ \E outcome \in {"succeeded", "queued", "failed"} :
            reviewJob' = [reviewJob EXCEPT ![reviewExec.version] = outcome]
        /\ UNCHANGED <<access, served, client>>
        /\ late' \subseteq Version /\ late \subseteq late'
        /\ reviews' \in [Version -> Review!Level \cup {Review!None}]
        /\ \A v \in Version : Review!Reviewed(v) => Review!Reviewed(v)'
        /\ \/ Reachable(access) => served # reviewExec.version
           \/ reviews'[reviewExec.version] # Review!None
           \/ reviewExec.version \in late'
           \/ reviewJob'[reviewExec.version] = "queued"
  <1>5. ASSUME reviewExec.at \in {"read", "render"}
        PROVE  reviewExec.version \in Version
    BY <1>2, <1>5 DEF ReviewInv, Review!TypeOK
  <1>6. ASSUME Finishes PROVE ReviewInv'
    <2>1. reviewExec.version \in Version
      BY <1>5, <1>6
    <2>2. /\ reviewJob' \in [Version -> {"absent", "queued", "running", "succeeded", "failed"}]
          /\ reviewJob'[reviewExec.version] # "running"
          /\ \A v \in Version : v # reviewExec.version => reviewJob'[v] = reviewJob[v]
      BY <1>1, <1>6, <2>1
    <2>3. Review!TypeOK'
      BY <1>6, <2>2 DEF ReviewInv, Review!TypeOK
    <2>4. VersionsQueued' /\ RunningIsHeld' /\ DeploysKnown'
      BY <1>2, <1>6, <2>2 DEF ReviewInv, VersionsQueued, RunningIsHeld, DeploysKnown
    <2>5. ASSUME NEW v \in Version, Coming(v), v # reviewExec.version
          PROVE  Coming(v)'
      BY <1>6, <2>2, <2>5 DEF Coming, Queues
    <2>6. ASSUME Reachable(access), served \in Version, ~Review!Reviewed(served)',
                 served \notin late'
          PROVE  Coming(served)'
      <3>1. CASE served = reviewExec.version
        <4>1. reviewJob'[served] = "queued"
          BY <1>6, <2>6, <3>1 DEF Review!Reviewed
        <4>2. QED
          BY <1>6, <4>1 DEF Coming
      <3>2. CASE served # reviewExec.version
        <4>1. ~Review!Reviewed(served) /\ served \notin late /\ served # Review!None
          <5>1. ~Review!Reviewed(served)
            BY <1>6, <2>6
          <5>2. served \notin late
            BY <1>6, <2>6
          <5>3. served # Review!None
            BY <2>6, NamesAssumption DEF Review!None
          <5>4. QED
            BY <5>1, <5>2, <5>3
        <4>2. Coming(served)
          BY <2>6, <4>1 DEF ReviewInv, ReviewComes
        <4>3. \A d : Queues(d, served)' <=> Queues(d, served)
          BY <1>6 DEF Queues
        <4>4. QED
          BY <1>6, <2>2, <2>6, <3>2, <4>2, <4>3 DEF Coming
      <3>3. QED
        BY <3>1, <3>2
    <2>7. ReviewComes'
      BY <1>1, <1>6, <2>6 DEF ReviewComes, Reachable, Review!Reviewed
    <2>8. QED
      BY <2>3, <2>4, <2>7 DEF ReviewInv
  <1>7. CASE Review!Read /\ ~(Reachable(access) /\ served = reviewExec.version)
    <2>1. Finishes
      BY <1>1, <1>7 DEF Review!Read, Reachable, Review!Reviewed
    <2>2. QED
      BY <1>6, <2>1
  <1>8. CASE \E answered \in BOOLEAN, found \in SUBSET Review!Level :
                Review!Review(answered, Review!ModelVerdict(found))
    <2>1. PICK answered \in BOOLEAN, found \in SUBSET Review!Level :
                Review!Review(answered, Review!ModelVerdict(found))
      BY <1>8
    <2>2. /\ reviewExec.at = "render" /\ reviewExec' = Review!Idle
          /\ reviewJob' = [reviewJob EXCEPT ![reviewExec.version] = "succeeded"]
          /\ UNCHANGED <<access, served, client, late>>
      BY <2>1 DEF Review!Review
    <2>3. reviewExec.version \in Version
      BY <1>5, <2>2
    <2>4. PICK verdict \in Review!Level : reviews' = [reviews EXCEPT ![reviewExec.version] = verdict]
      BY <2>1, VerdictKnown DEF Review!Review
    <2>5. verdict # Review!None
      BY DEF Review!Level, Review!None
    <2>6. /\ reviews' \in [Version -> Review!Level \cup {Review!None}]
          /\ \A v \in Version : Review!Reviewed(v) => Review!Reviewed(v)'
          /\ reviews'[reviewExec.version] # Review!None
      BY <1>1, <2>3, <2>4, <2>5 DEF Review!Reviewed
    <2>7. Finishes
      BY <1>1, <2>2, <2>6
    <2>8. QED
      BY <1>6, <2>7
  <1>9. CASE Review!Retried
    <2>1. Finishes
      BY <1>1, <1>5, <1>9 DEF Review!Retried, Review!Reviewed
    <2>2. QED
      BY <1>6, <2>1
  <1>10. CASE Review!GivenUp
    <2>1. Finishes
      BY <1>1, <1>5, <1>10 DEF Review!GivenUp, Review!Reviewed
    <2>2. QED
      BY <1>6, <2>1
  <1>11. QED
    BY <1>3, <1>4, <1>7, <1>8, <1>9, <1>10

LEMMA ReviewStep == ReviewInv /\ ReviewNext => ReviewInv'
  <1>1. SUFFICES ASSUME ReviewInv, ReviewNext PROVE ReviewInv'
    OBVIOUS
  <1>2. CASE \E c \in Client :
              \/ InReview(Review!UpdateAccess(c)) \/ InReview(Review!EnqueueSiteReview(c))
              \/ InReview(Review!NotQueued(c))
              \/ \E to \in Review!Access : InReview(Review!ReadProject(c, to))
    BY <1>1, <1>2, ReviewOwner DEF InReview
  <1>3. CASE \E answered \in BOOLEAN, found \in SUBSET Review!Level :
              InReview(Review!Review(answered, Review!ModelVerdict(found)))
    BY <1>1, <1>3, ReviewJobs DEF InReview
  <1>4. CASE \/ \E v \in Version : InReview(Review!BeginDeploy(v)) \/ InReview(Review!Claim(v))
             \/ InReview(Review!Activate) \/ InReview(Review!FollowActivation)
             \/ InReview(Review!NotFollowed) \/ InReview(Review!DeployFails)
             \/ InReview(Review!Read) \/ InReview(Review!Retried) \/ InReview(Review!GivenUp)
    BY <1>1, <1>4, ReviewDeploy, ReviewJobs DEF InReview
  <1>5. QED
    BY <1>1, <1>2, <1>3, <1>4 DEF ReviewNext

LEMMA ReviewUnchanged == ReviewInv /\ UNCHANGED review => ReviewInv'
  <1>1. SUFFICES ASSUME ReviewInv, UNCHANGED review PROVE ReviewInv'
    OBVIOUS
  <1>2. UNCHANGED <<access, served, reviewJob, reviewExec, client, reviews, late>>
    BY <1>1 DEF review
  <1>3. Review!TypeOK'
    BY <1>1, <1>2 DEF ReviewInv, Review!TypeOK
  <1>4. VersionsQueued' /\ RunningIsHeld' /\ DeploysKnown' /\ ReviewComes'
    BY <1>1, <1>2 DEF ReviewInv, VersionsQueued, RunningIsHeld, DeploysKnown, ReviewComes,
       Coming, Queues, Reachable, Review!Reviewed
  <1>5. QED
    BY <1>3, <1>4 DEF ReviewInv

LEMMA ReviewInit == Review!Init => ReviewInv
  <1>1. SUFFICES ASSUME Review!Init PROVE ReviewInv
    OBVIOUS
  <1>2. /\ access = "owner" /\ served = Review!None /\ reviewExec = Review!Idle /\ late = {}
        /\ reviewJob = [v \in Version |-> "absent"]
        /\ client = [c \in Client |-> Review!Idle]
        /\ reviews = [v \in Version |-> Review!None]
    BY <1>1 DEF Review!Init
  <1>3. Review!TypeOK
    BY <1>2 DEF Review!TypeOK, Review!Access
  <1>4. VersionsQueued /\ RunningIsHeld /\ DeploysKnown /\ ReviewComes
    BY <1>2 DEF VersionsQueued, RunningIsHeld, DeploysKnown, ReviewComes, Review!Idle
  <1>5. QED
    BY <1>3, <1>4 DEF ReviewInv

LEMMA ReviewDone == ReviewInv => Review!TypeOK /\ Review!ReviewedUnlessOvertaken
  <1>1. SUFFICES ASSUME ReviewInv, Review!Settled, Reachable(access), served # Review!None
                 PROVE  Review!Reviewed(served) \/ served \in late
    BY DEF ReviewInv, Review!ReviewedUnlessOvertaken, Reachable
  <1>2. served \in Version
    BY <1>1 DEF ReviewInv, Review!TypeOK
  <1>3. ~Coming(served)
    BY <1>1, <1>2 DEF Review!Settled, Review!Idle, Coming, Queues
  <1>4. QED
    BY <1>1, <1>3 DEF ReviewInv, ReviewComes

\* When nothing is under way, a site that strangers can reach has been reviewed as it
\* is served, or is one of those the actions name as missed: for any number of requests
\* of the owner at once, over deployments, rollbacks, retries and failures
\* (lib/projects.ts 429-461, executor.ts 690-741 and 1081-1140).
THEOREM ReviewsAreComplete == ServicesSpec => []ReviewedUnlessOvertaken
  <1>1. (part = "review" => ReviewInv) /\ [ServicesNext]_services
            => (part = "review" => ReviewInv)'
    BY Turns, ReviewStep, ReviewUnchanged
  <1>2. (part = "card" => Card!TypeOK) /\ [ServicesNext]_services
            => (part = "card" => Card!TypeOK)'
    BY Turns, CardStep, CardUnchanged
  <1>3. ServicesInit => (part = "review" => ReviewInv) /\ (part = "card" => Card!TypeOK)
    BY ReviewInit, CardInit DEF ServicesInit
  <1>4. (part = "review" => ReviewInv) /\ (part = "card" => Card!TypeOK)
            => ReviewedUnlessOvertaken
    BY ReviewDone DEF ReviewedUnlessOvertaken, Kept
  <1>5. QED
    BY <1>1, <1>2, <1>3, <1>4, PTL DEF ServicesSpec
=============================================================================
