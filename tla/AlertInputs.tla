----------------------------- MODULE AlertInputs -----------------------------
(***************************************************************************)
(* What one pass of the monitor can see (MonitorService.observe in         *)
(* lib/monitor.ts, the rule table of lib/alert-rules.ts, the readers of    *)
(* lib/host-metrics.ts): which rules a pass evaluates, depending on what   *)
(* is readable on this host, and which inputs it reports as missing.       *)
(*                                                                         *)
(* The measured values are left out: the module is about a rule being      *)
(* evaluated at all.                                                       *)
(***************************************************************************)
EXTENDS Naturals

CONSTANT MaxPages \* bound: pages read back from swap since boot

VARIABLES
    previousSwapIn, \* the last reading of /proc/vmstat, None after a restart
    missing,        \* the inputs reported as missing by the last pass
    observed,       \* the rules the last pass evaluated
    silent,         \* history: the rules left out without a report, by the last
                    \* pass that reached the database and by the last pass
    twice           \* history: the ones left out by two such passes in a row

vars == <<previousSwapIn, missing, observed, silent, twice>>

None == MaxPages + 1

RuleInput ==
    {"internal", "control_db", "executor_snapshot",
     "host_disk", "host_meminfo", "host_swap", "host_vmstat"}

\* RULES, by the input they read.
Rules == [
    internal |->
        {"executor_snapshot_stale", "postgres_unreachable", "gateway_unhealthy",
         "tunnel_unreachable", "alert_rule_unevaluable"},
    control_db |->
        {"job_queue_backlog", "job_queue_wait_high", "job_failures",
         "job_running_too_long", "build_duration_high", "cold_start_failures",
         "cold_start_latency", "runtime_failed", "db_quota_warn", "db_quota_crit",
         "object_quota_warn", "object_quota_crit", "usage_measurement_stale",
         "backup_age", "restore_drill_age", "alert_delivery_failing",
         "site_review_flagged"},
    executor_snapshot |-> {"service_down", "service_unhealthy", "runtime_oom"},
    host_disk |-> {"disk_free_warn", "disk_free_crit"},
    host_meminfo |-> {"memory_available_warn", "memory_available_crit"},
    host_swap |-> {"swap_used"},
    host_vmstat |-> {"swap_in_rate"}]

\* The rules that say something of each project, site, service or runtime.
OfSubjects(kind) ==
    CASE kind = "failed" -> {"runtime_failed"}
      [] kind = "projects" ->
            {"db_quota_warn", "db_quota_crit", "object_quota_warn", "object_quota_crit"}
      [] kind = "reviews" -> {"site_review_flagged"}
      [] kind = "services" -> {"service_down", "service_unhealthy"}
      [] kind = "runtimes" -> {"runtime_oom"}

SubjectKind == {"failed", "projects", "reviews", "services", "runtimes"}

AllRules == UNION {Rules[i] : i \in RuleInput}

\* The rule about the database itself.
Outage == {"postgres_unreachable"}

\* What a pass finds: the database up, gone, or gone and back before the pass
\* writes what it saw; the files; how much of swap /proc/meminfo tells (nothing,
\* that it is off, SwapTotal alone, SwapFree too); the subjects there are; and
\* whether the clock moved since the last reading of /proc/vmstat.
World == [database : {"up", "gone", "back"}, snapshot : BOOLEAN, disk : BOOLEAN,
          meminfo : BOOLEAN, swap : {"unread", "off", "total", "used"},
          vmstat : 0..None, later : BOOLEAN,
          subjects : {{}, SubjectKind, {"projects", "services"}}]

TypeOK ==
    /\ previousSwapIn \in 0..None
    /\ missing \subseteq RuleInput
    /\ observed \subseteq AllRules
    /\ silent \subseteq AllRules
    /\ twice \subseteq AllRules

Init ==
    /\ previousSwapIn = None
    /\ missing = {}
    /\ observed = {}
    /\ silent = {}
    /\ twice = {}

\* Mutant: a host with swap switched off counts as one whose swap is readable.
SwapReadable(w) == w.swap # "unread"

\* memInfo: SwapTotal is there and is not zero.
SwapThere(w) == w.swap \in {"total", "used"}

\* inputAvailability
Available(w) ==
    {"internal", "control_db"}
    \cup (IF w.snapshot THEN {"executor_snapshot"} ELSE {})
    \cup (IF w.disk THEN {"host_disk"} ELSE {})
    \cup (IF w.meminfo THEN {"host_meminfo"} ELSE {})
    \cup (IF SwapThere(w) THEN {"host_swap"} ELSE {})
    \cup (IF w.vmstat # None THEN {"host_vmstat"} ELSE {})

\* reportInputs: one observation for each input that a rule depends on.
Missing(w) == {i \in RuleInput : Rules[i] # {}} \ Available(w)

\* swapInRate: a first reading, one from the same instant and one after a
\* reboot have nothing to difference.
StartsOver(w) == ~w.later \/ w.vmstat < previousSwapIn

HasRate(w) == w.vmstat # None /\ previousSwapIn # None /\ ~StartsOver(w)

\* The rules about subjects that this pass has none of.
Subjectless(w) == UNION {OfSubjects(k) : k \in SubjectKind \ w.subjects}

Observed(w) ==
    ((UNION {Rules[i] : i \in {"internal", "control_db"}})
        \cup (IF w.snapshot THEN Rules["executor_snapshot"] ELSE {})
        \cup (IF w.disk THEN Rules["host_disk"] ELSE {})
        \cup (IF w.meminfo THEN Rules["host_meminfo"] ELSE {})
        \cup (IF w.swap = "used" THEN Rules["host_swap"] ELSE {})
        \cup (IF HasRate(w) THEN Rules["host_vmstat"] ELSE {}))
    \ Subjectless(w)

\* A pass cannot help it: the swap-in rate right after a reboot or at the same
\* instant, and a share of a swap of which only the total can be read.
Excused(w) ==
    (IF previousSwapIn # None /\ StartsOver(w) THEN Rules["host_vmstat"] ELSE {})
        \cup (IF w.swap = "total" THEN Rules["host_swap"] ELSE {})

\* A pass that reaches the database.  One that loses it again ends in an
\* exception: that is AlertMail's Lost.
PassOver(w) ==
    /\ w.database = "up"
    /\ observed' = Observed(w)
    /\ missing' = Missing(w)
    /\ previousSwapIn' = IF w.vmstat = None THEN previousSwapIn ELSE w.vmstat
    /\ silent' = (AllRules \ (observed' \cup Subjectless(w)))
                    \ UNION {Rules[i] : i \in missing'}
    /\ twice' = (silent \cap silent') \ Excused(w)

\* Without the database only the rule about it is evaluated, and what it says is
\* recorded if the database is back by then.
PassWithout(w) ==
    /\ w.database # "up"
    /\ observed' = Outage
    /\ silent' = (silent \ Outage) \cup (IF w.database = "gone" THEN Outage ELSE {})
    /\ twice' = silent \cap silent' \cap Outage
    /\ UNCHANGED <<previousSwapIn, missing>>

\* A new process has no earlier reading.
Restart ==
    /\ previousSwapIn' = None
    /\ silent' = {}
    /\ UNCHANGED <<missing, observed, twice>>

Next == Restart \/ \E w \in World : PassOver(w) \/ PassWithout(w)

Spec == Init /\ [][Next]_vars

\* A rule whose input cannot be read is reported, it is never just skipped: no
\* rule that has a subject is left out without a report by two passes in a row of
\* one process, those that do not find the database not counted.  Exempt are what
\* Excused names, and the rule about the database, of which OutageIsSaid speaks.
NoRuleStaysSilent == twice \subseteq Outage

\* What alert-rules.ts 231-232 says of the passes left out above: when the
\* database is down, postgres_unreachable says so, here by the second of two such
\* passes in a row, after which it should fire.
OutageIsSaid == twice \cap Outage = {}
=============================================================================
