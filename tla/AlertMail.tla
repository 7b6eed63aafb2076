------------------------------ MODULE AlertMail ------------------------------
(***************************************************************************)
(* The alert monitor (lib/monitor.ts) and the alert state machine          *)
(* (lib/alert-rules.ts): passes that observe, record the transitions under *)
(* an advisory lock, queue one mail for them and send what is queued.      *)
(*                                                                         *)
(* A pass is started by a timer whether or not the one before has ended,   *)
(* and by every replica of the control plane, so passes overlap.  A pass   *)
(* is lost at any step when its process dies, a query fails or the mailer  *)
(* never answers: what it had claimed stays claimed.                       *)
(*                                                                         *)
(* A mail transport and ALERT_TO are configured; without them every mail   *)
(* is recorded as failed at its first claim.                               *)
(*                                                                         *)
(* Time is one flag per alert: its last notification is at least           *)
(* ALERT_RENOTIFY_MINUTES old.  A mail that was sent, has failed for good  *)
(* or was claimed by a pass that is lost is never read again and leaves    *)
(* the model; its number is used again.                                    *)
(***************************************************************************)
EXTENDS Naturals, FiniteSets

CONSTANTS
    Pass,        \* passes that may be under way at once
    Alert,       \* (rule, subject) pairs
    For,         \* consecutive breaching observations before an alert fires
    ClearAfter,  \* consecutive clear ones before it resolves
    MaxAttempts, \* attempts before a mail has failed
    BatchLimit,  \* mails one pass claims
    MaxMails,    \* bound: mails queued or in hand
    MaxTroubles  \* bound: lost passes, refused and unsure sends

VARIABLES
    episodic,  \* the alerts observed only while something is wrong
    breaching, \* [Alert -> BOOLEAN], what the rule measures
    overdue,   \* [Alert -> BOOLEAN], renotify has passed since notified_at
    alerts,    \* [Alert -> AlertState], table alerts
    lock,      \* pg_try_advisory_xact_lock: the pass that holds it
    pass,      \* [Pass -> where the pass is and what it knows]
    outbox,    \* alert_deliveries queued or in the hands of a pass, by number
    told,      \* [Alert -> what the last mail the operator received said]
    troubles   \* troubles so far

vars == <<episodic, breaching, overdue, alerts, lock, pass, outbox, told, troubles>>

NoPass == "none"

Kind == {"firing", "resolved", "reminder", "none"}

Silent == [a \in Alert |-> "none"]

AlertState == [state : {"pending", "firing", "resolved"},
               breachCount : 0..For, clearCount : 0..ClearAfter]

EmptyState == [state |-> "pending", breachCount |-> 0, clearCount |-> 0]

Idle == [at |-> "idle", saw |-> Silent, read |-> [a \in Alert |-> EmptyState],
         transitions |-> Silent, batch |-> {}]

MailId == 1..MaxMails

\* earlier: those of the others that were created before it.
Mail == [body : [Alert -> Kind], status : {"queued", "sending"}, attempts : 0..MaxAttempts,
         earlier : SUBSET MailId]

TypeOK ==
    /\ episodic \subseteq Alert
    /\ breaching \in [Alert -> BOOLEAN]
    /\ overdue \in [Alert -> BOOLEAN]
    /\ alerts \in [Alert -> AlertState]
    /\ lock \in Pass \cup {NoPass}
    /\ pass \in [Pass -> [at : {"idle", "record", "commit", "deliver", "claim", "send"},
                          saw : [Alert -> {"none", "breach", "clear"}],
                          read : [Alert -> AlertState],
                          transitions : [Alert -> Kind],
                          batch : SUBSET MailId]]
    /\ outbox \in [DOMAIN outbox -> Mail] /\ DOMAIN outbox \subseteq MailId
    /\ told \in [Alert -> {"none", "firing", "resolved"}]
    /\ troubles \in 0..MaxTroubles

Init ==
    /\ episodic \in SUBSET Alert
    /\ breaching = [a \in Alert |-> FALSE]
    /\ overdue = [a \in Alert |-> FALSE]
    /\ alerts = [a \in Alert |-> EmptyState]
    /\ lock = NoPass
    /\ pass = [p \in Pass |-> Idle]
    /\ outbox = [m \in {} |-> m]
    /\ told = [a \in Alert |-> "none"]
    /\ troubles = 0

-----------------------------------------------------------------------------
(* The state machine of one alert.  The counts stop at the thresholds they *)
(* are compared with.                                                      *)

CapAt(n, limit) == IF n > limit THEN limit ELSE n

Counted(previous, breach) ==
    [previous EXCEPT
        !.breachCount = IF breach THEN CapAt(@ + 1, For) ELSE 0,
        !.clearCount = IF breach THEN 0 ELSE CapAt(@ + 1, ClearAfter)]

\* Mutant: no reminders.
StepQuiet(previous, breach, late) ==
    LET next == Counted(previous, breach) IN
    CASE breach /\ next.breachCount >= For /\ previous.state # "firing" ->
            [next |-> [next EXCEPT !.state = "firing"], kind |-> "firing"]
      [] ~breach /\ next.clearCount >= ClearAfter /\ previous.state = "firing" ->
            [next |-> [next EXCEPT !.state = "resolved"], kind |-> "resolved"]
      [] OTHER -> [next |-> next, kind |-> "none"]

\* What an observation does to an alert: its next state and the transition.
StepAlert(previous, breach, late) ==
    LET next == Counted(previous, breach) IN
    CASE breach /\ next.breachCount >= For /\ previous.state # "firing" ->
            [next |-> [next EXCEPT !.state = "firing"], kind |-> "firing"]
      [] ~breach /\ next.clearCount >= ClearAfter /\ previous.state = "firing" ->
            [next |-> [next EXCEPT !.state = "resolved"], kind |-> "resolved"]
      [] breach /\ previous.state = "firing" /\ late ->
            [next |-> next, kind |-> "reminder"]
      [] OTHER -> [next |-> next, kind |-> "none"]

-----------------------------------------------------------------------------
(* The world.                                                              *)

Flip(a) ==
    /\ breaching' = [breaching EXCEPT ![a] = ~@]
    /\ UNCHANGED <<episodic, overdue, alerts, lock, pass, outbox, told, troubles>>

\* The clock passes notified_at + renotify.
Wait(a) ==
    /\ alerts[a].state = "firing" /\ ~overdue[a]
    /\ overdue' = [overdue EXCEPT ![a] = TRUE]
    /\ UNCHANGED <<episodic, breaching, alerts, lock, pass, outbox, told, troubles>>

-----------------------------------------------------------------------------
(* runOnce.                                                                *)

Observe(p) ==
    /\ pass[p].at = "idle"
    /\ pass' = [pass EXCEPT ![p] =
            [Idle EXCEPT !.at = "record",
                         !.saw = [a \in Alert |->
                            CASE breaching[a] -> "breach"
                              [] a \in episodic -> "none"
                              [] OTHER -> "clear"]]]
    /\ UNCHANGED <<episodic, breaching, overdue, alerts, lock, outbox, told, troubles>>

\* bound: a pass records when there is room for its mail; without room it goes on
\* like one that found the lock taken.
Room ==
    Cardinality(DOMAIN outbox)
        + Cardinality({q \in Pass : pass[q].at \in {"commit", "deliver"}}) < MaxMails

\* Mutant: no lock.
NoLock == Room

LockFree == lock = NoPass /\ Room

\* record: BEGIN, the try-lock and the rows as this transaction reads them.
TakeLock(p) ==
    /\ pass[p].at = "record" /\ LockFree
    /\ lock' = p
    /\ pass' = [pass EXCEPT ![p].at = "commit", ![p].read = alerts]
    /\ UNCHANGED <<episodic, breaching, overdue, alerts, outbox, told, troubles>>

\* record: another pass is recording, so this one has no transitions.
LockTaken(p) ==
    /\ pass[p].at = "record" /\ ~LockFree
    /\ pass' = [pass EXCEPT ![p] = [Idle EXCEPT !.at = "claim"]]
    /\ UNCHANGED <<episodic, breaching, overdue, alerts, lock, outbox, told, troubles>>

\* record: every observation is stepped and written, then COMMIT.
Record(p) ==
    LET seen == {a \in Alert : pass[p].saw[a] # "none"}
        Result(a) == StepAlert(pass[p].read[a], pass[p].saw[a] = "breach", overdue[a])
        kinds == [a \in Alert |-> IF a \in seen THEN Result(a).kind ELSE "none"]
    IN  /\ pass[p].at = "commit"
        /\ alerts' = [a \in Alert |-> IF a \in seen THEN Result(a).next ELSE alerts[a]]
        /\ overdue' = [a \in Alert |->
                overdue[a] /\ kinds[a] = "none" /\ alerts'[a].state = "firing"]
        /\ pass' = [pass EXCEPT ![p] =
                [Idle EXCEPT !.at = IF kinds = Silent THEN "claim" ELSE "deliver",
                             !.transitions = kinds]]
        /\ lock' = IF lock = p THEN NoPass ELSE lock
        /\ UNCHANGED <<episodic, breaching, outbox, told, troubles>>

\* deliver: one mail for every transition of the pass.
Deliver(p) ==
    LET number == CHOOSE m \in MailId : m \notin DOMAIN outbox
        mail == [body |-> pass[p].transitions, status |-> "queued", attempts |-> 0,
                 earlier |-> DOMAIN outbox]
    IN  /\ pass[p].at = "deliver"
        /\ outbox' = [m \in DOMAIN outbox \cup {number} |-> IF m = number THEN mail ELSE outbox[m]]
        /\ pass' = [pass EXCEPT ![p] = [Idle EXCEPT !.at = "claim"]]
        /\ UNCHANGED <<episodic, breaching, overdue, alerts, lock, told, troubles>>

\* Of some mails the oldest, as many as one statement claims.
Oldest(mails) == {m \in mails : Cardinality(mails \cap outbox[m].earlier) < BatchLimit}

\* Mutant: the claim does not look at the status.
ClaimableAny == Oldest({m \in DOMAIN outbox : outbox[m].attempts < MaxAttempts})

Claimable ==
    Oldest({m \in DOMAIN outbox : outbox[m].status = "queued" /\ outbox[m].attempts < MaxAttempts})

\* drainQueued: the claim marks its mails 'sending'; it returns them in no order.
Claim(p) ==
    LET batch == Claimable IN
    /\ pass[p].at = "claim"
    /\ outbox' = [m \in DOMAIN outbox |->
            IF m \in batch THEN [outbox[m] EXCEPT !.status = "sending", !.attempts = @ + 1]
            ELSE outbox[m]]
    /\ pass' = [pass EXCEPT ![p] = IF batch = {} THEN Idle
                                   ELSE [Idle EXCEPT !.at = "send", !.batch = batch]]
    /\ UNCHANGED <<episodic, breaching, overdue, alerts, lock, told, troubles>>

\* The pass is done with one mail of its batch.
DoneWith(p, m) ==
    LET unsent == pass[p].batch \ {m}
    IN pass' = [pass EXCEPT ![p] = IF unsent = {} THEN Idle ELSE [pass[p] EXCEPT !.batch = unsent]]

Heard(mail) ==
    told' = [a \in Alert |->
                CASE mail.body[a] \in {"firing", "reminder"} -> "firing"
                  [] mail.body[a] = "resolved" -> "resolved"
                  [] OTHER -> told[a]]

\* Nothing reads these mails again.
Left(mails) ==
    outbox' = [m \in DOMAIN outbox \ mails |-> [outbox[m] EXCEPT !.earlier = @ \ mails]]

\* drainQueued: the catch queues the mail again, or gives it up.
PutBack(m) ==
    IF outbox[m].attempts >= MaxAttempts THEN Left({m})
    ELSE outbox' = [outbox EXCEPT ![m].status = "queued"]

\* The mail was accepted and the row is marked 'sent'.
Sent(p) ==
    /\ pass[p].at = "send"
    /\ \E m \in pass[p].batch : Heard(outbox[m]) /\ Left({m}) /\ DoneWith(p, m)
    /\ UNCHANGED <<episodic, breaching, overdue, alerts, lock, troubles>>

\* The relay refused it or could not be reached.
Refused(p) ==
    /\ pass[p].at = "send" /\ troubles < MaxTroubles
    /\ \E m \in pass[p].batch : PutBack(m) /\ DoneWith(p, m)
    /\ troubles' = troubles + 1
    /\ UNCHANGED <<episodic, breaching, overdue, alerts, lock, told>>

\* It was accepted, and the answer or the update of the row was lost.
Unsure(p) ==
    /\ pass[p].at = "send" /\ troubles < MaxTroubles
    /\ \E m \in pass[p].batch : Heard(outbox[m]) /\ PutBack(m) /\ DoneWith(p, m)
    /\ troubles' = troubles + 1
    /\ UNCHANGED <<episodic, breaching, overdue, alerts, lock>>

\* The process dies, a query throws or the mailer never answers: a transaction
\* under way is rolled back, and the mails it had claimed stay 'sending'.
Lost(p) ==
    /\ pass[p].at # "idle" /\ troubles < MaxTroubles
    /\ pass' = [pass EXCEPT ![p] = Idle]
    /\ lock' = IF lock = p THEN NoPass ELSE lock
    /\ Left(pass[p].batch)
    /\ troubles' = troubles + 1
    /\ UNCHANGED <<episodic, breaching, overdue, alerts, told>>

Advance(p) ==
    \/ Observe(p) \/ TakeLock(p) \/ LockTaken(p) \/ Record(p)
    \/ Deliver(p) \/ Claim(p) \/ Sent(p)

Next ==
    \/ \E a \in Alert : Flip(a) \/ Wait(a)
    \/ \E p \in Pass : Advance(p) \/ Refused(p) \/ Unsure(p) \/ Lost(p)

Spec == Init /\ [][Next]_vars

\* The timer starts passes and they go on; the clock does not stop.
Fairness ==
    /\ \A p \in Pass : WF_vars(Advance(p))
    /\ \A a \in Alert : WF_vars(Wait(a))

FairSpec == Spec /\ Fairness

-----------------------------------------------------------------------------
(* Properties.                                                             *)

\* No two passes announce the same change: whatever the overlap of passes and
\* replicas, an alert that is recorded as firing was not firing already, and
\* one recorded as resolved was (the try-lock of record).
NoDoubleAlarm ==
    [][\A p \in Pass, a \in Alert :
        /\ pass[p].at = "commit" /\ pass'[p].at = "deliver"
        => /\ pass'[p].transitions[a] = "firing" => alerts[a].state # "firing"
           /\ pass'[p].transitions[a] = "resolved" => alerts[a].state = "firing"
           /\ pass'[p].transitions[a] = "reminder" => overdue[a]]_vars

\* Two passes never send one mail: a mail is in the hands of one pass at most and is
\* marked so, and one that waits can still be claimed, so that it is sent again only
\* after a send that failed or whose outcome was lost, MaxAttempts times at most.
SentOnce ==
    /\ \A p, q \in Pass : p # q => pass[p].batch \cap pass[q].batch = {}
    /\ \A p \in Pass : \A m \in pass[p].batch :
            m \in DOMAIN outbox /\ outbox[m].status = "sending"
    /\ \A m \in DOMAIN outbox : outbox[m].status = "queued" => outbox[m].attempts < MaxAttempts

\* An alert that goes on breaching is in the end what the operator was last
\* told, whatever mail was lost on the way: the reminders repair it.
BreachIsTold ==
    \A a \in Alert : <>[]breaching[a] => <>[](told[a] = "firing")

\* Every alert can clear: "an observation that appears only while something is
\* wrong can never clear" (lib/monitor.ts:242), which is what the observation
\* of runtime_failed does (lib/monitor.ts:130).
EveryAlertClears ==
    \A a \in Alert : <>[](~breaching[a]) => <>[](alerts[a].state # "firing")
=============================================================================
