------------------------------ MODULE MCAlerts ------------------------------
(***************************************************************************)
(* The monitor's three parts for TLC.  They share no state, so a behaviour *)
(* exercises one of them and leaves the others as they begin: the states   *)
(* of the parts add up instead of being multiplied.                        *)
(***************************************************************************)
EXTENDS Naturals, FiniteSets

CONSTANTS
    Pass, Alert, For, ClearAfter, MaxAttempts, BatchLimit, MaxMails, MaxTroubles,
    MaxPages,
    Recipients

\* Passes are processes, none of them called what stands for none; thresholds and
\* bounds are numbers, and a mail has an attempt at least.
ASSUME AlertsAssumption ==
    /\ IsFiniteSet(Pass) /\ "none" \notin Pass
    /\ For \in Nat /\ ClearAfter \in Nat /\ MaxAttempts \in Nat \ {0} /\ BatchLimit \in Nat
    /\ MaxMails \in Nat /\ MaxTroubles \in Nat /\ MaxPages \in Nat

VARIABLES
    part,
    episodic, breaching, overdue, alerts, lock, pass, outbox, told, troubles,
    previousSwapIn, missing, observed, silent, twice,
    env, stage, secure, offers, open, invited, outcome, exposed, received

Mail == INSTANCE AlertMail

Inputs == INSTANCE AlertInputs

Post == INSTANCE Mailer

Part == {"mail", "inputs", "post"}

mail == <<episodic, breaching, overdue, alerts, lock, pass, outbox, told, troubles>>

inputs == <<previousSwapIn, missing, observed, silent, twice>>

post == <<env, stage, secure, offers, open, invited, outcome, exposed, received>>

vars == <<part, mail, inputs, post>>

\* A configuration that is looked at only when its part is exercised.
AnyEnv == CHOOSE e \in Post!Env : TRUE

Init ==
    /\ part \in Part
    /\ Mail!Init /\ (part # "mail" => episodic = {})
    /\ Inputs!Init
    /\ Post!Init /\ (part # "post" => env = AnyEnv)

InMail(A) == part = "mail" /\ A /\ UNCHANGED <<part, inputs, post>>

InInputs(A) == part = "inputs" /\ A /\ UNCHANGED <<part, mail, post>>

InPost(A) == part = "post" /\ A /\ UNCHANGED <<part, mail, inputs>>

-----------------------------------------------------------------------------
(* Next of each part, action by action.                                    *)

MailNext ==
    \/ \E x \in Alert : InMail(Mail!Flip(x)) \/ InMail(Mail!Wait(x))
    \/ \E p \in Pass :
        \/ InMail(Mail!Observe(p)) \/ InMail(Mail!TakeLock(p)) \/ InMail(Mail!LockTaken(p))
        \/ InMail(Mail!Record(p)) \/ InMail(Mail!Deliver(p)) \/ InMail(Mail!Claim(p))
        \/ InMail(Mail!Sent(p)) \/ InMail(Mail!Refused(p)) \/ InMail(Mail!Unsure(p))
        \/ InMail(Mail!Lost(p))

InputsNext ==
    \/ InInputs(Inputs!Restart)
    \/ \E w \in Inputs!World : InInputs(Inputs!PassOver(w)) \/ InInputs(Inputs!PassWithout(w))

PostNext ==
    \/ InPost(Post!Begin) \/ InPost(Post!Connect) \/ InPost(Post!Answered)
    \/ InPost(Post!Upgrade) \/ InPost(Post!Broken) \/ InPost(Post!Quit)
    \/ InPost(Post!Hang) \/ InPost(Post!PostFails)
    \/ \E bounced \in SUBSET Recipients : InPost(Post!Posted(bounced))
    \/ \E caps \in SUBSET {"STARTTLS", "AUTH"} : InPost(Post!Greeted(caps))
    \/ \E r \in Recipients : InPost(Post!Invite(r))

Next == MailNext \/ InputsNext \/ PostNext

\* Mail!Fairness, of the part under way.
Fairness ==
    /\ \A p \in Pass : WF_vars(InMail(Mail!Advance(p)))
    /\ \A a \in Alert : WF_vars(InMail(Mail!Wait(a)))

FairSpec == Init /\ [][Next]_vars /\ Fairness

-----------------------------------------------------------------------------
(* Properties, the type invariant of each part with the first about it.    *)

\* A mail is sent by one pass, and again only if an outcome was lost
\* (drainQueued, lib/monitor.ts).
SentOnce == Mail!TypeOK /\ Mail!SentOnce

\* Overlapping passes announce a change once (record, lib/monitor.ts).
NoDoubleAlarm == Mail!NoDoubleAlarm

\* An alert that goes on breaching is in the end what the operator was told.
BreachIsTold == part = "mail" => Mail!BreachIsTold

\* An alert whose condition is over clears (violated for runtime_failed).
EveryAlertClears == part = "mail" => Mail!EveryAlertClears

\* A rule that cannot be evaluated is reported by the second of two passes that
\* reach the database, with the exemptions that AlertInputs names (observe,
\* lib/monitor.ts).
NoRuleStaysSilent == Inputs!TypeOK /\ Inputs!NoRuleStaysSilent

\* An outage of the database is said by the rule about it (violated: nothing can
\* record the observation).
OutageIsSaid == part = "inputs" => Inputs!OutageIsSaid

\* The password and the message never travel in clear (lib/smtp.ts).
NothingInClear == Post!TypeOK /\ Post!NothingInClear

\* A mail recorded as sent was accepted for every recipient.
SentIsReceived == Post!SentIsReceived
=============================================================================
