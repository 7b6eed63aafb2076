---------------------------- MODULE AlertsProofs ----------------------------
(***************************************************************************)
(* The monitor's three parts, for any passes, alerts, recipients,          *)
(* thresholds and bounds: what is written in clear and who has received    *)
(* what, which rules a pass leaves out, who holds which mail.              *)
(***************************************************************************)
EXTENDS MCAlerts, FiniteSetTheorems, TLAPS

-----------------------------------------------------------------------------
(* A step is one of one part, and leaves the others as they are.           *)

LEMMA OneMoves ==
  ASSUME [Next]_vars
  PROVE  /\ MailNext \/ UNCHANGED mail
         /\ InputsNext \/ UNCHANGED inputs
         /\ PostNext \/ UNCHANGED post
  <1>1. CASE MailNext
    <2>1. UNCHANGED <<inputs, post>>
      BY <1>1 DEF MailNext, InMail
    <2>2. QED
      BY <1>1, <2>1
  <1>2. CASE InputsNext
    <2>1. UNCHANGED <<mail, post>>
      BY <1>2 DEF InputsNext, InInputs
    <2>2. QED
      BY <1>2, <2>1
  <1>3. CASE PostNext
    <2>1. UNCHANGED <<mail, inputs>>
      BY <1>3 DEF PostNext, InPost
    <2>2. QED
      BY <1>3, <2>1
  <1>4. CASE UNCHANGED vars
    BY <1>4 DEF vars
  <1>5. QED
    BY <1>1, <1>2, <1>3, <1>4 DEF Next

-----------------------------------------------------------------------------
(* The mailer.  A conversation takes place under a configuration that      *)
(* allows it, it is encrypted where that one asks for it, and no message   *)
(* is sent before every recipient was accepted.                            *)

Secured == {"ehlo-tls", "auth", "mail-from", "rcpt-to", "data", "body", "quit"}

Conversing == Secured \cup {"greeting", "ehlo", "starttls", "upgrade"}

Allowed ==
    stage \in Conversing \cup {"connect"} =>
        env.tls # "other" /\ (env.tls = "none" => env.allowPlaintext)

Encrypted ==
    /\ stage \in Conversing /\ env.tls = "implicit" => secure
    /\ stage \in Secured /\ env.tls = "starttls" => secure

Everyone ==
    /\ stage \in {"data", "body", "quit"} => invited = Recipients
    /\ stage = "quit" => received = Recipients
    /\ Post!SentIsReceived

PostInv == Post!TypeOK /\ Allowed /\ Encrypted /\ Everyone /\ Post!NothingInClear

LEMMA PostTyped ==
  ASSUME Post!TypeOK, PostNext
  PROVE  Post!TypeOK'
  <1> USE DEF Post!TypeOK, Post!End, Post!socket, Post!Stage
  <1>1. env' \in Post!Env
    BY DEF PostNext, InPost, Post!Begin, Post!Connect, Post!Answered, Post!Upgrade,
       Post!Broken, Post!Quit, Post!Hang, Post!PostFails, Post!Posted, Post!Greeted, Post!Invite
  <1>2. CASE Post!Begin \/ Post!PostFails \/ Post!Broken \/ Post!Quit
    BY <1>1, <1>2 DEF Post!Begin, Post!PostFails, Post!Broken, Post!Quit
  <1>3. CASE Post!Connect \/ Post!Upgrade \/ Post!Hang
    <2>1. secure' \in BOOLEAN /\ open' \in BOOLEAN
      BY <1>3 DEF Post!Connect, Post!Upgrade, Post!Hang
    <2>2. QED
      BY <1>1, <1>3, <2>1 DEF Post!Connect, Post!Upgrade, Post!Hang
  <1>4. CASE Post!Answered
    BY <1>1, <1>4 DEF Post!Answered, Post!Enter, Post!Written, Post!Following
  <1>5. CASE \E bounced \in SUBSET Recipients : Post!Posted(bounced)
    BY <1>1, <1>5 DEF Post!Posted
  <1>6. CASE \E caps \in SUBSET {"STARTTLS", "AUTH"} : Post!Greeted(caps)
    <2>1. PICK caps \in SUBSET {"STARTTLS", "AUTH"} : Post!Greeted(caps)
      BY <1>6
    <2>2. offers' \subseteq {"STARTTLS", "AUTH"} /\ UNCHANGED <<env, secure, open, invited, received>>
      BY <2>1 DEF Post!Greeted
    <2>3. /\ stage' \in Post!Stage
          /\ outcome' \in {"running", "none", "throws", "sent", "failed"}
          /\ exposed' \subseteq {"password", "message"}
      BY <2>1 DEF Post!Greeted, Post!Authenticate, Post!Enter, Post!Written
    <2>4. QED
      BY <2>2, <2>3
  <1>7. CASE \E r \in Recipients : Post!Invite(r)
    BY <1>1, <1>7 DEF Post!Invite
  <1>8. QED
    BY <1>2, <1>3, <1>4, <1>5, <1>6, <1>7 DEF PostNext, InPost

LEMMA PostKept ==
  ASSUME PostInv, PostNext
  PROVE  Allowed' /\ Encrypted' /\ Everyone' /\ Post!NothingInClear'
  <1> USE DEF PostInv, Allowed, Encrypted, Everyone, Conversing, Secured, Post!TypeOK,
          Post!End, Post!socket, Post!Stage, Post!SentIsReceived, Post!NothingInClear
  <1>1. CASE Post!Begin
    <2>1. Post!Transport = "smtp" => env.tls # "other" /\ (env.tls = "none" => env.allowPlaintext)
      BY DEF Post!Transport, Post!SmtpConfig
    <2>2. QED
      BY <1>1, <2>1 DEF Post!Begin
  <1>2. CASE Post!PostFails \/ Post!Broken \/ Post!Quit
    BY <1>2 DEF Post!PostFails, Post!Broken, Post!Quit
  <1>3. CASE Post!Connect
    BY <1>3 DEF Post!Connect
  <1>4. CASE Post!Upgrade
    BY <1>4 DEF Post!Upgrade
  <1>5. CASE Post!Hang
    BY <1>5 DEF Post!Hang
  <1>6. CASE Post!Answered
    <2>1. env.tls \in {"implicit", "starttls", "none", "other"}
      BY DEF Post!Env
    <2>2. \/ exposed' = exposed
          \/ exposed' = exposed \cup {"message"} /\ stage = "data" /\ ~secure
      BY <1>6 DEF Post!Answered, Post!Enter, Post!Written, Post!Following
    <2>3. QED
      BY <1>6, <2>1, <2>2 DEF Post!Answered, Post!Enter, Post!Following
  <1>7. CASE \E bounced \in SUBSET Recipients : Post!Posted(bounced)
    BY <1>7 DEF Post!Posted
  <1>8. CASE \E caps \in SUBSET {"STARTTLS", "AUTH"} : Post!Greeted(caps)
    <2>1. PICK caps \in SUBSET {"STARTTLS", "AUTH"} : Post!Greeted(caps)
      BY <1>8
    <2>2. /\ stage' \in {"starttls", "end", "auth", "mail-from"}
          /\ stage' \in {"auth", "mail-from"} /\ env.tls = "starttls" => stage = "ehlo-tls"
          /\ exposed' = exposed /\ stage \in {"ehlo", "ehlo-tls"}
          /\ outcome' = "sent" => outcome = "sent"
          /\ UNCHANGED <<env, secure, invited, received>>
      BY <2>1 DEF Post!Greeted, Post!Authenticate, Post!Enter, Post!Written, Post!MustUpgrade
    <2>3. QED
      BY <2>2
  <1>9. CASE \E r \in Recipients : Post!Invite(r)
    BY <1>9 DEF Post!Invite, Post!AllAccepted
  <1>10. QED
    BY <1>1, <1>2, <1>3, <1>4, <1>5, <1>6, <1>7, <1>8, <1>9 DEF PostNext, InPost

LEMMA PostUnchanged == PostInv /\ UNCHANGED post => PostInv'
  <1>1. SUFFICES ASSUME PostInv, UNCHANGED post PROVE PostInv'
    OBVIOUS
  <1>2. UNCHANGED <<env, stage, secure, offers, open, invited, outcome, exposed, received>>
    BY <1>1 DEF post
  <1>3. Post!TypeOK'
    BY <1>1, <1>2 DEF PostInv, Post!TypeOK
  <1>4. Allowed' /\ Encrypted' /\ Everyone' /\ Post!NothingInClear'
    BY <1>1, <1>2 DEF PostInv, Allowed, Encrypted, Everyone, Post!NothingInClear,
       Post!SentIsReceived
  <1>5. QED
    BY <1>3, <1>4 DEF PostInv

LEMMA PostInit == Post!Init => PostInv
  <1>1. SUFFICES ASSUME Post!Init PROVE PostInv
    OBVIOUS
  <1>2. Post!TypeOK
    BY <1>1 DEF Post!Init, Post!TypeOK, Post!Stage
  <1>3. Allowed /\ Encrypted /\ Everyone /\ Post!NothingInClear
    BY <1>1 DEF Post!Init, Allowed, Encrypted, Everyone, Conversing, Secured,
       Post!NothingInClear, Post!SentIsReceived
  <1>4. QED
    BY <1>2, <1>3 DEF PostInv

LEMMA PostStep == PostInv /\ [Next]_vars => PostInv'
  BY OneMoves, PostTyped, PostKept, PostUnchanged DEF PostInv

\* Under every configuration and whatever the relay answers, the password never
\* travels in clear, and the message does so only where the operator has allowed it
\* (lib/smtp.ts 59-80 and 248-286).
THEOREM ClearTextIsAllowed == FairSpec => []NothingInClear
  <1>1. Init => PostInv
    BY PostInit DEF Init
  <1>2. PostInv => NothingInClear
    BY DEF PostInv, NothingInClear
  <1>3. QED
    BY <1>1, <1>2, PostStep, PTL DEF FairSpec

\* A mail that is recorded as sent was accepted for every recipient, over SMTP or
\* HTTPS (lib/smtp.ts 280-286, lib/mail-cloudflare.ts 85-123).
THEOREM SentMailIsReceived == FairSpec => []SentIsReceived
  <1>1. Init => PostInv
    BY PostInit DEF Init
  <1>2. PostInv => SentIsReceived
    BY DEF PostInv, Everyone, SentIsReceived
  <1>3. QED
    BY <1>1, <1>2, PostStep, PTL DEF FairSpec

-----------------------------------------------------------------------------
(* What a pass can see.  A rule is left out with a report, or it is the    *)
(* share of a swap of which only the total is told, or it is the swap-in   *)
(* rate and this pass has nothing to difference: then the next one has.    *)

InputsInv ==
    /\ Inputs!TypeOK
    /\ twice \subseteq Inputs!Outage
    /\ \A rule \in silent :
        rule \in Inputs!Rules["host_vmstat"] => previousSwapIn # Inputs!None

LEMMA RulesKnown ==
  /\ \A i \in Inputs!RuleInput : Inputs!Rules[i] \subseteq Inputs!AllRules
  /\ Inputs!Outage \subseteq Inputs!AllRules
  /\ Inputs!Rules["host_vmstat"] \cap (Inputs!Rules["host_swap"] \cup Inputs!Outage) = {}
  <1>1. \A i \in Inputs!RuleInput : Inputs!Rules[i] \subseteq Inputs!AllRules
    BY DEF Inputs!AllRules
  <1>2. /\ Inputs!Rules["host_vmstat"] = {"swap_in_rate"}
        /\ Inputs!Rules["host_swap"] = {"swap_used"}
        /\ "postgres_unreachable" \in Inputs!Rules["internal"]
    BY DEF Inputs!Rules
  <1>3. Inputs!Outage \subseteq Inputs!AllRules
    BY <1>1, <1>2 DEF Inputs!Outage, Inputs!RuleInput
  <1>4. QED
    BY <1>1, <1>2, <1>3 DEF Inputs!Outage

\* An input that this pass reads has its rules observed.
LEMMA ReadIsObserved ==
  ASSUME NEW w \in Inputs!World, NEW i \in Inputs!RuleInput,
         i \in Inputs!Available(w), i # "host_vmstat" \/ Inputs!HasRate(w),
         i # "host_swap" \/ w.swap = "used"
  PROVE  Inputs!Rules[i] \subseteq Inputs!Observed(w) \cup Inputs!Subjectless(w)
  <1>1. CASE i \in {"internal", "control_db"}
    BY <1>1 DEF Inputs!Observed
  <1>2. CASE i = "executor_snapshot" /\ w.snapshot
    BY <1>2 DEF Inputs!Observed
  <1>3. CASE i = "host_disk" /\ w.disk
    BY <1>3 DEF Inputs!Observed
  <1>4. CASE i = "host_meminfo" /\ w.meminfo
    BY <1>4 DEF Inputs!Observed
  <1>5. CASE i = "host_swap"
    BY <1>5 DEF Inputs!Observed
  <1>6. CASE i = "host_vmstat"
    BY <1>6 DEF Inputs!Observed
  <1>7. QED
    BY <1>1, <1>2, <1>3, <1>4, <1>5, <1>6 DEF Inputs!Available, Inputs!RuleInput

\* What a pass over the database leaves out without a report.
LEMMA LeftOut ==
  ASSUME NEW w \in Inputs!World, NEW rule \in Inputs!AllRules,
         rule \notin Inputs!Observed(w) \cup Inputs!Subjectless(w),
         rule \notin UNION {Inputs!Rules[i] : i \in Inputs!Missing(w)}
  PROVE  \/ rule \in Inputs!Rules["host_vmstat"] /\ w.vmstat # Inputs!None /\ ~Inputs!HasRate(w)
         \/ rule \in Inputs!Rules["host_swap"] /\ w.swap = "total"
  <1>1. PICK i \in Inputs!RuleInput : rule \in Inputs!Rules[i]
    BY DEF Inputs!AllRules
  <1>2. i \in Inputs!Available(w)
    BY <1>1 DEF Inputs!Missing
  <1>3. \/ i = "host_vmstat" /\ ~Inputs!HasRate(w)
        \/ i = "host_swap" /\ w.swap # "used"
    BY <1>1, <1>2, ReadIsObserved
  <1>4. i = "host_vmstat" => w.vmstat # Inputs!None
    BY <1>2 DEF Inputs!Available
  <1>5. i = "host_swap" => Inputs!SwapThere(w)
    BY <1>2 DEF Inputs!Available
  <1>6. QED
    BY <1>1, <1>3, <1>4, <1>5 DEF Inputs!SwapThere

\* A pass over the database leaves a rule out only once, or is excused.
LEMMA OverStep ==
  ASSUME InputsInv, NEW w \in Inputs!World, Inputs!PassOver(w)
  PROVE  InputsInv'
  <1>1. Inputs!None \in Nat
    BY AlertsAssumption DEF Inputs!None
  <1>2. w.vmstat \in 0 .. Inputs!None
    BY DEF Inputs!World
  <1>3. Inputs!Observed(w) \subseteq Inputs!AllRules
    BY RulesKnown DEF Inputs!Observed, Inputs!RuleInput
  <1>4. Inputs!TypeOK'
    BY <1>2, <1>3 DEF InputsInv, Inputs!TypeOK, Inputs!PassOver, Inputs!Missing
  <1>5. ASSUME NEW rule \in silent'
        PROVE  \/ rule \in Inputs!Rules["host_vmstat"] /\ w.vmstat # Inputs!None
                    /\ ~Inputs!HasRate(w)
               \/ rule \in Inputs!Rules["host_swap"] /\ w.swap = "total"
    BY <1>5, LeftOut DEF Inputs!PassOver
  <1>6. ASSUME NEW rule \in twice' PROVE FALSE
    <2>1. rule \in silent /\ rule \in silent' /\ rule \notin Inputs!Excused(w)
      BY <1>6 DEF Inputs!PassOver
    <2>2. CASE rule \in Inputs!Rules["host_swap"] /\ w.swap = "total"
      BY <2>1, <2>2 DEF Inputs!Excused
    <2>3. CASE /\ rule \in Inputs!Rules["host_vmstat"] /\ w.vmstat # Inputs!None
               /\ ~Inputs!HasRate(w)
      <3>1. previousSwapIn # Inputs!None
        BY <2>1, <2>3 DEF InputsInv
      <3>2. Inputs!StartsOver(w)
        BY <2>3, <3>1 DEF Inputs!HasRate
      <3>3. QED
        BY <2>1, <2>3, <3>1, <3>2 DEF Inputs!Excused
    <2>4. QED
      BY <1>5, <2>1, <2>2, <2>3
  <1>7. ASSUME NEW rule \in silent', rule \in Inputs!Rules["host_vmstat"]
        PROVE  previousSwapIn' # Inputs!None
    <2>1. w.vmstat # Inputs!None
      BY <1>5, <1>7, RulesKnown
    <2>2. QED
      BY <2>1 DEF Inputs!PassOver
  <1>8. twice' \subseteq Inputs!Outage
    BY <1>6
  <1>9. Inputs!None' = Inputs!None
    BY DEF Inputs!None
  <1>10. QED
    BY <1>4, <1>7, <1>8, <1>9 DEF InputsInv

\* A pass without the database leaves out no rule but the database's own.
LEMMA WithoutStep ==
  ASSUME InputsInv, NEW w \in Inputs!World, Inputs!PassWithout(w)
  PROVE  InputsInv'
  <1>1. /\ silent' \subseteq silent \cup Inputs!Outage
        /\ twice' \subseteq Inputs!Outage
        /\ observed' = Inputs!Outage
        /\ previousSwapIn' = previousSwapIn /\ missing' = missing
    BY DEF Inputs!PassWithout
  <1>2. Inputs!TypeOK'
    BY <1>1, RulesKnown DEF InputsInv, Inputs!TypeOK
  <1>3. \A rule \in silent' : rule \in Inputs!Rules["host_vmstat"] => rule \in silent
    BY <1>1, RulesKnown
  <1>4. QED
    BY <1>1, <1>2, <1>3 DEF InputsInv, Inputs!None

LEMMA InputsStep == InputsInv /\ [Next]_vars => InputsInv'
  <1>1. SUFFICES ASSUME InputsInv, InputsNext \/ UNCHANGED inputs PROVE InputsInv'
    BY OneMoves
  <1>2. CASE Inputs!Restart
    <2>1. Inputs!None \in Nat
      BY AlertsAssumption DEF Inputs!None
    <2>2. QED
      BY <1>1, <1>2, <2>1 DEF InputsInv, Inputs!TypeOK, Inputs!Restart
  <1>3. CASE \E w \in Inputs!World : Inputs!PassOver(w)
    BY <1>1, <1>3, OverStep
  <1>4. CASE \E w \in Inputs!World : Inputs!PassWithout(w)
    BY <1>1, <1>4, WithoutStep
  <1>5. CASE UNCHANGED inputs
    BY <1>1, <1>5 DEF inputs, InputsInv, Inputs!TypeOK, Inputs!None
  <1>6. QED
    BY <1>1, <1>2, <1>3, <1>4, <1>5 DEF InputsNext, InInputs

\* A rule that has a subject is left out without a report at most once in a row by
\* the passes of one process that reach the database, over restarts and reboots:
\* but for the swap-in rate right after a reboot, a share of swap of which only
\* the total is told, and the rule about the database itself (lib/monitor.ts
\* 97-259).
THEOREM SilenceIsReported == FairSpec => []NoRuleStaysSilent
  <1>1. Init => InputsInv
    BY AlertsAssumption DEF Init, Inputs!Init, InputsInv, Inputs!TypeOK, Inputs!None
  <1>2. InputsInv => NoRuleStaysSilent
    BY DEF InputsInv, NoRuleStaysSilent, Inputs!NoRuleStaysSilent
  <1>3. QED
    BY <1>1, <1>2, InputsStep, PTL DEF FairSpec

-----------------------------------------------------------------------------
(* The mails.  One pass at a time has the lock and the rows it has read    *)
(* are those there are, a mail is in the hands of one pass, and there is   *)
(* room for the mails that are coming.                                     *)

Place == [at : {"idle", "record", "commit", "deliver", "claim", "send"},
          saw : [Alert -> {"none", "breach", "clear"}],
          read : [Alert -> Mail!AlertState],
          transitions : [Alert -> Mail!Kind],
          batch : SUBSET Mail!MailId]

\* What a pass read under the lock is what there is.
LockHeld == \A p \in Pass : pass[p].at = "commit" => lock = p /\ pass[p].read = alerts

HandsApart ==
    /\ Mail!SentOnce
    /\ \A p \in Pass : pass[p].at # "send" => pass[p].batch = {}

Writers == {q \in Pass : pass[q].at \in {"commit", "deliver"}}

RoomKept ==
    /\ IsFiniteSet(DOMAIN outbox)
    /\ Cardinality(DOMAIN outbox) + Cardinality(Writers) <= MaxMails

MailInv == Mail!TypeOK /\ LockHeld /\ HandsApart /\ RoomKept

LEMMA MailPlaces ==
  /\ Mail!EmptyState \in Mail!AlertState
  /\ Mail!Silent \in [Alert -> {"none", "breach", "clear"}]
  /\ Mail!Silent \in [Alert -> Mail!Kind]
  /\ Mail!Idle \in Place /\ Mail!Idle.at = "idle" /\ Mail!Idle.batch = {}
  /\ [Mail!Idle EXCEPT !.at = "claim"] \in Place
  /\ [Mail!Idle EXCEPT !.at = "claim"].at = "claim"
  /\ [Mail!Idle EXCEPT !.at = "claim"].batch = {}
  <1>1. Mail!EmptyState \in Mail!AlertState
    BY AlertsAssumption DEF Mail!EmptyState, Mail!AlertState
  <1>2. Mail!Silent \in [Alert -> {"none", "breach", "clear"}]
    BY DEF Mail!Silent
  <1>3. Mail!Silent \in [Alert -> Mail!Kind]
    BY DEF Mail!Silent, Mail!Kind
  <1>4. [a \in Alert |-> Mail!EmptyState] \in [Alert -> Mail!AlertState]
    BY <1>1
  <1>5. Mail!Idle \in Place /\ Mail!Idle.at = "idle" /\ Mail!Idle.batch = {}
    BY <1>2, <1>3, <1>4 DEF Mail!Idle, Place
  <1>6. /\ [Mail!Idle EXCEPT !.at = "claim"] \in Place
        /\ [Mail!Idle EXCEPT !.at = "claim"].at = "claim"
        /\ [Mail!Idle EXCEPT !.at = "claim"].batch = {}
    BY <1>5 DEF Place
  <1>7. QED
    BY <1>1, <1>2, <1>3, <1>5, <1>6

LEMMA MailTypes ==
  Mail!TypeOK <=>
    /\ episodic \subseteq Alert
    /\ breaching \in [Alert -> BOOLEAN]
    /\ overdue \in [Alert -> BOOLEAN]
    /\ alerts \in [Alert -> Mail!AlertState]
    /\ lock \in Pass \cup {Mail!NoPass}
    /\ pass \in [Pass -> Place]
    /\ outbox \in [DOMAIN outbox -> Mail!Mail] /\ DOMAIN outbox \subseteq Mail!MailId
    /\ told \in [Alert -> {"none", "firing", "resolved"}]
    /\ troubles \in 0..MaxTroubles
  BY DEF Mail!TypeOK, Place

\* One observation: the state it leads to, and what is announced.
LEMMA StepTyped ==
  ASSUME NEW previous \in Mail!AlertState, NEW breach \in BOOLEAN, NEW due \in BOOLEAN
  PROVE  LET step == Mail!StepAlert(previous, breach, due) IN
         /\ step.next \in Mail!AlertState /\ step.kind \in Mail!Kind
         /\ step.kind = "firing" => previous.state # "firing"
         /\ step.kind = "resolved" => previous.state = "firing"
         /\ step.kind = "reminder" => due
  <1> DEFINE later == Mail!Counted(previous, breach)
  <1>1. later \in Mail!AlertState
    <2>1. Mail!CapAt(previous.breachCount + 1, For) \in 0 .. For
      BY AlertsAssumption DEF Mail!AlertState, Mail!CapAt
    <2>2. Mail!CapAt(previous.clearCount + 1, ClearAfter) \in 0 .. ClearAfter
      BY AlertsAssumption DEF Mail!AlertState, Mail!CapAt
    <2>3. later = [previous EXCEPT
              !.breachCount = IF breach THEN Mail!CapAt(previous.breachCount + 1, For) ELSE 0,
              !.clearCount = IF breach THEN 0 ELSE Mail!CapAt(previous.clearCount + 1, ClearAfter)]
      BY DEF Mail!Counted
    <2>4. 0 \in 0 .. For /\ 0 \in 0 .. ClearAfter
      BY AlertsAssumption
    <2> HIDE DEF later
    <2>5. QED
      BY <2>1, <2>2, <2>3, <2>4 DEF Mail!AlertState
  <1>2. /\ [later EXCEPT !.state = "firing"] \in Mail!AlertState
        /\ [later EXCEPT !.state = "resolved"] \in Mail!AlertState
    BY <1>1 DEF Mail!AlertState
  <1> DEFINE Fires == breach /\ later.breachCount >= For /\ previous.state # "firing"
  <1> DEFINE Clears == ~breach /\ later.clearCount >= ClearAfter /\ previous.state = "firing"
  <1> DEFINE Reminds == breach /\ previous.state = "firing" /\ due
  <1> DEFINE step == Mail!StepAlert(previous, breach, due)
  <1>3. step = CASE Fires -> [next |-> [later EXCEPT !.state = "firing"], kind |-> "firing"]
                 [] Clears -> [next |-> [later EXCEPT !.state = "resolved"], kind |-> "resolved"]
                 [] Reminds -> [next |-> later, kind |-> "reminder"]
                 [] OTHER -> [next |-> later, kind |-> "none"]
    BY DEF Mail!StepAlert
  <1>4. (Fires => ~Clears /\ ~Reminds) /\ (Clears => ~Reminds)
    OBVIOUS
  <1> HIDE DEF later, step
  <1>5. CASE Fires
    <2>1. step = [next |-> [later EXCEPT !.state = "firing"], kind |-> "firing"]
      <3> HIDE DEF Fires, Clears, Reminds
      <3>1. QED
        BY <1>3, <1>4, <1>5
    <2>2. step.next \in Mail!AlertState /\ step.kind = "firing"
      BY <1>2, <2>1
    <2>3. step.kind \in Mail!Kind /\ step.kind # "reminder" /\ step.kind # "resolved"
      BY <2>2 DEF Mail!Kind
    <2>4. previous.state # "firing"
      BY <1>5
    <2>5. QED
      BY <2>2, <2>3, <2>4 DEF step
  <1>6. CASE Clears
    <2>1. step = [next |-> [later EXCEPT !.state = "resolved"], kind |-> "resolved"]
      <3> HIDE DEF Fires, Clears, Reminds
      <3>1. QED
        BY <1>3, <1>4, <1>6
    <2>2. QED
      BY <1>2, <1>6, <2>1 DEF Mail!Kind, step
  <1>7. CASE Reminds
    <2>1. step = [next |-> later, kind |-> "reminder"]
      <3> HIDE DEF Fires, Clears, Reminds
      <3>1. QED
        BY <1>3, <1>4, <1>7
    <2>2. step.next \in Mail!AlertState /\ step.kind = "reminder"
      BY <1>1, <2>1
    <2>3. step.kind \in Mail!Kind /\ step.kind # "firing" /\ step.kind # "resolved"
      BY <2>2 DEF Mail!Kind
    <2>4. due
      BY <1>7
    <2>5. QED
      BY <2>2, <2>3, <2>4 DEF step
  <1>8. CASE ~Fires /\ ~Clears /\ ~Reminds
    <2>1. step = [next |-> later, kind |-> "none"]
      <3> HIDE DEF Fires, Clears, Reminds
      <3>1. QED
        BY <1>3, <1>8
    <2>2. QED
      BY <1>1, <2>1 DEF Mail!Kind, step
  <1>9. QED
    BY <1>5, <1>6, <1>7, <1>8

\* Mails leave.
LEMMA MailLeaves ==
  ASSUME MailInv, NEW gone, Mail!Left(gone)
  PROVE  /\ outbox' \in [DOMAIN outbox' -> Mail!Mail]
         /\ DOMAIN outbox' = DOMAIN outbox \ gone
         /\ DOMAIN outbox' \subseteq Mail!MailId
         /\ \A m \in DOMAIN outbox' :
              outbox'[m].status = outbox[m].status /\ outbox'[m].attempts = outbox[m].attempts
         /\ IsFiniteSet(DOMAIN outbox') /\ Cardinality(DOMAIN outbox') <= Cardinality(DOMAIN outbox)
  <1>1. outbox \in [DOMAIN outbox -> Mail!Mail] /\ DOMAIN outbox \subseteq Mail!MailId
    BY MailTypes DEF MailInv
  <1>2. outbox' = [m \in DOMAIN outbox \ gone |-> [outbox[m] EXCEPT !.earlier = @ \ gone]]
    BY DEF Mail!Left
  <1>3. DOMAIN outbox' = DOMAIN outbox \ gone
    BY <1>2
  <1>4. \A m \in DOMAIN outbox \ gone : [outbox[m] EXCEPT !.earlier = @ \ gone] \in Mail!Mail
    BY <1>1 DEF Mail!Mail
  <1>5. outbox' \in [DOMAIN outbox' -> Mail!Mail]
    BY <1>2, <1>3, <1>4
  <1>6. \A m \in DOMAIN outbox' :
              outbox'[m].status = outbox[m].status /\ outbox'[m].attempts = outbox[m].attempts
    BY <1>1, <1>2, <1>3 DEF Mail!Mail
  <1>7. IsFiniteSet(DOMAIN outbox') /\ Cardinality(DOMAIN outbox') <= Cardinality(DOMAIN outbox)
    BY <1>3, FS_Subset DEF MailInv, RoomKept
  <1>8. QED
    BY <1>1, <1>3, <1>5, <1>6, <1>7

\* A pass goes on, with no more mails in its hands than it had.
LEMMA MailMoves ==
  ASSUME MailInv, NEW p \in Pass, NEW place \in Place,
         pass' = [pass EXCEPT ![p] = place],
         place.at # "commit", place.at = "deliver" => pass[p].at = "commit",
         place.batch \subseteq pass[p].batch, place.at # "send" => place.batch = {},
         lock' = lock \/ (lock = p /\ lock' = Mail!NoPass),
         alerts' = alerts \/ pass[p].at = "commit",
         \A m \in DOMAIN outbox \ (pass[p].batch \ place.batch) :
            m \in DOMAIN outbox' /\ outbox'[m].status = outbox[m].status,
         \A m \in DOMAIN outbox' : outbox'[m].status = "queued" => outbox'[m].attempts < MaxAttempts,
         IsFiniteSet(DOMAIN outbox'), Cardinality(DOMAIN outbox') <= Cardinality(DOMAIN outbox)
  PROVE  LockHeld' /\ HandsApart' /\ RoomKept'
  <1>1. pass \in [Pass -> Place]
    BY MailTypes DEF MailInv
  <1>2. pass'[p] = place /\ \A q \in Pass : q # p => pass'[q] = pass[q]
    BY <1>1
  <1>3. LockHeld'
    <2>1. ASSUME NEW q \in Pass, pass'[q].at = "commit"
          PROVE  lock' = q /\ pass'[q].read = alerts'
      <3>1. q # p /\ pass'[q] = pass[q]
        BY <1>2, <2>1
      <3>2. lock = q /\ pass[q].read = alerts
        BY <2>1, <3>1 DEF MailInv, LockHeld
      <3>3. alerts' = alerts
        BY <3>1, <3>2 DEF MailInv, LockHeld
      <3>4. QED
        BY <3>1, <3>2, <3>3
    <2>2. QED
      BY <2>1 DEF LockHeld
  <1>4. HandsApart'
    <2>1. \A q \in Pass : pass'[q].batch \subseteq pass[q].batch
      BY <1>2
    <2>2. \A q, r \in Pass : q # r => pass[q].batch \cap pass[r].batch = {}
      BY DEF MailInv, HandsApart, Mail!SentOnce
    <2>3. \A q, r \in Pass : q # r => pass'[q].batch \cap pass'[r].batch = {}
      BY <2>1, <2>2
    <2>4. ASSUME NEW q \in Pass, NEW m \in pass'[q].batch
          PROVE  m \in DOMAIN outbox' /\ outbox'[m].status = "sending"
      <3>1. m \in DOMAIN outbox /\ outbox[m].status = "sending"
        BY <2>1 DEF MailInv, HandsApart, Mail!SentOnce
      <3>2. m \notin pass[p].batch \ place.batch
        BY <1>2, <2>1, <2>2
      <3>3. QED
        BY <3>1, <3>2
    <2>5. \A q \in Pass : pass'[q].at # "send" => pass'[q].batch = {}
      BY <1>2 DEF MailInv, HandsApart
    <2>6. QED
      BY <2>3, <2>4, <2>5 DEF HandsApart, Mail!SentOnce
  <1>5. RoomKept'
    <2>1. Writers' \subseteq Writers
      BY <1>2 DEF Writers
    <2>2. IsFiniteSet(Writers)
      BY AlertsAssumption, FS_Subset DEF Writers
    <2>3. IsFiniteSet(Writers') /\ Cardinality(Writers') <= Cardinality(Writers)
      BY <2>1, <2>2, FS_Subset
    <2>4. /\ Cardinality(Writers') \in Nat /\ Cardinality(Writers) \in Nat
          /\ Cardinality(DOMAIN outbox') \in Nat /\ Cardinality(DOMAIN outbox) \in Nat
      BY <2>2, <2>3, FS_CardinalityType DEF MailInv, RoomKept
    <2>5. QED
      BY <2>3, <2>4, AlertsAssumption DEF MailInv, RoomKept
  <1>6. QED
    BY <1>3, <1>4, <1>5

LEMMA MailWorld ==
  ASSUME MailInv, NEW x \in Alert, Mail!Flip(x) \/ Mail!Wait(x)
  PROVE  MailInv'
  <1>1. UNCHANGED <<episodic, alerts, lock, pass, outbox, told, troubles>>
    BY DEF Mail!Flip, Mail!Wait
  <1>2. breaching' \in [Alert -> BOOLEAN]
    BY MailTypes DEF MailInv, Mail!Flip, Mail!Wait
  <1>3. overdue' \in [Alert -> BOOLEAN]
    BY MailTypes DEF MailInv, Mail!Flip, Mail!Wait
  <1>4. Mail!TypeOK'
    BY <1>1, <1>2, <1>3 DEF MailInv, Mail!TypeOK
  <1>5. LockHeld' /\ HandsApart' /\ RoomKept'
    BY <1>1 DEF MailInv, LockHeld, HandsApart, Mail!SentOnce, RoomKept, Writers
  <1>6. QED
    BY <1>4, <1>5 DEF MailInv

\* What a pass does to itself.
LEMMA MailSees ==
  ASSUME MailInv, NEW p \in Pass, Mail!Observe(p) \/ Mail!LockTaken(p)
  PROVE  MailInv'
  <1> DEFINE seen == [a \in Alert |-> CASE breaching[a] -> "breach"
                                        [] a \in episodic -> "none"
                                        [] OTHER -> "clear"]
  <1>1. seen \in [Alert -> {"none", "breach", "clear"}]
    OBVIOUS
  <1>2. PICK place \in Place : /\ pass' = [pass EXCEPT ![p] = place]
                               /\ place.at \in {"record", "claim"} /\ place.batch = {}
    <2>1. CASE Mail!Observe(p)
      <3>1. pass' = [pass EXCEPT ![p] = [Mail!Idle EXCEPT !.at = "record", !.saw = seen]]
        BY <2>1 DEF Mail!Observe
      <3> HIDE DEF seen
      <3>2. [Mail!Idle EXCEPT !.at = "record", !.saw = seen] \in Place
        BY <1>1, MailPlaces DEF Place
      <3>3. [Mail!Idle EXCEPT !.at = "record", !.saw = seen].at = "record"
            /\ [Mail!Idle EXCEPT !.at = "record", !.saw = seen].batch = {}
        BY MailPlaces DEF Place
      <3>4. QED
        BY <3>1, <3>2, <3>3
    <2>2. CASE Mail!LockTaken(p)
      <3>1. pass' = [pass EXCEPT ![p] = [Mail!Idle EXCEPT !.at = "claim"]]
        BY <2>2 DEF Mail!LockTaken
      <3>2. QED
        BY <3>1, MailPlaces
    <2>3. QED
      BY <2>1, <2>2
  <1>3. /\ UNCHANGED <<episodic, breaching, overdue, alerts, lock, outbox, told, troubles>>
    BY DEF Mail!Observe, Mail!LockTaken
  <1> HIDE DEF seen
  <1>4. Mail!TypeOK'
    BY <1>2, <1>3, MailTypes DEF MailInv, Mail!TypeOK, Place
  <1>5. LockHeld' /\ HandsApart' /\ RoomKept'
    <2>1. /\ IsFiniteSet(DOMAIN outbox') /\ Cardinality(DOMAIN outbox') <= Cardinality(DOMAIN outbox)
      BY <1>3, FS_CardinalityType DEF MailInv, RoomKept
    <2>2. \A m \in DOMAIN outbox' :
            outbox'[m].status = "queued" => outbox'[m].attempts < MaxAttempts
      BY <1>3 DEF MailInv, HandsApart, Mail!SentOnce
    <2>3. QED
      BY <1>2, <1>3, <2>1, <2>2, MailMoves
  <1>6. QED
    BY <1>4, <1>5 DEF MailInv

LEMMA MailLocks ==
  ASSUME MailInv, NEW p \in Pass, Mail!TakeLock(p)
  PROVE  MailInv'
  <1>1. pass \in [Pass -> Place] /\ alerts \in [Alert -> Mail!AlertState]
    BY MailTypes DEF MailInv
  <1> DEFINE place == [pass[p] EXCEPT !.at = "commit", !.read = alerts]
  <1>2. /\ place \in Place /\ place.at = "commit" /\ place.read = alerts
        /\ place.batch = pass[p].batch
    BY <1>1 DEF Place
  <1>3. /\ pass' = [pass EXCEPT ![p] = place]
        /\ pass[p].at = "record" /\ lock = Mail!NoPass /\ lock' = p
        /\ UNCHANGED <<episodic, breaching, overdue, alerts, outbox, told, troubles>>
    BY <1>1 DEF Mail!TakeLock, Mail!LockFree
  <1> HIDE DEF place
  <1>4. pass'[p] = place /\ \A q \in Pass : q # p => pass'[q] = pass[q]
    BY <1>1, <1>3
  <1>5. Mail!TypeOK'
    BY <1>2, <1>3, MailTypes DEF MailInv, Mail!TypeOK, Place
  <1>6. LockHeld'
    <2>1. \A q \in Pass : pass[q].at # "commit"
      BY <1>3, AlertsAssumption DEF MailInv, LockHeld, Mail!NoPass
    <2>2. QED
      BY <1>2, <1>3, <1>4, <2>1 DEF LockHeld
  <1>7. HandsApart'
    <2>1. \A q \in Pass : pass'[q].batch = pass[q].batch
      BY <1>2, <1>4
    <2>2. \A q \in Pass : pass'[q].at # "send" => pass'[q].batch = {}
      BY <1>2, <1>3, <1>4 DEF MailInv, HandsApart
    <2>3. QED
      BY <1>3, <2>1, <2>2 DEF MailInv, HandsApart, Mail!SentOnce
  <1>8. RoomKept'
    <2>1. IsFiniteSet(Writers)
      BY AlertsAssumption, FS_Subset DEF Writers
    <2>2. Writers' = Writers \cup {p} /\ p \notin Writers
      BY <1>2, <1>3, <1>4 DEF Writers
    <2>3. Cardinality(Writers') = Cardinality(Writers) + 1
      BY <2>1, <2>2, FS_AddElement
    <2>4. Cardinality(DOMAIN outbox) + Cardinality(Writers) < MaxMails
      BY DEF Mail!TakeLock, Mail!LockFree, Mail!Room, Writers, Mail!Cardinality, Cardinality
    <2>5. Cardinality(Writers) \in Nat /\ Cardinality(DOMAIN outbox) \in Nat
      BY <2>1, FS_CardinalityType DEF MailInv, RoomKept
    <2>6. QED
      BY <1>3, <2>3, <2>4, <2>5, AlertsAssumption DEF MailInv, RoomKept
  <1>9. QED
    BY <1>5, <1>6, <1>7, <1>8 DEF MailInv

\* Under the lock: what is announced is what has changed.
LEMMA MailRecords ==
  ASSUME MailInv, NEW p \in Pass, Mail!Record(p)
  PROVE  /\ MailInv'
         /\ \A a \in Alert :
              /\ pass'[p].transitions[a] = "firing" => alerts[a].state # "firing"
              /\ pass'[p].transitions[a] = "resolved" => alerts[a].state = "firing"
              /\ pass'[p].transitions[a] = "reminder" => overdue[a]
  <1> DEFINE Seen(a) == pass[p].saw[a] # "none"
  <1> DEFINE Result(a) == Mail!StepAlert(pass[p].read[a], pass[p].saw[a] = "breach", overdue[a])
  <1> DEFINE kinds == [a \in Alert |-> IF a \in {b \in Alert : Seen(b)} THEN Result(a).kind
                                       ELSE "none"]
  <1>1. /\ pass \in [Pass -> Place] /\ alerts \in [Alert -> Mail!AlertState]
        /\ overdue \in [Alert -> BOOLEAN]
    BY MailTypes DEF MailInv
  <1>2. pass[p].at = "commit" /\ lock = p /\ pass[p].read = alerts
    BY DEF Mail!Record, MailInv, LockHeld
  <1>3. \A a \in Alert :
            /\ Result(a).next \in Mail!AlertState /\ Result(a).kind \in Mail!Kind
            /\ Result(a).kind = "firing" => alerts[a].state # "firing"
            /\ Result(a).kind = "resolved" => alerts[a].state = "firing"
            /\ Result(a).kind = "reminder" => overdue[a]
    <2>1. SUFFICES ASSUME NEW a \in Alert
                   PROVE  /\ Result(a).next \in Mail!AlertState /\ Result(a).kind \in Mail!Kind
                          /\ Result(a).kind = "firing" => alerts[a].state # "firing"
                          /\ Result(a).kind = "resolved" => alerts[a].state = "firing"
                          /\ Result(a).kind = "reminder" => overdue[a]
      OBVIOUS
    <2>2. alerts[a] \in Mail!AlertState /\ overdue[a] \in BOOLEAN
      BY <1>1
    <2>3. (pass[p].saw[a] = "breach") \in BOOLEAN
      OBVIOUS
    <2>4. pass[p].read[a] = alerts[a]
      BY <1>2
    <2>5. QED
      BY <2>2, <2>3, <2>4, StepTyped
  <1>4. /\ alerts' = [a \in Alert |-> IF a \in {b \in Alert : Seen(b)} THEN Result(a).next
                                      ELSE alerts[a]]
        /\ overdue' = [a \in Alert |->
                overdue[a] /\ kinds[a] = "none" /\ alerts'[a].state = "firing"]
        /\ pass' = [pass EXCEPT ![p] =
                [Mail!Idle EXCEPT !.at = IF kinds = Mail!Silent THEN "claim" ELSE "deliver",
                                  !.transitions = kinds]]
        /\ lock' = Mail!NoPass
        /\ UNCHANGED <<episodic, breaching, outbox, told, troubles>>
    BY <1>2 DEF Mail!Record
  <1> HIDE DEF Result
  <1>5. kinds \in [Alert -> Mail!Kind]
    BY <1>3 DEF Mail!Kind
  <1>6. \A a \in Alert :
            /\ kinds[a] = "firing" => alerts[a].state # "firing"
            /\ kinds[a] = "resolved" => alerts[a].state = "firing"
            /\ kinds[a] = "reminder" => overdue[a]
    BY <1>3
  <1>7. alerts' \in [Alert -> Mail!AlertState]
    BY <1>1, <1>3, <1>4
  <1> HIDE DEF kinds
  <1>8. overdue' \in [Alert -> BOOLEAN]
    BY <1>4
  <1>9. PICK place \in Place : /\ pass' = [pass EXCEPT ![p] = place]
                               /\ place.at \in {"claim", "deliver"} /\ place.batch = {}
                               /\ place.transitions = kinds
    <2> DEFINE place == [Mail!Idle EXCEPT
                            !.at = IF kinds = Mail!Silent THEN "claim" ELSE "deliver",
                            !.transitions = kinds]
    <2>1. /\ place \in Place /\ place.at \in {"claim", "deliver"} /\ place.batch = {}
          /\ place.transitions = kinds
      BY <1>5, MailPlaces DEF Place
    <2>2. pass' = [pass EXCEPT ![p] = place]
      BY <1>4
    <2> HIDE DEF place
    <2>3. QED
      BY <2>1, <2>2
  <1>10. Mail!TypeOK'
    <2>1. pass' \in [Pass -> Place]
      BY <1>1, <1>9
    <2>2. lock' = Mail!NoPass /\ UNCHANGED <<episodic, breaching, outbox, told, troubles>>
      BY <1>4
    <2>3. QED
      BY <1>7, <1>8, <2>1, <2>2 DEF MailInv, Mail!TypeOK, Place
  <1>11. LockHeld' /\ HandsApart' /\ RoomKept'
    <2>1. IsFiniteSet(DOMAIN outbox') /\ Cardinality(DOMAIN outbox') <= Cardinality(DOMAIN outbox)
      BY <1>4, FS_CardinalityType DEF MailInv, RoomKept
    <2>2. \A m \in DOMAIN outbox' :
            outbox'[m].status = "queued" => outbox'[m].attempts < MaxAttempts
      BY <1>4 DEF MailInv, HandsApart, Mail!SentOnce
    <2>3. QED
      BY <1>2, <1>4, <1>9, <2>1, <2>2, MailMoves
  <1>12. pass'[p].transitions = kinds
    BY <1>1, <1>9
  <1>13. QED
    BY <1>6, <1>10, <1>11, <1>12 DEF MailInv

LEMMA MailDelivers ==
  ASSUME MailInv, NEW p \in Pass, Mail!Deliver(p)
  PROVE  MailInv'
  <1>1. /\ pass \in [Pass -> Place] /\ outbox \in [DOMAIN outbox -> Mail!Mail]
        /\ DOMAIN outbox \subseteq Mail!MailId
    BY MailTypes DEF MailInv
  <1> DEFINE number == CHOOSE m \in Mail!MailId : m \notin DOMAIN outbox
  <1> DEFINE fresh == [body |-> pass[p].transitions, status |-> "queued", attempts |-> 0,
                       earlier |-> DOMAIN outbox]
  <1> DEFINE place == [Mail!Idle EXCEPT !.at = "claim"]
  <1>2. /\ outbox' = [m \in DOMAIN outbox \cup {number} |-> IF m = number THEN fresh ELSE outbox[m]]
        /\ pass[p].at = "deliver" /\ pass' = [pass EXCEPT ![p] = place]
        /\ UNCHANGED <<episodic, breaching, overdue, alerts, lock, told, troubles>>
    BY DEF Mail!Deliver
  <1>3. place \in Place /\ place.at = "claim" /\ place.batch = {}
    BY MailPlaces
  <1> HIDE DEF place
  <1>4. pass'[p] = place /\ \A q \in Pass : q # p => pass'[q] = pass[q]
    BY <1>1, <1>2
  <1>5. /\ IsFiniteSet(Writers) /\ IsFiniteSet(Writers')
        /\ Cardinality(Writers') = Cardinality(Writers) - 1
        /\ Cardinality(Writers) \in Nat \ {0} /\ Cardinality(DOMAIN outbox) \in Nat
    <2>1. IsFiniteSet(Writers)
      BY AlertsAssumption, FS_Subset DEF Writers
    <2>2. p \in Writers /\ Writers' = Writers \ {p}
      BY <1>2, <1>3, <1>4 DEF Writers
    <2>3. IsFiniteSet(Writers') /\ Cardinality(Writers') = Cardinality(Writers) - 1
      BY <2>1, <2>2, FS_RemoveElement
    <2>4. Cardinality(Writers) \in Nat /\ Cardinality(DOMAIN outbox) \in Nat
      BY <2>1, FS_CardinalityType DEF MailInv, RoomKept
    <2>5. Cardinality(Writers) # 0
      BY <2>1, <2>2, FS_EmptySet
    <2>6. QED
      BY <2>1, <2>3, <2>4, <2>5
  <1>6. number \in Mail!MailId /\ number \notin DOMAIN outbox
    <2>1. IsFiniteSet(Mail!MailId) /\ Cardinality(Mail!MailId) = MaxMails
      BY AlertsAssumption, FS_Interval DEF Mail!MailId
    <2>2. Cardinality(DOMAIN outbox) < MaxMails
      BY <1>5, AlertsAssumption DEF MailInv, RoomKept
    <2>3. DOMAIN outbox # Mail!MailId
      BY <1>5, <2>1, <2>2, AlertsAssumption
    <2>4. \E m \in Mail!MailId : m \notin DOMAIN outbox
      BY <1>1, <2>3
    <2>5. QED
      BY <2>4
  <1>7. fresh \in Mail!Mail /\ fresh.status = "queued" /\ fresh.attempts = 0
    BY <1>1, AlertsAssumption DEF Place, Mail!Mail
  <1> HIDE DEF number, fresh
  <1>8. /\ DOMAIN outbox' = DOMAIN outbox \cup {number}
        /\ outbox'[number] = fresh /\ \A m \in DOMAIN outbox : outbox'[m] = outbox[m]
    BY <1>2, <1>6
  <1>9. outbox' \in [DOMAIN outbox' -> Mail!Mail] /\ DOMAIN outbox' \subseteq Mail!MailId
    BY <1>1, <1>2, <1>6, <1>7, <1>8
  <1>10. Mail!TypeOK'
    <2>1. pass' \in [Pass -> Place]
      BY <1>1, <1>2, <1>3
    <2>2. QED
      BY <1>2, <1>9, <2>1 DEF MailInv, Mail!TypeOK, Place
  <1>11. LockHeld'
    BY <1>2, <1>3, <1>4 DEF MailInv, LockHeld
  <1>12. HandsApart'
    <2>1. pass[p].batch = {}
      BY <1>2 DEF MailInv, HandsApart
    <2>2. \A q \in Pass : pass'[q].batch = pass[q].batch
      BY <1>3, <1>4, <2>1
    <2>3. \A q \in Pass : pass'[q].at # "send" => pass'[q].batch = {}
      BY <1>3, <1>4 DEF MailInv, HandsApart
    <2>4. \A m \in DOMAIN outbox' :
            outbox'[m].status = "queued" => outbox'[m].attempts < MaxAttempts
      BY <1>7, <1>8, AlertsAssumption DEF MailInv, HandsApart, Mail!SentOnce
    <2>5. QED
      BY <1>8, <2>2, <2>3, <2>4 DEF MailInv, HandsApart, Mail!SentOnce
  <1>13. RoomKept'
    <2>1. IsFiniteSet(DOMAIN outbox') /\ Cardinality(DOMAIN outbox') = Cardinality(DOMAIN outbox) + 1
      BY <1>6, <1>8, FS_AddElement DEF MailInv, RoomKept
    <2>2. QED
      BY <1>5, <2>1, AlertsAssumption DEF MailInv, RoomKept
  <1>14. QED
    BY <1>10, <1>11, <1>12, <1>13 DEF MailInv

LEMMA MailClaims ==
  ASSUME MailInv, NEW p \in Pass, Mail!Claim(p)
  PROVE  MailInv'
  <1>1. /\ pass \in [Pass -> Place] /\ outbox \in [DOMAIN outbox -> Mail!Mail]
        /\ DOMAIN outbox \subseteq Mail!MailId
    BY MailTypes DEF MailInv
  <1> DEFINE batch == Mail!Claimable
  <1> DEFINE place == IF batch = {} THEN Mail!Idle
                      ELSE [Mail!Idle EXCEPT !.at = "send", !.batch = batch]
  <1>2. /\ outbox' = [m \in DOMAIN outbox |->
                IF m \in batch
                THEN [outbox[m] EXCEPT !.status = "sending", !.attempts = @ + 1]
                ELSE outbox[m]]
        /\ pass[p].at = "claim" /\ pass' = [pass EXCEPT ![p] = place]
        /\ UNCHANGED <<episodic, breaching, overdue, alerts, lock, told, troubles>>
    BY DEF Mail!Claim
  <1>3. \A m \in batch : /\ m \in DOMAIN outbox /\ outbox[m].status = "queued"
                         /\ outbox[m].attempts < MaxAttempts
    BY DEF Mail!Claimable, Mail!Oldest
  <1> HIDE DEF batch
  <1>4. batch \in SUBSET Mail!MailId
    BY <1>1, <1>3
  <1>5. /\ place \in Place /\ place.at \in {"idle", "send"} /\ place.batch = batch
        /\ place.at = "idle" => batch = {}
    <2>1. CASE batch = {}
      BY <2>1, MailPlaces
    <2>2. CASE batch # {}
      <3>1. place = [Mail!Idle EXCEPT !.at = "send", !.batch = batch]
        BY <2>2
      <3> HIDE DEF place
      <3>2. QED
        BY <1>4, <3>1, MailPlaces DEF Place
    <2>3. QED
      BY <2>1, <2>2
  <1> HIDE DEF place
  <1>6. pass'[p] = place /\ \A q \in Pass : q # p => pass'[q] = pass[q]
    BY <1>1, <1>2
  <1>7. DOMAIN outbox' = DOMAIN outbox
    BY <1>2
  <1>8. /\ \A m \in batch : outbox'[m] \in Mail!Mail /\ outbox'[m].status = "sending"
        /\ \A m \in DOMAIN outbox \ batch : outbox'[m] = outbox[m]
    <2>1. ASSUME NEW m \in batch PROVE outbox'[m] \in Mail!Mail /\ outbox'[m].status = "sending"
      <3>1. outbox[m] \in Mail!Mail /\ outbox[m].attempts < MaxAttempts
        BY <1>1, <1>3
      <3>2. outbox'[m] = [outbox[m] EXCEPT !.status = "sending", !.attempts = outbox[m].attempts + 1]
        BY <1>2, <1>3
      <3>3. outbox[m].attempts + 1 \in 0 .. MaxAttempts
        BY <3>1, AlertsAssumption DEF Mail!Mail
      <3> DEFINE more == outbox[m].attempts + 1
      <3> HIDE DEF more
      <3>4. more \in 0 .. MaxAttempts
        BY <3>3 DEF more
      <3>5. outbox'[m] = [outbox[m] EXCEPT !.status = "sending", !.attempts = more]
        BY <3>2 DEF more
      <3>6. QED
        BY <3>1, <3>4, <3>5 DEF Mail!Mail
    <2>2. QED
      BY <1>2, <2>1
  <1>9. outbox' \in [DOMAIN outbox' -> Mail!Mail]
    <2>1. \A m \in DOMAIN outbox' : outbox'[m] \in Mail!Mail
      BY <1>1, <1>7, <1>8
    <2>2. outbox' = [m \in DOMAIN outbox' |-> outbox'[m]]
      BY <1>2
    <2>3. QED
      BY <2>1, <2>2
  <1>10. Mail!TypeOK'
    <2>1. pass' \in [Pass -> Place]
      BY <1>1, <1>2, <1>5
    <2>2. QED
      BY <1>1, <1>2, <1>7, <1>9, <2>1 DEF MailInv, Mail!TypeOK, Place
  <1>11. LockHeld'
    BY <1>2, <1>5, <1>6 DEF MailInv, LockHeld
  <1>12. HandsApart'
    <2>1. \A q \in Pass : \A m \in pass[q].batch :
            m \in DOMAIN outbox /\ outbox[m].status = "sending" /\ m \notin batch
      BY <1>3 DEF MailInv, HandsApart, Mail!SentOnce
    <2>2. \A q, r \in Pass : q # r => pass'[q].batch \cap pass'[r].batch = {}
      BY <1>5, <1>6, <2>1 DEF MailInv, HandsApart, Mail!SentOnce
    <2>3. \A q \in Pass : \A m \in pass'[q].batch :
            m \in DOMAIN outbox' /\ outbox'[m].status = "sending"
      BY <1>3, <1>5, <1>6, <1>7, <1>8, <2>1
    <2>4. \A q \in Pass : pass'[q].at # "send" => pass'[q].batch = {}
      BY <1>5, <1>6 DEF MailInv, HandsApart
    <2>5. \A m \in DOMAIN outbox' :
            outbox'[m].status = "queued" => outbox'[m].attempts < MaxAttempts
      BY <1>7, <1>8 DEF MailInv, HandsApart, Mail!SentOnce
    <2>6. QED
      BY <2>2, <2>3, <2>4, <2>5 DEF HandsApart, Mail!SentOnce
  <1>13. RoomKept'
    <2>1. Writers' = Writers
      BY <1>2, <1>5, <1>6 DEF Writers
    <2>2. QED
      BY <1>7, <2>1 DEF MailInv, RoomKept
  <1>14. QED
    BY <1>10, <1>11, <1>12, <1>13 DEF MailInv

\* What becomes of a mail that a pass has sent, or not.
LEMMA MailPutBack ==
  ASSUME MailInv, NEW m \in DOMAIN outbox, Mail!PutBack(m) \/ Mail!Left({m})
  PROVE  /\ outbox' \in [DOMAIN outbox' -> Mail!Mail] /\ DOMAIN outbox' \subseteq Mail!MailId
         /\ \A n \in DOMAIN outbox \ {m} :
              n \in DOMAIN outbox' /\ outbox'[n].status = outbox[n].status
         /\ \A n \in DOMAIN outbox' :
              outbox'[n].status = "queued" => outbox'[n].attempts < MaxAttempts
         /\ IsFiniteSet(DOMAIN outbox') /\ Cardinality(DOMAIN outbox') <= Cardinality(DOMAIN outbox)
  <1>1. /\ outbox \in [DOMAIN outbox -> Mail!Mail] /\ DOMAIN outbox \subseteq Mail!MailId
    BY MailTypes DEF MailInv
  <1>2. \A n \in DOMAIN outbox : outbox[n].status = "queued" => outbox[n].attempts < MaxAttempts
    BY DEF MailInv, HandsApart, Mail!SentOnce
  <1>3. CASE Mail!Left({m})
    BY <1>2, <1>3, MailLeaves
  <1>4. CASE Mail!PutBack(m) /\ ~Mail!Left({m})
    <2>1. /\ outbox' = [outbox EXCEPT ![m] = [outbox[m] EXCEPT !.status = "queued"]]
          /\ ~(outbox[m].attempts >= MaxAttempts)
      BY <1>4 DEF Mail!PutBack
    <2>2. outbox[m] \in Mail!Mail
      BY <1>1
    <2>3. /\ [outbox[m] EXCEPT !.status = "queued"] \in Mail!Mail
          /\ [outbox[m] EXCEPT !.status = "queued"].attempts < MaxAttempts
      BY <2>1, <2>2, AlertsAssumption DEF Mail!Mail
    <2>4. DOMAIN outbox' = DOMAIN outbox
      BY <2>1
    <2>5. /\ outbox'[m] = [outbox[m] EXCEPT !.status = "queued"]
          /\ \A n \in DOMAIN outbox : n # m => outbox'[n] = outbox[n]
      BY <1>1, <2>1
    <2>6. outbox' \in [DOMAIN outbox' -> Mail!Mail]
      BY <1>1, <2>1, <2>3, <2>4
    <2>7. Cardinality(DOMAIN outbox') <= Cardinality(DOMAIN outbox) /\ IsFiniteSet(DOMAIN outbox')
      BY <2>4, FS_CardinalityType DEF MailInv, RoomKept
    <2>8. QED
      BY <1>1, <1>2, <2>3, <2>4, <2>5, <2>6, <2>7
  <1>5. QED
    BY <1>3, <1>4

LEMMA MailSends ==
  ASSUME MailInv, NEW p \in Pass, Mail!Sent(p) \/ Mail!Refused(p) \/ Mail!Unsure(p)
  PROVE  MailInv'
  <1>1. pass \in [Pass -> Place] /\ told \in [Alert -> {"none", "firing", "resolved"}]
    BY MailTypes DEF MailInv
  <1>2. PICK m \in pass[p].batch :
            /\ Mail!PutBack(m) \/ Mail!Left({m})
            /\ Mail!DoneWith(p, m)
            /\ Mail!Heard(outbox[m]) \/ UNCHANGED told
    BY DEF Mail!Sent, Mail!Refused, Mail!Unsure
  <1>3. /\ UNCHANGED <<episodic, breaching, overdue, alerts, lock>>
        /\ pass[p].at = "send" /\ troubles' \in 0 .. MaxTroubles
    BY MailTypes, AlertsAssumption DEF MailInv, Mail!Sent, Mail!Refused, Mail!Unsure
  <1>4. m \in DOMAIN outbox
    BY <1>2 DEF MailInv, HandsApart, Mail!SentOnce
  <1>5. told' \in [Alert -> {"none", "firing", "resolved"}]
    <2>1. CASE UNCHANGED told
      BY <1>1, <2>1
    <2>2. CASE Mail!Heard(outbox[m])
      <3>1. told' = [a \in Alert |->
                CASE outbox[m].body[a] \in {"firing", "reminder"} -> "firing"
                  [] outbox[m].body[a] = "resolved" -> "resolved"
                  [] OTHER -> told[a]]
        BY <2>2 DEF Mail!Heard
      <3>2. ASSUME NEW a \in Alert
            PROVE  (CASE outbox[m].body[a] \in {"firing", "reminder"} -> "firing"
                      [] outbox[m].body[a] = "resolved" -> "resolved"
                      [] OTHER -> told[a]) \in {"none", "firing", "resolved"}
        <4>1. told[a] \in {"none", "firing", "resolved"}
          BY <1>1
        <4>2. CASE outbox[m].body[a] \in {"firing", "reminder"}
          BY <4>2
        <4>3. CASE outbox[m].body[a] = "resolved"
          BY <4>3
        <4>4. CASE ~(outbox[m].body[a] \in {"firing", "reminder"}) /\ outbox[m].body[a] # "resolved"
          BY <4>1, <4>4
        <4>5. QED
          BY <4>2, <4>3, <4>4
      <3>3. QED
        BY <3>1, <3>2
    <2>3. QED
      BY <1>2, <2>1, <2>2
  <1>6. PICK place \in Place : /\ pass' = [pass EXCEPT ![p] = place]
                               /\ place.batch = pass[p].batch \ {m}
                               /\ place.at \in {"idle", "send"}
                               /\ place.at = "idle" => place.batch = {}
    <2>1. CASE pass[p].batch = {m}
      <3>0. pass[p].batch \ {m} = {}
        BY <2>1
      <3>1. pass' = [pass EXCEPT ![p] = Mail!Idle]
        BY <1>2, <3>0 DEF Mail!DoneWith
      <3>2. QED
        BY <2>1, <3>1, MailPlaces
    <2>2. CASE pass[p].batch # {m}
      <3>1. pass' = [pass EXCEPT ![p] = [pass[p] EXCEPT !.batch = pass[p].batch \ {m}]]
        <4>1. pass' = [pass EXCEPT ![p] =
                IF pass[p].batch \ {m} = {} THEN Mail!Idle
                ELSE [pass[p] EXCEPT !.batch = pass[p].batch \ {m}]]
          BY <1>2 DEF Mail!DoneWith
        <4>2. pass[p].batch \ {m} # {}
          BY <1>1, <2>2
        <4>3. QED
          BY <4>1, <4>2
      <3>2. /\ [pass[p] EXCEPT !.batch = pass[p].batch \ {m}] \in Place
            /\ [pass[p] EXCEPT !.batch = pass[p].batch \ {m}].batch = pass[p].batch \ {m}
            /\ [pass[p] EXCEPT !.batch = pass[p].batch \ {m}].at = "send"
        BY <1>1, <1>3 DEF Place
      <3>3. QED
        BY <3>1, <3>2
    <2>3. QED
      BY <2>1, <2>2
  <1>7. /\ outbox' \in [DOMAIN outbox' -> Mail!Mail] /\ DOMAIN outbox' \subseteq Mail!MailId
        /\ \A n \in DOMAIN outbox \ {m} :
              n \in DOMAIN outbox' /\ outbox'[n].status = outbox[n].status
        /\ \A n \in DOMAIN outbox' :
              outbox'[n].status = "queued" => outbox'[n].attempts < MaxAttempts
        /\ IsFiniteSet(DOMAIN outbox') /\ Cardinality(DOMAIN outbox') <= Cardinality(DOMAIN outbox)
    BY <1>2, <1>4, MailPutBack
  <1>8. Mail!TypeOK'
    <2>1. pass' \in [Pass -> Place]
      BY <1>1, <1>6
    <2>2. QED
      BY <1>3, <1>5, <1>7, <2>1 DEF MailInv, Mail!TypeOK, Place
  <1>9. LockHeld' /\ HandsApart' /\ RoomKept'
    <2>1. \A n \in DOMAIN outbox \ (pass[p].batch \ place.batch) :
            n \in DOMAIN outbox' /\ outbox'[n].status = outbox[n].status
      BY <1>2, <1>6, <1>7
    <2>2. QED
      BY <1>3, <1>6, <1>7, <2>1, MailMoves
  <1>10. QED
    BY <1>8, <1>9 DEF MailInv

LEMMA MailLost ==
  ASSUME MailInv, NEW p \in Pass, Mail!Lost(p)
  PROVE  MailInv'
  <1>1. pass \in [Pass -> Place]
    BY MailTypes DEF MailInv
  <1>2. /\ pass' = [pass EXCEPT ![p] = Mail!Idle] /\ Mail!Left(pass[p].batch)
        /\ lock' = lock \/ (lock = p /\ lock' = Mail!NoPass)
        /\ UNCHANGED <<episodic, breaching, overdue, alerts, told>>
        /\ troubles' \in 0 .. MaxTroubles
    BY MailTypes, AlertsAssumption DEF MailInv, Mail!Lost
  <1>3. /\ outbox' \in [DOMAIN outbox' -> Mail!Mail]
        /\ DOMAIN outbox' = DOMAIN outbox \ pass[p].batch
        /\ DOMAIN outbox' \subseteq Mail!MailId
        /\ \A m \in DOMAIN outbox' :
              outbox'[m].status = outbox[m].status /\ outbox'[m].attempts = outbox[m].attempts
        /\ IsFiniteSet(DOMAIN outbox') /\ Cardinality(DOMAIN outbox') <= Cardinality(DOMAIN outbox)
    BY <1>2, MailLeaves
  <1>4. Mail!TypeOK'
    <2>1. pass' \in [Pass -> Place]
      BY <1>1, <1>2, MailPlaces
    <2>2. lock' \in Pass \cup {Mail!NoPass}
      BY <1>2, MailTypes DEF MailInv
    <2>3. QED
      BY <1>2, <1>3, <2>1, <2>2 DEF MailInv, Mail!TypeOK, Place
  <1>5. LockHeld' /\ HandsApart' /\ RoomKept'
    <2>1. \A m \in DOMAIN outbox' :
            outbox'[m].status = "queued" => outbox'[m].attempts < MaxAttempts
      BY <1>3 DEF MailInv, HandsApart, Mail!SentOnce
    <2>2. \A m \in DOMAIN outbox \ (pass[p].batch \ Mail!Idle.batch) :
            m \in DOMAIN outbox' /\ outbox'[m].status = outbox[m].status
      BY <1>3, MailPlaces
    <2>3. /\ Mail!Idle \in Place /\ Mail!Idle.at # "commit" /\ Mail!Idle.at # "deliver"
          /\ Mail!Idle.batch \subseteq pass[p].batch /\ Mail!Idle.batch = {}
      BY MailPlaces
    <2>4. QED
      BY <1>2, <1>3, <2>1, <2>2, <2>3, MailMoves
  <1>6. QED
    BY <1>4, <1>5 DEF MailInv

LEMMA MailUnchanged == MailInv /\ UNCHANGED mail => MailInv'
  <1>1. SUFFICES ASSUME MailInv, UNCHANGED mail PROVE MailInv'
    OBVIOUS
  <1>2. UNCHANGED <<episodic, breaching, overdue, alerts, lock, pass, outbox, told, troubles>>
    BY <1>1 DEF mail
  <1>3. Mail!TypeOK'
    BY <1>1, <1>2 DEF MailInv, Mail!TypeOK
  <1>4. LockHeld' /\ HandsApart' /\ RoomKept'
    BY <1>1, <1>2 DEF MailInv, LockHeld, HandsApart, Mail!SentOnce, RoomKept, Writers
  <1>5. QED
    BY <1>3, <1>4 DEF MailInv

LEMMA MailStep == MailInv /\ [Next]_vars => MailInv'
  <1>1. SUFFICES ASSUME MailInv, MailNext PROVE MailInv'
    BY OneMoves, MailUnchanged
  <1>2. CASE \E x \in Alert : InMail(Mail!Flip(x)) \/ InMail(Mail!Wait(x))
    BY <1>1, <1>2, MailWorld DEF InMail
  <1>3. CASE \E p \in Pass :
        \/ InMail(Mail!Observe(p)) \/ InMail(Mail!TakeLock(p)) \/ InMail(Mail!LockTaken(p))
        \/ InMail(Mail!Record(p)) \/ InMail(Mail!Deliver(p)) \/ InMail(Mail!Claim(p))
        \/ InMail(Mail!Sent(p)) \/ InMail(Mail!Refused(p)) \/ InMail(Mail!Unsure(p))
        \/ InMail(Mail!Lost(p))
    BY <1>1, <1>3, MailSees, MailLocks, MailRecords, MailDelivers, MailClaims, MailSends,
       MailLost DEF InMail
  <1>4. QED
    BY <1>1, <1>2, <1>3 DEF MailNext

LEMMA MailInit == Mail!Init => MailInv
  <1>1. SUFFICES ASSUME Mail!Init PROVE MailInv
    OBVIOUS
  <1>2. /\ pass = [p \in Pass |-> Mail!Idle] /\ DOMAIN outbox = {} /\ lock = Mail!NoPass
        /\ outbox \in [DOMAIN outbox -> Mail!Mail]
    BY <1>1 DEF Mail!Init
  <1>3. Mail!TypeOK
    <2>1. pass \in [Pass -> Place]
      BY <1>2, MailPlaces
    <2>2. alerts \in [Alert -> Mail!AlertState]
      BY <1>1, MailPlaces DEF Mail!Init
    <2>3. breaching \in [Alert -> BOOLEAN] /\ overdue \in [Alert -> BOOLEAN]
      BY <1>1 DEF Mail!Init
    <2>4. /\ episodic \subseteq Alert /\ told \in [Alert -> {"none", "firing", "resolved"}]
          /\ troubles \in 0 .. MaxTroubles
      BY <1>1, AlertsAssumption DEF Mail!Init
    <2>5. QED
      BY <1>2, <2>1, <2>2, <2>3, <2>4, MailTypes
  <1>4. LockHeld /\ HandsApart
    BY <1>2, MailPlaces DEF LockHeld, HandsApart, Mail!SentOnce
  <1>5. RoomKept
    <2>1. Writers = {}
      BY <1>2, MailPlaces DEF Writers
    <2>2. QED
      BY <1>2, <2>1, FS_EmptySet, AlertsAssumption DEF RoomKept
  <1>6. QED
    BY <1>3, <1>4, <1>5 DEF MailInv

\* A mail is in the hands of one pass at most and is marked so, and one that waits can
\* still be claimed, for any number of passes and replicas, however many are lost
\* (drainQueued, lib/monitor.ts 378-418).
THEOREM MailIsSentOnce == FairSpec => []SentOnce
  <1>1. Init => MailInv
    BY MailInit DEF Init
  <1>2. MailInv => SentOnce
    BY DEF MailInv, HandsApart, SentOnce
  <1>3. QED
    BY <1>1, <1>2, MailStep, PTL DEF FairSpec

\* Whatever the overlap of passes and replicas, an alert announced as firing was not
\* firing already, one announced as resolved was, and one repeated was due (record,
\* lib/monitor.ts 277-343).
THEOREM ChangeIsToldOnce == FairSpec => NoDoubleAlarm
  <1> DEFINE Told ==
        \A p \in Pass, a \in Alert :
            /\ pass[p].at = "commit" /\ pass'[p].at = "deliver"
            => /\ pass'[p].transitions[a] = "firing" => alerts[a].state # "firing"
               /\ pass'[p].transitions[a] = "resolved" => alerts[a].state = "firing"
               /\ pass'[p].transitions[a] = "reminder" => overdue[a]
  <1>1. Init => MailInv
    BY MailInit DEF Init
  <1>2. ASSUME MailInv, [Next]_vars
        PROVE  [Told]_(Mail!vars)
    <2>1. CASE UNCHANGED mail
      BY <2>1 DEF mail, Mail!vars
    <2>2. CASE MailNext
      <3>1. SUFFICES ASSUME NEW p \in Pass, NEW a \in Alert,
                            pass[p].at = "commit", pass'[p].at = "deliver"
                     PROVE  /\ pass'[p].transitions[a] = "firing" => alerts[a].state # "firing"
                            /\ pass'[p].transitions[a] = "resolved" => alerts[a].state = "firing"
                            /\ pass'[p].transitions[a] = "reminder" => overdue[a]
        OBVIOUS
      <3>2. pass \in [Pass -> Place]
        BY <1>2, MailTypes DEF MailInv
      <3>3. Mail!Record(p)
        <4>1. ASSUME NEW x \in Alert PROVE ~Mail!Flip(x) /\ ~Mail!Wait(x)
          BY <3>1 DEF Mail!Flip, Mail!Wait
        <4>2. ASSUME NEW q \in Pass PROVE ~Mail!Observe(q) /\ ~Mail!TakeLock(q) /\ ~Mail!LockTaken(q)
          BY <3>1, <3>2 DEF Mail!Observe, Mail!TakeLock, Mail!LockTaken
        <4>3. ASSUME NEW q \in Pass PROVE ~Mail!Deliver(q) /\ ~Mail!Claim(q)
          BY <3>1, <3>2 DEF Mail!Deliver, Mail!Claim
        <4>4. ASSUME NEW q \in Pass PROVE ~Mail!Sent(q) /\ ~Mail!Refused(q) /\ ~Mail!Unsure(q)
          BY <3>1, <3>2 DEF Mail!Sent, Mail!Refused, Mail!Unsure, Mail!DoneWith
        <4>5. ASSUME NEW q \in Pass PROVE ~Mail!Lost(q)
          BY <3>1, <3>2, MailPlaces DEF Mail!Lost
        <4>6. PICK q \in Pass : Mail!Record(q)
          BY <2>2, <4>1, <4>2, <4>3, <4>4, <4>5 DEF MailNext, InMail
        <4>7. q = p
          BY <3>1, <3>2, <4>6 DEF Mail!Record
        <4>8. QED
          BY <4>6, <4>7
      <3>4. QED
        BY <1>2, <3>3, MailRecords
    <2>3. QED
      BY <1>2, <2>1, <2>2, OneMoves
  <1>3. QED
    BY <1>1, <1>2, MailStep, PTL DEF FairSpec, NoDoubleAlarm, Mail!NoDoubleAlarm
=============================================================================
