------------------------------- MODULE Mailer -------------------------------
(***************************************************************************)
(* How one mail leaves the platform: the choice of the transport           *)
(* (lib/mailer.ts), the SMTP conversation (lib/smtp.ts) and the HTTPS      *)
(* request (lib/mail-cloudflare.ts), against a server that answers,        *)
(* refuses, breaks off or says nothing at any point.                       *)
(*                                                                         *)
(* What is written on the wire is abstracted to the two things that must   *)
(* not travel in clear: the password and the message.                      *)
(***************************************************************************)
EXTENDS Naturals, FiniteSets

CONSTANT Recipients \* ALERT_TO

VARIABLES
    env,       \* the configuration
    stage,     \* where the call of send is
    secure,    \* the socket is encrypted
    offers,    \* the capabilities of the last EHLO
    open,      \* the socket is open
    invited,   \* recipients the relay said yes to
    outcome,   \* "running", "sent" or "failed": what send does
    exposed,   \* history: what was written on a socket in clear
    received   \* history: the recipients whose mail was accepted

vars == <<env, stage, secure, offers, open, invited, outcome, exposed, received>>

socket == <<secure, offers, open, invited>>

Env == [transport : {"", "smtp", "cloudflare", "other"}, account : BOOLEAN, token : BOOLEAN,
        host : BOOLEAN, tls : {"implicit", "starttls", "none", "other"},
        allowPlaintext : BOOLEAN, password : BOOLEAN, headerSafe : BOOLEAN]

Stage ==
    {"start", "post", "connect", "greeting", "ehlo", "starttls", "upgrade", "ehlo-tls",
     "auth", "mail-from", "rcpt-to", "data", "body", "quit", "end"}

TypeOK ==
    /\ env \in Env
    /\ stage \in Stage
    /\ secure \in BOOLEAN /\ open \in BOOLEAN
    /\ offers \subseteq {"STARTTLS", "AUTH"}
    /\ invited \subseteq Recipients /\ received \subseteq Recipients
    /\ outcome \in {"running", "none", "throws", "sent", "failed"}
    /\ exposed \subseteq {"password", "message"}

Init ==
    /\ env \in Env
    /\ stage = "start"
    /\ secure = FALSE /\ open = FALSE
    /\ offers = {} /\ invited = {}
    /\ outcome = "running"
    /\ exposed = {} /\ received = {}

-----------------------------------------------------------------------------
(* The transport, chosen when the monitor is built.                        *)

\* smtpConfigFromEnv: null, a refusal to start, or a configuration.
SmtpConfig ==
    CASE ~env.host -> "null"
      [] env.tls = "other" -> "throws"
      [] env.tls = "none" /\ ~env.allowPlaintext -> "throws"
      [] OTHER -> "smtp"

Cloudflare == env.account /\ env.token

\* mailerFromEnv
Transport ==
    CASE env.transport = "other" -> "throws"
      [] env.transport # "smtp" /\ Cloudflare -> "cloudflare"
      [] env.transport = "cloudflare" /\ ~Cloudflare -> "throws"
      [] SmtpConfig # "null" -> SmtpConfig
      [] env.transport = "smtp" -> "throws"
      [] OTHER -> "null"

\* composeMessage: no line break in a header.
HeaderSafe == env.headerSafe

End(how) == stage' = "end" /\ outcome' = how

\* The monitor is built, and its first mail is composed: a header with a line
\* break is refused before a socket is opened.
Begin ==
    /\ stage = "start"
    /\ \/ Transport = "throws" /\ End("throws")
       \/ Transport = "null" /\ End("none")
       \/ Transport = "cloudflare" /\ stage' = "post" /\ UNCHANGED outcome
       \/ Transport = "smtp" /\ HeaderSafe /\ stage' = "connect" /\ UNCHANGED outcome
       \/ Transport = "smtp" /\ ~HeaderSafe /\ End("failed")
    /\ UNCHANGED <<env, socket, exposed, received>>

-----------------------------------------------------------------------------
(* Cloudflare: one request.                                                *)

\* A status of 200 counts as sent when no recipient is reported as bounced.
Posted(bounced) ==
    /\ stage = "post"
    /\ received' = Recipients \ bounced
    /\ End(IF bounced = {} THEN "sent" ELSE "failed")
    /\ UNCHANGED <<env, socket, exposed>>

\* Another status, or no answer before the signal aborts the request.
PostFails ==
    /\ stage = "post"
    /\ received' \in {{}, Recipients}
    /\ End("failed")
    /\ UNCHANGED <<env, socket, exposed>>

-----------------------------------------------------------------------------
(* SMTP.                                                                   *)

Connect ==
    /\ stage = "connect"
    /\ \/ stage' = "greeting" /\ open' = TRUE /\ secure' = (env.tls = "implicit")
            /\ UNCHANGED outcome
       \/ End("failed") /\ UNCHANGED <<open, secure>>
    /\ UNCHANGED <<env, offers, invited, exposed, received>>

\* What the client writes when it enters a stage.
Written(s) == CASE s = "auth" -> {"password"} [] s = "body" -> {"message"} [] OTHER -> {}

Enter(s, encrypted) ==
    /\ stage' = s
    /\ exposed' = exposed \cup (IF encrypted THEN {} ELSE Written(s))

\* Mutant: a relay without STARTTLS is spoken to in clear.
TlsIfOffered(caps) == env.tls = "starttls" /\ "STARTTLS" \in caps

MustUpgrade(caps) == env.tls = "starttls"

\* After the last EHLO: authenticate if there is a password, or refuse to.
Authenticate(caps, encrypted) ==
    IF env.password /\ ~encrypted
    THEN End("failed") /\ UNCHANGED exposed
    ELSE /\ Enter(IF env.password /\ "AUTH" \in caps THEN "auth" ELSE "mail-from", encrypted)
         /\ UNCHANGED outcome

\* The relay's reply to EHLO.
Greeted(caps) ==
    /\ stage \in {"ehlo", "ehlo-tls"} /\ open
    /\ offers' = caps
    /\ IF stage = "ehlo" /\ MustUpgrade(caps)
       THEN IF "STARTTLS" \in caps
            THEN stage' = "starttls" /\ UNCHANGED <<outcome, exposed>>
            ELSE End("failed") /\ UNCHANGED exposed
       ELSE Authenticate(caps, secure)
    /\ UNCHANGED <<env, secure, open, invited, received>>

\* The reply the client waits for, at a stage without a decision.
Following ==
    CASE stage = "greeting" -> "ehlo"
      [] stage = "starttls" -> "upgrade"
      [] stage = "auth" -> "mail-from"
      [] stage = "mail-from" -> "rcpt-to"
      [] stage = "data" -> "body"
      [] stage = "body" -> "quit"

Answered ==
    /\ stage \in {"greeting", "starttls", "auth", "mail-from", "data", "body"} /\ open
    /\ Enter(Following, secure)
    /\ received' = IF stage = "body" THEN invited ELSE received
    /\ UNCHANGED <<env, socket, outcome>>

\* The handshake, with the certificate checked.
Upgrade ==
    /\ stage = "upgrade" /\ open
    /\ \/ stage' = "ehlo-tls" /\ secure' = TRUE /\ UNCHANGED outcome
       \/ End("failed") /\ UNCHANGED secure
    /\ UNCHANGED <<env, offers, open, invited, exposed, received>>

\* Mutant: one accepted recipient is enough.
AllInvited(to) == to # {}

AllAccepted(to) == to = Recipients

\* RCPT TO, one by one.
Invite(r) ==
    /\ stage = "rcpt-to" /\ open /\ r \notin invited
    /\ invited' = invited \cup {r}
    /\ stage' = IF AllAccepted(invited') THEN "data" ELSE "rcpt-to"
    /\ UNCHANGED <<env, secure, offers, open, outcome, exposed, received>>

Waiting == stage \in Stage \ {"start", "post", "connect", "upgrade", "end"}

\* A reply of another class, a reply that is too long or an error of the socket
\* ends the call; after the message was accepted it is sent all the same.
Broken ==
    /\ Waiting /\ open
    /\ End(IF stage = "quit" THEN "sent" ELSE "failed")
    /\ received' \in {received} \cup (IF stage = "body" THEN {invited} ELSE {})
    /\ UNCHANGED <<env, socket, exposed>>

Quit ==
    /\ stage = "quit" /\ open
    /\ End("sent")
    /\ UNCHANGED <<env, socket, exposed, received>>

\* The relay closes the connection, or the deadline destroys the socket: no
\* handler settles the reply that the call waits for, and it never returns.
Hang ==
    /\ Waiting \/ stage = "upgrade"
    /\ open /\ open' = FALSE
    /\ received' \in {received} \cup (IF stage = "body" THEN {invited} ELSE {})
    /\ UNCHANGED <<env, stage, secure, offers, invited, outcome, exposed>>

Next ==
    \/ Begin \/ Connect \/ Answered \/ Upgrade \/ Broken \/ Quit \/ Hang \/ PostFails
    \/ \E bounced \in SUBSET Recipients : Posted(bounced)
    \/ \E caps \in SUBSET {"STARTTLS", "AUTH"} : Greeted(caps)
    \/ \E r \in Recipients : Invite(r)

Spec == Init /\ [][Next]_vars

-----------------------------------------------------------------------------
(* Properties.                                                             *)

\* The password never travels in clear, the message only over a relay that was
\* configured so by hand: STARTTLS does not fall back, whatever the relay offers.
NothingInClear ==
    /\ "password" \notin exposed
    /\ "message" \in exposed => env.tls = "none" /\ env.allowPlaintext

\* A mail recorded as sent has reached every recipient's relay.
SentIsReceived == outcome = "sent" => received = Recipients
=============================================================================
