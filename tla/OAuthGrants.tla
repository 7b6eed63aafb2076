---------------------------- MODULE OAuthGrants ----------------------------
(***************************************************************************)
(* What signing in hands out, and what each handed-out secret can be       *)
(* exchanged for (routes/oauth.ts, routes/auth.ts, the ticket of           *)
(* gateway.ts).  Every secret is a row that is used once and gives at most *)
(* one successor:                                                          *)
(*                                                                         *)
(*   login state -> session           ticket -> site session               *)
(*   consent -> code -> refresh token -> refresh token -> ...              *)
(*                                                                         *)
(* A successor keeps the root of its lineage.  Exchanges of one secret may *)
(* run at once: the user clicks twice, a client repeats a request whose    *)
(* answer was lost.  Access tokens are signed and not stored.              *)
(***************************************************************************)
EXTENDS Naturals, Sequences

CONSTANTS
    Request,  \* requests that a process of the platform can handle at once
    Client,   \* OAuth clients
    Account,  \* accounts
    MaxRows   \* bound on the rows ever inserted

VARIABLES
    rows,     \* the rows of the tables, in the order of insertion
    holds     \* the row a request has locked with FOR UPDATE, or None

vars == <<rows, holds>>

Row == 1 .. MaxRows

None == 0

Kind == {"login", "session", "ticket", "site", "consent", "code", "refresh"}

\* A row is spent once it is used up, revoked or expired: the queries ask for
\* consumed_at or revoked_at IS NULL AND expires_at > now().  A session is a signed
\* cookie, and is modelled as a row that is only ever spent by time.
Grant == [kind : Kind, root : Row, client : Client, account : Account, spent : BOOLEAN]

Inserted == DOMAIN rows

TypeOK ==
    /\ rows \in Seq(Grant) /\ Len(rows) <= MaxRows
    /\ holds \in [Request -> Row \cup {None}]
    /\ \A p \in Request : holds[p] # None => holds[p] \in Inserted

Init ==
    /\ rows = <<>>
    /\ holds = [p \in Request |-> None]

-----------------------------------------------------------------------------
(* Helpers.                                                                *)

Redeemable(g) == ~rows[g].spent

Locked(g) == \E p \in Request : holds[p] = g

\* Mutant: SELECT without FOR UPDATE.
LockIgnored(g) == TRUE

LockFree(g) == ~Locked(g)

\* What an exchange of a row inserts.
Successor(k) ==
    CASE k = "login" -> "session"
      [] k = "ticket" -> "site"
      [] k = "consent" -> "code"
      [] k \in {"code", "refresh"} -> "refresh"

Fresh(k, r, c, a) ==
    [kind |-> k, root |-> r, client |-> c, account |-> a, spent |-> FALSE]

Spent(g) == [rows EXCEPT ![g].spent = TRUE]

\* The row is used up and its successor inserted, in one transaction.
Redeem(g) ==
    rows' = Append(Spent(g),
                   Fresh(Successor(rows[g].kind), rows[g].root, rows[g].client, rows[g].account))

\* sessionPrincipal: a session that has not expired.
SignedIn(a) ==
    \E g \in Inserted : rows[g].kind = "session" /\ rows[g].account = a /\ ~rows[g].spent

Room == Len(rows) < MaxRows

-----------------------------------------------------------------------------
(* Signing in and asking.                                                  *)

\* GET /auth/google: the account is the one Google will answer with.
StartLogin(a, c) ==
    /\ Room
    /\ rows' = Append(rows, Fresh("login", Len(rows) + 1, c, a))
    /\ UNCHANGED holds

\* GET /oauth/authorize by a signed-in account, for a registered client.
AskConsent(a, c) ==
    /\ Room /\ SignedIn(a)
    /\ rows' = Append(rows, Fresh("consent", Len(rows) + 1, c, a))
    /\ UNCHANGED holds

\* GET /auth/site by the owner of the site.
GetTicket(a, c) ==
    /\ Room /\ SignedIn(a)
    /\ rows' = Append(rows, Fresh("ticket", Len(rows) + 1, c, a))
    /\ UNCHANGED holds

-----------------------------------------------------------------------------
(* Exchanges in one statement: DELETE ... RETURNING of the login state,    *)
(* UPDATE ... RETURNING of the ticket.                                     *)

\* GET /auth/google/callback, GET /__auth/callback of the gateway.
RedeemAtOnce(g) ==
    /\ Room /\ rows[g].kind \in {"login", "ticket"} /\ Redeemable(g)
    /\ Redeem(g)
    /\ UNCHANGED holds

\* The state is used up and Google's answer is refused, or the ticket turns out
\* to be another account's: nothing is handed out.
Wasted(g) ==
    /\ rows[g].kind \in {"login", "ticket"} /\ Redeemable(g)
    /\ rows' = Spent(g)
    /\ UNCHANGED holds

-----------------------------------------------------------------------------
(* Exchanges in a transaction: POST /oauth/authorize, exchangeCode,        *)
(* exchangeRefresh.                                                        *)

\* SELECT ... FOR UPDATE, which waits for the lock and then reads the row again.
\* The client, the redirect URI and the challenge are compared at once, so a
\* request that does not fit ends here and changes nothing.
Look(p, g) ==
    /\ holds[p] = None
    /\ rows[g].kind \in {"consent", "code", "refresh"}
    /\ LockFree(g) /\ Redeemable(g)
    /\ rows[g].kind = "consent" => SignedIn(rows[g].account)
    /\ holds' = [holds EXCEPT ![p] = g]
    /\ UNCHANGED rows

\* UPDATE, INSERT (issueTokens), COMMIT.  Whether the answer arrives is the same
\* to the tables: the client may present any secret it ever had again.
Commit(p) ==
    /\ holds[p] # None /\ Room
    /\ Redeem(holds[p])
    /\ holds' = [holds EXCEPT ![p] = None]

\* The user declines: the consent is used up without a code.
Deny(p) ==
    /\ holds[p] # None /\ rows[holds[p]].kind = "consent"
    /\ rows' = Spent(holds[p])
    /\ holds' = [holds EXCEPT ![p] = None]

\* An error, or the process or the connection ends.
Rollback(p) ==
    /\ holds[p] # None
    /\ holds' = [holds EXCEPT ![p] = None]
    /\ UNCHANGED rows

-----------------------------------------------------------------------------
(* Ends.                                                                   *)

\* POST /oauth/revoke: an UPDATE that waits for the row's lock, of any token.
Revoke(g) ==
    /\ rows[g].kind = "refresh" /\ LockFree(g)
    /\ rows' = Spent(g)
    /\ UNCHANGED holds

\* Time passes.  Housekeeping then deletes the row, which reads the same.
Expire(g) ==
    /\ ~rows[g].spent
    /\ rows' = [rows EXCEPT ![g].spent = TRUE]
    /\ UNCHANGED holds

Next ==
    \/ \E a \in Account, c \in Client : StartLogin(a, c) \/ AskConsent(a, c) \/ GetTicket(a, c)
    \/ \E g \in Inserted : RedeemAtOnce(g) \/ Wasted(g) \/ Revoke(g) \/ Expire(g)
    \/ \E p \in Request :
        \/ Commit(p) \/ Deny(p) \/ Rollback(p)
        \/ \E g \in Inserted : Look(p, g)

Spec == Init /\ [][Next]_vars

-----------------------------------------------------------------------------
(* Properties.                                                             *)

\* However many requests present a secret at once or again, one user's click has
\* at most one secret in force: the row, or the latest of those it was exchanged
\* for.  Two live refresh tokens of one consent would outlive each other's
\* revocation.
OneInForce ==
    \A g, h \in Inserted :
        ~rows[g].spent /\ ~rows[h].spent /\ rows[g].root = rows[h].root => g = h
=============================================================================
