--------------------------- MODULE ServicesProofs ---------------------------
(***************************************************************************)
(* What the services around a project keep, for any requests, clients,     *)
(* accounts, uploads, files, columns and bounds.                           *)
(***************************************************************************)
EXTENDS MCServices, FiniteSetTheorems, TLAPS

-----------------------------------------------------------------------------
(* A behaviour exercises one part: whose turn it is never changes, and     *)
(* every step is one of that part.                                         *)

LEMMA OwnSteps ==
  /\ GrantsNext => part = "grants" /\ part' = part
  /\ SourceNext => part = "source" /\ part' = part
  /\ LlmNext => part = "llm" /\ part' = part
  /\ PreviewNext => part = "preview" /\ part' = part
  /\ ExportNext => part = "export" /\ part' = part
  /\ ReviewNext => part = "review" /\ part' = part
  /\ CardNext => part = "card" /\ part' = part
  /\ PeopleNext => part = "people" /\ part' = part
  /\ MigrationNext => part = "migration" /\ part' = part
  /\ NetworkNext => part = "network" /\ part' = part
  /\ VisitNext => part = "visit" /\ part' = part
  /\ PlatformNext => part = "platform" /\ part' = part
  <1>1. GrantsNext => part = "grants" /\ part' = part
    BY DEF GrantsNext, InGrants
  <1>2. SourceNext => part = "source" /\ part' = part
    BY DEF SourceNext, InSource
  <1>3. LlmNext => part = "llm" /\ part' = part
    BY DEF LlmNext, InLlm
  <1>4. PreviewNext => part = "preview" /\ part' = part
    BY DEF PreviewNext, InPreview
  <1>5. ExportNext => part = "export" /\ part' = part
    BY DEF ExportNext, InExport
  <1>6. ReviewNext => part = "review" /\ part' = part
    BY DEF ReviewNext, InReview
  <1>7. CardNext => part = "card" /\ part' = part
    BY DEF CardNext, InCard
  <1>8. PeopleNext => part = "people" /\ part' = part
    BY DEF PeopleNext, InPeople
  <1>9. MigrationNext => part = "migration" /\ part' = part
    BY DEF MigrationNext, InMigration
  <1>10. NetworkNext => part = "network" /\ part' = part
    BY DEF NetworkNext, InNetwork
  <1>11. VisitNext => part = "visit" /\ part' = part
    BY DEF VisitNext, InVisit
  <1>12. PlatformNext => part = "platform" /\ part' = part
    BY DEF PlatformNext, InPlatform
  <1>13. QED
    BY <1>1, <1>2, <1>3, <1>4, <1>5, <1>6, <1>7, <1>8, <1>9, <1>10, <1>11, <1>12

LEMMA Turns ==
  ASSUME [ServicesNext]_services
  PROVE  /\ part' = part
         /\ part = "grants" => GrantsNext \/ UNCHANGED grants
         /\ part = "source" => SourceNext \/ UNCHANGED source
         /\ part = "llm" => LlmNext \/ UNCHANGED llm
         /\ part = "preview" => PreviewNext \/ UNCHANGED preview
         /\ part = "export" => ExportNext \/ UNCHANGED export
         /\ part = "review" => ReviewNext \/ UNCHANGED review
         /\ part = "card" => CardNext \/ UNCHANGED card
         /\ part = "people" => PeopleNext \/ UNCHANGED people
         /\ part = "migration" => MigrationNext \/ UNCHANGED vars
         /\ part = "network" => NetworkNext \/ UNCHANGED network
         /\ part = "visit" => VisitNext \/ UNCHANGED counting
         /\ part = "platform" => PlatformNext \/ UNCHANGED upgrade
  <1>1. CASE UNCHANGED services
    BY <1>1 DEF services
  <1>2. CASE ServicesNext
    BY <1>2, OwnSteps DEF ServicesNext
  <1>3. QED
    BY <1>1, <1>2
-----------------------------------------------------------------------------
(* OAuthGrants.  A request that has locked a row is the only one with a    *)
(* row of that lineage, and the rest of the lineage is spent; so the       *)
(* exchange may commit although its row expired meanwhile.                 *)

RootsKnown == \A g \in Grants!Inserted : rows[g].root \in Grants!Inserted

HeldKind ==
    \A p \in Request : holds[p] # Grants!None =>
        rows[holds[p]].kind \in {"consent", "code", "refresh"}

HeldAlone ==
    \A p \in Request, h \in Grants!Inserted :
        holds[p] # Grants!None /\ h # holds[p] /\ rows[h].root = rows[holds[p]].root
            => rows[h].spent

HeldOnce ==
    \A p, q \in Request :
        /\ holds[p] # Grants!None /\ holds[q] # Grants!None
        /\ rows[holds[p]].root = rows[holds[q]].root
        => p = q

GrantsInv ==
    /\ Grants!TypeOK /\ RootsKnown /\ HeldKind /\ HeldAlone /\ HeldOnce
    /\ Grants!OneInForce

\* The rows once g is used up.
LEMMA SpentOld ==
  ASSUME Grants!TypeOK, NEW g \in Grants!Inserted
  PROVE  LET old == Grants!Spent(g) IN
         /\ old \in Seq(Grants!Grant) /\ Len(old) = Len(rows) /\ DOMAIN old = Grants!Inserted
         /\ \A h \in Grants!Inserted :
              /\ old[h].kind = rows[h].kind /\ old[h].root = rows[h].root
              /\ old[h].spent <=> rows[h].spent \/ h = g
  <1> DEFINE old == Grants!Spent(g)
  <1>1. rows \in Seq(Grants!Grant) /\ g \in 1 .. Len(rows) /\ DOMAIN rows = 1 .. Len(rows)
    BY DEF Grants!TypeOK, Grants!Inserted
  <1>2. rows[g] \in Grants!Grant
    BY <1>1
  <1>3. old = [rows EXCEPT ![g] = [rows[g] EXCEPT !.spent = TRUE]]
    BY DEF Grants!Spent
  <1>4. [rows[g] EXCEPT !.spent = TRUE] \in Grants!Grant
    BY <1>2 DEF Grants!Grant
  <1> HIDE DEF old
  <1>5. old \in Seq(Grants!Grant) /\ Len(old) = Len(rows) /\ DOMAIN old = Grants!Inserted
    BY <1>1, <1>3, <1>4 DEF Grants!Inserted
  <1>6. ASSUME NEW h \in Grants!Inserted
        PROVE  /\ old[h].kind = rows[h].kind /\ old[h].root = rows[h].root
               /\ old[h].spent <=> rows[h].spent \/ h = g
    BY <1>1, <1>2, <1>3 DEF Grants!Inserted, Grants!Grant
  <1>7. QED
    BY <1>5, <1>6 DEF old

LEMMA SpentRows ==
  ASSUME Grants!TypeOK, NEW g \in Grants!Inserted, rows' = Grants!Spent(g)
  PROVE  /\ rows' \in Seq(Grants!Grant) /\ Len(rows') = Len(rows)
         /\ Grants!Inserted' = Grants!Inserted
         /\ \A h \in Grants!Inserted :
              /\ rows'[h].kind = rows[h].kind /\ rows'[h].root = rows[h].root
              /\ rows[h].spent => rows'[h].spent
  BY SpentOld DEF Grants!Inserted

LEMMA InsertedRow ==
  ASSUME Grants!TypeOK, Grants!Room, NEW k \in Grants!Kind, NEW r \in Grants!Row,
         NEW c \in Client, NEW a \in Owner, NEW old \in Seq(Grants!Grant), Len(old) = Len(rows),
         rows' = Append(old, Grants!Fresh(k, r, c, a))
  PROVE  /\ rows' \in Seq(Grants!Grant) /\ Len(rows') = Len(rows) + 1 /\ Len(rows') <= MaxRows
         /\ Grants!Inserted = 1 .. Len(rows) /\ Len(rows) \in Nat
         /\ Grants!Inserted' = 1 .. Len(rows) + 1
         /\ \A h \in Grants!Inserted : rows'[h] = old[h]
         /\ rows'[Len(rows) + 1] = Grants!Fresh(k, r, c, a)
  <1>1. Grants!Fresh(k, r, c, a) \in Grants!Grant
    BY DEF Grants!Fresh, Grants!Grant
  <1>2. Len(rows) \in Nat /\ Len(rows) + 1 <= MaxRows
    BY BoundsAssumption DEF Grants!TypeOK, Grants!Room
  <1>3. QED
    BY <1>1, <1>2 DEF Grants!TypeOK, Grants!Inserted
\* What happens to the locks when rows are used up or inserted: they are kept or
\* released.
Released ==
    /\ holds' \in [Request -> Grants!Row \cup {Grants!None}]
    /\ \A q \in Request : holds'[q] \in {holds[q], Grants!None}

LEMMA GrantsSpend ==
  ASSUME GrantsInv, NEW g \in Grants!Inserted, rows' = Grants!Spent(g), Released
  PROVE  GrantsInv'
  <1>1. /\ rows' \in Seq(Grants!Grant) /\ Len(rows') = Len(rows)
        /\ Grants!Inserted' = Grants!Inserted
        /\ \A h \in Grants!Inserted :
             /\ rows'[h].kind = rows[h].kind /\ rows'[h].root = rows[h].root
             /\ rows[h].spent => rows'[h].spent
    BY SpentRows DEF GrantsInv
  <1>2. \A q \in Request : holds'[q] # Grants!None =>
            holds'[q] = holds[q] /\ holds[q] \in Grants!Inserted
    BY DEF Released, GrantsInv, Grants!TypeOK
  <1>3. Grants!TypeOK'
    BY <1>1, <1>2 DEF GrantsInv, Grants!TypeOK, Released
  <1>4. RootsKnown' /\ Grants!OneInForce'
    BY <1>1 DEF GrantsInv, RootsKnown, Grants!OneInForce
  <1>5. HeldKind' /\ HeldAlone' /\ HeldOnce'
    BY <1>1, <1>2 DEF GrantsInv, HeldKind, HeldAlone, HeldOnce
  <1>6. QED
    BY <1>3, <1>4, <1>5 DEF GrantsInv

\* A click starts a lineage of its own.
LEMMA GrantsStart ==
  ASSUME GrantsInv, Grants!Room, NEW k \in Grants!Kind, NEW c \in Client, NEW a \in Owner,
         rows' = Append(rows, Grants!Fresh(k, Len(rows) + 1, c, a)), UNCHANGED holds
  PROVE  GrantsInv'
  <1> DEFINE n == Len(rows) + 1
  <1>1. n \in Grants!Row
    BY BoundsAssumption DEF GrantsInv, Grants!TypeOK, Grants!Room, Grants!Row
  <1>2. rows \in Seq(Grants!Grant)
    BY DEF GrantsInv, Grants!TypeOK
  <1>3. /\ rows' \in Seq(Grants!Grant) /\ Len(rows') = n /\ Len(rows') <= MaxRows
        /\ Grants!Inserted = 1 .. Len(rows) /\ Len(rows) \in Nat
        /\ Grants!Inserted' = 1 .. n
        /\ \A h \in Grants!Inserted : rows'[h] = rows[h]
        /\ rows'[n] = Grants!Fresh(k, n, c, a)
    BY <1>1, <1>2, InsertedRow DEF GrantsInv
  <1>4. rows'[n].root = n /\ \A h \in Grants!Inserted : rows[h].root # n
    BY <1>3 DEF Grants!Fresh, GrantsInv, RootsKnown
  <1> HIDE DEF n
  <1>5. \A h \in Grants!Inserted' : h = n \/ h \in Grants!Inserted
    BY <1>3 DEF n
  <1>6. \A q \in Request : holds[q] # Grants!None => holds[q] \in Grants!Inserted
    BY DEF GrantsInv, Grants!TypeOK
  <1>7. Grants!Inserted \subseteq Grants!Inserted' /\ n \in Grants!Inserted'
    BY <1>3 DEF n
  <1>8. Grants!TypeOK'
    BY <1>3, <1>6, <1>7 DEF GrantsInv, Grants!TypeOK
  <1>9. RootsKnown' /\ Grants!OneInForce'
    BY <1>3, <1>4, <1>5, <1>7 DEF GrantsInv, RootsKnown, Grants!OneInForce
  <1>10. HeldKind' /\ HeldAlone' /\ HeldOnce'
    BY <1>3, <1>4, <1>5, <1>6 DEF GrantsInv, HeldKind, HeldAlone, HeldOnce
  <1>11. QED
    BY <1>8, <1>9, <1>10 DEF GrantsInv

\* An exchange, by whoever has the lineage for itself.
LEMMA GrantsRedeem ==
  ASSUME GrantsInv, Grants!Room, NEW g \in Grants!Inserted, Grants!Redeem(g), Released,
         rows[g].kind \in {"login", "ticket", "consent", "code", "refresh"},
         \A h \in Grants!Inserted : h # g /\ rows[h].root = rows[g].root => rows[h].spent,
         \A q \in Request : holds'[q] # Grants!None => rows[holds'[q]].root # rows[g].root
  PROVE  GrantsInv'
  <1> DEFINE n == Len(rows) + 1
             old == Grants!Spent(g)
             k == Grants!Successor(rows[g].kind)
             r == rows[g].root
  <1>1. rows[g] \in Grants!Grant
    BY DEF GrantsInv, Grants!TypeOK, Grants!Inserted
  <1>2. /\ k \in Grants!Kind /\ r \in Grants!Row
        /\ rows[g].client \in Client /\ rows[g].account \in Owner
    BY <1>1 DEF Grants!Successor, Grants!Kind, Grants!Grant
  <1>3. PICK c \in Client, a \in Owner : rows' = Append(old, Grants!Fresh(k, r, c, a))
    BY <1>2 DEF Grants!Redeem
  <1>4. /\ old \in Seq(Grants!Grant) /\ Len(old) = Len(rows)
        /\ \A h \in Grants!Inserted :
             /\ old[h].kind = rows[h].kind /\ old[h].root = rows[h].root
             /\ old[h].spent <=> rows[h].spent \/ h = g
    BY SpentOld DEF GrantsInv
  <1> HIDE DEF old, k, r
  <1>5. /\ rows' \in Seq(Grants!Grant) /\ Len(rows') = n /\ Len(rows') <= MaxRows
        /\ Grants!Inserted = 1 .. Len(rows) /\ Len(rows) \in Nat
        /\ Grants!Inserted' = 1 .. n
        /\ \A h \in Grants!Inserted : rows'[h] = old[h]
        /\ rows'[n] = Grants!Fresh(k, r, c, a)
    BY <1>2, <1>3, <1>4, InsertedRow DEF GrantsInv
  <1>6. rows'[n].root = r /\ r \in Grants!Inserted
    BY <1>5 DEF Grants!Fresh, r, GrantsInv, RootsKnown
  <1> HIDE DEF n
  <1>7. \A h \in Grants!Inserted' : h = n \/ h \in Grants!Inserted
    BY <1>5 DEF n
  <1>8. \A q \in Request : holds'[q] # Grants!None =>
            holds'[q] = holds[q] /\ holds[q] \in Grants!Inserted
    BY DEF Released, GrantsInv, Grants!TypeOK
  <1>9. Grants!Inserted \subseteq Grants!Inserted' /\ n \in Grants!Inserted'
    BY <1>5 DEF n
  <1>10. Grants!TypeOK'
    BY <1>5, <1>8, <1>9 DEF Released, Grants!TypeOK
  <1>11. RootsKnown'
    BY <1>4, <1>5, <1>6, <1>7, <1>9 DEF GrantsInv, RootsKnown
  <1>12. \A h \in Grants!Inserted : rows'[h].root = r => rows'[h].spent
    BY <1>4, <1>5 DEF r
  <1>13. Grants!OneInForce'
    <2>1. SUFFICES ASSUME NEW h \in Grants!Inserted', NEW i \in Grants!Inserted',
                          ~rows'[h].spent, ~rows'[i].spent, rows'[h].root = rows'[i].root
                   PROVE  h = i
      BY DEF Grants!OneInForce
    <2>2. CASE h = n \/ i = n
      BY <1>6, <1>7, <1>12, <2>1, <2>2
    <2>3. CASE h # n /\ i # n
      BY <1>4, <1>5, <1>7, <2>1, <2>3 DEF GrantsInv, Grants!OneInForce
    <2>4. QED
      BY <2>2, <2>3
  <1>14. HeldKind' /\ HeldOnce'
    <2>1. \A q \in Request : holds'[q] # Grants!None =>
             /\ rows'[holds'[q]].kind = rows[holds[q]].kind
             /\ rows'[holds'[q]].root = rows[holds[q]].root
      BY <1>4, <1>5, <1>8
    <2>2. QED
      BY <1>8, <2>1 DEF GrantsInv, HeldKind, HeldOnce
  <1>15. HeldAlone'
    BY <1>4, <1>5, <1>6, <1>7, <1>8 DEF GrantsInv, HeldAlone, r
  <1>16. QED
    BY <1>10, <1>11, <1>13, <1>14, <1>15 DEF GrantsInv
LEMMA GrantsStep ==
  ASSUME GrantsInv, GrantsNext
  PROVE  GrantsInv'
  <1>1. /\ rows \in Seq(Grants!Grant) /\ holds \in [Request -> Grants!Row \cup {Grants!None}]
        /\ \A p \in Request : holds[p] # Grants!None => holds[p] \in Grants!Inserted
    BY DEF GrantsInv, Grants!TypeOK
  <1>2. UNCHANGED holds => Released
    BY <1>1 DEF Released
  <1>3. \A p \in Request : holds' = [holds EXCEPT ![p] = Grants!None] => Released
    BY <1>1 DEF Released
  <1>4. ASSUME NEW a \in Owner, NEW c \in Client,
               Grants!StartLogin(a, c) \/ Grants!AskConsent(a, c) \/ Grants!GetTicket(a, c)
        PROVE  GrantsInv'
    BY <1>4, GrantsStart DEF Grants!StartLogin, Grants!AskConsent, Grants!GetTicket, Grants!Kind
  <1>5. ASSUME NEW g \in Grants!Inserted, Grants!RedeemAtOnce(g)
        PROVE  GrantsInv'
    <2>1. /\ \A h \in Grants!Inserted : h # g /\ rows[h].root = rows[g].root => rows[h].spent
          /\ rows[g].kind \in {"login", "ticket"} /\ ~rows[g].spent
      BY <1>5 DEF Grants!RedeemAtOnce, Grants!Redeemable, GrantsInv, Grants!OneInForce
    <2>2. \A q \in Request : holds[q] # Grants!None => rows[holds[q]].root # rows[g].root
      BY <1>1, <2>1 DEF GrantsInv, HeldKind, HeldAlone
    <2>3. QED
      BY <1>2, <1>5, <2>1, <2>2, GrantsRedeem DEF Grants!RedeemAtOnce
  <1>6. ASSUME NEW g \in Grants!Inserted,
               Grants!Wasted(g) \/ Grants!Revoke(g) \/ Grants!Expire(g)
        PROVE  GrantsInv'
    BY <1>2, <1>6, GrantsSpend DEF Grants!Wasted, Grants!Revoke, Grants!Expire, Grants!Spent
  <1>7. ASSUME NEW p \in Request, Grants!Commit(p)
        PROVE  GrantsInv'
    <2>1. PICK g \in Grants!Inserted : g = holds[p]
      BY <1>1, <1>7 DEF Grants!Commit
    <2>2. /\ Grants!Room /\ Grants!Redeem(g) /\ holds[p] # Grants!None
          /\ holds' = [holds EXCEPT ![p] = Grants!None]
          /\ rows[g].kind \in {"consent", "code", "refresh"}
      BY <1>7, <2>1 DEF Grants!Commit, GrantsInv, HeldKind
    <2>3. \A h \in Grants!Inserted : h # g /\ rows[h].root = rows[g].root => rows[h].spent
      BY <2>1, <2>2 DEF GrantsInv, HeldAlone
    <2>4. \A q \in Request : holds'[q] # Grants!None => rows[holds'[q]].root # rows[g].root
      <3>1. \A q \in Request : holds'[q] # Grants!None => q # p /\ holds'[q] = holds[q]
        BY <1>1, <2>2
      <3>2. QED
        BY <3>1, <2>1, <2>2 DEF GrantsInv, HeldOnce
    <2>5. QED
      BY <1>3, <2>2, <2>3, <2>4, GrantsRedeem
  <1>8. ASSUME NEW p \in Request, Grants!Deny(p)
        PROVE  GrantsInv'
    <2>1. PICK g \in Grants!Inserted : g = holds[p] /\ rows' = Grants!Spent(g)
      BY <1>1, <1>8 DEF Grants!Deny
    <2>2. QED
      BY <1>3, <1>8, <2>1, GrantsSpend DEF Grants!Deny
  <1>9. ASSUME NEW p \in Request, Grants!Rollback(p)
        PROVE  GrantsInv'
    <2>1. UNCHANGED rows /\ Released
      BY <1>3, <1>9 DEF Grants!Rollback
    <2>2. \A q \in Request : holds'[q] # Grants!None => holds'[q] = holds[q]
      BY <2>1 DEF Released
    <2>3. Grants!TypeOK' /\ RootsKnown' /\ Grants!OneInForce'
      BY <1>1, <2>1, <2>2 DEF Released, GrantsInv, Grants!TypeOK, Grants!Inserted, RootsKnown,
         Grants!OneInForce
    <2>4. HeldKind' /\ HeldAlone' /\ HeldOnce'
      BY <2>1, <2>2 DEF GrantsInv, Grants!Inserted, HeldKind, HeldAlone, HeldOnce
    <2>5. QED
      BY <2>3, <2>4 DEF GrantsInv
  <1>10. ASSUME NEW p \in Request, NEW g \in Grants!Inserted, Grants!Look(p, g)
         PROVE  GrantsInv'
    <2>1. /\ holds[p] = Grants!None /\ holds' = [holds EXCEPT ![p] = g] /\ UNCHANGED rows
          /\ rows[g].kind \in {"consent", "code", "refresh"}
          /\ ~rows[g].spent /\ \A q \in Request : holds[q] # g
      BY <1>10 DEF Grants!Look, Grants!LockFree, Grants!Locked, Grants!Redeemable
    <2>2. g \in Grants!Row /\ g # Grants!None
      BY <1>1, BoundsAssumption DEF GrantsInv, Grants!TypeOK, Grants!Inserted, Grants!Row, Grants!None
    <2>3. holds'[p] = g /\ \A q \in Request \ {p} : holds'[q] = holds[q]
      BY <1>1, <2>1
    <2>4. Grants!TypeOK' /\ RootsKnown' /\ Grants!OneInForce'
      BY <1>1, <2>1, <2>2, <2>3 DEF GrantsInv, Grants!TypeOK, Grants!Inserted, RootsKnown,
         Grants!OneInForce
    <2>5. HeldKind'
      BY <2>1, <2>3 DEF GrantsInv, HeldKind
    <2>6. HeldAlone'
      BY <2>1, <2>3 DEF GrantsInv, HeldAlone, Grants!OneInForce, Grants!Inserted
    <2>7. \A q \in Request \ {p} : holds[q] # Grants!None => rows[holds[q]].root # rows[g].root
      BY <1>1, <2>1 DEF GrantsInv, HeldAlone
    <2>8. HeldOnce'
      BY <2>1, <2>3, <2>7 DEF GrantsInv, HeldOnce
    <2>9. QED
      BY <2>4, <2>5, <2>6, <2>8 DEF GrantsInv
  <1>11. QED
    BY <1>4, <1>5, <1>6, <1>7, <1>8, <1>9, <1>10 DEF GrantsNext, InGrants

LEMMA GrantsUnchanged ==
  ASSUME GrantsInv, UNCHANGED grants
  PROVE  GrantsInv'
  BY DEF grants, GrantsInv, Grants!TypeOK, Grants!Inserted, RootsKnown, HeldKind, HeldAlone,
     HeldOnce, Grants!OneInForce

LEMMA GrantsInit == ServicesInit => GrantsInv
  BY BoundsAssumption DEF ServicesInit, Grants!Init, GrantsInv, Grants!TypeOK, Grants!Inserted,
     RootsKnown, HeldKind, HeldAlone, HeldOnce, Grants!OneInForce

\* However many requests present a secret at once or again, and whatever expires in
\* between, one click has at most one secret in force (routes/oauth.ts, routes/auth.ts,
\* gateway.ts): for any requests, clients, accounts and number of rows.
THEOREM OneSecretInForce == ServicesSpec => []OneInForce
  <1>1. (part = "grants" => GrantsInv) /\ [ServicesNext]_services
            => (part = "grants" => GrantsInv)'
    BY Turns, GrantsStep, GrantsUnchanged
  <1>2. ServicesInit => (part = "grants" => GrantsInv)
    BY GrantsInit
  <1>3. (part = "grants" => GrantsInv) => OneInForce
    BY DEF GrantsInv, OneInForce, Kept
  <1>4. QED
    BY <1>1, <1>2, <1>3, PTL DEF ServicesSpec
-----------------------------------------------------------------------------
(* Sources.  A request that has written an archive is alone with it, under *)
(* a name no revision has, until the row is inserted or the archive gone.  *)

ArchivesNamed ==
    /\ \A f \in archives : f.id <= written
    /\ \A f, g \in archives : f.id = g.id => f = g

WrittenArchive(p) ==
    request[p].at \in {"insert", "remove"} =>
        /\ request[p].file \in 1 .. written
        /\ \A r \in revisions : r.id # request[p].file
        /\ request[p].at = "insert" =>
             [id |-> request[p].file, body |-> request[p].body] \in archives

WrittenOnce ==
    \A p, q \in Request :
        /\ request[p].at \in {"insert", "remove"} /\ request[q].at \in {"insert", "remove"}
        /\ request[p].file = request[q].file
        => p = q

KeysUnique == \A v, w \in builds : v.key = w.key => v = w

SourceInv ==
    /\ Source!TypeOK /\ IsFiniteSet(builds)
    /\ ArchivesNamed /\ (\A p \in Request : WrittenArchive(p)) /\ WrittenOnce
    /\ Source!ArchiveKept
    /\ answers \subseteq builds /\ KeysUnique

LEMMA SourceGoes ==
  ASSUME Source!TypeOK, NEW p \in Request, NEW state \in Source!RequestState,
         Source!Goes(p, state)
  PROVE  /\ request' \in [Request -> Source!RequestState]
         /\ request'[p] = state
         /\ \A q \in Request \ {p} : request'[q] = request[q]
  BY DEF Source!TypeOK, Source!Goes

\* What a request carries at each of its places.
LEMMA SourcePlace ==
  ASSUME Source!TypeOK, NEW p \in Request
  PROVE  /\ request[p].at \in {"assemble", "reopen"} =>
              request[p] \in [at : {"assemble", "reopen"}, upload : Upload]
         /\ request[p].at \in Source!Storing =>
              request[p] \in [at : Source!Storing, upload : Upload \cup {"direct"},
                              body : Body, file : 0 .. MaxFiles]
         /\ request[p].at \in {"look", "create", "again"} =>
              request[p] \in [at : {"look", "create", "again"}, key : Key, body : Body]
  BY DEF Source!TypeOK, Source!RequestState, Source!Storing, Source!Idle

\* Steps that leave archives, revisions and versions alone, and take no request to
\* where it would own an archive.
LEMMA SourceQuiet ==
  ASSUME SourceInv, Source!TypeOK', UNCHANGED <<archives, revisions, written, builds, answers>>,
         \A p \in Request : \/ request'[p] = request[p]
                            \/ request'[p].at \notin {"insert", "remove"}
  PROVE  SourceInv'
  <1>1. ASSUME NEW p \in Request, request'[p].at \in {"insert", "remove"}
        PROVE  request'[p] = request[p]
    BY <1>1
  <1>2. ArchivesNamed' /\ KeysUnique' /\ Source!ArchiveKept' /\ IsFiniteSet(builds')
        /\ answers' \subseteq builds'
    BY DEF SourceInv, ArchivesNamed, KeysUnique, Source!ArchiveKept
  <1>3. \A p \in Request : WrittenArchive(p)'
    BY <1>1 DEF SourceInv, WrittenArchive
  <1>4. WrittenOnce'
    BY <1>1 DEF SourceInv, WrittenOnce
  <1>5. QED
    BY <1>2, <1>3, <1>4 DEF SourceInv

\* The row of an upload changes, and no request.
LEMMA UploadTyped ==
  ASSUME Source!TypeOK, NEW u \in Upload,
         \/ Source!Begin(u) \/ Source!Abort(u) \/ Source!Expire(u)
         \/ \E i \in Source!Index, data \in {"right", "wrong"} : Source!SendChunk(u, i, data)
  PROVE  Source!TypeOK' /\ UNCHANGED <<archives, revisions, written, builds, answers, request>>
  <1>1. /\ uploads \in [Upload -> Source!UploadRow]
        /\ UNCHANGED <<archives, revisions, written, builds, answers, request>>
    BY DEF Source!TypeOK, Source!Begin, Source!Abort, Source!Expire, Source!SendChunk,
       Source!stored, Source!versions
  <1>2. uploads' \in [Upload -> Source!UploadRow]
    <2>1. CASE Source!Begin(u) \/ Source!Abort(u) \/ Source!Expire(u)
      BY <1>1, <2>1 DEF Source!Begin, Source!Abort, Source!Expire, Source!UploadRow
    <2>2. ASSUME NEW i \in Source!Index, NEW data \in {"right", "wrong"},
                 Source!SendChunk(u, i, data)
          PROVE  uploads' \in [Upload -> Source!UploadRow]
      <3>1. i + 1 \in 0 .. Chunks
        BY BoundsAssumption DEF Source!Index
      <3> DEFINE was == uploads[u]
                 chunks == [was.stored EXCEPT ![i] = data]
                 until == IF i + 1 > was.next THEN i + 1 ELSE was.next
      <3>2. uploads' = [uploads EXCEPT ![u] = [was EXCEPT !.stored = chunks, !.next = until]]
        BY <1>1, <2>2 DEF Source!SendChunk, Source!UploadRow
      <3>3. [was EXCEPT !.stored = chunks, !.next = until] \in Source!UploadRow
        BY <1>1, <3>1 DEF Source!UploadRow
      <3>4. QED
        BY <1>1, <3>2, <3>3
    <2>3. QED
      BY <2>1, <2>2
  <1>3. QED
    BY <1>1, <1>2 DEF Source!TypeOK
\* A request goes somewhere, and of the rest only uploads may change.
LEMMA SourceMoves ==
  ASSUME SourceInv, NEW p \in Request, NEW state \in Source!RequestState,
         Source!Goes(p, state), state.at \notin {"insert", "remove"},
         uploads' \in [Upload -> Source!UploadRow],
         UNCHANGED <<archives, revisions, written, builds, answers>>
  PROVE  SourceInv'
  <1>1. /\ request' \in [Request -> Source!RequestState]
        /\ request'[p] = state
        /\ \A q \in Request \ {p} : request'[q] = request[q]
    BY SourceGoes DEF SourceInv
  <1>2. Source!TypeOK'
    BY <1>1 DEF SourceInv, Source!TypeOK
  <1>3. QED
    BY <1>1, <1>2, SourceQuiet

LEMMA SourceUploads ==
  ASSUME SourceInv, NEW p \in Request,
         \/ Source!Assemble(p) \/ Source!Reopen(p)
         \/ \E u \in Upload : Source!Claim(p, u)
  PROVE  SourceInv'
  <1>1. /\ UNCHANGED <<archives, revisions, written, builds, answers>>
        /\ uploads \in [Upload -> Source!UploadRow]
    BY DEF Source!Assemble, Source!Reopen, Source!Claim, Source!stored, Source!versions,
       SourceInv, Source!TypeOK
  <1>2. request[p].at \in {"assemble", "reopen"} => request[p].upload \in Upload
    BY SourcePlace DEF SourceInv
  <1>3. ASSUME NEW u \in Upload, Source!Claim(p, u) PROVE SourceInv'
    <2>1. [at |-> "assemble", upload |-> u] \in Source!RequestState
      BY DEF Source!RequestState
    <2>2. uploads' \in [Upload -> Source!UploadRow]
      BY <1>1, <1>3 DEF Source!Claim, Source!UploadRow
    <2>3. QED
      BY <1>1, <1>3, <2>1, <2>2, SourceMoves DEF Source!Claim
  <1>4. CASE Source!Assemble(p)
    <2>1. PICK u \in Upload : u = request[p].upload
      BY <1>2, <1>4 DEF Source!Assemble, Source!At
    <2>2. /\ [at |-> "write", upload |-> u, body |-> uploads[u].expected, file |-> 0]
                \in Source!RequestState
          /\ [at |-> "reopen", upload |-> u] \in Source!RequestState
      BY <1>1, BoundsAssumption DEF Source!RequestState, Source!UploadRow, Source!Storing
    <2>3. \/ Source!Goes(p, [at |-> "write", upload |-> u, body |-> uploads[u].expected, file |-> 0])
          \/ Source!Goes(p, [at |-> "reopen", upload |-> u])
      BY <1>4, <2>1 DEF Source!Assemble
    <2>4. UNCHANGED uploads
      BY <1>4 DEF Source!Assemble
    <2>5. QED
      BY <1>1, <2>2, <2>3, <2>4, SourceMoves
  <1>5. CASE Source!Reopen(p)
    <2>1. uploads' \in [Upload -> Source!UploadRow]
      BY <1>1, <1>2, <1>5 DEF Source!Reopen, Source!At, Source!UploadRow
    <2>2. Source!Idle \in Source!RequestState /\ Source!Idle.at = "idle"
      BY DEF Source!RequestState, Source!Idle
    <2>3. QED
      BY <1>1, <1>5, <2>1, <2>2, SourceMoves DEF Source!Reopen
  <1>6. QED
    BY <1>3, <1>4, <1>5

LEMMA SourceRequests ==
  ASSUME SourceInv, NEW p \in Request,
         \/ Source!Audited(p) \/ Source!Fails(p) \/ Source!Crash(p)
         \/ \E b \in Body : Source!Direct(p, b) \/ \E key \in Key : Source!Ask(p, key, b)
  PROVE  SourceInv'
  <1>1. /\ UNCHANGED <<archives, revisions, written, builds, answers>>
        /\ uploads' \in [Upload -> Source!UploadRow]
    BY DEF Source!Audited, Source!Fails, Source!Crash, Source!Direct, Source!Ask, Source!stored,
       Source!versions, SourceInv, Source!TypeOK
  <1>2. Source!Idle \in Source!RequestState /\ Source!Idle.at = "idle"
    BY DEF Source!RequestState, Source!Idle
  <1>3. CASE Source!Audited(p) \/ Source!Crash(p)
    BY <1>1, <1>2, <1>3, SourceMoves DEF Source!Audited, Source!Crash
  <1>4. CASE Source!Fails(p)
    <2>1. request[p].upload \in Upload \cup {"direct"}
      BY <1>4, SourcePlace DEF SourceInv, Source!Fails
    <2>2. request[p].upload # "direct" =>
            [at |-> "reopen", upload |-> request[p].upload] \in Source!RequestState
      BY <2>1 DEF Source!RequestState
    <2>3. QED
      BY <1>1, <1>2, <1>4, <2>2, SourceMoves DEF Source!Fails
  <1>5. ASSUME NEW b \in Body, Source!Direct(p, b) PROVE SourceInv'
    <2>1. [at |-> "write", upload |-> "direct", body |-> b, file |-> 0] \in Source!RequestState
      BY BoundsAssumption DEF Source!RequestState, Source!Storing
    <2>2. QED
      BY <1>1, <1>5, <2>1, SourceMoves DEF Source!Direct
  <1>6. ASSUME NEW b \in Body, NEW key \in Key, Source!Ask(p, key, b) PROVE SourceInv'
    <2>1. [at |-> "look", key |-> key, body |-> b] \in Source!RequestState
      BY DEF Source!RequestState
    <2>2. QED
      BY <1>1, <1>6, <2>1, SourceMoves DEF Source!Ask
  <1>7. QED
    BY <1>3, <1>4, <1>5, <1>6
LEMMA SourceWrites ==
  ASSUME SourceInv, NEW p \in Request, Source!Write(p)
  PROVE  SourceInv'
  <1> DEFINE next == [request[p] EXCEPT !.at = "insert", !.file = written + 1]
             new == [id |-> written + 1, body |-> request[p].body]
  <1>1. /\ request[p] \in [at : Source!Storing, upload : Upload \cup {"direct"},
                           body : Body, file : 0 .. MaxFiles]
        /\ written + 1 \in 1 .. MaxFiles /\ written \in Nat
    BY SourcePlace, BoundsAssumption DEF SourceInv, Source!Write, Source!At, Source!Storing,
       Source!TypeOK
  <1>2. /\ next \in [at : Source!Storing, upload : Upload \cup {"direct"},
                     body : Body, file : 0 .. MaxFiles]
        /\ next.at = "insert" /\ next.file = written + 1 /\ next.body = request[p].body
        /\ new \in Source!Archive
    <2> DEFINE mid == [request[p] EXCEPT !.at = "insert"]
    <2>1. /\ mid \in [at : Source!Storing, upload : Upload \cup {"direct"},
                       body : Body, file : 0 .. MaxFiles]
          /\ mid.at = "insert" /\ mid.body = request[p].body
      BY <1>1 DEF Source!Storing
    <2>2. next = [mid EXCEPT !.file = written + 1]
      BY <1>1
    <2> HIDE DEF mid, next
    <2>3. /\ next \in [at : Source!Storing, upload : Upload \cup {"direct"},
                       body : Body, file : 0 .. MaxFiles]
          /\ next.at = mid.at /\ next.body = mid.body /\ next.file = written + 1
      BY <1>1, <2>1, <2>2, BoundsAssumption
    <2>4. new \in Source!Archive
      BY <1>1 DEF Source!Archive
    <2>5. QED
      BY <2>1, <2>3, <2>4
  <1>3. next \in Source!RequestState
    BY <1>2 DEF Source!RequestState
  <1>4. /\ Source!Goes(p, next) /\ written' = written + 1 /\ archives' = archives \cup {new}
        /\ UNCHANGED <<uploads, revisions, builds, answers>>
    BY DEF Source!Write, Source!versions
  <1>5. /\ \A f \in archives : f.id <= written /\ f.id \in Nat
        /\ \A r \in revisions : r \in archives
    BY DEF SourceInv, Source!ArchiveKept, ArchivesNamed, Source!TypeOK, Source!Archive
  <1> HIDE DEF next
  <1>6. /\ request' \in [Request -> Source!RequestState]
        /\ request'[p] = next
        /\ \A q \in Request \ {p} : request'[q] = request[q]
    BY <1>3, <1>4, SourceGoes DEF SourceInv
  <1>7. Source!TypeOK'
    BY <1>1, <1>2, <1>4, <1>6 DEF SourceInv, Source!TypeOK
  <1>8. ArchivesNamed' /\ Source!ArchiveKept'
    BY <1>1, <1>4, <1>5 DEF SourceInv, ArchivesNamed, Source!ArchiveKept
  <1>9. \A q \in Request : WrittenArchive(q)'
    <2>1. WrittenArchive(p)'
      <3>1. \A r \in revisions : r.id # written + 1
        BY <1>1, <1>5
      <3>2. request'[p].file \in 1 .. written'
        BY <1>1, <1>2, <1>4, <1>6
      <3>3. QED
        BY <1>2, <1>4, <1>6, <3>1, <3>2 DEF WrittenArchive
    <2>2. ASSUME NEW q \in Request \ {p} PROVE WrittenArchive(q)'
      BY <1>1, <1>4, <1>6 DEF SourceInv, WrittenArchive
    <2>3. QED
      BY <2>1, <2>2
  <1>10. WrittenOnce'
    <2>1. ASSUME NEW q \in Request, request[q].at \in {"insert", "remove"}
          PROVE  request[q].file # written + 1
      <3>1. request[q].file \in 1 .. written
        BY <2>1 DEF SourceInv, WrittenArchive
      <3>2. QED
        BY <1>1, <3>1
    <2>2. QED
      BY <1>2, <1>6, <2>1 DEF SourceInv, WrittenOnce
  <1>11. QED
    BY <1>4, <1>7, <1>8, <1>9, <1>10 DEF SourceInv, KeysUnique

\* The row is inserted over an archive that is there.
LEMMA SourceInserts ==
  ASSUME SourceInv, NEW p \in Request, Source!Insert(p)
  PROVE  SourceInv'
  <1> DEFINE toRemove == [request[p] EXCEPT !.at = "remove"]
             toAudit == [request[p] EXCEPT !.at = "audit"]
             new == [id |-> request[p].file, body |-> request[p].body]
  <1>1. /\ request[p] \in [at : Source!Storing, upload : Upload \cup {"direct"},
                           body : Body, file : 0 .. MaxFiles]
        /\ request[p].at = "insert"
    BY SourcePlace DEF SourceInv, Source!Insert, Source!At, Source!Storing
  <1>2. /\ toRemove \in Source!RequestState /\ toAudit \in Source!RequestState
        /\ toRemove.at = "remove" /\ toRemove.file = request[p].file /\ toAudit.at = "audit"
    BY <1>1 DEF Source!RequestState, Source!Storing
  <1>3. /\ request[p].file \in 1 .. written /\ new \in archives
        /\ \A r \in revisions : r.id # request[p].file
    BY <1>1 DEF SourceInv, WrittenArchive
  <1>4. UNCHANGED <<uploads, archives, written, builds, answers>>
    BY DEF Source!Insert, Source!versions
  <1> HIDE DEF toRemove, toAudit
  <1>5. CASE Source!Goes(p, toRemove) /\ UNCHANGED revisions
    <2>1. /\ request' \in [Request -> Source!RequestState]
          /\ request'[p] = toRemove
          /\ \A q \in Request \ {p} : request'[q] = request[q]
      BY <1>2, <1>5, SourceGoes DEF SourceInv
    <2>2. Source!TypeOK'
      BY <1>4, <1>5, <2>1 DEF SourceInv, Source!TypeOK
    <2>3. \A q \in Request : WrittenArchive(q)'
      BY <1>2, <1>3, <1>4, <1>5, <2>1 DEF SourceInv, WrittenArchive
    <2>4. WrittenOnce'
      BY <1>1, <1>2, <2>1 DEF SourceInv, WrittenOnce
    <2>5. QED
      BY <1>4, <1>5, <2>2, <2>3, <2>4 DEF SourceInv, ArchivesNamed, KeysUnique, Source!ArchiveKept
  <1>6. CASE Source!Goes(p, toAudit) /\ revisions' = revisions \cup {new}
    <2>1. /\ request' \in [Request -> Source!RequestState]
          /\ request'[p] = toAudit
          /\ \A q \in Request \ {p} : request'[q] = request[q]
      BY <1>2, <1>6, SourceGoes DEF SourceInv
    <2>2. Source!TypeOK'
      BY <1>3, <1>4, <1>6, <2>1 DEF SourceInv, Source!TypeOK
    <2>3. \A q \in Request : WrittenArchive(q)'
      <3>1. ASSUME NEW q \in Request \ {p}, request[q].at \in {"insert", "remove"}
            PROVE  request[q].file # request[p].file
        BY <1>1, <3>1 DEF SourceInv, WrittenOnce
      <3>2. QED
        BY <1>2, <1>4, <1>6, <2>1, <3>1 DEF SourceInv, WrittenArchive
    <2>4. WrittenOnce'
      BY <1>2, <2>1 DEF SourceInv, WrittenOnce
    <2>5. Source!ArchiveKept'
      BY <1>3, <1>4, <1>6 DEF SourceInv, Source!ArchiveKept
    <2>6. QED
      BY <1>4, <2>2, <2>3, <2>4, <2>5 DEF SourceInv, ArchivesNamed, KeysUnique
  <1>7. QED
    BY <1>5, <1>6 DEF Source!Insert, toRemove, toAudit

\* The archive that goes is no revision's, and nobody else's.
LEMMA SourceRemoves ==
  ASSUME SourceInv, NEW p \in Request, Source!Remove(p)
  PROVE  SourceInv'
  <1> DEFINE toAudit == [request[p] EXCEPT !.at = "audit"]
             own == {f \in archives : f.id = request[p].file}
  <1>1. /\ request[p] \in [at : Source!Storing, upload : Upload \cup {"direct"},
                           body : Body, file : 0 .. MaxFiles]
        /\ request[p].at = "remove"
    BY SourcePlace DEF SourceInv, Source!Remove, Source!At, Source!Storing
  <1>2. toAudit \in Source!RequestState /\ toAudit.at = "audit"
    BY <1>1 DEF Source!RequestState, Source!Storing
  <1>3. \A r \in revisions : r.id # request[p].file
    BY <1>1 DEF SourceInv, WrittenArchive
  <1>4. /\ Source!Goes(p, toAudit) /\ archives' = archives \ own
        /\ UNCHANGED <<uploads, revisions, written, builds, answers>>
    BY DEF Source!Remove, Source!OwnArchive, Source!versions
  <1> HIDE DEF toAudit
  <1>5. /\ request' \in [Request -> Source!RequestState]
        /\ request'[p] = toAudit
        /\ \A q \in Request \ {p} : request'[q] = request[q]
    BY <1>2, <1>4, SourceGoes DEF SourceInv
  <1>6. Source!TypeOK' /\ ArchivesNamed' /\ Source!ArchiveKept'
    BY <1>3, <1>4, <1>5 DEF SourceInv, Source!TypeOK, ArchivesNamed, Source!ArchiveKept
  <1>7. ASSUME NEW q \in Request PROVE WrittenArchive(q)'
    <2>1. CASE q = p
      BY <1>2, <1>5, <2>1 DEF WrittenArchive
    <2>2. CASE q # p
      <3>1. request[q].at \in {"insert", "remove"} => request[q].file # request[p].file
        BY <1>1, <2>2 DEF SourceInv, WrittenOnce
      <3>2. [id |-> request[q].file, body |-> request[q].body].id = request[q].file
        OBVIOUS
      <3>3. QED
        BY <1>4, <1>5, <2>2, <3>1, <3>2 DEF SourceInv, WrittenArchive
    <2>3. QED
      BY <2>1, <2>2
  <1>8. WrittenOnce'
    BY <1>2, <1>5 DEF SourceInv, WrittenOnce
  <1>9. QED
    BY <1>4, <1>6, <1>7, <1>8 DEF SourceInv, KeysUnique

\* What a request is told is a version that there is.
LEMMA SourceAnswers ==
  ASSUME SourceInv, NEW p \in Request, Source!Answer(p)
  PROVE  SourceInv'
  <1>1. Source!Idle \in Source!RequestState /\ Source!Idle.at = "idle"
    BY DEF Source!RequestState, Source!Idle
  <1>2. /\ request' \in [Request -> Source!RequestState]
        /\ request'[p].at = "idle"
        /\ \A q \in Request \ {p} : request'[q] = request[q]
    BY <1>1, SourceGoes DEF SourceInv, Source!Answer
  <1>3. answers' \subseteq builds /\ UNCHANGED <<uploads, archives, revisions, written, builds>>
    BY DEF SourceInv, Source!Answer, Source!BuildOf, Source!stored
  <1>4. Source!TypeOK' /\ ArchivesNamed' /\ Source!ArchiveKept' /\ KeysUnique'
    BY <1>2, <1>3 DEF SourceInv, Source!TypeOK, ArchivesNamed, Source!ArchiveKept, KeysUnique
  <1>5. (\A q \in Request : WrittenArchive(q)') /\ WrittenOnce'
    BY <1>2, <1>3 DEF SourceInv, WrittenArchive, WrittenOnce
  <1>6. QED
    BY <1>3, <1>4, <1>5 DEF SourceInv

LEMMA SourceCount ==
  ASSUME IsFiniteSet(builds)
  PROVE  Source!Cardinality(builds) \in Nat
  <1>1. Source!Cardinality(builds) = Cardinality(builds)
    BY DEF Source!Cardinality, Cardinality
  <1>2. QED
    BY <1>1, FS_CardinalityType

\* A version is created under a key that no version has.
LEMMA SourceCreates ==
  ASSUME SourceInv, NEW p \in Request,
         Source!Look(p) \/ Source!Create(p) \/ Source!Again(p)
  PROVE  SourceInv'
  <1> DEFINE toCreate == [request[p] EXCEPT !.at = "create"]
             toAgain == [request[p] EXCEPT !.at = "again"]
             new == [id |-> Source!Cardinality(builds) + 1, key |-> request[p].key,
                     body |-> request[p].body]
  <1>1. /\ request[p] \in [at : {"look", "create", "again"}, key : Key, body : Body]
    BY SourcePlace DEF SourceInv, Source!Look, Source!Create, Source!Again, Source!At
  <1>2. /\ toCreate \in Source!RequestState /\ toCreate.at = "create"
        /\ toAgain \in Source!RequestState /\ toAgain.at = "again"
        /\ Source!Idle \in Source!RequestState /\ Source!Idle.at = "idle"
    BY <1>1 DEF Source!RequestState, Source!Idle
  <1> HIDE DEF toCreate, toAgain
  <1>3. uploads \in [Upload -> Source!UploadRow] /\ Source!Cardinality(builds) \in Nat
    BY SourceCount DEF SourceInv, Source!TypeOK
  <1>4. CASE Source!Answer(p)
    BY <1>4, SourceAnswers
  <1>5. CASE Source!Goes(p, toCreate) /\ UNCHANGED <<uploads, Source!stored, Source!versions>>
    BY <1>2, <1>3, <1>5, SourceMoves DEF Source!stored, Source!versions
  <1>6. CASE Source!Goes(p, toAgain) /\ UNCHANGED <<uploads, Source!stored, Source!versions>>
    BY <1>2, <1>3, <1>6, SourceMoves DEF Source!stored, Source!versions
  <1>7. CASE /\ Source!Create(p) /\ ~Source!KeyTaken(request[p].key)
    <2>1. /\ builds' = builds \cup {new} /\ answers' = answers \cup {new}
          /\ Source!Goes(p, Source!Idle) /\ UNCHANGED <<uploads, archives, revisions, written>>
          /\ Source!Cardinality(builds) < MaxBuilds
          /\ \A v \in builds : v.key # request[p].key
      BY <1>7 DEF Source!Create, Source!KeyTaken, Source!BuildOf, Source!stored
    <2>2. /\ request' \in [Request -> Source!RequestState]
          /\ request'[p].at = "idle"
          /\ \A q \in Request \ {p} : request'[q] = request[q]
      BY <1>2, <2>1, SourceGoes DEF SourceInv
    <2>3. new \in Source!Build
      BY <1>1, <1>3, <2>1, BoundsAssumption DEF Source!Build
    <2>4. new.key = request[p].key
      OBVIOUS
    <2> HIDE DEF new
    <2>5. Source!TypeOK'
      BY <2>1, <2>2, <2>3 DEF SourceInv, Source!TypeOK
    <2>6. IsFiniteSet(builds')
      BY <2>1, FS_AddElement DEF SourceInv
    <2>7. (\A q \in Request : WrittenArchive(q)') /\ WrittenOnce'
      BY <2>1, <2>2 DEF SourceInv, WrittenArchive, WrittenOnce
    <2>8. KeysUnique' /\ answers' \subseteq builds'
      BY <2>1, <2>4 DEF SourceInv, KeysUnique
    <2>9. QED
      BY <2>1, <2>5, <2>6, <2>7, <2>8 DEF SourceInv, ArchivesNamed, Source!ArchiveKept
  <1>8. QED
    BY <1>4, <1>5, <1>6, <1>7 DEF Source!Look, Source!Create, Source!Again, toCreate, toAgain

LEMMA SourceStep ==
  ASSUME SourceInv, SourceNext
  PROVE  SourceInv'
  <1>1. ASSUME NEW u \in Upload,
               \/ Source!Begin(u) \/ Source!Abort(u) \/ Source!Expire(u)
               \/ \E i \in Source!Index, data \in {"right", "wrong"} : Source!SendChunk(u, i, data)
        PROVE  SourceInv'
    BY <1>1, UploadTyped, SourceQuiet DEF SourceInv
  <1>2. ASSUME NEW p \in Request,
               \/ Source!Assemble(p) \/ Source!Reopen(p)
               \/ \E u \in Upload : Source!Claim(p, u)
        PROVE  SourceInv'
    BY <1>2, SourceUploads
  <1>3. ASSUME NEW p \in Request,
               \/ Source!Audited(p) \/ Source!Fails(p) \/ Source!Crash(p)
               \/ \E b \in Body : Source!Direct(p, b) \/ \E key \in Key : Source!Ask(p, key, b)
        PROVE  SourceInv'
    BY <1>3, SourceRequests
  <1>4. ASSUME NEW p \in Request,
               \/ Source!Write(p) \/ Source!Insert(p) \/ Source!Remove(p)
               \/ Source!Look(p) \/ Source!Create(p) \/ Source!Again(p)
        PROVE  SourceInv'
    BY <1>4, SourceWrites, SourceInserts, SourceRemoves, SourceCreates
  <1>5. QED
    BY <1>1, <1>2, <1>3, <1>4 DEF SourceNext, InSource

LEMMA SourceUnchanged ==
  ASSUME SourceInv, UNCHANGED source
  PROVE  SourceInv'
  <1>1. UNCHANGED <<uploads, archives, revisions, written, builds, answers, request>>
    BY DEF source
  <1>2. Source!TypeOK'
    BY <1>1 DEF SourceInv, Source!TypeOK
  <1>3. QED
    BY <1>1, <1>2, SourceQuiet

LEMMA SourceInit == ServicesInit => SourceInv
  <1>1. SUFFICES ASSUME Source!Init PROVE SourceInv
    BY DEF ServicesInit
  <1>2. 0 \in 0 .. Chunks /\ 0 \in 0 .. MaxFiles
    BY BoundsAssumption
  <1>3. ASSUME NEW b \in Body
        PROVE  [state |-> "none", expected |-> b, next |-> 0,
                stored |-> [i \in Source!Index |-> "absent"]] \in Source!UploadRow
    BY <1>2 DEF Source!UploadRow
  <1>4. uploads \in [Upload -> Source!UploadRow]
    BY <1>1, <1>3 DEF Source!Init
  <1>5. \A p \in Request : request[p] = Source!Idle /\ Source!Idle.at = "idle"
    BY <1>1 DEF Source!Init, Source!Idle
  <1>6. Source!TypeOK
    BY <1>1, <1>2, <1>4, <1>5 DEF Source!Init, Source!TypeOK, Source!RequestState
  <1>7. (\A p \in Request : WrittenArchive(p)) /\ WrittenOnce
    BY <1>5 DEF WrittenArchive, WrittenOnce
  <1>8. IsFiniteSet(builds)
    BY <1>1, FS_EmptySet DEF Source!Init
  <1>9. QED
    BY <1>1, <1>6, <1>7, <1>8 DEF Source!Init, SourceInv, ArchivesNamed, KeysUnique,
       Source!ArchiveKept

LEMMA SourceInvariant == ServicesSpec => [](part = "source" => SourceInv)
  <1>1. (part = "source" => SourceInv) /\ [ServicesNext]_services
            => (part = "source" => SourceInv)'
    BY Turns, SourceStep, SourceUnchanged
  <1>2. ServicesInit => (part = "source" => SourceInv)
    BY SourceInit
  <1>3. QED
    BY <1>1, <1>2, PTL DEF ServicesSpec

\* Whatever requests store the same bytes at once, fail, die or are repeated, the archive
\* of a revision is on disk (persistSource, lib/projects.ts): for any requests, uploads
\* and archives.
THEOREM ArchivesAreKept == ServicesSpec => []ArchiveKept
  <1>1. (part = "source" => SourceInv) => ArchiveKept
    BY DEF SourceInv, ArchiveKept, Kept
  <1>2. QED
    BY <1>1, SourceInvariant, PTL

\* Requests under one idempotency key are told of one version (createVersion,
\* lib/projects.ts): for any requests and keys, and repeated as often as they like.
THEOREM OneAnswer == ServicesSpec => []OneAnswerPerKey
  <1>1. (part = "source" => SourceInv) => OneAnswerPerKey
    BY DEF SourceInv, KeysUnique, OneAnswerPerKey, Source!OneAnswerPerKey
  <1>2. QED
    BY <1>1, SourceInvariant, PTL
-----------------------------------------------------------------------------
(* Accounts.  Whoever counts the projects of an account, or is about to    *)
(* write one, holds its row; so what was counted still holds.              *)

LocksHeld ==
    \A r \in Request : transaction[r].at \in {"count", "insert", "write"} =>
        lock[transaction[r].on] = r

LimitKnown ==
    \A r \in Request : transaction[r].at = "count" =>
        LET a == transaction[r].on IN
        transaction[r].limit = People!EffectiveQuota(role[a], quota[a])

RoomLeft ==
    \A r \in Request : transaction[r].at = "insert" =>
        LET a == transaction[r].on IN
        projects[a] < People!EffectiveQuota(role[a], quota[a])

\* Only accounts that someone has signed in to are patched.
PatchesKnown ==
    \A r \in Request : transaction[r].at = "patch" => role[transaction[r].on] # People!None

PeopleInv == People!TypeOK /\ LocksHeld /\ LimitKnown /\ RoomLeft /\ PatchesKnown

Place ==
    {People!Idle} \cup [at : {"create"}, on : Account]
    \cup [at : {"count"}, on : Account, limit : 1 .. MaxQuota]
    \cup [at : {"insert"}, on : Account]
    \cup [at : {"patch"}, on : Account, patch : People!Patch]
    \cup [at : {"write"}, on : Account, role : People!Role, quota : 1 .. MaxQuota]

LEMMA PeopleTypes ==
  People!TypeOK <=>
    /\ role \in [Account -> People!Role \cup {People!None}]
    /\ quota \in [Account -> 1 .. MaxQuota]
    /\ projects \in [Account -> 0 .. MaxProjects]
    /\ lock \in [Account -> Request \cup {People!None}]
    /\ transaction \in [Request -> Place]
  BY DEF People!TypeOK, Place

\* What a request carries at each of its places.
LEMMA PeoplePlace ==
  ASSUME People!TypeOK, NEW r \in Request
  PROVE  /\ transaction[r].at \in {"create", "count", "insert", "patch", "write"} =>
              transaction[r].on \in Account
         /\ transaction[r].at = "count" => transaction[r].limit \in 1 .. MaxQuota
         /\ transaction[r].at = "patch" => transaction[r].patch \in People!Patch
         /\ transaction[r].at = "write" =>
              transaction[r].role \in People!Role /\ transaction[r].quota \in 1 .. MaxQuota
  BY PeopleTypes DEF Place, People!Idle

\* The first login does not change what an account may have.
LEMMA UserQuota ==
  ASSUME NEW q
  PROVE  People!EffectiveQuota("user", q) = People!EffectiveQuota(People!None, q)
  <1>1. People!Rank["user"] = 0 /\ People!Rank["operator"] = 1
    BY DEF People!Rank, People!Role
  <1>2. QED
    BY <1>1 DEF People!EffectiveQuota, People!RoleAtLeast, People!None

LEMMA QuotaTyped ==
  ASSUME NEW r, NEW q \in 1 .. MaxQuota
  PROVE  People!EffectiveQuota(r, q) \in 1 .. MaxQuota
  BY BoundsAssumption DEF People!EffectiveQuota

LEMMA PeopleGoes ==
  ASSUME People!TypeOK, NEW r \in Request, NEW place \in Place, People!Goes(r, place)
  PROVE  /\ transaction' \in [Request -> Place]
         /\ transaction'[r] = place
         /\ \A q \in Request \ {r} : transaction'[q] = transaction[q]
  BY PeopleTypes DEF People!Goes

\* The end of a transaction: nobody else's lock is given up.
LEMMA PeopleEnds ==
  ASSUME PeopleInv, NEW r \in Request, People!Ends(r)
  PROVE  /\ transaction' \in [Request -> Place] /\ lock' \in [Account -> Request \cup {People!None}]
         /\ transaction'[r] = People!Idle /\ People!Idle.at = "idle"
         /\ \A q \in Request \ {r} : transaction'[q] = transaction[q]
         /\ LocksHeld'
  <1>1. /\ transaction \in [Request -> Place] /\ lock \in [Account -> Request \cup {People!None}]
        /\ People!Idle \in Place /\ People!Idle.at = "idle"
    BY PeopleTypes DEF PeopleInv, Place, People!Idle
  <1>2. /\ transaction' = [transaction EXCEPT ![r] = People!Idle]
        /\ lock' = [a \in Account |-> IF lock[a] = r THEN People!None ELSE lock[a]]
    BY DEF People!Ends
  <1>3. /\ transaction' \in [Request -> Place] /\ lock' \in [Account -> Request \cup {People!None}]
        /\ transaction'[r] = People!Idle
        /\ \A q \in Request \ {r} : transaction'[q] = transaction[q]
    BY <1>1, <1>2
  <1>4. LocksHeld'
    <2>1. SUFFICES ASSUME NEW q \in Request, transaction'[q].at \in {"count", "insert", "write"}
                   PROVE  lock'[transaction'[q].on] = q
      BY DEF LocksHeld
    <2>2. q # r /\ transaction'[q] = transaction[q]
      BY <1>1, <1>3, <2>1
    <2>3. transaction[q].on \in Account /\ lock[transaction[q].on] = q
      BY <2>1, <2>2, PeoplePlace DEF PeopleInv, LocksHeld
    <2>4. QED
      BY <1>2, <2>2, <2>3
  <1>5. QED
    BY <1>1, <1>3, <1>4

\* A transaction ends that changed nothing.
LEMMA PeopleGivesUp ==
  ASSUME PeopleInv, NEW r \in Request, People!Ends(r), UNCHANGED <<role, quota, projects>>
  PROVE  PeopleInv'
  <1>1. People!TypeOK' /\ LocksHeld'
    BY PeopleEnds, PeopleTypes DEF PeopleInv, People!TypeOK, Place
  <1>2. LimitKnown' /\ RoomLeft' /\ PatchesKnown'
    BY PeopleEnds DEF PeopleInv, LimitKnown, RoomLeft, PatchesKnown
  <1>3. QED
    BY <1>1, <1>2 DEF PeopleInv

\* A request takes the row of its account and reads on.
LEMMA PeopleLocks ==
  ASSUME PeopleInv, NEW r \in Request, NEW a \in Account, People!LockFree(a),
         NEW place \in Place, People!Goes(r, place), lock' = [lock EXCEPT ![a] = r],
         UNCHANGED <<role, quota, projects>>,
         place.at \in {"count", "write"}, place.on = a,
         place.at = "count" => place.limit = People!EffectiveQuota(role[a], quota[a])
  PROVE  PeopleInv'
  <1>1. /\ transaction' \in [Request -> Place]
        /\ transaction'[r] = place
        /\ \A q \in Request \ {r} : transaction'[q] = transaction[q]
    BY PeopleGoes DEF PeopleInv
  <1>2. People!TypeOK'
    BY <1>1, PeopleTypes DEF PeopleInv, People!TypeOK, Place
  <1>3. LocksHeld'
    <2>1. ASSUME NEW q \in Request \ {r}, transaction[q].at \in {"count", "insert", "write"}
          PROVE  lock'[transaction[q].on] = q
      <3>1. transaction[q].on \in Account /\ lock[transaction[q].on] = q
        BY <2>1, PeoplePlace DEF PeopleInv, LocksHeld
      <3>2. transaction[q].on # a
        BY <3>1, NamesAssumption DEF People!LockFree, People!None
      <3>3. QED
        BY <3>1, <3>2, PeopleTypes DEF PeopleInv
    <2>2. lock'[a] = r
      BY PeopleTypes DEF PeopleInv
    <2>3. QED
      BY <1>1, <2>1, <2>2 DEF LocksHeld
  <1>4. LimitKnown' /\ RoomLeft' /\ PatchesKnown'
    BY <1>1 DEF PeopleInv, LimitKnown, RoomLeft, PatchesKnown
  <1>5. QED
    BY <1>2, <1>3, <1>4 DEF PeopleInv

\* A request goes where it holds nothing.
LEMMA PeopleAsks ==
  ASSUME PeopleInv, NEW r \in Request, NEW place \in Place, People!Goes(r, place),
         UNCHANGED <<role, quota, projects, lock>>,
         place.at \in {"create", "patch"}, role[place.on] # People!None
  PROVE  PeopleInv'
  <1>1. /\ transaction' \in [Request -> Place]
        /\ transaction'[r] = place
        /\ \A q \in Request \ {r} : transaction'[q] = transaction[q]
    BY PeopleGoes DEF PeopleInv
  <1>2. People!TypeOK'
    BY <1>1, PeopleTypes DEF PeopleInv, People!TypeOK, Place
  <1>3. LocksHeld' /\ LimitKnown' /\ RoomLeft' /\ PatchesKnown'
    BY <1>1 DEF PeopleInv, LocksHeld, LimitKnown, RoomLeft, PatchesKnown
  <1>4. QED
    BY <1>2, <1>3 DEF PeopleInv

LEMMA PeopleCreates ==
  ASSUME PeopleInv, NEW r \in Request,
         \/ People!LockAccount(r) \/ People!Count(r) \/ People!CreateFails(r)
         \/ \E a \in Account : People!AskToCreate(r, a)
  PROVE  PeopleInv'
  <1>1. ASSUME NEW a \in Account, People!AskToCreate(r, a) PROVE PeopleInv'
    <2>1. [at |-> "create", on |-> a] \in Place
      BY DEF Place
    <2>2. QED
      BY <1>1, <2>1, PeopleAsks DEF People!AskToCreate
  <1>2. CASE People!CreateFails(r)
    BY <1>2, PeopleGivesUp DEF People!CreateFails
  <1>3. CASE People!LockAccount(r)
    <2> DEFINE a == transaction[r].on
               place == [at |-> "count", on |-> a,
                         limit |-> People!EffectiveQuota(role[a], quota[a])]
    <2>1. a \in Account /\ quota[a] \in 1 .. MaxQuota
      BY <1>3, PeoplePlace, PeopleTypes DEF People!LockAccount, PeopleInv
    <2>2. place \in Place
      BY <2>1, QuotaTyped DEF Place
    <2>3. /\ People!LockFree(a) /\ People!Goes(r, place) /\ lock' = [lock EXCEPT ![a] = r]
          /\ UNCHANGED <<role, quota, projects>>
      BY <1>3 DEF People!LockAccount
    <2>4. place.at = "count" /\ place.on = a
          /\ place.limit = People!EffectiveQuota(role[a], quota[a])
      OBVIOUS
    <2> HIDE DEF place, a
    <2>5. QED
      BY <2>1, <2>2, <2>3, <2>4, PeopleLocks
  <1>4. CASE People!Count(r)
    <2> DEFINE a == transaction[r].on
               place == [at |-> "insert", on |-> a]
    <2>1. /\ a \in Account /\ transaction[r].limit = People!EffectiveQuota(role[a], quota[a])
          /\ lock[a] = r /\ projects[a] \in Nat /\ transaction[r].limit \in Nat
      BY <1>4, PeoplePlace, PeopleTypes, BoundsAssumption
         DEF People!Count, PeopleInv, LimitKnown, LocksHeld
    <2>2. CASE People!Ends(r)
      BY <1>4, <2>2, PeopleGivesUp DEF People!Count
    <2>3. CASE ~(projects[a] >= transaction[r].limit)
      <3>1. /\ People!Goes(r, place) /\ UNCHANGED <<role, quota, projects, lock>>
            /\ place \in Place
        BY <1>4, <2>1, <2>3 DEF People!Count, Place
      <3>2. /\ transaction' \in [Request -> Place]
            /\ transaction'[r] = place
            /\ \A q \in Request \ {r} : transaction'[q] = transaction[q]
        BY <3>1, PeopleGoes DEF PeopleInv
      <3>3. People!TypeOK'
        BY <3>1, <3>2, PeopleTypes DEF PeopleInv, People!TypeOK, Place
      <3>4. projects[a] < People!EffectiveQuota(role[a], quota[a])
        BY <2>1, <2>3
      <3>5. place.at = "insert" /\ place.on = a
        OBVIOUS
      <3> HIDE DEF place, a
      <3>6. LocksHeld' /\ RoomLeft'
        BY <2>1, <3>1, <3>2, <3>4, <3>5 DEF PeopleInv, LocksHeld, RoomLeft
      <3>7. LimitKnown' /\ PatchesKnown'
        BY <3>1, <3>2, <3>5 DEF PeopleInv, LimitKnown, PatchesKnown
      <3>8. QED
        BY <3>3, <3>6, <3>7 DEF PeopleInv
    <2>4. QED
      BY <1>4, <2>2, <2>3 DEF People!Count
  <1>5. QED
    BY <1>1, <1>2, <1>3, <1>4

\* Whoever inserts is alone with the account.
LEMMA PeopleInserts ==
  ASSUME PeopleInv, NEW r \in Request, People!Insert(r)
  PROVE  /\ PeopleInv'
         /\ \A b \in Account : projects'[b] > projects[b] =>
              projects'[b] <= People!EffectiveQuota(role[b], quota[b])
  <1> DEFINE a == transaction[r].on
  <1>1. /\ a \in Account /\ lock[a] = r /\ projects[a] \in 0 .. MaxProjects
        /\ projects \in [Account -> 0 .. MaxProjects] /\ projects[a] < MaxProjects
        /\ projects[a] < People!EffectiveQuota(role[a], quota[a])
        /\ quota[a] \in 1 .. MaxQuota
    BY PeoplePlace, PeopleTypes DEF People!Insert, PeopleInv, LocksHeld, RoomLeft
  <1>2. /\ projects' = [projects EXCEPT ![a] = @ + 1] /\ People!Ends(r) /\ UNCHANGED <<role, quota>>
    BY DEF People!Insert
  <1>3. People!EffectiveQuota(role[a], quota[a]) \in Nat
    BY <1>1, QuotaTyped
  <1> HIDE DEF a
  <1>4. /\ projects' \in [Account -> 0 .. MaxProjects] /\ projects'[a] = projects[a] + 1
        /\ \A b \in Account \ {a} : projects'[b] = projects[b]
    BY <1>1, <1>2, BoundsAssumption
  <1>5. People!TypeOK' /\ LocksHeld'
    BY <1>2, <1>4, PeopleEnds, PeopleTypes DEF PeopleInv, People!TypeOK, Place
  <1>6. LimitKnown' /\ PatchesKnown'
    BY <1>2, PeopleEnds DEF PeopleInv, LimitKnown, PatchesKnown
  <1>7. RoomLeft'
    <2>1. ASSUME NEW q \in Request, transaction'[q].at = "insert"
          PROVE  /\ transaction'[q] = transaction[q] /\ transaction[q].on \in Account
                 /\ transaction[q].on # a
      <3>1. q # r /\ transaction'[q] = transaction[q]
        BY <1>2, <2>1, PeopleEnds
      <3>2. transaction[q].on \in Account /\ lock[transaction[q].on] = q
        BY <2>1, <3>1, PeoplePlace DEF PeopleInv, LocksHeld
      <3>3. QED
        BY <1>1, <3>1, <3>2
    <2>2. QED
      BY <1>2, <1>4, <2>1 DEF PeopleInv, RoomLeft
  <1>8. ASSUME NEW b \in Account, projects'[b] > projects[b]
        PROVE  projects'[b] <= People!EffectiveQuota(role[b], quota[b])
    <2>1. b = a
      BY <1>1, <1>4, <1>8
    <2>2. QED
      BY <1>1, <1>3, <1>4, <2>1
  <1>9. QED
    BY <1>5, <1>6, <1>7, <1>8 DEF PeopleInv

LEMMA PeoplePatches ==
  ASSUME PeopleInv, NEW r \in Request,
         \/ People!LockPatched(r) \/ People!WritePatch(r)
         \/ \E actor \in Account, a \in Account, patch \in People!Patch :
              People!AskToPatch(r, actor, a, patch)
  PROVE  PeopleInv'
  <1>1. ASSUME NEW actor \in Account, NEW a \in Account, NEW patch \in People!Patch,
               People!AskToPatch(r, actor, a, patch)
        PROVE  PeopleInv'
    <2>1. [at |-> "patch", on |-> a, patch |-> patch] \in Place
      BY DEF Place
    <2>2. QED
      BY <1>1, <2>1, PeopleAsks DEF People!AskToPatch
  <1>2. CASE People!LockPatched(r)
    <2> DEFINE a == transaction[r].on
               p == transaction[r].patch
               newRole == IF p.role = People!None THEN role[a] ELSE p.role
               newQuota == IF p.quota = 0 THEN quota[a] ELSE p.quota
               place == [at |-> "write", on |-> a, role |-> newRole, quota |-> newQuota]
    <2>1. /\ a \in Account /\ quota[a] \in 1 .. MaxQuota /\ role[a] \in People!Role
          /\ p \in People!Patch
      BY <1>2, PeoplePlace, PeopleTypes DEF People!LockPatched, PeopleInv, PatchesKnown
    <2>2. newRole \in People!Role /\ newQuota \in 1 .. MaxQuota
      BY <2>1 DEF People!Patch, People!Role, People!None
    <2>3. place \in Place /\ place.at = "write" /\ place.on = a
      <3> HIDE DEF newRole, newQuota, a
      <3>1. QED
        BY <2>1, <2>2 DEF Place
    <2>4. \/ People!Ends(r) /\ UNCHANGED <<role, quota, projects>>
          \/ /\ People!LockFree(a) /\ People!Goes(r, place) /\ lock' = [lock EXCEPT ![a] = r]
             /\ UNCHANGED <<role, quota, projects>>
      BY <1>2 DEF People!LockPatched
    <2> HIDE DEF place, a
    <2>5. QED
      BY <2>1, <2>3, <2>4, PeopleLocks, PeopleGivesUp
  <1>3. CASE People!WritePatch(r)
    <2> DEFINE a == transaction[r].on
    <2>1. /\ a \in Account /\ lock[a] = r
          /\ transaction[r].role \in People!Role /\ transaction[r].quota \in 1 .. MaxQuota
      BY <1>3, PeoplePlace DEF People!WritePatch, PeopleInv, LocksHeld
    <2>2. /\ role' = [role EXCEPT ![a] = transaction[r].role]
          /\ quota' = [quota EXCEPT ![a] = transaction[r].quota]
          /\ People!Ends(r) /\ UNCHANGED projects
      BY <1>3 DEF People!WritePatch
    <2> HIDE DEF a
    <2>3. /\ role' \in [Account -> People!Role \cup {People!None}]
          /\ quota' \in [Account -> 1 .. MaxQuota]
          /\ role'[a] \in People!Role
          /\ \A b \in Account \ {a} : role'[b] = role[b] /\ quota'[b] = quota[b]
      BY <2>1, <2>2, PeopleTypes DEF PeopleInv
    <2>4. People!TypeOK' /\ LocksHeld'
      BY <2>2, <2>3, PeopleEnds, PeopleTypes DEF PeopleInv, People!TypeOK, Place
    <2>5. ASSUME NEW q \in Request, transaction'[q].at \in {"count", "insert"}
          PROVE  /\ transaction'[q] = transaction[q]
                 /\ transaction[q].on \in Account \ {a}
      <3>1. q # r /\ transaction'[q] = transaction[q]
        BY <2>2, <2>5, PeopleEnds
      <3>2. transaction[q].on \in Account /\ lock[transaction[q].on] = q
        BY <2>5, <3>1, PeoplePlace DEF PeopleInv, LocksHeld
      <3>3. QED
        BY <2>1, <3>1, <3>2
    <2>6. LimitKnown' /\ RoomLeft'
      BY <2>2, <2>3, <2>5 DEF PeopleInv, LimitKnown, RoomLeft
    <2>7. PatchesKnown'
      <3>1. ASSUME NEW q \in Request, transaction'[q].at = "patch"
            PROVE  role'[transaction'[q].on] # People!None
        <4>1. q # r /\ transaction'[q] = transaction[q]
          BY <2>2, <3>1, PeopleEnds
        <4>2. transaction[q].on \in Account /\ role[transaction[q].on] # People!None
          BY <3>1, <4>1, PeoplePlace DEF PeopleInv, PatchesKnown
        <4>3. QED
          BY <2>3, <4>1, <4>2 DEF People!Role, People!None
      <3>2. QED
        BY <3>1 DEF PatchesKnown
    <2>8. QED
      BY <2>4, <2>6, <2>7 DEF PeopleInv
  <1>4. QED
    BY <1>1, <1>2, <1>3

\* Signing in, the purge of a project, a restart of the host.
LEMMA PeopleElse ==
  ASSUME PeopleInv,
         \/ \E a \in Account : People!SignIn(a) \/ People!Purged(a)
         \/ \E operators \in SUBSET Account, superadmins \in SUBSET Account :
              People!HostStarts(operators, superadmins)
  PROVE  PeopleInv' /\ \A a \in Account : ~(projects'[a] > projects[a])
  <1>0. projects \in [Account -> 0 .. MaxProjects]
    BY PeopleTypes DEF PeopleInv
  <1>1. ASSUME NEW a \in Account, People!SignIn(a) PROVE PeopleInv' /\ UNCHANGED projects
    <2>1. /\ role' = [role EXCEPT ![a] = IF @ = People!None THEN "user" ELSE @]
          /\ UNCHANGED <<quota, projects, lock, transaction>>
      BY <1>1 DEF People!SignIn
    <2>2. /\ role' \in [Account -> People!Role \cup {People!None}]
          /\ \A b \in Account : 
              role'[b] = role[b] \/ (role[b] = People!None /\ role'[b] = "user")
      BY <2>1, PeopleTypes DEF PeopleInv, People!Role
    <2>3. \A b \in Account : People!EffectiveQuota(role'[b], quota[b])
                               = People!EffectiveQuota(role[b], quota[b])
      BY <2>2, UserQuota
    <2>4. People!TypeOK' /\ LocksHeld'
      BY <2>1, <2>2, PeopleTypes DEF PeopleInv, People!TypeOK, Place, LocksHeld
    <2>5. LimitKnown' /\ RoomLeft'
      BY <2>1, <2>3, PeoplePlace DEF PeopleInv, LimitKnown, RoomLeft
    <2>6. PatchesKnown'
      BY <2>1, <2>2, PeoplePlace DEF PeopleInv, PatchesKnown, People!None
    <2>7. QED
      BY <2>1, <2>4, <2>5, <2>6 DEF PeopleInv
  <1>2. ASSUME NEW a \in Account, People!Purged(a)
        PROVE  PeopleInv' /\ \A b \in Account : projects'[b] <= projects[b]
    <2>1. /\ projects[a] > 0 /\ projects' = [projects EXCEPT ![a] = @ - 1]
          /\ UNCHANGED <<role, quota, lock, transaction>>
      BY <1>2 DEF People!Purged
    <2>2. /\ projects' \in [Account -> 0 .. MaxProjects]
          /\ \A b \in Account : projects'[b] <= projects[b]
      BY <1>0, <2>1, BoundsAssumption
    <2>3. People!TypeOK' /\ LocksHeld' /\ LimitKnown' /\ PatchesKnown'
      BY <2>1, <2>2, PeopleTypes DEF PeopleInv, People!TypeOK, Place, LocksHeld, LimitKnown,
         PatchesKnown
    <2>4. ASSUME NEW r \in Request, transaction[r].at = "insert"
          PROVE  LET b == transaction[r].on IN
                 projects'[b] < People!EffectiveQuota(role[b], quota[b])
      <3> DEFINE b == transaction[r].on
      <3>1. b \in Account /\ projects[b] < People!EffectiveQuota(role[b], quota[b])
        BY <2>4, PeoplePlace DEF PeopleInv, RoomLeft
      <3>2. quota[b] \in 1 .. MaxQuota
        BY <3>1, PeopleTypes DEF PeopleInv
      <3>3. People!EffectiveQuota(role[b], quota[b]) \in Nat
        BY <3>2, QuotaTyped
      <3> HIDE DEF b
      <3>4. projects'[b] < People!EffectiveQuota(role[b], quota[b])
        BY <1>0, <2>2, <3>1, <3>3
      <3>5. QED
        BY <3>4 DEF b
    <2>5. RoomLeft'
      BY <2>1, <2>4 DEF RoomLeft
    <2>6. QED
      BY <2>2, <2>3, <2>5 DEF PeopleInv
  <1>3. ASSUME NEW operators \in SUBSET Account, NEW superadmins \in SUBSET Account,
               People!HostStarts(operators, superadmins)
        PROVE  PeopleInv' /\ UNCHANGED projects
    <2>1. /\ role' = People!SyncOperators(operators, superadmins)
          /\ transaction' = [r \in Request |-> People!Idle]
          /\ lock' = [a \in Account |-> People!None] /\ UNCHANGED <<quota, projects>>
      BY <1>3 DEF People!HostStarts
    <2>2. role \in [Account -> People!Role \cup {People!None}]
      BY PeopleTypes DEF PeopleInv
    <2>3. role' \in [Account -> People!Role \cup {People!None}]
      BY <2>1, <2>2 DEF People!SyncOperators, People!Role
    <2>4. \A r \in Request : transaction'[r].at = "idle" /\ transaction'[r] \in Place
      BY <2>1 DEF People!Idle, Place
    <2>5. People!TypeOK'
      BY <2>1, <2>3, <2>4, PeopleTypes DEF PeopleInv, People!TypeOK, Place
    <2>6. LocksHeld' /\ LimitKnown' /\ RoomLeft' /\ PatchesKnown'
      BY <2>4 DEF LocksHeld, LimitKnown, RoomLeft, PatchesKnown
    <2>7. QED
      BY <2>1, <2>5, <2>6 DEF PeopleInv
  <1>4. ASSUME \A a \in Account : projects'[a] <= projects[a],
               projects' \in [Account -> 0 .. MaxProjects]
        PROVE  \A a \in Account : ~(projects'[a] > projects[a])
    BY <1>0, <1>4
  <1>5. UNCHANGED projects => \A a \in Account : projects'[a] <= projects[a]
    BY <1>0
  <1>6. PeopleInv' => projects' \in [Account -> 0 .. MaxProjects]
    BY DEF PeopleInv, People!TypeOK
  <1>7. QED
    BY <1>1, <1>2, <1>3, <1>4, <1>5, <1>6

LEMMA PeopleStep ==
  ASSUME PeopleInv, PeopleNext
  PROVE  /\ PeopleInv'
         /\ \A a \in Account : projects'[a] > projects[a] =>
              projects'[a] <= People!EffectiveQuota(role[a], quota[a])
  <1>1. ASSUME UNCHANGED projects
        PROVE  \A a \in Account : ~(projects'[a] > projects[a])
    BY <1>1, PeopleTypes DEF PeopleInv
  <1>2. ASSUME NEW r \in Request,
               \/ People!LockAccount(r) \/ People!Count(r) \/ People!CreateFails(r)
               \/ \E a \in Account : People!AskToCreate(r, a)
        PROVE  PeopleInv' /\ UNCHANGED projects
    BY <1>2, PeopleCreates DEF People!LockAccount, People!Count, People!CreateFails,
       People!AskToCreate
  <1>3. ASSUME NEW r \in Request,
               \/ People!LockPatched(r) \/ People!WritePatch(r)
               \/ \E actor \in Account, a \in Account, patch \in People!Patch :
                    People!AskToPatch(r, actor, a, patch)
        PROVE  PeopleInv' /\ UNCHANGED projects
    BY <1>3, PeoplePatches DEF People!LockPatched, People!WritePatch, People!AskToPatch
  <1>4. QED
    BY <1>1, <1>2, <1>3, PeopleInserts, PeopleElse DEF PeopleNext, InPeople

LEMMA PeopleUnchanged ==
  ASSUME PeopleInv, UNCHANGED people
  PROVE  PeopleInv' /\ \A a \in Account : ~(projects'[a] > projects[a])
  <1>1. PeopleInv'
    BY DEF people, PeopleInv, People!TypeOK, LocksHeld, LimitKnown, RoomLeft, PatchesKnown
  <1>2. QED
    BY <1>1, PeopleTypes DEF people, PeopleInv

LEMMA PeopleInit == ServicesInit => PeopleInv
  <1>1. SUFFICES ASSUME People!Init PROVE PeopleInv
    BY DEF ServicesInit
  <1>2. \A r \in Request : transaction[r].at = "idle" /\ transaction[r] \in Place
    BY <1>1 DEF People!Init, People!Idle, Place
  <1>3. People!TypeOK
    BY <1>1, <1>2, PeopleTypes, BoundsAssumption DEF People!Init
  <1>4. QED
    BY <1>2, <1>3 DEF PeopleInv, LocksHeld, LimitKnown, RoomLeft, PatchesKnown

\* The accounts do not change while another part has its turn.
LEMMA PeopleRest ==
  ASSUME [ServicesNext]_services
  PROVE  PeopleNext \/ UNCHANGED people
  <1>1. UNCHANGED services => UNCHANGED people
    BY DEF services
  <1>2. GrantsNext \/ SourceNext \/ LlmNext \/ PreviewNext => UNCHANGED people
    BY DEF GrantsNext, InGrants, SourceNext, InSource, LlmNext, InLlm, PreviewNext, InPreview
  <1>3. ExportNext \/ ReviewNext \/ CardNext \/ MigrationNext => UNCHANGED people
    BY DEF ExportNext, InExport, ReviewNext, InReview, CardNext, InCard, MigrationNext, InMigration
  <1>4. NetworkNext \/ VisitNext \/ PlatformNext => UNCHANGED people
    BY DEF NetworkNext, InNetwork, VisitNext, InVisit, PlatformNext, InPlatform
  <1>5. QED
    BY <1>1, <1>2, <1>3, <1>4 DEF ServicesNext

\* A project is created within what its account may have at that moment: neither another
\* create nor a change of the quota, of the role or of the host's lists comes between the
\* count and the insertion (create, lib/projects.ts; updateAccount, lib/admin.ts).
THEOREM QuotaIsHeld == ServicesSpec => QuotaHeld
  <1>1. PeopleInv /\ [ServicesNext]_services => PeopleInv'
    BY PeopleRest, PeopleStep, PeopleUnchanged
  <1>2. PeopleInv => (part = "people" => People!TypeOK)
    BY DEF PeopleInv
  <1>3. PeopleInv /\ [ServicesNext]_services
            => [\A a \in Account : projects'[a] > projects[a] =>
                  projects'[a] <= People!EffectiveQuota(role[a], quota[a])]_services
    BY PeopleRest, PeopleStep, PeopleUnchanged
  <1>4. QED
    BY <1>1, <1>2, <1>3, PeopleInit, PTL DEF ServicesSpec, QuotaHeld
-----------------------------------------------------------------------------
(* LlmKeys.  While the only owner is at something, what it is at says how  *)
(* far the proxy and the row agree.                                        *)

\* The projects of one owner, who asks for one thing at a time.
OneAtATime == \E p : Owner = {p}

KeyAgrees ==
    project.status = "ready" /\ project.enabled /\ ~unrestored
        => live = project.stored /\ live # Llm!NoKey

OwnerAt(p) ==
    /\ owner[p].at \in {"idle", "mark"} => KeyAgrees
    /\ owner[p].at \in {"mark", "reopen"} => (owner[p].bound <=> project.enabled)
    /\ owner[p].at \in {"reopen", "revoke", "forget"} => project.status = "deleting"
    /\ owner[p].at \in {"clear", "generate", "store", "undo"} =>
         owner[p].for = "restore" \/ ~project.enabled
    /\ owner[p].at = "undo" => owner[p].for # "restore"
    /\ owner[p].at \in {"clear", "generate", "store"} /\ owner[p].for = "enable" =>
         project.status # "none"
    /\ owner[p].at = "generate" => live = Llm!NoKey
    /\ owner[p].at = "store" => live = owner[p].key

LlmInv == Llm!TypeOK /\ (\A p \in Owner : OwnerAt(p)) /\ (project.status = "none" => ~project.enabled)

\* What a request carries at each of its places.
LEMMA OwnerPlace ==
  ASSUME Llm!TypeOK, NEW p \in Owner
  PROVE  /\ owner[p].at \in {"idle", "clear", "generate", "undo", "store", "mark", "reopen",
                             "revoke", "forget"}
         /\ owner[p].at \in {"clear", "generate", "undo"} =>
              owner[p] \in [at : {"clear", "generate", "undo"}, for : Llm!Purpose]
         /\ owner[p].at = "store" =>
              owner[p] \in [at : {"store"}, for : Llm!Purpose, key : Llm!ProxyKey]
         /\ owner[p].at \in {"mark", "reopen"} =>
              owner[p] \in [at : {"mark", "reopen"}, bound : BOOLEAN]
  BY DEF Llm!TypeOK, Llm!RequestState, Llm!Idle

\* Where the only owner goes is all there is to see to.
LEMMA OwnerGoes ==
  ASSUME OneAtATime, Llm!TypeOK, NEW p \in Owner, NEW state \in Llm!RequestState,
         Llm!Goes(p, state),
         project' \in [status : {"none", "ready", "deleting"}, enabled : BOOLEAN,
                       stored : Llm!ProxyKey \cup {Llm!NoKey}],
         live' \in Llm!ProxyKey \cup {Llm!NoKey}, minted' \in 0 .. MaxKeys, unrestored' \in BOOLEAN,
         project'.status = "none" => ~project'.enabled,
         owner'[p] = state => OwnerAt(p)'
  PROVE  LlmInv'
  <1>1. owner' \in [Owner -> Llm!RequestState] /\ owner'[p] = state
    BY DEF Llm!TypeOK, Llm!Goes
  <1>2. \A q \in Owner : OwnerAt(q)'
    BY <1>1 DEF OneAtATime
  <1>3. QED
    BY <1>1, <1>2 DEF LlmInv, Llm!TypeOK

LEMMA OwnerStates ==
  /\ Llm!Idle \in Llm!RequestState /\ Llm!Idle.at = "idle"
  /\ \A for \in Llm!Purpose : \A at \in {"clear", "generate", "undo"} :
       [at |-> at, for |-> for] \in Llm!RequestState
  /\ \A for \in Llm!Purpose, key \in Llm!ProxyKey :
       [at |-> "store", for |-> for, key |-> key] \in Llm!RequestState
  /\ \A bound \in BOOLEAN : \A at \in {"mark", "reopen"} :
       [at |-> at, bound |-> bound] \in Llm!RequestState
  /\ [at |-> "revoke"] \in Llm!RequestState /\ [at |-> "forget"] \in Llm!RequestState
  /\ {"create", "enable", "restore"} = Llm!Purpose
  BY DEF Llm!RequestState, Llm!Idle, Llm!Purpose

\* Nothing but the place changes.
LEMMA OwnerMoves ==
  ASSUME OneAtATime, LlmInv, NEW p \in Owner, NEW state \in Llm!RequestState,
         Llm!Goes(p, state), UNCHANGED <<project, live, minted, unrestored>>,
         owner'[p] = state => OwnerAt(p)'
  PROVE  LlmInv'
  <1>1. /\ project \in [status : {"none", "ready", "deleting"}, enabled : BOOLEAN,
                        stored : Llm!ProxyKey \cup {Llm!NoKey}]
        /\ live \in Llm!ProxyKey \cup {Llm!NoKey} /\ minted \in 0 .. MaxKeys
        /\ unrestored \in BOOLEAN /\ (project.status = "none" => ~project.enabled)
        /\ Llm!TypeOK
    BY DEF LlmInv, Llm!TypeOK
  <1>2. QED
    BY <1>1, OwnerGoes

LEMMA LlmTypes ==
  ASSUME LlmInv
  PROVE  /\ project \in [status : {"none", "ready", "deleting"}, enabled : BOOLEAN,
                         stored : Llm!ProxyKey \cup {Llm!NoKey}]
         /\ live \in Llm!ProxyKey \cup {Llm!NoKey} /\ minted \in 0 .. MaxKeys
         /\ unrestored \in BOOLEAN /\ (project.status = "none" => ~project.enabled)
         /\ Llm!TypeOK /\ Llm!NoKey \in Llm!ProxyKey \cup {Llm!NoKey}
         /\ \A key \in Llm!ProxyKey : key # Llm!NoKey
         /\ minted < MaxKeys => minted + 1 \in Llm!ProxyKey /\ minted + 1 \in 0 .. MaxKeys
  BY BoundsAssumption DEF LlmInv, Llm!TypeOK, Llm!ProxyKey, Llm!NoKey

LEMMA LlmBegins ==
  ASSUME OneAtATime, LlmInv, NEW p \in Owner,
         \/ \E wantsLlm \in BOOLEAN : Llm!Create(p, wantsLlm)
         \/ Llm!Enable(p) \/ Llm!Delete(p) \/ Llm!Restore(p)
  PROVE  LlmInv'
  <1> USE DEF OwnerAt, KeyAgrees
  <1>1. ASSUME NEW wantsLlm \in BOOLEAN, Llm!Create(p, wantsLlm) PROVE LlmInv'
    <2> DEFINE state == [at |-> "clear", for |-> "create"]
    <2>1. project.status = "none" /\ ~project.enabled /\ owner[p].at = "idle"
      BY <1>1, LlmTypes DEF Llm!Create, Llm!At
    <2>2. CASE wantsLlm
      <3>1. Llm!Goes(p, state) /\ UNCHANGED <<project, live, minted, unrestored>>
        BY <1>1, <2>2 DEF Llm!Create
      <3>2. state \in Llm!RequestState
        BY DEF Llm!RequestState, Llm!Purpose
      <3>3. owner'[p] = state => OwnerAt(p)'
        BY <2>1, <3>1
      <3>4. QED
        BY <3>1, <3>2, <3>3, OwnerMoves
    <2>3. CASE ~wantsLlm
      <3>1. /\ project' = [project EXCEPT !.status = "ready"]
            /\ UNCHANGED <<owner, live, minted, unrestored>>
        BY <1>1, <2>3 DEF Llm!Create
      <3>2. /\ project' \in [status : {"none", "ready", "deleting"}, enabled : BOOLEAN,
                             stored : Llm!ProxyKey \cup {Llm!NoKey}]
            /\ ~project'.enabled /\ project'.status = "ready"
        BY <2>1, <3>1, LlmTypes
      <3>3. Llm!TypeOK'
        BY <3>1, <3>2 DEF LlmInv, Llm!TypeOK
      <3>4. \A q \in Owner : OwnerAt(q)'
        BY <2>1, <3>1, <3>2 DEF OneAtATime
      <3>5. QED
        BY <3>2, <3>3, <3>4 DEF LlmInv
    <2>4. QED
      BY <2>2, <2>3
  <1>2. CASE Llm!Enable(p)
    <2> DEFINE state == [at |-> "clear", for |-> "enable"]
    <2>1. /\ Llm!Goes(p, state) /\ UNCHANGED <<project, live, minted, unrestored>>
          /\ ~project.enabled /\ project.status = "ready"
      BY <1>2 DEF Llm!Enable, Llm!MintsLlm
    <2>2. state \in Llm!RequestState
      BY DEF Llm!RequestState, Llm!Purpose
    <2>3. owner'[p] = state => OwnerAt(p)'
      BY <2>1
    <2>4. QED
      BY <2>1, <2>2, <2>3, OwnerMoves
  <1>3. CASE Llm!Delete(p)
    <2> DEFINE state == [at |-> "mark", bound |-> project.enabled]
    <2>1. /\ Llm!Goes(p, state) /\ UNCHANGED <<project, live, minted, unrestored>>
          /\ owner[p].at = "idle"
      BY <1>3 DEF Llm!Delete, Llm!At
    <2>2. KeyAgrees /\ project.enabled \in BOOLEAN
      BY <2>1, LlmTypes DEF LlmInv
    <2>3. state \in Llm!RequestState
      BY <2>2, OwnerStates
    <2>4. QED
      BY <2>1, <2>2, <2>3, OwnerMoves
  <1>4. CASE Llm!Restore(p)
    <2> DEFINE state == [at |-> "reopen", bound |-> project.enabled]
    <2>1. /\ Llm!Goes(p, state) /\ UNCHANGED <<project, live, minted, unrestored>>
          /\ project.status = "deleting"
      BY <1>4 DEF Llm!Restore
    <2>2. state \in Llm!RequestState
      BY LlmTypes, OwnerStates
    <2>3. QED
      BY <2>1, <2>2, OwnerMoves
  <1>5. QED
    BY <1>1, <1>2, <1>3, <1>4

\* Asking the proxy for a key.
LEMMA LlmMints ==
  ASSUME OneAtATime, LlmInv, NEW p \in Owner,
         \/ Llm!Clear(p) \/ Llm!Generate(p) \/ Llm!ClearFails(p) \/ Llm!GenerateFails(p)
  PROVE  LlmInv'
  <1> USE DEF OwnerAt, KeyAgrees
  <1>1. /\ owner[p] \in [at : {"clear", "generate", "undo"}, for : Llm!Purpose]
        /\ UNCHANGED project /\ owner[p].for \in Llm!Purpose
        /\ owner[p].for = "restore" \/ ~project.enabled
        /\ owner[p].for = "enable" => project.status # "none"
    BY OwnerPlace DEF Llm!Clear, Llm!Generate, Llm!ClearFails, Llm!GenerateFails, Llm!At, LlmInv
  <1>2. CASE Llm!Clear(p)
    <2> DEFINE state == [owner[p] EXCEPT !.at = "generate"]
    <2>1. /\ Llm!Goes(p, state) /\ live' = Llm!NoKey /\ UNCHANGED <<minted, unrestored>>
      BY <1>2 DEF Llm!Clear
    <2>2. /\ state = [at |-> "generate", for |-> owner[p].for]
      BY <1>1
    <2>3. state \in Llm!RequestState /\ state.at = "generate" /\ state.for = owner[p].for
      BY <1>1, <2>2, OwnerStates
    <2> HIDE DEF state
    <2>4. owner'[p] = state => OwnerAt(p)'
      BY <1>1, <2>1, <2>3
    <2>5. QED
      BY <1>1, <2>1, <2>3, <2>4, LlmTypes, OwnerGoes
  <1>3. CASE Llm!Generate(p)
    <2> DEFINE state == [at |-> "store", for |-> owner[p].for, key |-> minted + 1]
    <2>1. /\ Llm!Goes(p, state) /\ live' = minted + 1 /\ minted' = minted + 1
          /\ minted < MaxKeys /\ UNCHANGED unrestored
      BY <1>3 DEF Llm!Generate
    <2>2. state \in Llm!RequestState
      BY <1>1, <2>1, LlmTypes, OwnerStates
    <2>3. state.at = "store" /\ state.for = owner[p].for /\ state.key = minted + 1
      OBVIOUS
    <2> HIDE DEF state
    <2>4. owner'[p] = state => OwnerAt(p)'
      BY <1>1, <2>1, <2>3
    <2>5. QED
      BY <1>1, <2>1, <2>2, <2>4, LlmTypes, OwnerGoes
  <1>4. CASE Llm!ClearFails(p) \/ Llm!GenerateFails(p)
    <2>1. /\ Llm!Goes(p, Llm!Idle) /\ Llm!KeyMissed(p)
          /\ live' \in Llm!ProxyKey \cup {Llm!NoKey} /\ minted' \in 0 .. MaxKeys
      BY <1>4, LlmTypes DEF Llm!ClearFails, Llm!GenerateFails
    <2>2. unrestored' \in BOOLEAN /\ (unrestored' \/ ~project.enabled)
      BY <1>1, <2>1, LlmTypes DEF Llm!KeyMissed
    <2>3. owner'[p] = Llm!Idle => OwnerAt(p)'
      BY <1>1, <2>1, <2>2, OwnerStates
    <2>4. QED
      BY <1>1, <2>1, <2>2, <2>3, LlmTypes, OwnerGoes, OwnerStates
  <1>5. QED
    BY <1>2, <1>3, <1>4

\* The row gets the key, or the key is given back.
LEMMA LlmStores ==
  ASSUME OneAtATime, LlmInv, NEW p \in Owner,
         Llm!Store(p) \/ Llm!StoreFails(p) \/ Llm!Undo(p)
  PROVE  LlmInv'
  <1> USE DEF OwnerAt, KeyAgrees
  <1>1. CASE Llm!Store(p)
    <2>1. /\ owner[p].for \in Llm!Purpose /\ owner[p].key \in Llm!ProxyKey
          /\ owner[p].key # Llm!NoKey
          /\ owner[p].key = live /\ (owner[p].for = "restore" \/ ~project.enabled)
          /\ owner[p].for = "enable" => project.status # "none"
      BY <1>1, OwnerPlace, LlmTypes DEF Llm!Store, Llm!At, LlmInv
    <2> DEFINE state == IF owner[p].for = "create" THEN "ready" ELSE project.status
               on == project.enabled \/ owner[p].for # "restore"
    <2>2. /\ project' = [status |-> state, enabled |-> on, stored |-> owner[p].key]
          /\ Llm!Goes(p, Llm!Idle) /\ UNCHANGED <<live, minted>>
          /\ unrestored' = (unrestored /\ owner[p].for # "restore")
      BY <1>1 DEF Llm!Store
    <2>3. state \in {"none", "ready", "deleting"} /\ on \in BOOLEAN
      BY LlmTypes
    <2>4. /\ project' \in [status : {"none", "ready", "deleting"}, enabled : BOOLEAN,
                           stored : Llm!ProxyKey \cup {Llm!NoKey}]
          /\ project'.stored = live /\ project'.status = state /\ (project'.enabled <=> on)
          /\ unrestored' \in BOOLEAN
      BY <2>1, <2>2, <2>3, LlmTypes
    <2>5. owner'[p] = Llm!Idle => OwnerAt(p)'
      BY <2>1, <2>2, <2>4, OwnerStates
    <2>6. project'.status = "none" => ~project'.enabled
      BY <2>1, <2>4, LlmTypes DEF Llm!Purpose
    <2>7. QED
      BY <2>2, <2>4, <2>5, <2>6, LlmTypes, OwnerGoes, OwnerStates
  <1>2. CASE Llm!StoreFails(p)
    <2>1. /\ owner[p].for \in Llm!Purpose /\ (owner[p].for = "restore" \/ ~project.enabled)
          /\ UNCHANGED <<project, live, minted>> /\ Llm!KeyMissed(p)
      BY <1>2, OwnerPlace DEF Llm!StoreFails, Llm!At, LlmInv
    <2>2. unrestored' \in BOOLEAN /\ (owner[p].for = "restore" => unrestored')
      BY <2>1, LlmTypes DEF Llm!KeyMissed
    <2>3. CASE owner[p].for = "restore"
      <3>1. Llm!Goes(p, Llm!Idle) /\ (owner'[p] = Llm!Idle => OwnerAt(p)')
        BY <1>2, <2>1, <2>2, <2>3, OwnerStates DEF Llm!StoreFails
      <3>2. QED
        BY <2>1, <2>2, <3>1, LlmTypes, OwnerGoes, OwnerStates
    <2>4. CASE owner[p].for # "restore"
      <3> DEFINE state == [at |-> "undo", for |-> owner[p].for]
      <3>1. Llm!Goes(p, state) /\ (owner'[p] = state => OwnerAt(p)')
        BY <1>2, <2>1, <2>4 DEF Llm!StoreFails
      <3>2. state \in Llm!RequestState
        BY <2>1, OwnerStates
      <3>3. QED
        BY <2>1, <2>2, <3>1, <3>2, LlmTypes, OwnerGoes
    <2>5. QED
      BY <2>3, <2>4
  <1>3. CASE Llm!Undo(p)
    <2>1. /\ ~project.enabled /\ Llm!Goes(p, Llm!Idle)
          /\ live' \in Llm!ProxyKey \cup {Llm!NoKey}
          /\ UNCHANGED <<project, minted, unrestored>>
      BY <1>3, LlmTypes DEF Llm!Undo, Llm!At, LlmInv
    <2>2. owner'[p] = Llm!Idle => OwnerAt(p)'
      BY <2>1, OwnerStates
    <2>3. QED
      BY <2>1, <2>2, LlmTypes, OwnerGoes, OwnerStates
  <1>4. QED
    BY <1>1, <1>2, <1>3

LEMMA LlmDeletes ==
  ASSUME OneAtATime, LlmInv, NEW p \in Owner,
         \/ Llm!Mark(p) \/ Llm!Revoke(p) \/ Llm!RevokeFails(p) \/ Llm!Forget(p) \/ Llm!Reopen(p)
  PROVE  LlmInv'
  <1> USE DEF OwnerAt, KeyAgrees
  <1>1. CASE Llm!Mark(p)
    <2>1. /\ project' = [project EXCEPT !.status = "deleting"]
          /\ UNCHANGED <<live, minted, unrestored>>
          /\ \/ Llm!Goes(p, [at |-> "revoke"])
             \/ Llm!Goes(p, Llm!Idle)
      BY <1>1 DEF Llm!Mark
    <2>2. /\ project' \in [status : {"none", "ready", "deleting"}, enabled : BOOLEAN,
                           stored : Llm!ProxyKey \cup {Llm!NoKey}]
          /\ project'.status = "deleting"
      BY <2>1, LlmTypes
    <2>3. /\ owner'[p] = Llm!Idle => OwnerAt(p)'
          /\ owner'[p] = [at |-> "revoke"] => OwnerAt(p)'
      BY <2>2, OwnerStates
    <2>4. QED
      BY <2>1, <2>2, <2>3, LlmTypes, OwnerGoes, OwnerStates
  <1>2. CASE Llm!Revoke(p) \/ Llm!RevokeFails(p)
    <2>1. /\ UNCHANGED <<project, minted, unrestored>> /\ project.status = "deleting"
          /\ live' \in Llm!ProxyKey \cup {Llm!NoKey}
          /\ \/ Llm!Goes(p, [at |-> "forget"])
             \/ Llm!Goes(p, Llm!Idle)
      BY <1>2, LlmTypes DEF Llm!Revoke, Llm!RevokeFails, Llm!At, LlmInv
    <2>2. /\ owner'[p] = Llm!Idle => OwnerAt(p)'
          /\ owner'[p] = [at |-> "forget"] => OwnerAt(p)'
      BY <2>1, OwnerStates
    <2>3. QED
      BY <2>1, <2>2, LlmTypes, OwnerGoes, OwnerStates
  <1>3. CASE Llm!Forget(p)
    <2>1. /\ project' = [project EXCEPT !.stored = Llm!NoKey]
          /\ UNCHANGED <<live, minted, unrestored>> /\ Llm!Goes(p, Llm!Idle)
          /\ project.status = "deleting"
      BY <1>3 DEF Llm!Forget, Llm!At, LlmInv
    <2>2. /\ project' \in [status : {"none", "ready", "deleting"}, enabled : BOOLEAN,
                           stored : Llm!ProxyKey \cup {Llm!NoKey}]
          /\ project'.status = "deleting"
      BY <2>1, LlmTypes
    <2>3. owner'[p] = Llm!Idle => OwnerAt(p)'
      BY <2>2, OwnerStates
    <2>4. QED
      BY <2>1, <2>2, <2>3, LlmTypes, OwnerGoes, OwnerStates
  <1>4. CASE Llm!Reopen(p)
    <2> DEFINE state == [at |-> "clear", for |-> "restore"]
    <2>1. /\ project.status = "deleting" /\ (owner[p].bound <=> project.enabled)
          /\ project' = [project EXCEPT !.status = "ready"]
          /\ UNCHANGED <<live, minted, unrestored>>
          /\ \/ Llm!Goes(p, state)
             \/ Llm!Goes(p, Llm!Idle) /\ ~owner[p].bound
      BY <1>4 DEF Llm!Reopen, Llm!At, LlmInv
    <2>2. /\ project' \in [status : {"none", "ready", "deleting"}, enabled : BOOLEAN,
                           stored : Llm!ProxyKey \cup {Llm!NoKey}]
          /\ project'.status = "ready" /\ (project'.enabled <=> project.enabled)
      BY <2>1, LlmTypes
    <2>3. /\ ~owner[p].bound /\ owner'[p] = Llm!Idle => OwnerAt(p)'
          /\ owner'[p] = state => OwnerAt(p)'
      BY <2>1, <2>2, OwnerStates
    <2>4. state \in Llm!RequestState
      BY OwnerStates
    <2>5. QED
      BY <2>1, <2>2, <2>3, <2>4, LlmTypes, OwnerGoes, OwnerStates
  <1>5. QED
    BY <1>1, <1>2, <1>3, <1>4

\* Whatever the platform was at when it died.
LEMMA LlmCrashes ==
  ASSUME OneAtATime, LlmInv, NEW p \in Owner, Llm!Crash(p)
  PROVE  LlmInv'
  <1> USE DEF OwnerAt, KeyAgrees
  <1>1. /\ Llm!Goes(p, Llm!Idle) /\ UNCHANGED <<project, live, minted>>
        /\ unrestored' = (unrestored \/ ("for" \in DOMAIN owner[p] /\ owner[p].for = "restore"))
    BY DEF Llm!Crash
  <1>2. unrestored' \in BOOLEAN
    BY <1>1, LlmTypes
  <1>3. owner[p].at \in {"clear", "generate", "undo", "store"} => "for" \in DOMAIN owner[p]
    <2>1. ASSUME owner[p] \in [at : {"clear", "generate", "undo"}, for : Llm!Purpose]
          PROVE  "for" \in DOMAIN owner[p]
      BY <2>1
    <2>2. ASSUME owner[p] \in [at : {"store"}, for : Llm!Purpose, key : Llm!ProxyKey]
          PROVE  "for" \in DOMAIN owner[p]
      BY <2>2
    <2>3. QED
      BY <2>1, <2>2, OwnerPlace, LlmTypes
  <1>4. owner'[p] = Llm!Idle => OwnerAt(p)'
    <2>1. SUFFICES ASSUME owner'[p] = Llm!Idle, project.status = "ready", project.enabled,
                          ~unrestored'
                   PROVE  live = project.stored /\ live # Llm!NoKey
      BY <1>1, OwnerStates
    <2>2. owner[p].at \in {"clear", "generate", "undo", "store"} => FALSE
      BY <1>1, <1>3, <2>1 DEF LlmInv
    <2>3. owner[p].at \in {"idle", "mark"}
      BY <2>1, <2>2, OwnerPlace, LlmTypes DEF LlmInv
    <2>4. ~unrestored
      BY <1>1, <2>1
    <2>5. QED
      BY <2>1, <2>3, <2>4 DEF LlmInv
  <1>5. QED
    BY <1>1, <1>2, <1>4, LlmTypes, OwnerGoes, OwnerStates

LEMMA LlmStep ==
  ASSUME OneAtATime, LlmInv, LlmNext
  PROVE  LlmInv'
  BY LlmBegins, LlmMints, LlmStores, LlmDeletes, LlmCrashes DEF LlmNext, InLlm

LEMMA LlmUnchanged ==
  ASSUME LlmInv, UNCHANGED llm
  PROVE  LlmInv'
  BY DEF llm, LlmInv, Llm!TypeOK, OwnerAt, KeyAgrees

LEMMA LlmInit == ServicesInit => LlmInv
  <1>1. SUFFICES ASSUME Llm!Init PROVE LlmInv
    BY DEF ServicesInit
  <1>2. Llm!TypeOK
    <2>1. Llm!NoKey \in Llm!ProxyKey \cup {Llm!NoKey} /\ 0 \in 0 .. MaxKeys
      BY BoundsAssumption
    <2>2. project \in [status : {"none", "ready", "deleting"}, enabled : BOOLEAN,
                       stored : Llm!ProxyKey \cup {Llm!NoKey}]
      BY <1>1, <2>1 DEF Llm!Init
    <2>3. QED
      BY <1>1, <2>1, <2>2, OwnerStates DEF Llm!Init, Llm!TypeOK
  <1>3. \A p \in Owner : OwnerAt(p)
    BY <1>1, OwnerStates DEF Llm!Init, OwnerAt, KeyAgrees
  <1>4. QED
    BY <1>1, <1>2, <1>3 DEF Llm!Init, LlmInv

\* The key a runtime is started with is the one the proxy accepts, whatever calls failed
\* or were cut off before (lib/llm.ts, lib/projects.ts): for any number of keys, and for
\* the owner who asks for one thing at a time, which the invariant is about.
THEOREM KeyKeepsWorking ==
  ASSUME OneAtATime
  PROVE  ServicesSpec => []KeyWorks
  <1>1. (part = "llm" => LlmInv) /\ [ServicesNext]_services => (part = "llm" => LlmInv)'
    BY Turns, LlmStep, LlmUnchanged
  <1>2. ServicesInit => (part = "llm" => LlmInv)
    BY LlmInit
  <1>3. (part = "llm" => LlmInv) => KeyWorks
    <2>1. ASSUME LlmInv, \A p \in Owner : Llm!At(p, "idle") PROVE KeyAgrees
      BY <2>1 DEF LlmInv, OwnerAt, Llm!At, OneAtATime
    <2>2. QED
      BY <2>1 DEF LlmInv, KeyWorks, Kept, Llm!KeyWorks, KeyAgrees
  <1>4. QED
    BY <1>1, <1>2, <1>3, PTL DEF ServicesSpec
=============================================================================
