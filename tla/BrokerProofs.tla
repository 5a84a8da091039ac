---------------------------- MODULE BrokerProofs ----------------------------
(***************************************************************************)
(* Theorems of Broker: what a module is handed and what is left stored, for *)
(* any contexts, receipts, requests and deployments, and however many       *)
(* commands run and requests each of them makes.                            *)
(***************************************************************************)
EXTENDS Broker, TLAPS

-----------------------------------------------------------------------------
(* How a record is reached.                                                 *)

Contexts == ({w.context : w \in Worlds} \cup {w.later : w \in Worlds}) \ {None}

Strategies == {"direct", "sibling", "inline", "exchanged", "derived", "federated"}

LEMMA Legal ==
  ASSUME NEW c \in Contexts
  PROVE  \/ ValidContext(c) /\ ~c.synthetic /\ NoneApart(c)
         \/ \A ns \in DOMAIN c.products :
              c.products[ns].audience = None /\ c.products[ns].gateway = None
<1>1. PICK w \in Worlds : c \in {w.context, w.later} \ {None}
  BY DEF Contexts
<1> QED
  BY <1>1, BrokerAssumption

\* A record's key names the product, and is its gateway's or its own.
LEMMA Keys ==
  ASSUME NEW r
  PROVE  /\ RecordKey(r)[1] = Product
         /\ IsGatewayKey(RecordKey(r)) <=> r.record = "gateway"
  BY DEF RecordKey, Key, GatewayKey, IsGatewayKey

LEMMA DeclaredIssuer ==
  ASSUME NEW c, NEW a,
         a = [strategy |-> a.strategy, key |-> a.key, issuer |-> a.issuer,
              issuerID |-> a.issuerID, client |-> a.client, audience |-> a.audience,
              scopes |-> a.scopes, resource |-> a.resource, ref |-> a.ref]
  PROVE  LET b == AtLoginIssuer(c, a)
         IN b = [strategy |-> a.strategy, key |-> a.key, issuer |-> a.issuer,
                 issuerID |-> b.issuerID, client |-> a.client, audience |-> a.audience,
                 scopes |-> a.scopes, resource |-> a.resource, ref |-> a.ref]
  BY DEF AtLoginIssuer

\* An access has its members, and one of the strategies.
Access9(a) ==
  /\ a = [strategy |-> a.strategy, key |-> a.key, issuer |-> a.issuer,
          issuerID |-> a.issuerID, client |-> a.client, audience |-> a.audience,
          scopes |-> a.scopes, resource |-> a.resource, ref |-> a.ref]
  /\ a.strategy \in Strategies

LEMMA GatewayReached ==
  ASSUME NEW c, NEW ns
  PROVE  LET a == GatewayAccess(c, ns)
         IN /\ Access9(a) /\ a.audience = c.products[ns].gateway.audience
            /\ a.issuer = c.issuer
<1> DEFINE key == GatewayKey(ns)
           ref == ProductSessionRef(c, key)
           g == c.products[ns].gateway
           grant == c.products[ns].grant
           resource == IF Derivation(c) = "token-resource" THEN g.audience ELSE None
           access == Reached(c, "sibling", key, g, ref)
           shares == SharesLogin(c, access)
           login == LoginRef(c)
<1>1. access = [strategy |-> "sibling", key |-> key, issuer |-> c.issuer, issuerID |-> None,
                client |-> c.client, audience |-> g.audience, scopes |-> g.scopes,
                resource |-> resource, ref |-> ref]
  BY DEF Reached
<1>2. GatewayAccess(c, ns) =
        IF c.kind = "client-credentials"
        THEN [access EXCEPT !.strategy = "inline", !.ref = None]
        ELSE IF grant # None /\ grant.kind = "exchange"
        THEN [access EXCEPT !.strategy = "exchanged",
                            !.resource = access.audience, !.ref = None]
        ELSE IF shares
        THEN [access EXCEPT !.strategy = "direct", !.ref = login]
        ELSE [access EXCEPT !.strategy = "sibling"]
  BY DEF GatewayAccess, OfLogin
<1> HIDE DEF key, ref, grant, resource, access, shares, login
<1> QED
  BY <1>1, <1>2 DEF Access9, Strategies

LEMMA InlineReached ==
  ASSUME NEW c, NEW ns
  PROVE  LET a == InlineAccess(c, ns)
         IN /\ Access9(a) /\ a.audience = c.products[ns].audience
            /\ a.strategy = "inline"
<1> DEFINE p == c.products[ns]
           key == Key(ns)
           resource == IF Derivation(c) = "token-resource" THEN p.audience ELSE None
           access == Reached(c, "inline", key, p, None)
<1>1. access = [strategy |-> "inline", key |-> key, issuer |-> c.issuer, issuerID |-> None,
                client |-> c.client, audience |-> p.audience, scopes |-> p.scopes,
                resource |-> resource, ref |-> None]
  BY DEF Reached
<1>2. InlineAccess(c, ns) =
        IF Direct(p) THEN access
        ELSE [access EXCEPT !.issuer = p.grant.issuer, !.resource = p.grant.resource]
  BY DEF InlineAccess
<1> HIDE DEF key, resource, access
<1>3. CASE Direct(p)
  BY <1>1, <1>2, <1>3 DEF Access9, Strategies
<1>4. CASE ~Direct(p)
  <2> DEFINE issuer == p.grant.issuer
             bound == p.grant.resource
  <2>1. InlineAccess(c, ns) = [access EXCEPT !.issuer = issuer, !.resource = bound]
    BY <1>2, <1>4
  <2> HIDE DEF issuer, bound
  <2> QED
    BY <1>1, <2>1 DEF Access9, Strategies
<1> QED
  BY <1>3, <1>4

\* A product is reached through the login, or through a grant that is legal.
LEMMA ProductReached ==
  ASSUME NEW c, NEW ns,
         Direct(c.products[ns]) \/ c.products[ns].grant.kind \in LegalGrants
  PROVE  LET a == ProductAccess(c, ns)
         IN /\ Access9(a) /\ a.audience = c.products[ns].audience
            /\ \/ a.issuer = c.issuer
               \/ /\ ~Direct(c.products[ns]) /\ c.products[ns].grant.kind = "federated"
                  /\ a.issuer = c.products[ns].grant.issuer
<1> DEFINE p == c.products[ns]
           key == Key(ns)
           ref == ProductSessionRef(c, key)
           resource == IF Derivation(c) = "token-resource" THEN p.audience ELSE None
           access == Reached(c, "direct", key, p, ref)
           shares == ns = LoginNamespace(c) \/ SharesLogin(c, access)
           login == LoginRef(c)
           scopes == AssertionScopes(p.grant)
<1>1. access = [strategy |-> "direct", key |-> key, issuer |-> c.issuer, issuerID |-> None,
                client |-> c.client, audience |-> p.audience, scopes |-> p.scopes,
                resource |-> resource, ref |-> ref]
  BY DEF Reached
<1>2. CASE Direct(p)
  <2>1. ProductAccess(c, ns) =
          IF shares
          THEN [access EXCEPT !.strategy = "direct", !.ref = login]
          ELSE [access EXCEPT !.strategy = "sibling"]
    BY <1>2 DEF ProductAccess, OfLogin
  <2> HIDE DEF key, ref, resource, access, shares, login
  <2> QED
    BY <1>1, <2>1 DEF Access9, Strategies
<1>3. CASE ~Direct(p) /\ p.grant.kind = "exchange"
  <2>1. ProductAccess(c, ns) = [access EXCEPT !.strategy = "exchanged",
                                              !.resource = p.audience, !.ref = None]
    BY <1>3 DEF ProductAccess
  <2> HIDE DEF key, ref, resource, access
  <2> QED
    BY <1>1, <2>1 DEF Access9, Strategies
<1>4. CASE ~Direct(p) /\ p.grant.kind = "jwt-bearer"
  <2>1. ProductAccess(c, ns) = [access EXCEPT !.strategy = "derived", !.scopes = scopes,
                                              !.resource = p.grant.resource]
    BY <1>4 DEF ProductAccess
  <2> HIDE DEF key, ref, resource, access, scopes
  <2> QED
    BY <1>1, <2>1 DEF Access9, Strategies
<1>5. CASE ~Direct(p) /\ p.grant.kind = "federated"
  <2> DEFINE grant == p.grant
             issuer == grant.issuer
             client == grant.client
             bound == grant.resource
  <2>1. ProductAccess(c, ns) = [access EXCEPT !.strategy = "federated", !.issuer = issuer,
                                              !.client = client, !.resource = bound]
    BY <1>5 DEF ProductAccess
  <2>2. ~Direct(p) /\ p.grant.kind = "federated" /\ p.grant.issuer = issuer
    BY <1>5
  <2> HIDE DEF key, ref, resource, access, issuer, client, bound, p
  <2> QED
    BY <1>1, <2>1, <2>2 DEF Access9, Strategies, p
<1> QED
  BY <1>2, <1>3, <1>4, <1>5 DEF LegalGrants

-----------------------------------------------------------------------------
(* What the policy lets through.                                            *)

\* A request no policy refused, of a command with a context.
Permitted(c, receipt, r) ==
  /\ c \in Contexts
  /\ r.audience \in receipt.audiences
  /\ c.kind # "development-credential" =>
       /\ ValidContext(c) /\ ~c.synthetic /\ NoneApart(c)
       /\ c.kind # "pat" /\ r.scopes # None /\ Product \in DOMAIN c.products
       /\ c.issuer # None /\ RecordKey(r) \in RecordKeys(c)
       /\ Access9(Access(c, RecordKey(r)))
       /\ Access(c, RecordKey(r)).audience = Recorded(c, r).audience
       /\ r.record = "api" =>
            /\ Access(c, RecordKey(r)).strategy = "exchanged"
            /\ c.kind # "client-credentials"
            /\ r.resource \notin ProductAudiences(c)
       /\ r.scopes \subseteq receipt.scopes \cup Recorded(c, r).scopes

\* Naming the scopes recorded changes nothing else of a request.
LEMMA Asked ==
  ASSUME NEW c, NEW r \in Requests
  PROVE  LET q == Defaulted(c, r)
         IN /\ q.record = r.record /\ q.audience = r.audience /\ q.resource = r.resource
            /\ Recorded(c, q) = Recorded(c, r)
            /\ RecordKey(q) = RecordKey(r)
<1> DEFINE q == Defaulted(c, r)
           scopes == Recorded(c, r).scopes
<1>1. q.record = r.record /\ q.audience = r.audience /\ q.resource = r.resource
  <2>1. DOMAIN r = {"record", "audience", "scopes", "resource"}
    BY BrokerAssumption
  <2>2. q = IF r.scopes = {} THEN [r EXCEPT !.scopes = scopes] ELSE r
    BY DEF Defaulted
  <2> HIDE DEF q, scopes
  <2> QED
    BY <2>1, <2>2
<1> HIDE DEF q
<1>2. Recorded(c, q) = Recorded(c, r)
  BY <1>1 DEF Recorded
<1>3. RecordKey(q) = RecordKey(r)
  BY <1>1 DEF RecordKey
<1> QED
  BY <1>1, <1>2, <1>3 DEF q

\* A product the source policy takes is reached as its record says.
LEMMA Reachable ==
  ASSUME NEW c \in Contexts, NEW receipt, NEW r,
         r.record \in {"own", "gateway", "api"}, ~ProductRefused(c, receipt, r)
  PROVE  LET a == Access(c, RecordKey(r))
         IN /\ ValidContext(c) /\ ~c.synthetic /\ NoneApart(c)
            /\ Product \in DOMAIN c.products /\ RecordKey(r) \in RecordKeys(c)
            /\ Access9(a) /\ a.audience = Recorded(c, r).audience
<1> DEFINE key == RecordKey(r)
           a == Access(c, key)
<1>1. Product \in DOMAIN c.products
  BY DEF ProductRefused
<1>2. CASE r.record = "gateway"
  <2>1. /\ c.products[Product].gateway # None
        /\ Recorded(c, r) = c.products[Product].gateway
    BY <1>1, <1>2 DEF ProductRefused, GatewayRefused, Recorded
  <2>2. a = AtLoginIssuer(c, GatewayAccess(c, Product))
    BY <1>2, Keys DEF Access
  <2>3. ValidContext(c) /\ ~c.synthetic /\ NoneApart(c)
    BY <1>1, <2>1, Legal
  <2>4. key \in RecordKeys(c)
    BY <1>1, <1>2, <2>1 DEF RecordKey, RecordKeys
  <2> HIDE DEF key, a
  <2> QED
    BY <1>1, <2>1, <2>2, <2>3, <2>4, GatewayReached, DeclaredIssuer DEF Access9, key, a
<1>3. CASE r.record # "gateway"
  <2>1. c.products[Product].audience # None /\ Recorded(c, r) = c.products[Product]
    BY <1>1, <1>3 DEF ProductRefused, Recorded
  <2>2. ValidContext(c) /\ ~c.synthetic /\ NoneApart(c)
    BY <1>1, <2>1, Legal
  <2>3. key \in RecordKeys(c)
    BY <1>1, <1>3 DEF RecordKey, RecordKeys
  <2>4. CASE c.kind = "client-credentials"
    <3>1. a = AtLoginIssuer(c, InlineAccess(c, Product))
      BY <1>3, <2>4, Keys DEF Access
    <3> HIDE DEF key, a
    <3> QED
      BY <1>1, <2>1, <2>2, <2>3, <3>1, InlineReached, DeclaredIssuer DEF Access9, key, a
  <2>5. CASE c.kind # "client-credentials"
    <3>1. a = AtLoginIssuer(c, ProductAccess(c, Product))
      BY <1>3, <2>5, Keys DEF Access
    <3>2. ValidProduct(c.products[Product])
      BY <1>1, <2>2 DEF ValidContext, ValidAccount
    <3>3. Direct(c.products[Product]) \/ c.products[Product].grant.kind \in LegalGrants
      BY <3>2 DEF ValidProduct, ValidGrant, Direct
    <3> HIDE DEF key, a
    <3> QED
      BY <1>1, <2>1, <2>2, <2>3, <3>1, <3>3, ProductReached, DeclaredIssuer
         DEF Access9, key, a
  <2> QED
    BY <2>4, <2>5
<1> QED
  BY <1>2, <1>3

\* The permissions asked for, or recorded, are a set.
LEMMA ScopesAsked ==
  ASSUME NEW c, NoneApart(c), NEW r \in Requests
  PROVE  Defaulted(c, r).scopes # None
<1> DEFINE scopes == Recorded(c, r).scopes
<1>1. r.scopes # None /\ DOMAIN r = {"record", "audience", "scopes", "resource"} /\ None # {}
  BY BrokerAssumption
<1>2. scopes \in RecordedScopes(c) \cup {{}}
  <2>1. CASE Product \notin DOMAIN c.products
    BY <2>1 DEF Recorded
  <2>2. CASE Product \in DOMAIN c.products /\ r.record # "gateway"
    BY <2>2 DEF Recorded, RecordedScopes
  <2>3. CASE /\ Product \in DOMAIN c.products /\ r.record = "gateway"
             /\ c.products[Product].gateway = None
    BY <2>3 DEF Recorded
  <2>4. CASE /\ Product \in DOMAIN c.products /\ r.record = "gateway"
             /\ c.products[Product].gateway # None
    BY <2>4 DEF Recorded, RecordedScopes
  <2> QED
    BY <2>1, <2>2, <2>3, <2>4
<1>3. scopes # None
  BY <1>1, <1>2 DEF NoneApart
<1>4. Defaulted(c, r) = IF r.scopes = {} THEN [r EXCEPT !.scopes = scopes] ELSE r
  BY DEF Defaulted
<1> HIDE DEF scopes
<1> QED
  BY <1>1, <1>3, <1>4

\* Whatever a module asks, it is refused, or within all its context records.
LEMMA Admitted ==
  ASSUME NEW cmd, NEW r \in Requests, cmd.context \in Contexts \cup {None},
         PolicyRefused(cmd, r) = None
  PROVE  /\ cmd.context # None
         /\ Permitted(cmd.context, cmd.receipt, Defaulted(cmd.context, r))
<1> DEFINE c == cmd.context
           q == Defaulted(c, r)
<1>1. RecordDeclared(cmd.receipt, r) /\ c # None
  <2>1. RecordDeclared(cmd.receipt, r)
    BY BrokerAssumption DEF Denials, PolicyRefused
  <2>2. ASSUME c = None PROVE FALSE
    <3>1. SourceRefused(c, cmd.receipt, r) = "context_not_selected"
      BY <2>2 DEF SourceRefused
    <3> DEFINE recorded == [products |-> << >>]
    <3>2. \/ PolicyRefused(cmd, r) \in {"already_granted", "product_not_configured",
                                       "invocation_refused"}
          \/ /\ Declared(recorded, cmd.receipt, r) # None
             /\ PolicyRefused(cmd, r) = Declared(recorded, cmd.receipt, r)
          \/ PolicyRefused(cmd, r) = SourceRefused(c, cmd.receipt, r)
      BY <2>2 DEF PolicyRefused
    <3> QED
      BY <3>1, <3>2, BrokerAssumption DEF Denials
  <2> QED
    BY <2>1, <2>2
<1>2. /\ Invocable(c, r)
      /\ Declared(c, cmd.receipt, q) = None
      /\ SourceRefused(c, cmd.receipt, q) = None
  BY <1>1, BrokerAssumption DEF Denials, PolicyRefused
<1>3. c \in Contexts
  BY <1>1
<1> HIDE DEF c, q
<1>4. /\ q.record = r.record /\ q.audience = r.audience /\ q.resource = r.resource
  BY Asked DEF q
<1>5. q.record \in {"own", "gateway", "api"}
  BY <1>1, <1>4 DEF RecordDeclared
<1>6. /\ q.audience \in cmd.receipt.audiences
      /\ q.scopes \subseteq cmd.receipt.scopes \cup Recorded(c, q).scopes
  BY <1>2, BrokerAssumption DEF Denials, Declared
<1>7. ASSUME c.kind # "development-credential"
      PROVE  /\ ~ProductRefused(c, cmd.receipt, q)
             /\ ~InvocationUnavailable(c, q)
             /\ c.kind # "pat"
  BY <1>1, <1>2, <1>7, BrokerAssumption DEF Denials, SourceRefused
<1>8. q.record = "api" => q.resource \notin ProductAudiences(c)
  BY <1>2, <1>4 DEF Invocable
<1>9. ASSUME ValidContext(c), c.kind \notin {"development-credential", "pat"}
      PROVE  c.issuer # None
  BY <1>9 DEF ValidContext, ValidAccount, ValidAuth, LegalKinds, InteractiveKinds
<1>10. ASSUME NoneApart(c) PROVE q.scopes # None
  BY <1>10, ScopesAsked DEF q
<1> QED
  BY <1>1, <1>3, <1>5, <1>6, <1>7, <1>8, <1>9, <1>10, Reachable
     DEF Permitted, InvocationUnavailable, c, q

-----------------------------------------------------------------------------
(* What a source verifies.                                                  *)

\* An answer that states its scopes states its token's.
Told(a) == a.ok => a.scope \in {None, a.access.scopes}

LEMMA Tokened ==
  ASSUME NEW s, NEW subject, NEW scopes, NEW resource, NEW refresh, NEW id,
         NEW scope \in {None, scopes}
  PROVE  Told(D!Tokens(D!Access(s, subject, scopes, resource), refresh, id, scope))
  BY DEF Told, D!Tokens, D!Access

LEMMA Erred == ASSUME NEW s, NEW code PROVE Told(D!OAuthError(s, code).answer)
  BY DEF Told, D!OAuthError, D!Answered

LEMMA RenewalTells ==
  ASSUME NEW s, NEW r
  PROVE  Told(D!RefreshGrant(s, r).answer)
<1> DEFINE answer == D!RefreshGrant(s, r).answer
<1>1. CASE r.refresh \notin DOMAIN s.refreshTokens
  BY <1>1, Erred DEF D!RefreshGrant
<1>2. CASE r.refresh \in DOMAIN s.refreshTokens
  <2> DEFINE record == s.refreshTokens[r.refresh]
             issued == D!RenewedScopes(s, record.scopes, r.scopes)
             refresh == IF s.opts.rotate THEN s.minted + 1 ELSE None
             id == IF D!OpenID \in issued
                   THEN D!IDToken(s, r.client, None, issued) ELSE None
             scope == IF s.opts.omitScopeField THEN None ELSE issued
  <2>1. CASE issued = None
    BY <1>2, <2>1, Erred DEF D!RefreshGrant
  <2>2. CASE issued # None
    <3>1. answer = D!Tokens(D!Access(s, "user-1", issued, record.resource),
                            refresh, id, scope)
      BY <1>2, <2>2 DEF D!RefreshGrant, D!Answered
    <3>2. scope \in {None, issued}
      OBVIOUS
    <3> HIDE DEF issued, record, refresh, id, scope
    <3> QED
      BY <3>1, <3>2, Tokened
  <2> QED
    BY <2>1, <2>2
<1> QED
  BY <1>1, <1>2

LEMMA MachineTells ==
  ASSUME NEW s, NEW r
  PROVE  Told(D!ClientCredentialsGrant(s, r).answer)
<1> DEFINE h == D!ClientCredentialsGrant(s, r)
           issued == IF s.opts.clientMode = "ignore" THEN s.opts.clientScopes ELSE r.scopes
           access == D!Access(s, "client-1", issued, r.resource)
<1>1. \/ \E code : h = D!OAuthError(s, code)
      \/ h.answer = D!Tokens(access, None, None, issued)
  BY DEF D!ClientCredentialsGrant, D!Answered
<1> HIDE DEF h, issued
<1>2. Told(D!Tokens(access, None, None, issued))
  BY Tokened
<1> HIDE DEF access
<1> QED
  BY <1>1, <1>2, Erred DEF h

LEMMA BearerTells ==
  ASSUME NEW s, NEW trusted, NEW r
  PROVE  Told(D!BearerGrant(s, trusted, r).answer)
<1> DEFINE h == D!BearerGrant(s, trusted, r)
           issued == D!BearerScopes(s, r.scopes)
           access == D!Access(s, "user-1", issued, None)
           refresh == s.minted + 1
<1>1. \/ \E code : h = D!OAuthError(s, code)
      \/ h.answer = D!Tokens(access, refresh, None, issued)
  BY DEF D!BearerGrant, D!Answered
<1> HIDE DEF h, issued, refresh
<1>2. Told(D!Tokens(access, refresh, None, issued))
  BY Tokened
<1> HIDE DEF access
<1> QED
  BY <1>1, <1>2, Erred DEF h

\* A token that serves a request, for an audience.
Serves(t, r, audience) ==
  /\ t.audience = audience
  /\ r.scopes \subseteq t.scopes /\ t.scopes \ Protocol \subseteq r.scopes

\* What a source holds before it verifies it: a denial, or an answer that came.
Came(made) == made.denied = None => made.answer.ok /\ Told(made.answer)

LEMMA DeniedIs ==
  ASSUME NEW iss, NEW ses, NEW code \in Denials
  PROVE  Denied(iss, ses, code).denied # None
  BY BrokerAssumption DEF Denied

\* What was verified carries what was asked for, and nothing else.
LEMMA VerifiedServes ==
  ASSUME NEW made, Came(made), NEW r, NEW audience,
         Verified(made, r, audience).denied = None
  PROVE  Serves(Verified(made, r, audience).answer.access, r, audience)
<1>1. Denied(made.issuers, made.sessions, "narrowing_unavailable").denied # None
  BY DeniedIs DEF Denials
<1>2. made.denied = None /\ Narrowed(made.answer, r, audience)
      /\ Verified(made, r, audience) = made
  BY <1>1 DEF Verified
<1>3. made.answer.access.audience = audience /\ made.answer.access.scopes = r.scopes
  BY <1>2 DEF Came, Told, Narrowed, Effective
<1> QED
  BY <1>2, <1>3 DEF Serves

LEMMA RenewalComes ==
  ASSUME NEW access, NEW scopes, NEW reached
  PROVE  Came(Renew(access, scopes, reached))
<1> DEFINE stored == sessions[access.ref]
           r == [refresh |-> stored.refresh, scopes |-> scopes, client |-> access.client]
           served == D!RefreshGrant(issuers[access.issuer], r)
           iss == [issuers EXCEPT ![access.issuer] = served.issuer]
           ses == IF served.answer.refresh = None THEN sessions
                  ELSE [sessions EXCEPT ![access.ref].refresh = served.answer.refresh]
           made == Renew(access, scopes, reached)
           refused == RefusedRenewal(served.answer.error)
<1>1. \/ \E code \in Denials : \E i : made = Denied(i, sessions, code)
      \/ made = Issued(iss, ses, served.answer) /\ served.answer.ok
  <2>1. refused \in Denials
    BY DEF RefusedRenewal, Denials
  <2>2. {"login_required", "session_issuer_mismatch", "discovery_failed"} \subseteq Denials
    BY DEF Denials
  <2> DEFINE drifted == (~stored.bound /\ access.resource # None) \/ Drifted(stored, access)
             unreached == Unreached(access.issuer, access.issuerID, reached)
  <2>3. made = IF access.ref \notin DOMAIN sessions
               THEN Denied(issuers, sessions, "login_required")
               ELSE IF stored.issuer # access.issuer
               THEN Denied(issuers, sessions, "session_issuer_mismatch")
               ELSE IF drifted
               THEN Denied(issuers, sessions, "login_required")
               ELSE IF unreached # None
               THEN Denied(issuers, sessions, "discovery_failed")
               ELSE IF ~served.answer.ok
               THEN Denied(iss, sessions, refused)
               ELSE Issued(iss, ses, served.answer)
    BY DEF Renew
  <2> HIDE DEF stored, served, iss, ses, made, refused, drifted, unreached
  <2> QED
    BY <2>1, <2>2, <2>3
<1>2. Told(served.answer)
  BY RenewalTells
<1> HIDE DEF served, iss, ses, made
<1> QED
  BY <1>1, <1>2, DeniedIs DEF Came, Issued, made

\* Whatever follows a renewal comes from an issuer, or is a denial.
LEMMA FollowingComes ==
  ASSUME NEW renewed, NEW url, NEW served, Told(served.answer), NEW refusal \in Denials
  PROVE  Came(Followed(renewed, url, served, refusal))
  BY DeniedIs DEF Came, Followed, Issued

LEMMA SessionServes ==
  ASSUME NEW access, NEW r, NEW reached,
         SessionDerive(access, r, reached).denied = None
  PROVE  Serves(SessionDerive(access, r, reached).answer.access, r, access.audience)
<1>1. CASE StoredGrant(access, r)
  <2> DEFINE token == sessions[access.ref].access
  <2>1. SessionDerive(access, r, reached).answer.access = token
    BY <1>1 DEF SessionDerive, Issued
  <2>2. token.audience = access.audience /\ token.scopes \ Protocol = r.scopes
    BY <1>1 DEF StoredGrant
  <2> HIDE DEF token
  <2> QED
    BY <2>1, <2>2 DEF Serves
<1>2. CASE ~StoredGrant(access, r)
  <2>1. SessionDerive(access, r, reached)
          = Verified(Renew(access, r.scopes, reached), r, access.audience)
    BY <1>2 DEF SessionDerive
  <2>2. Came(Renew(access, r.scopes, reached))
    BY RenewalComes
  <2> QED
    BY <2>1, <2>2, VerifiedServes
<1> QED
  BY <1>1, <1>2

LEMMA AssertionServes ==
  ASSUME NEW c, NEW access, NEW r, NEW reached,
         AssertionDerive(c, access, r, reached).denied = None
  PROVE  Serves(AssertionDerive(c, access, r, reached).answer.access, r, access.audience)
<1> DEFINE g == c.products[Product].grant
           renewed == Renew(access, AssertionScopes(g), reached)
           served == D!BearerGrant(renewed.issuers[g.issuer], renewed.issuers[access.issuer],
                       [client |-> g.client, assertion |-> renewed.answer.id,
                        scopes |-> r.scopes])
           refusal == RefusedAssertion(served.answer.error)
           made == AssertionDerive(c, access, r, reached)
           followed == Followed(renewed, g.issuer, served, refusal)
           unreached == Unreached(g.issuer, None, reached)
<1>1. made = IF renewed.denied # None THEN renewed
             ELSE IF renewed.answer.id = None
             THEN Denied(renewed.issuers, renewed.sessions, "narrowing_unavailable")
             ELSE IF unreached # None
             THEN Denied(renewed.issuers, renewed.sessions, "discovery_failed")
             ELSE Verified(followed, r, access.audience)
  BY DEF AssertionDerive, AssertionPresented, Asserted
<1>2. Told(served.answer)
  BY BearerTells
<1>3. refusal \in Denials
  BY DEF RefusedAssertion, Denials
<1>4. {"narrowing_unavailable", "discovery_failed"} \subseteq Denials
  BY DEF Denials
<1>5. made.denied = None
  OBVIOUS
<1> HIDE DEF served, refusal, made, unreached
<1>6. Came(followed)
  BY <1>2, <1>3, FollowingComes
<1> HIDE DEF followed, renewed
<1>7. made = Verified(followed, r, access.audience)
  BY <1>1, <1>4, <1>5, DeniedIs
<1> QED
  BY <1>5, <1>6, <1>7, VerifiedServes DEF made

LEMMA InlineServes ==
  ASSUME NEW c, NEW access, NEW r, NEW reached,
         InlineMint(c, access, r, reached).denied = None
  PROVE  Serves(InlineMint(c, access, r, reached).answer.access, r, access.audience)
<1> DEFINE source == InlineSource(c, r)
           served == D!ClientCredentialsGrant(issuers[access.issuer],
                       [client |-> source.client, secret |-> source.secret,
                        scopes |-> r.scopes, resource |-> access.resource])
           iss == [issuers EXCEPT ![access.issuer] = served.issuer]
           refusal == RefusedInline(served.answer.error)
           made == InlineMint(c, access, r, reached)
           unreached == Unreached(access.issuer, access.issuerID, reached)
           issued == Issued(iss, sessions, served.answer)
<1>1. made = IF unreached # None
             THEN Denied(issuers, sessions, "discovery_failed")
             ELSE IF ~served.answer.ok
             THEN Denied(iss, sessions, refusal)
             ELSE Verified(issued, r, access.audience)
  BY DEF InlineMint
<1>2. Told(served.answer)
  BY MachineTells
<1>3. refusal \in Denials /\ "discovery_failed" \in Denials
  BY DEF RefusedInline, Denials
<1>4. made.denied = None
  OBVIOUS
<1> HIDE DEF served, refusal, made, unreached, iss
<1>5. served.answer.ok /\ made = Verified(issued, r, access.audience)
  BY <1>1, <1>3, <1>4, DeniedIs
<1>6. Came(issued)
  BY <1>2, <1>5 DEF Came, Issued
<1> HIDE DEF issued
<1> QED
  BY <1>4, <1>5, <1>6, VerifiedServes DEF made

\* An exchanged token is bound to the audience it was exchanged for.
LEMMA ExchangeBinds ==
  ASSUME NEW login, NEW access, NEW r, NEW reached,
         ExchangeDerive(login, access, r, reached).denied = None
  PROVE  ExchangeDerive(login, access, r, reached).answer.access.audience
           = IF r.record = "api" THEN r.resource ELSE access.audience
<1> DEFINE audience == IF r.record = "api" THEN r.resource ELSE access.audience
           renewed == Renew(login, login.scopes, reached)
           served == D!ExchangeGrant(renewed.issuers[login.issuer],
                       [client |-> login.client, subject |-> renewed.answer.access,
                        resource |-> audience])
           made == ExchangeDerive(login, access, r, reached)
           followed == Followed(renewed, login.issuer, served, "exchange_unavailable")
<1>1. made = IF renewed.denied # None THEN renewed ELSE BindingVerified(followed, audience)
  BY DEF ExchangeDerive, ExchangedFor
<1>2. made.denied = None
  OBVIOUS
<1>3. "exchange_unusable" \in Denials
  BY DEF Denials
<1> HIDE DEF audience, renewed, made, followed, served
<1>4. made = followed /\ followed.answer.access.audience = audience
  BY <1>1, <1>2, <1>3, DeniedIs DEF BindingVerified
<1> QED
  BY <1>4 DEF made, audience

\* Whatever serves a request the policy let through, its grant is bounded.
LEMMA MintBounded ==
  ASSUME NEW c, NEW receipt, NEW r, Permitted(c, receipt, r), NEW reached,
         Derive(c, Source(c, r), r, reached).denied = None
  PROVE  Bounded([context |-> c, receipt |-> receipt, request |-> r,
                  token |-> Derive(c, Source(c, r), r, reached).answer.access])
<1> DEFINE source == Source(c, r)
           made == Derive(c, source, r, reached)
           t == made.answer.access
           g == [context |-> c, receipt |-> receipt, request |-> r, token |-> t]
<1> SUFFICES Bounded(g)
  OBVIOUS
<1>1. g.context = c /\ g.receipt = receipt /\ g.request = r /\ g.token = t
  OBVIOUS
<1> HIDE DEF g
<1>2. CASE c.kind = "development-credential"
  <2>1. source.strategy = "development"
    BY <1>2 DEF Source
  <2>2. made = DevelopmentMint(c, r)
    BY <2>1 DEF Derive
  <2>3. t.audience = r.audience
    BY <2>2 DEF DevelopmentMint, Issued
  <2> HIDE DEF t
  <2> QED
    BY <1>1, <1>2, <2>3 DEF Bounded, Permitted
<1>3. CASE c.kind # "development-credential"
  <2> DEFINE access == Access(c, RecordKey(r))
             ref == LoginAccess(c).ref
  <2>1. /\ Access9(access) /\ access.audience = Recorded(c, r).audience
        /\ r.record = "api" => /\ access.strategy = "exchanged"
                               /\ c.kind # "client-credentials"
                               /\ r.resource \notin ProductAudiences(c)
        /\ r.scopes \subseteq receipt.scopes \cup Recorded(c, r).scopes
    BY <1>3 DEF Permitted
  <2>2. source = IF access.strategy = "exchanged" /\ c.kind # "client-credentials"
                 THEN [access EXCEPT !.ref = ref] ELSE access
    BY <1>3 DEF Source
  <2>3. source.strategy = access.strategy /\ source.audience = access.audience
        /\ source.strategy \in Strategies
    <3> HIDE DEF access, ref, source
    <3> QED
      BY <2>1, <2>2 DEF Access9
  <2>4. made.denied = None
    OBVIOUS
  <2>5. CASE source.strategy = "exchanged"
    <3>1. made = ExchangeDerive(LoginAccess(c), source, r, reached)
      BY <2>5 DEF Derive
    <3>2. t.audience = IF r.record = "api" THEN r.resource ELSE source.audience
      BY <2>4, <3>1, ExchangeBinds
    <3>3. Source(c, r).strategy = "exchanged"
      BY <2>5
    <3> HIDE DEF t, access, source
    <3> QED
      BY <1>1, <1>3, <2>1, <2>3, <2>5, <3>2, <3>3 DEF Bounded
  <2>6. CASE source.strategy # "exchanged"
    <3>1. Serves(t, r, source.audience)
      <4>1. CASE source.strategy = "inline"
        <5>1. made = InlineMint(c, source, r, reached)
          BY <4>1 DEF Derive
        <5> QED
          BY <2>4, <5>1, InlineServes
      <4>2. CASE source.strategy = "derived"
        <5>1. made = AssertionDerive(c, source, r, reached)
          BY <4>2 DEF Derive
        <5> QED
          BY <2>4, <5>1, AssertionServes
      <4>3. CASE source.strategy \notin {"inline", "derived"}
        <5>1. made = SessionDerive(source, r, reached)
          BY <2>3, <2>6, <4>3 DEF Derive, Strategies
        <5> QED
          BY <2>4, <5>1, SessionServes
      <4> QED
        BY <4>1, <4>2, <4>3
    <3> HIDE DEF t, access, source
    <3> QED
      BY <1>1, <1>3, <2>1, <2>3, <2>6, <3>1 DEF Bounded, Serves
  <2> QED
    BY <2>5, <2>6
<1> QED
  BY <1>2, <1>3

-----------------------------------------------------------------------------
(* Every grant is bounded.                                                  *)

\* Where a command has a request at hand.
Minting == {"ensure", "derive", "reauthorize", "again"}

CommandKept ==
  /\ command = [at |-> command.at, context |-> command.context,
                receipt |-> command.receipt, interactive |-> command.interactive,
                asked |-> command.asked, own |-> command.own, api |-> command.api,
                request |-> command.request, answer |-> command.answer]
  /\ command.context \in Contexts \cup {None}
  /\ context \in Contexts \cup {None} /\ later \in Contexts \cup {None}

\* A request at hand is one the policy let through, for the command's own
\* context: whatever the context on disk has become.
Screened ==
  command.at \in Minting =>
    Permitted(command.context, command.receipt, command.request)

GrantInv == CommandKept /\ Screened /\ GrantsBound

LEMMA InitGrantInv == Init => GrantInv
<1> SUFFICES ASSUME Init PROVE GrantInv
  OBVIOUS
<1>1. PICK w \in Worlds : context = w.context /\ later = w.later
  BY DEF Init
<1>2. command = NoCommand /\ grants = {}
  BY DEF Init
<1> QED
  BY <1>1, <1>2 DEF GrantInv, CommandKept, Screened, GrantsBound, NoCommand, Minting, Contexts

LEMMA NextGrantInv == GrantInv /\ [Next]_vars => GrantInv'
<1> SUFFICES ASSUME GrantInv, [Next]_vars PROVE GrantInv'
  OBVIOUS
<1> USE DEF GrantInv
<1>1. CASE Start
  BY <1>1 DEF Start, CommandKept, Screened, GrantsBound, NoCommand, Minting
<1>2. CASE Acquire
  <2>1. PICK r \in Requests :
          LET asked == IF command.context = None THEN r ELSE Defaulted(command.context, r)
              why == PolicyRefused(command, r)
              cmd == [command EXCEPT !.asked = @ + 1, !.request = asked]
          IN command' = IF why # None
                        THEN Answer(cmd, [denied |-> why, context |-> command.context,
                                          request |-> asked])
                        ELSE [cmd EXCEPT !.at =
                                IF Establishes(Source(command.context, asked))
                                THEN "ensure" ELSE "derive"]
    BY <1>2 DEF Acquire
  <2>2. UNCHANGED <<context, later, grants>>
    BY <1>2 DEF Acquire
  <2> DEFINE asked == IF command.context = None THEN r
                      ELSE Defaulted(command.context, r)
             why == PolicyRefused(command, r)
             at == IF Establishes(Source(command.context, asked)) THEN "ensure" ELSE "derive"
             answer == [denied |-> why, context |-> command.context, request |-> asked]
             count == command.asked + 1
  <2>3. command' = IF why # None
                   THEN [[command EXCEPT !.asked = count, !.request = asked]
                           EXCEPT !.at = "running", !.answer = answer]
                   ELSE [[command EXCEPT !.asked = count, !.request = asked] EXCEPT !.at = at]
    BY <2>1 DEF Answer
  <2>4. why = None => /\ command.context # None
                      /\ Permitted(command.context, command.receipt, asked)
    BY <2>1, Admitted DEF CommandKept
  <2> HIDE DEF asked, why, at, answer, count
  <2>5. CASE why # None
    BY <2>2, <2>3, <2>5 DEF CommandKept, Screened, GrantsBound, Minting
  <2>6. CASE why = None
    BY <2>2, <2>3, <2>4, <2>6 DEF CommandKept, Screened, GrantsBound
  <2> QED
    BY <2>5, <2>6
<1>3. ASSUME NEW code, Deny(code), UNCHANGED <<context, later>>
      PROVE  GrantInv'
  <2> DEFINE answer == [denied |-> code, context |-> command.context,
                        request |-> command.request]
  <2>1. command' = [command EXCEPT !.at = "running", !.answer = answer] /\ UNCHANGED grants
    BY <1>3 DEF Deny, Answer
  <2> HIDE DEF answer
  <2> QED
    BY <1>3, <2>1 DEF CommandKept, Screened, GrantsBound, Minting
<1>4. ASSUME command.at \in Minting, NEW at, command' = [command EXCEPT !.at = at],
             UNCHANGED <<context, later, grants>>
      PROVE  GrantInv'
  BY <1>4 DEF CommandKept, Screened, GrantsBound, Minting
<1>5. CASE EnsureSession
  <2>1. \/ \E code : Deny(code)
        \/ command' = [command EXCEPT !.at = "derive"] /\ UNCHANGED grants
    BY <1>5 DEF EnsureSession, Authorizes
  <2>2. command.at \in Minting /\ UNCHANGED <<context, later>>
    BY <1>5 DEF EnsureSession, Minting
  <2> QED
    BY <1>3, <1>4, <2>1, <2>2
<1>6. CASE Mint
  <2>1. command.at \in Minting /\ UNCHANGED <<context, later>>
    BY <1>6 DEF Mint, Minting
  <2>2. PICK reached :
          LET made == Derive(command.context, Source(command.context, command.request),
                             command.request, reached)
          IN \/ made.denied = None /\ Grant(made.answer.access)
             \/ command' = [command EXCEPT !.at = "reauthorize"] /\ UNCHANGED grants
             \/ Deny(made.denied)
    BY <1>6 DEF Mint
  <2> DEFINE made == Derive(command.context, Source(command.context, command.request),
                            command.request, reached)
  <2>3. CASE made.denied = None /\ Grant(made.answer.access)
    <3> DEFINE g == [context |-> command.context, receipt |-> command.receipt,
                     request |-> command.request, token |-> made.answer.access]
               own == command.own \/ command.request.record # "api"
               api == command.api \/ command.request.record = "api"
               answer == [denied |-> None]
    <3>1. Bounded(g)
      BY <2>1, <2>3, MintBounded DEF Screened
    <3>2. grants' = grants \cup {g}
      BY <2>3 DEF Grant
    <3>3. command' = [[command EXCEPT !.own = own, !.api = api]
                        EXCEPT !.at = "running", !.answer = answer]
      BY <2>3 DEF Grant, Answer
    <3> HIDE DEF g, own, api, answer, made
    <3>4. GrantsBound'
      BY <3>1, <3>2 DEF GrantsBound
    <3> QED
      BY <2>1, <3>3, <3>4 DEF CommandKept, Screened, Minting
  <2> QED
    BY <1>3, <1>4, <2>1, <2>2, <2>3
<1>7. CASE Reauthorize
  <2>1. \/ \E code : Deny(code)
        \/ command' = [command EXCEPT !.at = "again"] /\ UNCHANGED grants
    BY <1>7 DEF Reauthorize, Authorizes
  <2>2. command.at \in Minting /\ UNCHANGED <<context, later>>
    BY <1>7 DEF Reauthorize, Minting
  <2> QED
    BY <1>3, <1>4, <2>1, <2>2
<1>8. CASE End
  BY <1>8 DEF End, CommandKept, Screened, GrantsBound, NoCommand, Minting
<1>9. CASE Change
  BY <1>9 DEF Change, CommandKept, Screened, GrantsBound
<1>10. CASE LogIn \/ Expire \/ UNCHANGED vars
  <2>1. UNCHANGED <<context, later, command, grants>>
    BY <1>10 DEF LogIn, Expire, vars
  <2> QED
    BY <2>1 DEF CommandKept, Screened, GrantsBound
<1> QED
  BY <1>1, <1>2, <1>5, <1>6, <1>7, <1>8, <1>9, <1>10 DEF Next

\* Every token a module is handed is bound to what its context records for the
\* record asked, and carries the permissions asked for and no others (GrantsBound):
\* the answers of Acquire, however many commands and requests there are.
THEOREM GrantsAreBound == Spec => []GrantsBound
<1>1. Spec => []GrantInv
  BY InitGrantInv, NextGrantInv, PTL DEF Spec
<1> QED
  BY <1>1, PTL DEF GrantInv

-----------------------------------------------------------------------------
(* Where the sessions of a context are established.                         *)

\* A login's session is one of the login issuer's, for the product the login goes
\* through.
LEMMA LoginReached ==
  ASSUME NEW c
  PROVE  LET a == LoginAccess(c)
             ns == LoginNamespace(c)
         IN /\ a.issuer = c.issuer /\ a.client = c.client /\ a.ref = LoginRef(c)
            /\ ns # None =>
                 /\ a.scopes = c.products[ns].scopes
                 /\ a.resource = IF Derivation(c) = "token-resource"
                                 THEN c.products[ns].audience ELSE None
<1> DEFINE ns == LoginNamespace(c)
           record == IF ns = None THEN [audience |-> None, scopes |-> {}]
                     ELSE c.products[ns]
           key == Key(ns)
           ref == LoginRef(c)
           resource == IF Derivation(c) = "token-resource" THEN record.audience ELSE None
           bound == IF ns = None THEN None ELSE resource
           access == Reached(c, "direct", key, record, ref)
           a == IF ns = None THEN [access EXCEPT !.resource = None] ELSE access
<1>1. access = [strategy |-> "direct", key |-> key, issuer |-> c.issuer, issuerID |-> None,
                client |-> c.client, audience |-> record.audience, scopes |-> record.scopes,
                resource |-> resource, ref |-> ref]
  BY DEF Reached
<1>2. LoginAccess(c) = AtLoginIssuer(c, a)
  BY DEF LoginAccess
<1>3. ns # None => record = c.products[ns]
  OBVIOUS
<1>4. resource = IF Derivation(c) = "token-resource" THEN record.audience ELSE None
  OBVIOUS
<1>5. ref = LoginRef(c)
  OBVIOUS
<1> HIDE DEF record, key, ref, resource, access
<1>6. /\ a.issuer = c.issuer /\ a.client = c.client /\ a.ref = ref
      /\ ns # None => a.scopes = record.scopes /\ a.resource = resource
      /\ a = [strategy |-> a.strategy, key |-> a.key, issuer |-> a.issuer,
              issuerID |-> a.issuerID, client |-> a.client, audience |-> a.audience,
              scopes |-> a.scopes, resource |-> a.resource, ref |-> a.ref]
  BY <1>1
<1> HIDE DEF a
<1> QED
  BY <1>2, <1>6, <1>3, <1>4, <1>5, DeclaredIssuer

\* Whatever record of a legal context is reached, and not inline, it is reached
\* at an issuer the context names.
LEMMA IssuerNamed ==
  ASSUME NEW c, ValidContext(c), c.issuer # None, NEW key \in RecordKeys(c),
         c.kind = "client-credentials" => Access(c, key).strategy # "inline"
  PROVE  Access(c, key).issuer \in Issuers(c)
<1> DEFINE a == Access(c, key)
<1>1. PICK ns \in DOMAIN c.products :
        \/ key = Key(ns)
        \/ key = GatewayKey(ns)
  BY DEF RecordKeys
<1>2. key[1] = ns
  BY <1>1 DEF Key, GatewayKey
<1>3. ValidProduct(c.products[ns])
  BY DEF ValidContext, ValidAccount
<1>4. Direct(c.products[ns]) \/ c.products[ns].grant.kind \in LegalGrants
  BY <1>3 DEF ValidProduct, ValidGrant, Direct
<1>5. c.issuer \in Issuers(c)
  BY DEF Issuers
<1>6. CASE IsGatewayKey(key)
  <2>1. a = AtLoginIssuer(c, GatewayAccess(c, ns))
    BY <1>2, <1>6 DEF Access
  <2> HIDE DEF a
  <2> QED
    BY <1>5, <2>1, GatewayReached, DeclaredIssuer DEF Access9, a
<1>7. CASE ~IsGatewayKey(key) /\ c.kind = "client-credentials"
  <2>1. a = AtLoginIssuer(c, InlineAccess(c, ns))
    BY <1>2, <1>7 DEF Access
  <2>2. a.strategy # "inline"
    BY <1>7
  <2> HIDE DEF a
  <2> QED
    BY <2>1, <2>2, InlineReached, DeclaredIssuer DEF Access9
<1>8. CASE ~IsGatewayKey(key) /\ c.kind # "client-credentials"
  <2>1. a = AtLoginIssuer(c, ProductAccess(c, ns))
    BY <1>2, <1>8 DEF Access
  <2> DEFINE p == ProductAccess(c, ns)
  <2>2. /\ Access9(p)
        /\ \/ p.issuer = c.issuer
           \/ /\ ~Direct(c.products[ns]) /\ c.products[ns].grant.kind = "federated"
              /\ p.issuer = c.products[ns].grant.issuer
    BY <1>4, ProductReached
  <2>3. a.issuer = p.issuer
    BY <2>1, <2>2, DeclaredIssuer DEF Access9
  <2> HIDE DEF a, p
  <2>4. CASE p.issuer = c.issuer
    BY <1>5, <2>3, <2>4 DEF a
  <2>5. CASE p.issuer # c.issuer
    <3>1. ~Direct(c.products[ns]) /\ c.products[ns].grant.kind = "federated"
          /\ p.issuer = c.products[ns].grant.issuer
      BY <2>2, <2>5
    <3>2. c.products[ns].grant # None /\ ValidGrant(c.products[ns].grant)
      BY <1>3, <3>1 DEF ValidProduct, Direct
    <3>3. c.products[ns].grant.issuer # None
      BY <3>1, <3>2 DEF ValidGrant, SecureURL
    <3>4. p.issuer \in Issuers(c)
      BY <3>1, <3>2, <3>3 DEF Issuers
    <3> QED
      BY <2>3, <3>4 DEF a
  <2> QED
    BY <2>4, <2>5
<1> QED
  BY <1>6, <1>7, <1>8

-----------------------------------------------------------------------------
(* What an issuer keeps.                                                    *)

Drawn(s) ==
  /\ s = [url |-> s.url, opts |-> s.opts, minted |-> s.minted, codes |-> s.codes,
          refreshTokens |-> s.refreshTokens, deviceGrants |-> s.deviceGrants,
          accessTokens |-> s.accessTokens, idTokens |-> s.idTokens]
  /\ Answers(s.opts)
  /\ s.minted \in Nat
  /\ \A n \in DOMAIN s.refreshTokens : n \in Nat /\ n <= s.minted

\* From s to t no refresh token is retired, and each is worth what it was.
Keeps(s, t) ==
  /\ Drawn(t)
  /\ s.minted <= t.minted
  /\ DOMAIN s.refreshTokens \subseteq DOMAIN t.refreshTokens
  /\ \A n \in DOMAIN s.refreshTokens : t.refreshTokens[n] = s.refreshTokens[n]

\* A refresh token minted on the way is one that t honours, for the scopes of the
\* access it came with, and s never minted.
Fresh(s, t, a) ==
  a.ok /\ a.refresh # None =>
    /\ a.refresh \in DOMAIN t.refreshTokens /\ s.minted < a.refresh
    /\ t.refreshTokens[a.refresh].scopes = a.access.scopes

\* Whatever else of an issuer changes, its refresh tokens are kept.
LEMMA Aside ==
  ASSUME NEW s, Drawn(s), NEW n \in Nat, s.minted <= n, NEW codes, NEW devices,
         NEW accesses, NEW ids, NEW t,
         t = [url |-> s.url, opts |-> s.opts, minted |-> n, codes |-> codes,
              refreshTokens |-> s.refreshTokens, deviceGrants |-> devices,
              accessTokens |-> accesses, idTokens |-> ids]
  PROVE  Keeps(s, t)
  BY DEF Drawn, Keeps

\* A refresh token minted beside the others.
LEMMA Minted ==
  ASSUME NEW s, Drawn(s), NEW record
  PROVE  LET t == D!MintRefresh(s, record)
         IN /\ Keeps(s, t)
            /\ s.minted + 1 \in DOMAIN t.refreshTokens /\ s.minted < s.minted + 1
            /\ DOMAIN t.refreshTokens = DOMAIN s.refreshTokens \cup {s.minted + 1}
            /\ t.refreshTokens[s.minted + 1] = record
<1> DEFINE n == s.minted + 1
           kept == D!With(s.refreshTokens, n, record)
           t == D!MintRefresh(s, record)
<1>1. t = [s EXCEPT !.minted = n, !.refreshTokens = kept]
  BY DEF D!MintRefresh
<1>2. /\ DOMAIN kept = DOMAIN s.refreshTokens \cup {n} /\ kept[n] = record
      /\ \A k \in DOMAIN s.refreshTokens \ {n} : kept[k] = s.refreshTokens[k]
  <2> HIDE DEF n
  <2> QED
    BY DEF D!With
<1>3. n \in Nat /\ s.minted < n /\ n \notin DOMAIN s.refreshTokens
  BY DEF Drawn
<1> HIDE DEF n, kept, t
<1>4. t = [url |-> s.url, opts |-> s.opts, minted |-> n, codes |-> s.codes,
           refreshTokens |-> kept, deviceGrants |-> s.deviceGrants,
           accessTokens |-> s.accessTokens, idTokens |-> s.idTokens]
  BY <1>1 DEF Drawn
<1> QED
  BY <1>2, <1>3, <1>4 DEF Drawn, Keeps, n, t

LEMMA KeepsOn ==
  ASSUME NEW s, NEW t, NEW u, Drawn(s), Keeps(s, t), Keeps(t, u)
  PROVE  /\ Keeps(s, u)
         /\ \A a : Fresh(t, u, a) => Fresh(s, u, a)
<1>1. s.minted \in Nat /\ t.minted \in Nat /\ u.minted \in Nat
  BY DEF Keeps, Drawn
<1>2. \A n \in DOMAIN u.refreshTokens : n \in Nat
  BY DEF Keeps, Drawn
<1> QED
  BY <1>1, <1>2 DEF Keeps, Fresh

LEMMA KeepsSelf == ASSUME NEW s, Drawn(s) PROVE Keeps(s, s)
  BY DEF Keeps, Drawn

LEMMA AuthorizeKeeps ==
  ASSUME NEW s, Drawn(s), NEW r
  PROVE  Keeps(s, D!HandleAuthorize(s, r).issuer)
<1> DEFINE h == D!HandleAuthorize(s, r)
           code == s.minted + 1
           codes == D!With(s.codes, code,
                      [challenge |-> r.challenge, scopes |-> r.scopes, port |-> r.port,
                       nonce |-> r.nonce, client |-> r.client, resource |-> r.resource])
           t == [s EXCEPT !.minted = code, !.codes = codes]
<1> DEFINE refused == r.client = None \/ ~D!AcceptsRedirect(r.port) \/ r.challenge = None
           unbound == \/ s.opts.requireResource /\ r.resource = None
                      \/ /\ s.opts.registeredResource # None
                         /\ r.resource # s.opts.registeredResource
<1>1. h.issuer = s \/ h.issuer = t
  <2>1. CASE refused
    <3>1. h = D!Answered(s, None)
      BY <2>1 DEF D!HandleAuthorize
    <3> QED
      BY <3>1 DEF D!Answered
  <2>2. CASE ~refused /\ unbound
    <3>1. h = D!Redirected(s, r, None, "invalid_target")
      BY <2>2 DEF D!HandleAuthorize
    <3> QED
      BY <3>1 DEF D!Answered, D!Redirected
  <2>3. CASE ~refused /\ ~unbound
    <3>1. h = D!Redirected(t, r, code, None)
      BY <2>3 DEF D!HandleAuthorize
    <3> HIDE DEF t
    <3> QED
      BY <3>1 DEF D!Answered, D!Redirected
  <2> QED
    BY <2>1, <2>2, <2>3
<1>2. code \in Nat /\ s.minted <= code
  BY DEF Drawn
<1>3. s = [url |-> s.url, opts |-> s.opts, minted |-> s.minted, codes |-> s.codes,
           refreshTokens |-> s.refreshTokens, deviceGrants |-> s.deviceGrants,
           accessTokens |-> s.accessTokens, idTokens |-> s.idTokens]
  BY DEF Drawn
<1>4. t = [s EXCEPT !.minted = code, !.codes = codes]
  OBVIOUS
<1> HIDE DEF h, code, codes, t
<1>5. t = [url |-> s.url, opts |-> s.opts, minted |-> code, codes |-> codes,
           refreshTokens |-> s.refreshTokens, deviceGrants |-> s.deviceGrants,
           accessTokens |-> s.accessTokens, idTokens |-> s.idTokens]
  BY <1>3, <1>4
<1>6. Keeps(s, t)
  BY <1>2, <1>5, Aside
<1> QED
  BY <1>1, <1>6, KeepsSelf DEF h

\* A code redeemed or spent retires nothing.
LEMMA CodeKeeps ==
  ASSUME NEW s, Drawn(s), NEW r
  PROVE  LET h == D!ExchangeCode(s, r)
         IN Keeps(s, h.issuer) /\ Fresh(s, h.issuer, h.answer)
<1> DEFINE h == D!ExchangeCode(s, r)
           codes == D!Without(s.codes, r.code)
           g == s.codes[r.code]
           unknown == \/ r.code \notin DOMAIN s.codes
                      \/ g.client # r.client \/ g.port # r.port \/ g.challenge # r.verifier
           access == D!Access(s, "user-1", g.scopes, g.resource)
           id == D!IDToken(s, g.client, g.nonce, g.scopes)
           spent == [s EXCEPT !.codes = codes]
           minted == [spent EXCEPT !.accessTokens = @ \cup {access},
                                   !.idTokens = @ \cup {id}]
           record == [scopes |-> g.scopes, resource |-> g.resource]
           accesses == s.accessTokens \cup {access}
           ids == s.idTokens \cup {id}
           n == s.minted + 1
<1>1. s = [url |-> s.url, opts |-> s.opts, minted |-> s.minted, codes |-> s.codes,
           refreshTokens |-> s.refreshTokens, deviceGrants |-> s.deviceGrants,
           accessTokens |-> s.accessTokens, idTokens |-> s.idTokens]
  BY DEF Drawn
<1>2. s.minted \in Nat /\ s.minted <= s.minted
  BY DEF Drawn
<1>3. spent = [s EXCEPT !.codes = codes]
  OBVIOUS
<1>4. Keeps(s, spent)
  <2> HIDE DEF codes, spent
  <2>1. spent = [url |-> s.url, opts |-> s.opts, minted |-> s.minted, codes |-> codes,
                 refreshTokens |-> s.refreshTokens, deviceGrants |-> s.deviceGrants,
                 accessTokens |-> s.accessTokens, idTokens |-> s.idTokens]
    BY <1>1, <1>3
  <2> QED
    BY <1>2, <2>1, Aside
<1>5. Keeps(s, minted) /\ minted.minted = s.minted
  <2>1. minted = [url |-> s.url, opts |-> s.opts, minted |-> s.minted, codes |-> codes,
                  refreshTokens |-> s.refreshTokens, deviceGrants |-> s.deviceGrants,
                  accessTokens |-> accesses, idTokens |-> ids]
    <3> HIDE DEF codes, access, id
    <3>1. spent = [url |-> s.url, opts |-> s.opts, minted |-> s.minted, codes |-> codes,
                   refreshTokens |-> s.refreshTokens, deviceGrants |-> s.deviceGrants,
                   accessTokens |-> s.accessTokens, idTokens |-> s.idTokens]
      BY <1>1, <1>3
    <3>2. spent.accessTokens = s.accessTokens /\ spent.idTokens = s.idTokens
      BY <3>1
    <3>3. minted = [spent EXCEPT !.accessTokens = accesses, !.idTokens = ids]
      BY <3>2
    <3> HIDE DEF spent, accesses, ids, minted
    <3> QED
      BY <3>1, <3>3
  <2> HIDE DEF codes, accesses, ids, minted
  <2> QED
    BY <1>2, <2>1, Aside
<1>6. CASE unknown
  <2>1. h = D!OAuthError(spent, "invalid_grant")
    BY <1>6 DEF D!ExchangeCode
  <2> HIDE DEF spent, unknown
  <2>2. h.issuer = spent /\ h.answer.ok = FALSE
    BY <2>1 DEF D!OAuthError, D!Answered
  <2> HIDE DEF h
  <2> QED
    BY <1>4, <2>2 DEF Fresh, h
<1>7. CASE ~unknown /\ s.opts.omitRefreshToken
  <2>1. h = D!Answered(minted, D!Tokens(access, None, id, g.scopes))
    BY <1>7 DEF D!ExchangeCode
  <2> HIDE DEF minted, unknown, access, id
  <2>2. h.issuer = minted /\ h.answer.refresh = None
    BY <2>1 DEF D!Tokens, D!Answered
  <2> HIDE DEF h
  <2> QED
    BY <1>5, <2>2 DEF Fresh, h
<1>8. CASE ~unknown /\ ~s.opts.omitRefreshToken
  <2> DEFINE t == D!MintRefresh(minted, record)
  <2>1. h = D!Answered(t, D!Tokens(access, n, id, g.scopes))
    BY <1>8 DEF D!ExchangeCode
  <2> HIDE DEF minted, unknown, access, id, record, t
  <2>2. h.issuer = t /\ h.answer.refresh = n /\ h.answer.access = access
    BY <2>1 DEF D!Tokens, D!Answered
  <2>3. /\ Keeps(minted, t)
        /\ minted.minted + 1 \in DOMAIN t.refreshTokens /\ minted.minted < minted.minted + 1
        /\ t.refreshTokens[minted.minted + 1] = record
    BY <1>5, Minted DEF Keeps, t
  <2>4. record.scopes = access.scopes
    BY DEF record, access, D!Access
  <2>5. Keeps(s, t)
    BY <1>5, <2>3, KeepsOn
  <2> HIDE DEF h
  <2> QED
    BY <1>5, <2>2, <2>3, <2>5, <2>4 DEF Fresh, h
<1> QED
  BY <1>6, <1>7, <1>8

LEMMA DeviceAuthorizeKeeps ==
  ASSUME NEW s, Drawn(s), NEW r
  PROVE  LET h == D!HandleDeviceAuthorize(s, r)
         IN /\ Keeps(s, h.issuer)
            /\ h.answer.ok =>
                 LET g == h.issuer.deviceGrants[h.answer.device]
                 IN g.pending \in Nat /\ g.slowDown \in Nat /\ g.scopes = r.scopes
<1> DEFINE h == D!HandleDeviceAuthorize(s, r)
           n == s.minted + 1
           devices == D!With(s.deviceGrants, n,
                        [scopes |-> r.scopes, client |-> r.client,
                         pending |-> s.opts.pending, slowDown |-> s.opts.slowDown,
                         redeemed |-> FALSE])
           t == [s EXCEPT !.minted = n, !.deviceGrants = devices]
           answer == [ok |-> TRUE, device |-> n, interval |-> s.opts.interval]
<1>1. s = [url |-> s.url, opts |-> s.opts, minted |-> s.minted, codes |-> s.codes,
           refreshTokens |-> s.refreshTokens, deviceGrants |-> s.deviceGrants,
           accessTokens |-> s.accessTokens, idTokens |-> s.idTokens]
  BY DEF Drawn
<1>2. n \in Nat /\ s.minted <= n
  BY DEF Drawn
<1>3. \/ h.issuer = s /\ ~h.answer.ok
      \/ h.issuer = t /\ h.answer = answer
  <2>1. CASE s.opts.omitDevice \/ r.client = None
    BY <2>1 DEF D!HandleDeviceAuthorize, D!OAuthError, D!Answered
  <2>2. CASE ~(s.opts.omitDevice \/ r.client = None)
    <3>1. h = D!Answered(t, answer)
      BY <2>2 DEF D!HandleDeviceAuthorize
    <3> HIDE DEF t
    <3> QED
      BY <3>1 DEF D!Answered
  <2> QED
    BY <2>1, <2>2
<1>4. t = [s EXCEPT !.minted = n, !.deviceGrants = devices]
  OBVIOUS
<1>5. /\ devices[n].pending = s.opts.pending /\ devices[n].slowDown = s.opts.slowDown
      /\ devices[n].scopes = r.scopes
  <2> DEFINE g == [scopes |-> r.scopes, client |-> r.client,
                   pending |-> s.opts.pending, slowDown |-> s.opts.slowDown,
                   redeemed |-> FALSE]
  <2>1. /\ g.pending = s.opts.pending /\ g.slowDown = s.opts.slowDown
        /\ g.scopes = r.scopes
    OBVIOUS
  <2>2. devices = D!With(s.deviceGrants, n, g)
    OBVIOUS
  <2> HIDE DEF g, n, devices
  <2>3. devices[n] = g
    BY <2>2 DEF D!With
  <2> QED
    BY <2>1, <2>3
<1>6. answer.device = n
  OBVIOUS
<1> HIDE DEF h, n, devices, t, answer
<1>7. t = [url |-> s.url, opts |-> s.opts, minted |-> n, codes |-> s.codes,
           refreshTokens |-> s.refreshTokens, deviceGrants |-> devices,
           accessTokens |-> s.accessTokens, idTokens |-> s.idTokens]
  BY <1>1, <1>4
<1>8. Keeps(s, t)
  BY <1>2, <1>7, Aside
<1>9. /\ t.deviceGrants[n].pending \in Nat /\ t.deviceGrants[n].slowDown \in Nat
      /\ t.deviceGrants[n].scopes = r.scopes
  BY <1>5, <1>7 DEF Drawn, Answers
<1> QED
  BY <1>3, <1>6, <1>8, <1>9, KeepsSelf DEF h

LEMMA ApprovedKeeps ==
  ASSUME NEW s, Drawn(s), NEW device, NEW g
  PROVE  LET h == D!Approved(s, device, g)
         IN Keeps(s, h.issuer) /\ Fresh(s, h.issuer, h.answer)
<1> DEFINE h == D!Approved(s, device, g)
           access == D!Access(s, "user-1", g.scopes, None)
           audience == IF s.opts.deviceAudience # None
                       THEN s.opts.deviceAudience ELSE g.client
           id == IF s.opts.omitDeviceIDToken THEN None
                 ELSE D!IDToken(s, audience, None, g.scopes)
           devices == [s.deviceGrants EXCEPT ![device].redeemed = TRUE]
           accesses == s.accessTokens \cup {access}
           ids == s.idTokens \cup ({id} \ {None})
           redeemed == [s EXCEPT !.deviceGrants = devices, !.accessTokens = accesses,
                                 !.idTokens = ids]
           record == [scopes |-> g.scopes, resource |-> None]
           t == D!MintRefresh(redeemed, record)
           n == s.minted + 1
<1>1. s = [url |-> s.url, opts |-> s.opts, minted |-> s.minted, codes |-> s.codes,
           refreshTokens |-> s.refreshTokens, deviceGrants |-> s.deviceGrants,
           accessTokens |-> s.accessTokens, idTokens |-> s.idTokens]
  BY DEF Drawn
<1>2. s.minted \in Nat /\ s.minted <= s.minted
  BY DEF Drawn
<1>3. h = IF s.opts.omitDeviceRefresh
          THEN D!Answered(redeemed, D!Tokens(access, None, id, g.scopes))
          ELSE D!Answered(t, D!Tokens(access, n, id, g.scopes))
  BY DEF D!Approved
<1>4. record.scopes = access.scopes
  BY DEF D!Access
<1>5. redeemed = [s EXCEPT !.deviceGrants = devices, !.accessTokens = accesses,
                           !.idTokens = ids]
  OBVIOUS
<1> HIDE DEF h, access, id, devices, accesses, ids, redeemed, record, t
<1>6. redeemed = [url |-> s.url, opts |-> s.opts, minted |-> s.minted, codes |-> s.codes,
                  refreshTokens |-> s.refreshTokens, deviceGrants |-> devices,
                  accessTokens |-> accesses, idTokens |-> ids]
  BY <1>1, <1>5
<1>7. Keeps(s, redeemed) /\ redeemed.minted = s.minted
  BY <1>2, <1>6, Aside
<1>8. /\ Keeps(redeemed, t)
      /\ n \in DOMAIN t.refreshTokens /\ s.minted < n
      /\ t.refreshTokens[n] = record
  BY <1>7, Minted DEF Keeps, t
<1>9. Keeps(s, t)
  BY <1>7, <1>8, KeepsOn
<1>10. \/ h.issuer = redeemed /\ h.answer.refresh = None
       \/ h.issuer = t /\ h.answer.refresh = n /\ h.answer.access = access
  BY <1>3 DEF D!Tokens, D!Answered
<1> QED
  BY <1>4, <1>7, <1>8, <1>9, <1>10 DEF Fresh, h

\* A poll that is not answered with tokens draws down what it was told to wait.
LEMMA DeviceKeeps ==
  ASSUME NEW s, Drawn(s), NEW r,
         s.deviceGrants[r.device].pending \in Nat, s.deviceGrants[r.device].slowDown \in Nat
  PROVE  LET h == D!DeviceGrant(s, r)
         IN Keeps(s, h.issuer) /\ Fresh(s, h.issuer, h.answer)
<1> DEFINE h == D!DeviceGrant(s, r)
           g == s.deviceGrants[r.device]
           slowed == D!With(s.deviceGrants, r.device, [g EXCEPT !["slowDown"] = @ - 1])
           waited == D!With(s.deviceGrants, r.device, [g EXCEPT !["pending"] = @ - 1])
           spent == r.device \notin DOMAIN s.deviceGrants \/ g.redeemed
<1>1. s = [url |-> s.url, opts |-> s.opts, minted |-> s.minted, codes |-> s.codes,
           refreshTokens |-> s.refreshTokens, deviceGrants |-> s.deviceGrants,
           accessTokens |-> s.accessTokens, idTokens |-> s.idTokens]
  BY DEF Drawn
<1>2. s.minted \in Nat /\ s.minted <= s.minted
  BY DEF Drawn
<1>3. ASSUME NEW devices
      PROVE  Keeps(s, [s EXCEPT !.deviceGrants = devices])
  <2> DEFINE t == [s EXCEPT !.deviceGrants = devices]
  <2>1. t = [url |-> s.url, opts |-> s.opts, minted |-> s.minted, codes |-> s.codes,
             refreshTokens |-> s.refreshTokens, deviceGrants |-> devices,
             accessTokens |-> s.accessTokens, idTokens |-> s.idTokens]
    BY <1>1
  <2> HIDE DEF t
  <2>2. Keeps(s, t)
    BY <1>2, <2>1, Aside
  <2> QED
    BY <2>2 DEF t
<1>4. ASSUME NEW t, Keeps(s, t), NEW code, h = D!OAuthError(t, code)
      PROVE  Keeps(s, h.issuer) /\ Fresh(s, h.issuer, h.answer)
  <2>1. h.issuer = t /\ h.answer.ok = FALSE
    BY <1>4 DEF D!OAuthError, D!Answered
  <2> HIDE DEF h
  <2> QED
    BY <1>4, <2>1 DEF Fresh
<1>5. CASE spent
  <2>1. h = D!OAuthError(s, "invalid_grant")
    BY <1>5 DEF D!DeviceGrant
  <2> QED
    BY <1>4, <2>1, KeepsSelf
<1>6. CASE ~spent /\ g.slowDown > 0
  <2> DEFINE t == [s EXCEPT !.deviceGrants = slowed]
  <2>1. h = D!OAuthError(t, "slow_down")
    BY <1>6 DEF D!DeviceGrant
  <2>2. Keeps(s, t)
    BY <1>3
  <2> HIDE DEF t, h
  <2> QED
    BY <1>4, <2>1, <2>2 DEF h
<1>7. CASE ~spent /\ g.slowDown = 0 /\ g.pending > 0
  <2> DEFINE t == [s EXCEPT !.deviceGrants = waited]
  <2>1. h = D!OAuthError(t, "authorization_pending")
    BY <1>7 DEF D!DeviceGrant
  <2>2. Keeps(s, t)
    BY <1>3
  <2> HIDE DEF t, h
  <2> QED
    BY <1>4, <2>1, <2>2 DEF h
<1>8. CASE ~spent /\ g.slowDown = 0 /\ g.pending = 0
  <2>1. s.opts.deviceOutcome \in {"deny", "expire", "approve"}
    BY DEF Drawn, Answers
  <2>2. CASE s.opts.deviceOutcome = "deny"
    <3>1. h = D!OAuthError(s, "access_denied")
      BY <1>8, <2>2 DEF D!DeviceGrant
    <3> QED
      BY <1>4, <3>1, KeepsSelf
  <2>3. CASE s.opts.deviceOutcome = "expire"
    <3>1. h = D!OAuthError(s, "expired_token")
      BY <1>8, <2>3 DEF D!DeviceGrant
    <3> QED
      BY <1>4, <3>1, KeepsSelf
  <2>4. CASE s.opts.deviceOutcome = "approve"
    <3>1. h = D!Approved(s, r.device, g)
      BY <1>8, <2>4 DEF D!DeviceGrant
    <3> HIDE DEF g, h
    <3> QED
      BY <3>1, ApprovedKeeps DEF h
  <2> QED
    BY <2>1, <2>2, <2>3, <2>4
<1>9. g.slowDown > 0 \/ (g.slowDown = 0 /\ (g.pending > 0 \/ g.pending = 0))
  <2> HIDE DEF g
  <2>1. g.slowDown \in Nat /\ g.pending \in Nat
    BY DEF g
  <2> QED
    BY <2>1
<1> QED
  BY <1>5, <1>6, <1>7, <1>8, <1>9

\* A device that is answered with tokens is given the scopes it asked for.
LEMMA DeviceCarries ==
  ASSUME NEW s, Drawn(s), NEW r,
         s.deviceGrants[r.device].pending \in Nat, s.deviceGrants[r.device].slowDown \in Nat
  PROVE  LET h == D!DeviceGrant(s, r)
         IN h.answer.ok => h.answer.access.scopes = s.deviceGrants[r.device].scopes
<1> DEFINE h == D!DeviceGrant(s, r)
           g == s.deviceGrants[r.device]
           spent == r.device \notin DOMAIN s.deviceGrants \/ g.redeemed
           slowed == D!With(s.deviceGrants, r.device, [g EXCEPT !["slowDown"] = @ - 1])
           waited == D!With(s.deviceGrants, r.device, [g EXCEPT !["pending"] = @ - 1])
           approved == D!Approved(s, r.device, g)
<1> SUFFICES h.answer.ok => h.answer.access.scopes = g.scopes
  OBVIOUS
<1>1. ASSUME NEW t, NEW code, h = D!OAuthError(t, code) PROVE ~h.answer.ok
  BY <1>1 DEF D!OAuthError, D!Answered
<1>2. approved.answer.access.scopes = g.scopes
  <2> DEFINE access == D!Access(s, "user-1", g.scopes, None)
             audience == IF s.opts.deviceAudience # None
                         THEN s.opts.deviceAudience ELSE g.client
             id == IF s.opts.omitDeviceIDToken THEN None
                   ELSE D!IDToken(s, audience, None, g.scopes)
             n == s.minted + 1
  <2>1. \/ \E t : approved = D!Answered(t, D!Tokens(access, None, id, g.scopes))
        \/ \E t : approved = D!Answered(t, D!Tokens(access, n, id, g.scopes))
    BY DEF D!Approved
  <2>2. access.scopes = g.scopes
    BY DEF D!Access
  <2> HIDE DEF approved, access, id, g, n
  <2> QED
    BY <2>1, <2>2 DEF D!Answered, D!Tokens
<1>3. g.slowDown > 0 \/ (g.slowDown = 0 /\ (g.pending > 0 \/ g.pending = 0))
  <2> HIDE DEF g
  <2>1. g.slowDown \in Nat /\ g.pending \in Nat
    BY DEF g
  <2> QED
    BY <2>1
<1>4. CASE spent
  BY <1>1, <1>4 DEF D!DeviceGrant
<1>5. CASE ~spent /\ g.slowDown > 0
  <2> DEFINE t == [s EXCEPT !.deviceGrants = slowed]
  <2>1. h = D!OAuthError(t, "slow_down")
    BY <1>5 DEF D!DeviceGrant
  <2> HIDE DEF h, t
  <2> QED
    BY <1>1, <2>1
<1>6. CASE ~spent /\ g.slowDown = 0 /\ g.pending > 0
  <2> DEFINE t == [s EXCEPT !.deviceGrants = waited]
  <2>1. h = D!OAuthError(t, "authorization_pending")
    BY <1>6 DEF D!DeviceGrant
  <2> HIDE DEF h, t
  <2> QED
    BY <1>1, <2>1
<1>7. CASE ~spent /\ g.slowDown = 0 /\ g.pending = 0
  <2>1. s.opts.deviceOutcome \in {"deny", "expire", "approve"}
    BY DEF Drawn, Answers
  <2>2. \/ h = D!OAuthError(s, "access_denied")
        \/ h = D!OAuthError(s, "expired_token")
        \/ h = approved
    BY <1>7, <2>1 DEF D!DeviceGrant
  <2> HIDE DEF h, approved, g
  <2> QED
    BY <1>1, <1>2, <2>2
<1> QED
  BY <1>3, <1>4, <1>5, <1>6, <1>7

\* So is whoever redeems the code of the redirect it asked for.
LEMMA CodeCarries ==
  ASSUME NEW s, Drawn(s), NEW q, q.client # None, q.port \in RegisteredPorts,
         q.challenge # None, D!HandleAuthorize(s, q).answer.error = None
  PROVE  LET redirect == D!HandleAuthorize(s, q)
             made == D!ExchangeCode(redirect.issuer,
                       [client |-> q.client, code |-> redirect.answer.code,
                        port |-> redirect.answer.port, verifier |-> q.challenge])
         IN made.answer.access.scopes = q.scopes
<1> DEFINE redirect == D!HandleAuthorize(s, q)
           code == s.minted + 1
           g == [challenge |-> q.challenge, scopes |-> q.scopes, port |-> q.port,
                 nonce |-> q.nonce, client |-> q.client, resource |-> q.resource]
           codes == D!With(s.codes, code, g)
           t == [s EXCEPT !.minted = code, !.codes = codes]
           r == [client |-> q.client, code |-> code, port |-> q.port,
                 verifier |-> q.challenge]
           made == D!ExchangeCode(t, r)
           unbound == \/ s.opts.requireResource /\ q.resource = None
                      \/ /\ s.opts.registeredResource # None
                         /\ q.resource # s.opts.registeredResource
<1>1. redirect.issuer = t /\ redirect.answer.code = code /\ redirect.answer.port = q.port
  <2>1. D!AcceptsRedirect(q.port)
    BY DEF D!AcceptsRedirect
  <2>2. CASE unbound
    <3>1. redirect = D!Redirected(s, q, None, "invalid_target")
      BY <2>1, <2>2 DEF D!HandleAuthorize
    <3>2. redirect.answer.error = "invalid_target"
      BY <3>1 DEF D!Redirected, D!Answered
    <3> QED
      BY <3>2, BrokerAssumption
  <2>3. CASE ~unbound
    <3>1. redirect = D!Redirected(t, q, code, None)
      BY <2>1, <2>3 DEF D!HandleAuthorize
    <3> HIDE DEF redirect, t, code
    <3> QED
      BY <3>1 DEF D!Redirected, D!Answered
  <2> QED
    BY <2>2, <2>3
<1>2. code \in DOMAIN t.codes /\ t.codes[code] = g
  <2>1. s = [url |-> s.url, opts |-> s.opts, minted |-> s.minted, codes |-> s.codes,
             refreshTokens |-> s.refreshTokens, deviceGrants |-> s.deviceGrants,
             accessTokens |-> s.accessTokens, idTokens |-> s.idTokens]
    BY DEF Drawn
  <2>2. code \in DOMAIN codes /\ codes[code] = g
    <3> HIDE DEF code, g
    <3> QED
      BY DEF D!With
  <2>3. t = [s EXCEPT !.minted = code, !.codes = codes]
    OBVIOUS
  <2> HIDE DEF code, g, codes, t
  <2> QED
    BY <2>1, <2>2, <2>3
<1>3. g.client = q.client /\ g.port = q.port /\ g.challenge = q.challenge /\ g.scopes = q.scopes
  OBVIOUS
<1>4. /\ r.client = q.client /\ r.code = code /\ r.port = q.port
      /\ r.verifier = q.challenge
  OBVIOUS
<1> HIDE DEF t, g, codes, r, code
<1>5. made.answer.access.scopes = q.scopes
  <2> DEFINE access == D!Access(t, "user-1", g.scopes, g.resource)
             id == D!IDToken(t, g.client, g.nonce, g.scopes)
             n == t.minted + 1
  <2>1. \/ \E u : made = D!Answered(u, D!Tokens(access, None, id, g.scopes))
        \/ \E u : made = D!Answered(u, D!Tokens(access, n, id, g.scopes))
    BY <1>2, <1>3, <1>4 DEF D!ExchangeCode
  <2>2. access.scopes = g.scopes
    BY DEF D!Access
  <2> HIDE DEF made, access, id, n
  <2> QED
    BY <1>3, <2>1, <2>2 DEF D!Answered, D!Tokens
<1> QED
  BY <1>1, <1>5 DEF r, made

\* The grants that store nothing.
LEMMA TokenKeeps ==
  ASSUME NEW s, Drawn(s), NEW trusted, NEW r
  PROVE  /\ Keeps(s, D!ClientCredentialsGrant(s, r).issuer)
         /\ Keeps(s, D!ExchangeGrant(s, r).issuer)
         /\ Keeps(s, D!BearerGrant(s, trusted, r).issuer)
<1>1. s = [url |-> s.url, opts |-> s.opts, minted |-> s.minted, codes |-> s.codes,
           refreshTokens |-> s.refreshTokens, deviceGrants |-> s.deviceGrants,
           accessTokens |-> s.accessTokens, idTokens |-> s.idTokens]
  BY DEF Drawn
<1>2. s.minted \in Nat /\ s.minted <= s.minted /\ s.minted + 1 \in Nat
      /\ s.minted <= s.minted + 1
  BY DEF Drawn
<1>3. ASSUME NEW accesses
      PROVE  /\ Keeps(s, [s EXCEPT !.accessTokens = accesses])
             /\ Keeps(s, [s EXCEPT !.accessTokens = accesses, !.minted = s.minted + 1])
  <2> DEFINE n == s.minted + 1
             t == [s EXCEPT !.accessTokens = accesses]
             u == [s EXCEPT !.accessTokens = accesses, !.minted = n]
  <2>1. u = [s EXCEPT !.accessTokens = accesses, !.minted = n]
    OBVIOUS
  <2>2. n \in Nat /\ s.minted <= n
    BY <1>2
  <2> HIDE DEF n
  <2>3. t = [url |-> s.url, opts |-> s.opts, minted |-> s.minted, codes |-> s.codes,
             refreshTokens |-> s.refreshTokens, deviceGrants |-> s.deviceGrants,
             accessTokens |-> accesses, idTokens |-> s.idTokens]
    BY <1>1
  <2>4. u = [url |-> s.url, opts |-> s.opts, minted |-> n, codes |-> s.codes,
             refreshTokens |-> s.refreshTokens, deviceGrants |-> s.deviceGrants,
             accessTokens |-> accesses, idTokens |-> s.idTokens]
    <3> HIDE DEF u
    <3> QED
      BY <1>1, <2>1
  <2> HIDE DEF t, u
  <2>5. Keeps(s, t)
    BY <1>2, <2>3, Aside
  <2>6. Keeps(s, u)
    BY <2>2, <2>4, Aside
  <2> QED
    BY <2>5, <2>6 DEF t, u, n
<1>4. Keeps(s, s)
  BY KeepsSelf
<1>5. Keeps(s, D!ClientCredentialsGrant(s, r).issuer)
  <2> DEFINE h == D!ClientCredentialsGrant(s, r)
             issued == IF s.opts.clientMode = "ignore" THEN s.opts.clientScopes ELSE r.scopes
             access == D!Access(s, "client-1", issued, r.resource)
             accesses == s.accessTokens \cup {access}
             t == [s EXCEPT !.accessTokens = accesses]
  <2>1. \/ \E code : h = D!OAuthError(s, code)
        \/ h = D!Answered(t, D!Tokens(access, None, None, issued))
    BY DEF D!ClientCredentialsGrant
  <2>2. Keeps(s, t)
    BY <1>3
  <2> HIDE DEF h, issued, access, t
  <2>3. h.issuer = s \/ h.issuer = t
    BY <2>1 DEF D!OAuthError, D!Answered
  <2> QED
    BY <1>4, <2>2, <2>3 DEF h
<1>6. Keeps(s, D!ExchangeGrant(s, r).issuer)
  <2> DEFINE h == D!ExchangeGrant(s, r)
             audience == IF s.opts.exchangeAudience # None
                         THEN s.opts.exchangeAudience ELSE r.resource
             access == D!Access(s, "user-1", {D!OpenID}, audience)
             accesses == s.accessTokens \cup {access}
             t == [s EXCEPT !.accessTokens = accesses]
  <2>1. \/ \E code : h = D!OAuthError(s, code)
        \/ h = D!Answered(t, D!Tokens(access, None, None, {D!OpenID}))
    BY DEF D!ExchangeGrant
  <2>2. Keeps(s, t)
    BY <1>3
  <2> HIDE DEF h, access, t
  <2>3. h.issuer = s \/ h.issuer = t
    BY <2>1 DEF D!OAuthError, D!Answered
  <2> QED
    BY <1>4, <2>2, <2>3 DEF h
<1>7. Keeps(s, D!BearerGrant(s, trusted, r).issuer)
  <2> DEFINE h == D!BearerGrant(s, trusted, r)
             issued == D!BearerScopes(s, r.scopes)
             access == D!Access(s, "user-1", issued, None)
             accesses == s.accessTokens \cup {access}
             refresh == s.minted + 1
             t == [s EXCEPT !.accessTokens = accesses, !.minted = s.minted + 1]
  <2>1. \/ \E code : h = D!OAuthError(s, code)
        \/ h = D!Answered(t, D!Tokens(access, refresh, None, issued))
    BY DEF D!BearerGrant
  <2>2. Keeps(s, t)
    BY <1>3
  <2> HIDE DEF h, issued, access, t, refresh
  <2>3. h.issuer = s \/ h.issuer = t
    BY <2>1 DEF D!OAuthError, D!Answered
  <2> QED
    BY <1>4, <2>2, <2>3 DEF h
<1> QED
  BY <1>5, <1>6, <1>7

\* The token minted is worth what the one presented was, and every other what it
\* was.
Inherits(s, t, refresh) ==
  /\ t.refreshTokens[s.minted + 1] = s.refreshTokens[refresh]
  /\ \A n \in DOMAIN s.refreshTokens \ {refresh} : t.refreshTokens[n] = s.refreshTokens[n]

\* A renewal is refused, keeps every token, or rotates the one presented.
LEMMA RefreshKeeps ==
  ASSUME NEW s, Drawn(s), NEW r
  PROVE  LET h == D!RefreshGrant(s, r)
         IN \/ ~h.answer.ok /\ h.issuer = s
            \/ h.answer.ok /\ h.answer.refresh = None /\ Keeps(s, h.issuer)
            \/ /\ h.answer.ok /\ h.answer.refresh = s.minted + 1 /\ Drawn(h.issuer)
               /\ DOMAIN h.issuer.refreshTokens
                    = (DOMAIN s.refreshTokens \ {r.refresh}) \cup {s.minted + 1}
               /\ Inherits(s, h.issuer, r.refresh)
<1> DEFINE h == D!RefreshGrant(s, r)
           record == s.refreshTokens[r.refresh]
           issued == D!RenewedScopes(s, record.scopes, r.scopes)
           access == D!Access(s, "user-1", issued, record.resource)
           id == IF D!OpenID \in issued THEN D!IDToken(s, r.client, None, issued) ELSE None
           accesses == s.accessTokens \cup {access}
           ids == s.idTokens \cup ({id} \ {None})
           left == D!Without(s.refreshTokens, r.refresh)
           kept == [s EXCEPT !.accessTokens = accesses, !.idTokens = ids]
           retired == [kept EXCEPT !.refreshTokens = D!Without(@, r.refresh)]
           rotated == D!MintRefresh(retired, record)
           scope == IF s.opts.omitScopeField THEN None ELSE issued
           n == s.minted + 1
<1>1. s = [url |-> s.url, opts |-> s.opts, minted |-> s.minted, codes |-> s.codes,
           refreshTokens |-> s.refreshTokens, deviceGrants |-> s.deviceGrants,
           accessTokens |-> s.accessTokens, idTokens |-> s.idTokens]
  BY DEF Drawn
<1>2. s.minted \in Nat /\ s.minted <= s.minted
  BY DEF Drawn
<1>3. CASE r.refresh \notin DOMAIN s.refreshTokens
  BY <1>3 DEF D!RefreshGrant, D!OAuthError, D!Answered
<1>4. CASE r.refresh \in DOMAIN s.refreshTokens /\ issued = None
  BY <1>4 DEF D!RefreshGrant, D!OAuthError, D!Answered
<1>5. kept = [s EXCEPT !.accessTokens = accesses, !.idTokens = ids]
  OBVIOUS
<1>6. kept = [url |-> s.url, opts |-> s.opts, minted |-> s.minted, codes |-> s.codes,
              refreshTokens |-> s.refreshTokens, deviceGrants |-> s.deviceGrants,
              accessTokens |-> accesses, idTokens |-> ids]
  <2> HIDE DEF accesses, ids, kept
  <2> QED
    BY <1>1, <1>5
<1>7. CASE r.refresh \in DOMAIN s.refreshTokens /\ issued # None /\ ~s.opts.rotate
  <2>1. h = D!Answered(kept, D!Tokens(access, None, id, scope))
    BY <1>7 DEF D!RefreshGrant
  <2> HIDE DEF h, kept, access, id, scope, accesses, ids
  <2>2. h.issuer = kept /\ h.answer.ok /\ h.answer.refresh = None
    BY <2>1 DEF D!Answered, D!Tokens
  <2>3. Keeps(s, kept)
    BY <1>2, <1>6, Aside
  <2> QED
    BY <2>2, <2>3 DEF h
<1>8. CASE r.refresh \in DOMAIN s.refreshTokens /\ issued # None /\ s.opts.rotate
  <2>1. h = D!Answered(rotated, D!Tokens(access, n, id, scope))
    BY <1>8 DEF D!RefreshGrant
  <2>2. retired = [url |-> s.url, opts |-> s.opts, minted |-> s.minted, codes |-> s.codes,
                   refreshTokens |-> left, deviceGrants |-> s.deviceGrants,
                   accessTokens |-> accesses, idTokens |-> ids]
    <3> HIDE DEF kept, accesses, ids
    <3>1. kept.refreshTokens = s.refreshTokens
      BY <1>6
    <3>2. retired = [kept EXCEPT !.refreshTokens = left]
      BY <3>1
    <3> HIDE DEF retired, left
    <3> QED
      BY <1>6, <3>2
  <2>3. /\ DOMAIN left = DOMAIN s.refreshTokens \ {r.refresh}
        /\ \A k \in DOMAIN left : left[k] = s.refreshTokens[k]
    BY DEF D!Without
  <2> HIDE DEF h, kept, retired, rotated, access, id, scope, accesses, ids, left, record
  <2>4. Drawn(retired) /\ retired.minted = s.minted /\ retired.refreshTokens = left
    BY <2>2, <2>3 DEF Drawn
  <2>5. /\ Keeps(retired, rotated)
        /\ DOMAIN rotated.refreshTokens = DOMAIN left \cup {n}
        /\ rotated.refreshTokens[n] = record
    BY <2>4, Minted DEF rotated
  <2>6. h.issuer = rotated /\ h.answer.ok /\ h.answer.refresh = n
    BY <2>1 DEF D!Answered, D!Tokens
  <2>7. Inherits(s, rotated, r.refresh)
    BY <2>3, <2>4, <2>5 DEF Inherits, Keeps, record
  <2> QED
    BY <2>3, <2>5, <2>6, <2>7 DEF Keeps, h
<1> QED
  BY <1>3, <1>4, <1>7, <1>8

-----------------------------------------------------------------------------
(* The issuers and the store together.                                      *)

\* The members of a stored session.
Entry(x) ==
  x = [issuer |-> x.issuer, client |-> x.client, scopes |-> x.scopes,
       resource |-> x.resource, bound |-> x.bound, refresh |-> x.refresh,
       access |-> x.access, fresh |-> x.fresh]

\* A session that names its client names its resource as well, and its issuer
\* keeps it for every permission it names.
Covered(iss, x) ==
  x.client # None =>
    /\ x.bound = TRUE
    /\ x.scopes \subseteq iss[x.issuer].refreshTokens[x.refresh].scopes

\* Every session stored is of an issuer there is, which honours its refresh
\* token, and no two of one issuer share theirs: what rotates one retires no
\* other's.
Good(iss, ses) ==
  /\ iss = [u \in DOMAIN iss |-> iss[u]]
  /\ ses = [ref \in DOMAIN ses |-> ses[ref]]
  /\ \A u \in DOMAIN iss : Drawn(iss[u])
  /\ \A ref \in DOMAIN ses :
       /\ Entry(ses[ref])
       /\ ses[ref].issuer \in DOMAIN iss
       /\ ses[ref].refresh \in DOMAIN iss[ses[ref].issuer].refreshTokens
       /\ Covered(iss, ses[ref])
  /\ \A ref, other \in DOMAIN ses :
       ref # other /\ ses[ref].issuer = ses[other].issuer =>
         ses[ref].refresh # ses[other].refresh

\* The same issuers, good together with what is now stored.
Leads(iss, jss, tes) == DOMAIN jss = DOMAIN iss /\ Good(jss, tes)

LEMMA OneMoves ==
  ASSUME NEW iss, NEW ses, Good(iss, ses), NEW u, NEW t,
         u \in DOMAIN iss => Keeps(iss[u], t)
  PROVE  Leads(iss, [iss EXCEPT ![u] = t], ses)
<1> DEFINE jss == [iss EXCEPT ![u] = t]
<1>1. DOMAIN jss = DOMAIN iss /\ jss = [v \in DOMAIN jss |-> jss[v]]
  OBVIOUS
<1>2. \A v \in DOMAIN iss : jss[v] = IF v = u THEN t ELSE iss[v]
  OBVIOUS
<1> HIDE DEF jss
<1>3. \A v \in DOMAIN iss :
        /\ Drawn(jss[v]) /\ DOMAIN iss[v].refreshTokens \subseteq DOMAIN jss[v].refreshTokens
        /\ \A n \in DOMAIN iss[v].refreshTokens :
             jss[v].refreshTokens[n] = iss[v].refreshTokens[n]
  BY <1>2 DEF Good, Keeps
<1>4. \A ref \in DOMAIN ses : Covered(jss, ses[ref])
  BY <1>3 DEF Good, Covered
<1>5. Good(jss, ses)
  BY <1>1, <1>3, <1>4 DEF Good
<1> QED
  BY <1>1, <1>5 DEF Leads, jss

\* A session stored, with a refresh token newly minted.
LEMMA OneStored ==
  ASSUME NEW iss, NEW ses, Good(iss, ses), NEW u \in DOMAIN iss, NEW t, Keeps(iss[u], t),
         NEW ref, NEW x, Entry(x), x.issuer = u,
         x.refresh \in DOMAIN t.refreshTokens, iss[u].minted < x.refresh,
         Covered([iss EXCEPT ![u] = t], x)
  PROVE  Leads(iss, [iss EXCEPT ![u] = t], D!With(ses, ref, x))
<1> DEFINE jss == [iss EXCEPT ![u] = t]
           tes == D!With(ses, ref, x)
<1>1. DOMAIN jss = DOMAIN iss /\ jss = [v \in DOMAIN jss |-> jss[v]]
  OBVIOUS
<1>2. \A v \in DOMAIN iss : jss[v] = IF v = u THEN t ELSE iss[v]
  OBVIOUS
<1>3. /\ DOMAIN tes = DOMAIN ses \cup {ref} /\ tes = [k \in DOMAIN tes |-> tes[k]]
      /\ \A k \in DOMAIN tes : tes[k] = IF k = ref THEN x ELSE ses[k]
  BY DEF D!With
<1>4. Covered(jss, x)
  OBVIOUS
<1> HIDE DEF jss, tes
<1>5. \A v \in DOMAIN iss :
        /\ Drawn(jss[v]) /\ DOMAIN iss[v].refreshTokens \subseteq DOMAIN jss[v].refreshTokens
        /\ \A n \in DOMAIN iss[v].refreshTokens :
             jss[v].refreshTokens[n] = iss[v].refreshTokens[n]
  BY <1>2 DEF Good, Keeps
<1>6. \A k \in DOMAIN tes :
        /\ Entry(tes[k]) /\ tes[k].issuer \in DOMAIN jss
        /\ tes[k].refresh \in DOMAIN jss[tes[k].issuer].refreshTokens
  BY <1>1, <1>2, <1>3, <1>5 DEF Good
<1>7. \A k \in DOMAIN tes : Covered(jss, tes[k])
  <2>1. \A k \in DOMAIN ses : Covered(jss, ses[k])
    BY <1>5 DEF Good, Covered
  <2> QED
    BY <1>3, <1>4, <2>1
<1>8. \A k \in DOMAIN ses : ses[k].issuer = u => ses[k].refresh # x.refresh
  <2> SUFFICES ASSUME NEW k \in DOMAIN ses, ses[k].issuer = u, ses[k].refresh = x.refresh
               PROVE  FALSE
    OBVIOUS
  <2>1. x.refresh \in DOMAIN iss[u].refreshTokens /\ Drawn(iss[u])
    BY DEF Good
  <2> QED
    BY <2>1 DEF Drawn
<1>9. \A k, l \in DOMAIN tes :
        k # l /\ tes[k].issuer = tes[l].issuer => tes[k].refresh # tes[l].refresh
  BY <1>3, <1>8 DEF Good
<1>10. Good(jss, tes)
  BY <1>1, <1>3, <1>5, <1>6, <1>9, <1>7 DEF Good
<1> QED
  BY <1>1, <1>10 DEF Leads, jss, tes

\* A session's refresh token rotated, and saved.
LEMMA OneRotated ==
  ASSUME NEW iss, NEW ses, Good(iss, ses), NEW ref \in DOMAIN ses, NEW t, Drawn(t), NEW n,
         n = iss[ses[ref].issuer].minted + 1,
         DOMAIN t.refreshTokens
           = (DOMAIN iss[ses[ref].issuer].refreshTokens \ {ses[ref].refresh}) \cup {n},
         Inherits(iss[ses[ref].issuer], t, ses[ref].refresh)
  PROVE  Leads(iss, [iss EXCEPT ![ses[ref].issuer] = t],
               [ses EXCEPT ![ref].refresh = n])
<1> DEFINE u == ses[ref].issuer
           jss == [iss EXCEPT ![u] = t]
           x == [ses[ref] EXCEPT !.refresh = n]
           tes == [ses EXCEPT ![ref] = x]
<1>1. u \in DOMAIN iss /\ Entry(ses[ref])
  BY DEF Good
<1>2. DOMAIN jss = DOMAIN iss /\ jss = [v \in DOMAIN jss |-> jss[v]]
  OBVIOUS
<1>3. \A v \in DOMAIN iss : jss[v] = IF v = u THEN t ELSE iss[v]
  OBVIOUS
<1>4. /\ Entry(x) /\ x.issuer = u /\ x.refresh = n
      /\ x.client = ses[ref].client /\ x.bound = ses[ref].bound
      /\ x.scopes = ses[ref].scopes
  BY <1>1 DEF Entry
<1>5. tes = [ses EXCEPT ![ref].refresh = n]
  OBVIOUS
<1> HIDE DEF x
<1>6. /\ DOMAIN tes = DOMAIN ses /\ tes = [k \in DOMAIN tes |-> tes[k]]
      /\ \A k \in DOMAIN tes : tes[k] = IF k = ref THEN x ELSE ses[k]
  OBVIOUS
<1> HIDE DEF jss, tes
<1>7. \A v \in DOMAIN iss : Drawn(jss[v])
  BY <1>3 DEF Good
<1>8. \A k \in DOMAIN ses : ses[k].issuer = u => ses[k].refresh # n
  <2> SUFFICES ASSUME NEW k \in DOMAIN ses, ses[k].issuer = u, ses[k].refresh = n
               PROVE  FALSE
    OBVIOUS
  <2>1. n \in DOMAIN iss[u].refreshTokens /\ Drawn(iss[u])
    BY DEF Good
  <2> QED
    BY <2>1 DEF Drawn
<1>9. \A k \in DOMAIN tes :
        /\ Entry(tes[k]) /\ tes[k].issuer \in DOMAIN jss
        /\ tes[k].refresh \in DOMAIN jss[tes[k].issuer].refreshTokens
  <2> TAKE k \in DOMAIN tes
  <2>1. CASE k = ref
    BY <2>1, <1>2, <1>3, <1>6, <1>1, <1>4
  <2>2. CASE k # ref /\ ses[k].issuer = u
    <3>1. ses[k].refresh # ses[ref].refresh
      BY <1>6, <2>2 DEF Good
    <3>2. ses[k].refresh \in DOMAIN iss[u].refreshTokens /\ Entry(ses[k])
      BY <1>6, <2>2 DEF Good
    <3>3. ses[k].refresh \in DOMAIN t.refreshTokens
      BY <3>1, <3>2
    <3> QED
      BY <1>2, <1>3, <1>6, <1>1, <2>2, <3>2, <3>3
  <2>3. CASE k # ref /\ ses[k].issuer # u
    BY <1>2, <1>3, <1>6, <2>3 DEF Good
  <2> QED
    BY <2>1, <2>2, <2>3
<1>10. \A k, l \in DOMAIN tes :
         k # l /\ tes[k].issuer = tes[l].issuer => tes[k].refresh # tes[l].refresh
  BY <1>6, <1>8, <1>4 DEF Good
<1>11. \A k \in DOMAIN tes : Covered(jss, tes[k])
  <2> TAKE k \in DOMAIN tes
  <2>1. CASE k = ref
    <3>1. t.refreshTokens[n] = iss[u].refreshTokens[ses[ref].refresh]
      BY DEF Inherits
    <3>2. Covered(iss, ses[ref])
      BY DEF Good
    <3> QED
      BY <1>3, <1>6, <1>1, <1>4, <2>1, <3>1, <3>2 DEF Covered
  <2>2. CASE k # ref /\ ses[k].issuer = u
    <3>1. /\ ses[k].refresh # ses[ref].refresh
          /\ ses[k].refresh \in DOMAIN iss[u].refreshTokens /\ Covered(iss, ses[k])
      BY <1>6, <2>2 DEF Good
    <3>2. t.refreshTokens[ses[k].refresh] = iss[u].refreshTokens[ses[k].refresh]
      BY <3>1 DEF Inherits
    <3> QED
      BY <1>3, <1>6, <1>1, <2>2, <3>1, <3>2 DEF Covered
  <2>3. CASE k # ref /\ ses[k].issuer # u
    <3>1. Covered(iss, ses[k]) /\ ses[k].issuer \in DOMAIN iss
      BY <1>6, <2>3 DEF Good
    <3> QED
      BY <1>3, <1>6, <2>3, <3>1 DEF Covered
  <2> QED
    BY <2>1, <2>2, <2>3
<1>12. Good(jss, tes)
  BY <1>2, <1>6, <1>7, <1>9, <1>10, <1>11 DEF Good
<1> QED
  BY <1>2, <1>12, <1>5 DEF Leads, jss

LEMMA LeadsOn ==
  ASSUME NEW iss, NEW jss, NEW ses, Leads(iss, jss, ses), NEW kss, NEW tes,
         Leads(jss, kss, tes)
  PROVE  Leads(iss, kss, tes)
  BY DEF Leads

LEMMA DeniedLeads ==
  ASSUME NEW iss, NEW jss, NEW ses, Leads(iss, jss, ses), NEW code, NEW made,
         made = Denied(jss, ses, code)
  PROVE  Leads(iss, made.issuers, made.sessions)
  BY DEF Denied

LEMMA IssuedLeads ==
  ASSUME NEW iss, NEW jss, NEW ses, Leads(iss, jss, ses), NEW answer, NEW made,
         made = Issued(jss, ses, answer)
  PROVE  Leads(iss, made.issuers, made.sessions)
  BY DEF Issued

\* A renewal, whatever it comes to, leaves every session stored renewable: its
\* own with the token it was rotated to, saved before anything is verified.
LEMMA RenewLeads ==
  ASSUME Good(issuers, sessions), NEW access, NEW scopes, NEW reached
  PROVE  LET made == Renew(access, scopes, reached)
         IN Leads(issuers, made.issuers, made.sessions)
<1> DEFINE ref == access.ref
           stored == sessions[ref]
           u == access.issuer
           s == issuers[u]
           r == [refresh |-> stored.refresh, scopes |-> scopes, client |-> access.client]
           served == D!RefreshGrant(s, r)
           iss == [issuers EXCEPT ![u] = served.issuer]
           rotated == [sessions EXCEPT ![ref].refresh = served.answer.refresh]
           ses == IF served.answer.refresh = None THEN sessions ELSE rotated
           drifted == (~stored.bound /\ access.resource # None) \/ Drifted(stored, access)
           unreached == Unreached(u, access.issuerID, reached)
           refused == RefusedRenewal(served.answer.error)
           made == Renew(access, scopes, reached)
<1>1. Leads(issuers, issuers, sessions)
  BY DEF Leads
<1>2. \/ \E code : made = Denied(issuers, sessions, code)
      \/ /\ ref \in DOMAIN sessions /\ stored.issuer = u
         /\ \/ ~served.answer.ok /\ made = Denied(iss, sessions, refused)
            \/ served.answer.ok /\ made = Issued(iss, ses, served.answer)
  <2>1. made = IF ref \notin DOMAIN sessions
               THEN Denied(issuers, sessions, "login_required")
               ELSE IF stored.issuer # u
               THEN Denied(issuers, sessions, "session_issuer_mismatch")
               ELSE IF drifted
               THEN Denied(issuers, sessions, "login_required")
               ELSE IF unreached # None
               THEN Denied(issuers, sessions, "discovery_failed")
               ELSE IF ~served.answer.ok
               THEN Denied(iss, sessions, refused)
               ELSE Issued(iss, ses, served.answer)
    BY DEF Renew
  <2> HIDE DEF stored, served, iss, ses, made, refused, drifted, unreached, u, ref
  <2> QED
    BY <2>1
<1>3. r.refresh = stored.refresh
  OBVIOUS
<1> HIDE DEF r, made, refused, drifted, unreached
<1>4. CASE \E code : made = Denied(issuers, sessions, code)
  BY <1>1, <1>4, DeniedLeads DEF made
<1>5. CASE /\ ref \in DOMAIN sessions /\ stored.issuer = u
           /\ \/ ~served.answer.ok /\ made = Denied(iss, sessions, refused)
              \/ served.answer.ok /\ made = Issued(iss, ses, served.answer)
  <2>1. u \in DOMAIN issuers /\ Drawn(s)
    BY <1>5 DEF Good
  <2>2. \/ ~served.answer.ok /\ served.issuer = s
        \/ served.answer.ok /\ served.answer.refresh = None /\ Keeps(s, served.issuer)
        \/ /\ served.answer.ok /\ served.answer.refresh = s.minted + 1
           /\ Drawn(served.issuer)
           /\ DOMAIN served.issuer.refreshTokens
                = (DOMAIN s.refreshTokens \ {r.refresh}) \cup {s.minted + 1}
           /\ Inherits(s, served.issuer, r.refresh)
    BY <2>1, RefreshKeeps
  <2> HIDE DEF served
  <2>3. ASSUME Keeps(s, served.issuer)
        PROVE  Leads(issuers, iss, sessions)
    BY <2>3, OneMoves
  <2>4. CASE ~served.answer.ok /\ served.issuer = s
    <3>1. Leads(issuers, iss, sessions)
      BY <2>1, <2>3, <2>4, KeepsSelf
    <3> HIDE DEF iss
    <3>2. made = Denied(iss, sessions, refused)
      BY <1>5, <2>4
    <3> QED
      BY <3>1, <3>2, DeniedLeads DEF made
  <2>5. CASE served.answer.ok /\ served.answer.refresh = None /\ Keeps(s, served.issuer)
    <3>1. Leads(issuers, iss, sessions)
      BY <2>3, <2>5
    <3>2. ses = sessions
      BY <2>5
    <3> HIDE DEF iss, ses
    <3>3. made = Issued(iss, sessions, served.answer)
      BY <1>5, <2>5, <3>2
    <3> QED
      BY <3>1, <3>3, IssuedLeads DEF made
  <2>6. CASE /\ served.answer.ok /\ served.answer.refresh = s.minted + 1
             /\ Drawn(served.issuer)
             /\ DOMAIN served.issuer.refreshTokens
                  = (DOMAIN s.refreshTokens \ {r.refresh}) \cup {s.minted + 1}
             /\ Inherits(s, served.issuer, r.refresh)
    <3>1. s.minted + 1 \in Nat
      BY <2>1 DEF Drawn
    <3>2. served.answer.refresh # None
      BY <2>6, <3>1, BrokerAssumption
    <3>3. ses = rotated
      BY <3>2
    <3>4. Leads(issuers, [issuers EXCEPT ![sessions[ref].issuer] = served.issuer],
                [sessions EXCEPT ![ref].refresh = s.minted + 1])
      <4>1. sessions[ref].issuer = u
        BY <1>5
      <4>2. s = issuers[sessions[ref].issuer]
        BY <4>1
      <4> HIDE DEF s, u
      <4> QED
        BY <1>5, <1>3, <2>6, <4>2, OneRotated
    <3>5. Leads(issuers, iss, ses)
      BY <1>5, <2>6, <3>3, <3>4
    <3> HIDE DEF iss, ses
    <3>6. made = Issued(iss, ses, served.answer)
      BY <1>5, <2>6
    <3> QED
      BY <3>5, <3>6, IssuedLeads DEF made
  <2> QED
    BY <2>2, <2>4, <2>5, <2>6
<1> QED
  BY <1>2, <1>4, <1>5

LEMMA VerifiedLeads ==
  ASSUME NEW iss, NEW issued, Leads(iss, issued.issuers, issued.sessions), NEW r, NEW audience
  PROVE  /\ Leads(iss, Verified(issued, r, audience).issuers,
                  Verified(issued, r, audience).sessions)
         /\ Leads(iss, BindingVerified(issued, audience).issuers,
                  BindingVerified(issued, audience).sessions)
  BY DEF Verified, BindingVerified, Denied

LEMMA FollowedLeads ==
  ASSUME NEW iss, NEW renewed, Leads(iss, renewed.issuers, renewed.sessions), NEW u,
         NEW served,
         u \in DOMAIN renewed.issuers => Keeps(renewed.issuers[u], served.issuer),
         NEW refusal
  PROVE  LET made == Followed(renewed, u, served, refusal)
         IN Leads(iss, made.issuers, made.sessions)
<1> DEFINE jss == [renewed.issuers EXCEPT ![u] = served.issuer]
           made == Followed(renewed, u, served, refusal)
<1>1. Good(renewed.issuers, renewed.sessions)
  BY DEF Leads
<1>2. Leads(renewed.issuers, jss, renewed.sessions)
  BY <1>1, OneMoves
<1>3. made = IF served.answer.ok THEN Issued(jss, renewed.sessions, served.answer)
             ELSE Denied(jss, renewed.sessions, refusal)
  BY DEF Followed
<1> HIDE DEF jss, made
<1>4. Leads(iss, jss, renewed.sessions)
  BY <1>2 DEF Leads
<1> QED
  BY <1>3, <1>4 DEF Issued, Denied, made

\* Whatever a locked section obtains, verifies or is refused, the sessions
\* stored are still renewable.
LEMMA DeriveLeads ==
  ASSUME Good(issuers, sessions), NEW c, NEW source, NEW r, NEW reached
  PROVE  LET made == Derive(c, source, r, reached)
         IN Leads(issuers, made.issuers, made.sessions)
<1>1. Leads(issuers, issuers, sessions)
  BY DEF Leads
<1>2. LET made == DevelopmentMint(c, r) IN Leads(issuers, made.issuers, made.sessions)
  BY <1>1 DEF DevelopmentMint, Issued
<1>3. LET made == InlineMint(c, source, r, reached)
      IN Leads(issuers, made.issuers, made.sessions)
  <2> DEFINE inline == InlineSource(c, r)
             u == source.issuer
             q == [client |-> inline.client, secret |-> inline.secret,
                   scopes |-> r.scopes, resource |-> source.resource]
             served == D!ClientCredentialsGrant(issuers[u], q)
             iss == [issuers EXCEPT ![u] = served.issuer]
             refusal == RefusedInline(served.answer.error)
             made == InlineMint(c, source, r, reached)
             unreached == Unreached(u, source.issuerID, reached)
             issued == Issued(iss, sessions, served.answer)
  <2>1. made = IF unreached # None
               THEN Denied(issuers, sessions, "discovery_failed")
               ELSE IF ~served.answer.ok
               THEN Denied(iss, sessions, refusal)
               ELSE Verified(issued, r, source.audience)
    BY DEF InlineMint
  <2>2. u \in DOMAIN issuers => Keeps(issuers[u], served.issuer)
    <3> HIDE DEF q, u
    <3> SUFFICES ASSUME u \in DOMAIN issuers PROVE Keeps(issuers[u], served.issuer)
      OBVIOUS
    <3>1. Drawn(issuers[u])
      BY DEF Good
    <3> QED
      BY <3>1, TokenKeeps
  <2> HIDE DEF served, u, unreached, refusal
  <2>3. Leads(issuers, iss, sessions)
    BY <2>2, OneMoves
  <2> HIDE DEF iss
  <2>4. Leads(issuers, issued.issuers, issued.sessions)
    BY <2>3 DEF Issued
  <2> HIDE DEF made, issued
  <2> QED
    BY <1>1, <2>1, <2>3, <2>4, VerifiedLeads DEF Denied, made
<1>4. LET made == ExchangeDerive(LoginAccess(c), source, r, reached)
      IN Leads(issuers, made.issuers, made.sessions)
  <2> DEFINE login == LoginAccess(c)
             u == login.issuer
             audience == IF r.record = "api" THEN r.resource ELSE source.audience
             renewed == Renew(login, login.scopes, reached)
             q == [client |-> login.client, subject |-> renewed.answer.access,
                   resource |-> audience]
             served == D!ExchangeGrant(renewed.issuers[u], q)
             made == ExchangeDerive(login, source, r, reached)
             followed == Followed(renewed, u, served, "exchange_unavailable")
  <2>1. made = IF renewed.denied # None THEN renewed ELSE BindingVerified(followed, audience)
    BY DEF ExchangeDerive, ExchangedFor
  <2>2. Leads(issuers, renewed.issuers, renewed.sessions)
    BY RenewLeads
  <2> HIDE DEF login, audience, renewed, q, u
  <2>3. u \in DOMAIN renewed.issuers => Keeps(renewed.issuers[u], served.issuer)
    <3> SUFFICES ASSUME u \in DOMAIN renewed.issuers
                 PROVE  Keeps(renewed.issuers[u], served.issuer)
      OBVIOUS
    <3>1. Drawn(renewed.issuers[u])
      BY <2>2 DEF Leads, Good
    <3> QED
      BY <3>1, TokenKeeps
  <2> HIDE DEF served
  <2>4. Leads(issuers, followed.issuers, followed.sessions)
    BY <2>2, <2>3, FollowedLeads
  <2> HIDE DEF followed, made
  <2> QED
    BY <2>1, <2>2, <2>4, VerifiedLeads DEF made, login
<1>5. LET made == AssertionDerive(c, source, r, reached)
      IN Leads(issuers, made.issuers, made.sessions)
  <2> DEFINE g == c.products[Product].grant
             u == g.issuer
             renewed == Renew(source, AssertionScopes(g), reached)
             q == [client |-> g.client, assertion |-> renewed.answer.id,
                   scopes |-> r.scopes]
             trusted == renewed.issuers[source.issuer]
             served == D!BearerGrant(renewed.issuers[u], trusted, q)
             refusal == RefusedAssertion(served.answer.error)
             made == AssertionDerive(c, source, r, reached)
             followed == Followed(renewed, u, served, refusal)
             unreached == Unreached(u, None, reached)
  <2>1. made = IF renewed.denied # None THEN renewed
               ELSE IF renewed.answer.id = None
               THEN Denied(renewed.issuers, renewed.sessions, "narrowing_unavailable")
               ELSE IF unreached # None
               THEN Denied(renewed.issuers, renewed.sessions, "discovery_failed")
               ELSE Verified(followed, r, source.audience)
    BY DEF AssertionDerive, AssertionPresented, Asserted
  <2>2. Leads(issuers, renewed.issuers, renewed.sessions)
    BY RenewLeads
  <2> HIDE DEF g, renewed, q, u, trusted, unreached
  <2>3. u \in DOMAIN renewed.issuers => Keeps(renewed.issuers[u], served.issuer)
    <3> SUFFICES ASSUME u \in DOMAIN renewed.issuers
                 PROVE  Keeps(renewed.issuers[u], served.issuer)
      OBVIOUS
    <3>1. Drawn(renewed.issuers[u])
      BY <2>2 DEF Leads, Good
    <3> QED
      BY <3>1, TokenKeeps
  <2> HIDE DEF served, refusal
  <2>4. Leads(issuers, followed.issuers, followed.sessions)
    BY <2>2, <2>3, FollowedLeads
  <2> HIDE DEF followed, made
  <2> QED
    BY <2>1, <2>2, <2>4, VerifiedLeads DEF Denied, made
<1>6. LET made == SessionDerive(source, r, reached)
      IN Leads(issuers, made.issuers, made.sessions)
  <2> DEFINE made == SessionDerive(source, r, reached)
             renewed == Renew(source, r.scopes, reached)
             answer == [access |-> sessions[source.ref].access]
  <2>1. made = IF StoredGrant(source, r) THEN Issued(issuers, sessions, answer)
               ELSE Verified(renewed, r, source.audience)
    BY DEF SessionDerive
  <2>2. Leads(issuers, renewed.issuers, renewed.sessions)
    BY RenewLeads
  <2> HIDE DEF made, renewed, answer
  <2> QED
    BY <1>1, <2>1, <2>2, VerifiedLeads DEF Issued, made
<1> QED
  BY <1>2, <1>3, <1>4, <1>5, <1>6 DEF Derive

\* A login, as far as the issuer is concerned: it retires nothing, and a refresh
\* token it answers with is new.
LEMMA AuthorizedKeeps ==
  ASSUME NEW c, NEW access, Drawn(issuers[access.issuer])
  PROVE  LET s == issuers[access.issuer]
             made == Authorized(c, access)
         IN Keeps(s, made.issuer) /\ Fresh(s, made.issuer, made.answer)
<1> DEFINE s == issuers[access.issuer]
           scopes == Protocol \cup access.scopes
           q == [client |-> access.client, port |-> CHOOSE p \in RegisteredPorts : TRUE,
                 challenge |-> "verifier", state |-> "state", nonce |-> "nonce",
                 scopes |-> scopes, resource |-> access.resource]
           redirect == D!HandleAuthorize(s, q)
           started == D!HandleDeviceAuthorize(s, [client |-> access.client, scopes |-> scopes])
           polled == D!DeviceGrant(started.issuer, [device |-> started.answer.device])
           redeemed == D!ExchangeCode(redirect.issuer,
                         [client |-> access.client, code |-> redirect.answer.code,
                          port |-> redirect.answer.port, verifier |-> "verifier"])
           failed == [issuer |-> redirect.issuer, answer |-> [ok |-> FALSE]]
           made == Authorized(c, access)
<1>1. made = IF c.kind = "oauth-device"
             THEN IF started.answer.ok THEN polled ELSE started
             ELSE IF redirect.answer.error # None THEN failed ELSE redeemed
  BY DEF Authorized
<1>2. Keeps(s, redirect.issuer)
  BY AuthorizeKeeps
<1>3. /\ Keeps(s, started.issuer)
      /\ started.answer.ok =>
           LET g == started.issuer.deviceGrants[started.answer.device]
           IN g.pending \in Nat /\ g.slowDown \in Nat
  BY DeviceAuthorizeKeeps
<1> HIDE DEF s, scopes, q, redirect, started, made
<1>4. Keeps(s, redeemed.issuer) /\ Fresh(s, redeemed.issuer, redeemed.answer)
  <2>1. Drawn(redirect.issuer)
    BY <1>2 DEF Keeps
  <2>2. Keeps(redirect.issuer, redeemed.issuer)
        /\ Fresh(redirect.issuer, redeemed.issuer, redeemed.answer)
    BY <2>1, CodeKeeps
  <2> HIDE DEF redeemed
  <2> QED
    BY <1>2, <2>2, KeepsOn DEF s
<1>5. ASSUME started.answer.ok
      PROVE  Keeps(s, polled.issuer) /\ Fresh(s, polled.issuer, polled.answer)
  <2> DEFINE r == [device |-> started.answer.device]
  <2>1. Drawn(started.issuer)
    BY <1>3 DEF Keeps
  <2>2. /\ started.issuer.deviceGrants[r.device].pending \in Nat
        /\ started.issuer.deviceGrants[r.device].slowDown \in Nat
    BY <1>3, <1>5
  <2> HIDE DEF r
  <2>3. Keeps(started.issuer, D!DeviceGrant(started.issuer, r).issuer)
        /\ Fresh(started.issuer, D!DeviceGrant(started.issuer, r).issuer,
                 D!DeviceGrant(started.issuer, r).answer)
    BY <2>1, <2>2, DeviceKeeps
  <2>4. polled = D!DeviceGrant(started.issuer, r)
    BY DEF r
  <2> HIDE DEF polled
  <2> QED
    BY <1>3, <2>3, <2>4, KeepsOn DEF s
<1>6. failed.issuer = redirect.issuer /\ ~failed.answer.ok
  OBVIOUS
<1> HIDE DEF failed, polled, redeemed
<1>7. Fresh(s, failed.issuer, failed.answer)
  BY <1>6 DEF Fresh
<1>8. ~started.answer.ok => Fresh(s, started.issuer, started.answer)
  BY DEF Fresh
<1> QED
  BY <1>1, <1>2, <1>3, <1>4, <1>5, <1>6, <1>7, <1>8 DEF made, s

\* And the access it answers with is for the scopes asked: those of the protocol,
\* and the access's own.
LEMMA AuthorizedCarries ==
  ASSUME NEW c, NEW access, Drawn(issuers[access.issuer]), access.client # None,
         Authorized(c, access).answer.ok
  PROVE  Authorized(c, access).answer.access.scopes = Protocol \cup access.scopes
<1> DEFINE s == issuers[access.issuer]
           scopes == Protocol \cup access.scopes
           port == CHOOSE p \in RegisteredPorts : TRUE
           q == [client |-> access.client, port |-> port,
                 challenge |-> "verifier", state |-> "state", nonce |-> "nonce",
                 scopes |-> scopes, resource |-> access.resource]
           redirect == D!HandleAuthorize(s, q)
           device == [client |-> access.client, scopes |-> scopes]
           started == D!HandleDeviceAuthorize(s, device)
           r == [device |-> started.answer.device]
           polled == D!DeviceGrant(started.issuer, r)
           redeemed == D!ExchangeCode(redirect.issuer,
                         [client |-> q.client, code |-> redirect.answer.code,
                          port |-> redirect.answer.port, verifier |-> q.challenge])
           made == Authorized(c, access)
<1>1. \/ c.kind = "oauth-device" /\ started.answer.ok /\ made = polled
      \/ c.kind = "oauth-device" /\ ~started.answer.ok /\ made = started
      \/ redirect.answer.error # None /\ ~made.answer.ok
      \/ redirect.answer.error = None /\ made = redeemed
  BY DEF Authorized
<1>2. port \in RegisteredPorts /\ "verifier" # None
  BY BrokerAssumption
<1>3. /\ q.client = access.client /\ q.port = port /\ q.challenge = "verifier"
      /\ q.scopes = scopes /\ device.scopes = scopes /\ r.device = started.answer.device
  OBVIOUS
<1>4. made.answer.ok
  OBVIOUS
<1> HIDE DEF s, port, q, redirect, device, started, r, polled, redeemed, made, scopes
<1>5. CASE redirect.answer.error = None /\ made = redeemed
  BY <1>2, <1>3, <1>5, CodeCarries DEF redirect, redeemed, s, made, scopes
<1>6. CASE started.answer.ok /\ made = polled
  <2>1. /\ Keeps(s, started.issuer)
        /\ LET g == started.issuer.deviceGrants[started.answer.device]
           IN g.pending \in Nat /\ g.slowDown \in Nat /\ g.scopes = device.scopes
    BY <1>6, DeviceAuthorizeKeeps DEF started, s
  <2>2. Drawn(started.issuer)
    BY <2>1 DEF Keeps
  <2>3. polled.answer.access.scopes = started.issuer.deviceGrants[r.device].scopes
    BY <1>3, <1>4, <1>6, <2>1, <2>2, DeviceCarries DEF polled
  <2> QED
    BY <1>3, <1>6, <2>1, <2>3 DEF made, scopes
<1> QED
  BY <1>1, <1>4, <1>5, <1>6

\* A session established in a command, or by wso2 login, is renewable as well.
LEMMA EstablishLeads ==
  ASSUME Good(issuers, sessions), NEW c, NEW access, access.issuer \in DOMAIN issuers,
         NEW reached
  PROVE  LET made == Establish(c, access, reached)
         IN Leads(issuers, made.issuers, made.sessions)
<1> DEFINE u == access.issuer
           s == issuers[u]
           authorized == Authorized(c, access)
           t == authorized.issuer
           answer == authorized.answer
           why == NotEstablished(c, access, answer, reached)
           iss == [issuers EXCEPT ![u] = t]
           x == Established(access, answer)
           ses == D!With(sessions, access.ref, x)
           made == Establish(c, access, reached)
<1>1. Drawn(s)
  BY DEF Good
<1>2. Keeps(s, t) /\ Fresh(s, t, answer)
  BY <1>1, AuthorizedKeeps
<1>3. made = IF why # None THEN Denied(issuers, sessions, why)
             ELSE [issuers |-> iss, sessions |-> ses, denied |-> None]
  BY DEF Establish, Completed, Settled
<1>4. why = None => answer.ok /\ answer.refresh # None
  <2>1. \/ why \in {"product_not_configured", "discovery_failed", "login_failed",
                    "credential_unavailable"}
        \/ answer.ok /\ answer.refresh # None
    <3> HIDE DEF answer
    <3> QED
      BY DEF NotEstablished
  <2> HIDE DEF why, answer
  <2> QED
    BY <2>1, BrokerAssumption DEF Denials
<1>5. /\ Entry(x) /\ x.issuer = u /\ x.refresh = answer.refresh
      /\ x.client = access.client /\ x.bound = TRUE /\ x.scopes = access.scopes
  <2> HIDE DEF answer
  <2> QED
    BY DEF Established, Entry
<1>6. answer.ok /\ access.client # None => access.scopes \subseteq answer.access.scopes
  BY <1>1, AuthorizedCarries
<1> HIDE DEF made, why, x, answer, t, authorized
<1>7. CASE why # None
  BY <1>3, <1>7 DEF Leads, Denied, made
<1>8. CASE why = None
  <2>1. Covered(iss, x)
    <3>1. iss[u] = t
      OBVIOUS
    <3> HIDE DEF iss
    <3> QED
      BY <1>2, <1>4, <1>5, <1>8, <1>6, <3>1 DEF Fresh, Covered
  <2>2. Leads(issuers, iss, ses)
    <3> HIDE DEF u
    <3> QED
      BY <1>2, <1>4, <1>5, <1>8, <2>1, OneStored DEF Fresh, u
  <2> HIDE DEF iss, ses
  <2> QED
    BY <1>3, <1>8, <2>2 DEF made
<1> QED
  BY <1>7, <1>8

-----------------------------------------------------------------------------
(* Every session stored is good.                                            *)

\* The context a command holds, those on disk, and where it may establish.
Housed ==
  /\ \A c \in {context, later, command.context} \ {None} : Issuers(c) \subseteq DOMAIN issuers
  /\ command.at \in {"ensure", "reauthorize"} =>
       Establishes(Source(command.context, command.request))

StoreInv == GrantInv /\ Housed /\ Good(issuers, sessions)

\* Where a source may establish a session, its issuer is deployed.
LEMMA SourceDeployed ==
  ASSUME Housed, Screened, command.at \in {"ensure", "reauthorize"}
  PROVE  Source(command.context, command.request).issuer \in DOMAIN issuers
<1> DEFINE c == command.context
           r == command.request
           access == Access(c, RecordKey(r))
<1>1. Establishes(Source(c, r)) /\ command.at \in Minting
  BY DEF Housed, Minting
<1>2. c.kind # "development-credential"
  BY <1>1 DEF Source, Establishes
<1>3. Source(c, r) = access /\ access.strategy # "inline"
  <2> DEFINE ref == LoginAccess(c).ref
  <2>1. Source(c, r) = IF access.strategy = "exchanged" /\ c.kind # "client-credentials"
                       THEN [access EXCEPT !.ref = ref] ELSE access
    BY <1>2 DEF Source
  <2> HIDE DEF access, ref
  <2>2. [access EXCEPT !.ref = ref].strategy = access.strategy
    OBVIOUS
  <2> QED
    BY <1>1, <2>1, <2>2 DEF Establishes
<1>4. access.issuer \in Issuers(c)
  BY <1>1, <1>2, <1>3, IssuerNamed DEF Screened, Permitted
<1>5. c # None
  BY <1>1 DEF Screened, Permitted, Contexts
<1> QED
  BY <1>3, <1>4, <1>5 DEF Housed

\* So is that of every session wso2 login may authorize.
LEMMA LoginDeployed ==
  ASSUME Housed, CommandKept, context # None, context.kind \in InteractiveKinds,
         NEW access \in SessionsOf(context)
  PROVE  access.issuer \in DOMAIN issuers
<1>1. access \in Accesses(context) /\ ~context.synthetic
      /\ context.kind # "client-credentials"
  BY DEF SessionsOf
<1>2. ValidContext(context)
  <2>1. context \in Contexts
    BY DEF CommandKept
  <2>2. PICK w \in Worlds : context \in {w.context, w.later} \ {None}
    BY <2>1 DEF Contexts
  <2> QED
    BY <1>1, <2>2, BrokerAssumption
<1>3. context.issuer # None
  BY <1>2 DEF ValidContext, ValidAccount, ValidAuth
<1>4. context.issuer \in Issuers(context)
  BY <1>3 DEF Issuers
<1>5. CASE access = LoginAccess(context)
  BY <1>4, <1>5, LoginReached DEF Housed
<1>6. CASE access # LoginAccess(context)
  <2>1. PICK key \in RecordKeys(context) : access = Access(context, key)
    BY <1>1, <1>6 DEF Accesses
  <2> QED
    BY <1>1, <1>2, <1>3, <2>1, IssuerNamed DEF Housed
<1> QED
  BY <1>5, <1>6

\* An issuer begins with nothing minted.
LEMMA NewDrawn ==
  ASSUME NEW u, NEW opts, Answers(opts)
  PROVE  Drawn(D!New(u, opts)) /\ D!New(u, opts).refreshTokens = << >>
<1>1. D!New(u, opts) = [url |-> u, opts |-> opts, minted |-> 0, codes |-> << >>,
                        refreshTokens |-> << >>, deviceGrants |-> << >>,
                        accessTokens |-> {}, idTokens |-> {}]
  BY DEF D!New
<1>2. DOMAIN D!New(u, opts).refreshTokens = {}
  BY <1>1
<1> QED
  BY <1>1, <1>2 DEF Drawn

LEMMA InitStoreInv == Init => StoreInv
<1> SUFFICES ASSUME Init PROVE StoreInv
  OBVIOUS
<1>1. PICK w \in Worlds :
        /\ context = w.context /\ later = w.later
        /\ LET running == [u \in DOMAIN w.deployment |-> D!New(u, w.deployment[u])]
               seeded == D!SeedSessionFor(running[context.issuer],
                                          LoginAccess(context).scopes, None)
           IN \/ issuers = running /\ sessions = << >>
              \/ /\ w.upgraded
                 /\ issuers = [running EXCEPT ![context.issuer] = seeded]
                 /\ sessions = D!With(<< >>, LoginRef(context), Legacy(context, seeded))
  BY DEF Init
<1>2. command = NoCommand
  BY DEF Init
<1> DEFINE running == [u \in DOMAIN w.deployment |-> D!New(u, w.deployment[u])]
<1>3. DOMAIN running = DOMAIN w.deployment /\ running = [u \in DOMAIN running |-> running[u]]
  OBVIOUS
<1>4. \A u \in DOMAIN running : Drawn(running[u])
  BY NewDrawn, BrokerAssumption
<1>5. Good(running, << >>)
  <2> HIDE DEF running
  <2> QED
    BY <1>3, <1>4 DEF Good
<1>6. Leads(running, issuers, sessions)
  <2>1. CASE issuers = running /\ sessions = << >>
    BY <1>5, <2>1 DEF Leads
  <2>2. CASE ~(issuers = running /\ sessions = << >>)
    <3> DEFINE u == context.issuer
               scopes == LoginAccess(context).scopes
               record == [scopes |-> scopes, resource |-> None]
               t == D!SeedSessionFor(running[u], scopes, None)
               x == Legacy(context, t)
               ref == LoginRef(context)
    <3>1. /\ w.upgraded
          /\ issuers = [running EXCEPT ![u] = t]
          /\ sessions = D!With(<< >>, ref, x)
      BY <1>1, <2>2
    <3>2. u \in DOMAIN running
      <4>1. context # None /\ context.issuer # None
        BY <1>1, <3>1, BrokerAssumption
      <4>2. context \in {w.context, w.later} \ {None}
        BY <1>1, <4>1
      <4> QED
        BY <1>3, <4>1, <4>2, BrokerAssumption DEF Issuers
    <3>3. t = D!MintRefresh(running[u], record)
      BY DEF D!SeedSessionFor
    <3>4. Drawn(running[u])
      BY <1>4, <3>2
    <3> HIDE DEF running, u, scopes, record, t
    <3>5. /\ Keeps(running[u], t)
          /\ running[u].minted + 1 \in DOMAIN t.refreshTokens
          /\ running[u].minted < running[u].minted + 1
      BY <3>3, <3>4, Minted
    <3>6. t.minted = running[u].minted + 1
      <4> DEFINE s == running[u]
      <4>1. t = [s EXCEPT !.minted = s.minted + 1,
                          !.refreshTokens = D!With(s.refreshTokens, s.minted + 1, record)]
        BY <3>3 DEF D!MintRefresh
      <4>2. Drawn(s)
        BY <3>4
      <4> DEFINE n == s.minted + 1
                 kept == D!With(s.refreshTokens, n, record)
      <4>3. t = [s EXCEPT !.minted = n, !.refreshTokens = kept]
        BY <4>1
      <4>4. s = [url |-> s.url, opts |-> s.opts, minted |-> s.minted, codes |-> s.codes,
                 refreshTokens |-> s.refreshTokens, deviceGrants |-> s.deviceGrants,
                 accessTokens |-> s.accessTokens, idTokens |-> s.idTokens]
        BY <4>2 DEF Drawn
      <4>5. n = s.minted + 1
        OBVIOUS
      <4> HIDE DEF n, kept, s
      <4>6. t.minted = n
        BY <4>3, <4>4
      <4> QED
        BY <4>5, <4>6 DEF s
    <3>7. Entry(x) /\ x.issuer = u /\ x.refresh = t.minted /\ x.client = None
      BY DEF Legacy, Entry, u
    <3> HIDE DEF x, ref
    <3>8. Covered([running EXCEPT ![u] = t], x)
      BY <3>7 DEF Covered
    <3>9. Leads(running, [running EXCEPT ![u] = t], D!With(<< >>, ref, x))
      BY <1>5, <3>2, <3>5, <3>6, <3>7, <3>8, OneStored
    <3> QED
      BY <3>1, <3>9
  <2> QED
    BY <2>1, <2>2
<1>7. Housed
  <2>1. \A c \in {w.context, w.later} \ {None} : Issuers(c) \subseteq DOMAIN w.deployment
    BY BrokerAssumption
  <2>2. DOMAIN issuers = DOMAIN w.deployment
    BY <1>3, <1>6 DEF Leads
  <2>3. command.context = None /\ command.at = "idle"
    BY <1>2 DEF NoCommand
  <2> QED
    BY <1>1, <2>1, <2>2, <2>3 DEF Housed
<1> QED
  BY <1>6, <1>7, InitGrantInv DEF StoreInv, Leads

LEMMA NextStoreInv == StoreInv /\ [Next]_vars => StoreInv'
<1> SUFFICES ASSUME StoreInv, [Next]_vars PROVE StoreInv'
  OBVIOUS
<1> USE DEF StoreInv
<1>1. GrantInv'
  BY NextGrantInv
<1>2. ASSUME UNCHANGED <<context, later, command.context>>, DOMAIN issuers' = DOMAIN issuers,
             command'.at \notin {"ensure", "reauthorize"}
      PROVE  Housed'
  BY <1>2 DEF Housed
<1>3. ASSUME UNCHANGED <<issuers, sessions>>
      PROVE  Good(issuers, sessions)'
  BY <1>3 DEF Good
<1>4. ASSUME NEW code, Deny(code)
      PROVE  command'.context = command.context /\ command'.at = "running"
  <2> DEFINE answer == [denied |-> code, context |-> command.context,
                        request |-> command.request]
  <2>1. command' = [command EXCEPT !.at = "running", !.answer = answer]
    BY <1>4 DEF Deny, Answer
  <2> HIDE DEF answer
  <2> QED
    BY <2>1 DEF GrantInv, CommandKept
<1>5. ASSUME NEW at, command' = [command EXCEPT !.at = at]
      PROVE  /\ command'.context = command.context /\ command'.at = at
             /\ command'.request = command.request
  BY <1>5 DEF GrantInv, CommandKept
<1>6. CASE Start
  <2>1. command'.context = context /\ command'.at = "running"
    BY <1>6 DEF Start, NoCommand
  <2>2. UNCHANGED <<issuers, sessions, context, later>>
    BY <1>6 DEF Start
  <2>3. Housed'
    BY <2>1, <2>2 DEF Housed
  <2> QED
    BY <1>1, <1>3, <2>2, <2>3
<1>7. CASE Acquire
  <2>1. PICK r \in Requests :
          LET asked == IF command.context = None THEN r ELSE Defaulted(command.context, r)
              why == PolicyRefused(command, r)
              cmd == [command EXCEPT !.asked = @ + 1, !.request = asked]
          IN command' = IF why # None
                        THEN Answer(cmd, [denied |-> why, context |-> command.context,
                                          request |-> asked])
                        ELSE [cmd EXCEPT !.at =
                                IF Establishes(Source(command.context, asked))
                                THEN "ensure" ELSE "derive"]
    BY <1>7 DEF Acquire
  <2>2. UNCHANGED <<issuers, sessions, context, later>>
    BY <1>7 DEF Acquire
  <2> DEFINE asked == IF command.context = None THEN r
                      ELSE Defaulted(command.context, r)
             why == PolicyRefused(command, r)
             establishes == Establishes(Source(command.context, asked))
             at == IF establishes THEN "ensure" ELSE "derive"
             answer == [denied |-> why, context |-> command.context, request |-> asked]
             count == command.asked + 1
  <2>3. command' = IF why # None
                   THEN [[command EXCEPT !.asked = count, !.request = asked]
                           EXCEPT !.at = "running", !.answer = answer]
                   ELSE [[command EXCEPT !.asked = count, !.request = asked] EXCEPT !.at = at]
    BY <2>1 DEF Answer
  <2> HIDE DEF asked, why, answer, count, establishes
  <2>4. /\ command'.context = command.context
        /\ \/ command'.at = "running"
           \/ command'.at = at /\ command'.request = asked
    BY <2>3 DEF GrantInv, CommandKept
  <2>5. command'.at \in {"ensure", "reauthorize"} =>
          Establishes(Source(command'.context, command'.request))
    BY <2>4 DEF establishes
  <2>6. Housed'
    BY <2>2, <2>4, <2>5 DEF Housed
  <2> QED
    BY <1>1, <1>3, <2>2, <2>6
<1>8. CASE EnsureSession
  <2>1. UNCHANGED <<context, later>> /\ command.at = "ensure"
    BY <1>8 DEF EnsureSession
  <2>2. PICK reached :
          LET access == Source(command.context, command.request)
              made == Establish(command.context, access, reached)
          IN \/ /\ \/ command' = [command EXCEPT !.at = "derive"]
                   \/ Deny("session_required")
                /\ UNCHANGED <<issuers, sessions>>
             \/ /\ issuers' = made.issuers /\ sessions' = made.sessions
                /\ \/ Deny(made.denied)
                   \/ command' = [command EXCEPT !.at = "derive"]
    BY <1>8 DEF EnsureSession, Authorizes
  <2>3. Leads(issuers, issuers', sessions')
    <3> DEFINE access == Source(command.context, command.request)
               made == Establish(command.context, access, reached)
    <3>1. access.issuer \in DOMAIN issuers
      BY <2>1, SourceDeployed DEF GrantInv
    <3>2. Leads(issuers, made.issuers, made.sessions)
      BY <3>1, EstablishLeads
    <3>3. Leads(issuers, issuers, sessions)
      BY DEF Leads
    <3> HIDE DEF made
    <3> QED
      BY <2>2, <3>2, <3>3 DEF made
  <2>4. command'.context = command.context /\ command'.at \in {"running", "derive"}
    BY <1>4, <1>5, <2>2
  <2>5. Housed'
    BY <1>2, <2>1, <2>3, <2>4 DEF Leads
  <2> QED
    BY <1>1, <2>3, <2>5 DEF Leads
<1>9. CASE Mint
  <2>1. UNCHANGED <<context, later>>
    BY <1>9 DEF Mint
  <2>2. PICK reached :
          LET source == Source(command.context, command.request)
              made == Derive(command.context, source, command.request, reached)
          IN /\ issuers' = made.issuers /\ sessions' = made.sessions
             /\ \/ Grant(made.answer.access)
                \/ Reauthorizes(source) /\ command' = [command EXCEPT !.at = "reauthorize"]
                \/ Deny(made.denied)
    BY <1>9 DEF Mint
  <2> DEFINE source == Source(command.context, command.request)
             made == Derive(command.context, source, command.request, reached)
  <2>3. Leads(issuers, made.issuers, made.sessions)
    BY DeriveLeads
  <2> HIDE DEF made, source
  <2>4. Leads(issuers, issuers', sessions')
    BY <2>2, <2>3 DEF made, source
  <2>5. /\ command'.context = command.context
        /\ \/ command'.at = "running"
           \/ /\ command'.at = "reauthorize" /\ command'.request = command.request
              /\ Reauthorizes(source)
    <3>1. ASSUME NEW token, Grant(token)
          PROVE  command'.context = command.context /\ command'.at = "running"
      <4> DEFINE own == command.own \/ command.request.record # "api"
                 api == command.api \/ command.request.record = "api"
                 answer == [denied |-> None]
      <4>1. command' = [[command EXCEPT !.own = own, !.api = api]
                          EXCEPT !.at = "running", !.answer = answer]
        BY <3>1 DEF Grant, Answer
      <4> HIDE DEF own, api, answer
      <4> QED
        BY <4>1 DEF GrantInv, CommandKept
    <3> QED
      BY <1>4, <1>5, <2>2, <3>1 DEF source, made
  <2>6. Housed'
    <3>1. CASE command'.at = "running"
      BY <1>2, <2>1, <2>4, <2>5, <3>1 DEF Leads
    <3>2. CASE command'.at = "reauthorize" /\ command'.request = command.request
               /\ Reauthorizes(source)
      <4>1. Establishes(Source(command.context, command.request))
        BY <3>2 DEF Establishes, Reauthorizes, source
      <4>2. Establishes(Source(command'.context, command'.request))
        BY <2>5, <3>2, <4>1
      <4>3. DOMAIN issuers' = DOMAIN issuers
        BY <2>4 DEF Leads
      <4> QED
        BY <2>1, <2>5, <4>2, <4>3 DEF Housed
    <3> QED
      BY <2>5, <3>1, <3>2
  <2> QED
    BY <1>1, <2>4, <2>6 DEF Leads
<1>10. CASE Reauthorize
  <2>1. UNCHANGED <<context, later>> /\ command.at = "reauthorize"
    BY <1>10 DEF Reauthorize
  <2>2. PICK reached :
          LET access == Source(command.context, command.request)
              made == Establish(command.context, access, reached)
          IN \/ Deny("reauthorization_required") /\ UNCHANGED <<issuers, sessions>>
             \/ /\ issuers' = made.issuers /\ sessions' = made.sessions
                /\ \/ Deny(made.denied)
                   \/ command' = [command EXCEPT !.at = "again"]
    BY <1>10 DEF Reauthorize, Authorizes
  <2>3. Leads(issuers, issuers', sessions')
    <3> DEFINE access == Source(command.context, command.request)
               made == Establish(command.context, access, reached)
    <3>1. access.issuer \in DOMAIN issuers
      BY <2>1, SourceDeployed DEF GrantInv
    <3>2. Leads(issuers, made.issuers, made.sessions)
      BY <3>1, EstablishLeads
    <3>3. Leads(issuers, issuers, sessions)
      BY DEF Leads
    <3> HIDE DEF made
    <3> QED
      BY <2>2, <3>2, <3>3 DEF made
  <2>4. command'.context = command.context /\ command'.at \in {"running", "again"}
    BY <1>4, <1>5, <2>2
  <2>5. Housed'
    BY <1>2, <2>1, <2>3, <2>4 DEF Leads
  <2> QED
    BY <1>1, <2>3, <2>5 DEF Leads
<1>11. CASE End
  <2>1. UNCHANGED <<issuers, sessions, context, later>> /\ command' = NoCommand
    BY <1>11 DEF End
  <2>2. Housed'
    BY <2>1 DEF Housed, NoCommand
  <2> QED
    BY <1>1, <1>3, <2>1, <2>2
<1>12. CASE LogIn
  <2>1. /\ context # None /\ context.kind \in InteractiveKinds
        /\ UNCHANGED <<context, later, command>>
        /\ \E access \in SessionsOf(context) :
             /\ issuers' = Establish(context, access, "read").issuers
             /\ sessions' = Establish(context, access, "read").sessions
    BY <1>12 DEF LogIn
  <2>2. PICK access \in SessionsOf(context) :
             /\ issuers' = Establish(context, access, "read").issuers
             /\ sessions' = Establish(context, access, "read").sessions
    BY <2>1
  <2>3. access.issuer \in DOMAIN issuers
    BY <2>1, LoginDeployed DEF GrantInv
  <2>4. Leads(issuers, issuers', sessions')
    BY <2>2, <2>3, EstablishLeads
  <2>5. Housed'
    BY <2>1, <2>4 DEF Housed, Leads
  <2> QED
    BY <1>1, <2>4, <2>5 DEF Leads
<1>13. CASE Change
  <2>1. UNCHANGED <<issuers, sessions, later, command>> /\ context' = later
    BY <1>13 DEF Change
  <2>2. Housed'
    BY <2>1 DEF Housed
  <2> QED
    BY <1>1, <1>3, <2>1, <2>2
<1>14. CASE Expire
  <2>1. UNCHANGED <<issuers, context, later, command>>
    BY <1>14 DEF Expire
  <2>2. PICK ref \in DOMAIN sessions : sessions' = [sessions EXCEPT ![ref].fresh = FALSE]
    BY <1>14 DEF Expire
  <2> DEFINE x == [sessions[ref] EXCEPT !.fresh = FALSE]
  <2>3. /\ Entry(x) /\ x.issuer = sessions[ref].issuer /\ x.refresh = sessions[ref].refresh
        /\ x.client = sessions[ref].client /\ x.bound = sessions[ref].bound
        /\ x.scopes = sessions[ref].scopes
    <3> DEFINE y == sessions[ref]
    <3>1. y = [issuer |-> y.issuer, client |-> y.client, scopes |-> y.scopes,
               resource |-> y.resource, bound |-> y.bound, refresh |-> y.refresh,
               access |-> y.access, fresh |-> y.fresh]
      BY <2>2 DEF Good, Entry
    <3>2. x = [y EXCEPT !.fresh = FALSE]
      OBVIOUS
    <3> HIDE DEF x, y
    <3>3. x = [issuer |-> y.issuer, client |-> y.client, scopes |-> y.scopes,
               resource |-> y.resource, bound |-> y.bound, refresh |-> y.refresh,
               access |-> y.access, fresh |-> FALSE]
      BY <3>1, <3>2
    <3>4. /\ Entry(x) /\ x.issuer = y.issuer /\ x.refresh = y.refresh
          /\ x.client = y.client /\ x.bound = y.bound /\ x.scopes = y.scopes
      BY <3>3 DEF Entry
    <3> QED
      BY <3>4 DEF y
  <2>4. sessions' = [sessions EXCEPT ![ref] = x]
    BY <2>2
  <2> HIDE DEF x
  <2>5. /\ DOMAIN sessions' = DOMAIN sessions
        /\ sessions' = [k \in DOMAIN sessions' |-> sessions'[k]]
        /\ \A k \in DOMAIN sessions : /\ Entry(sessions'[k])
                                     /\ sessions'[k].issuer = sessions[k].issuer
                                     /\ sessions'[k].refresh = sessions[k].refresh
                                     /\ sessions'[k].client = sessions[k].client
                                     /\ sessions'[k].bound = sessions[k].bound
                                     /\ sessions'[k].scopes = sessions[k].scopes
    BY <2>3, <2>4 DEF Good
  <2>6. Good(issuers', sessions')
    BY <2>1, <2>5 DEF Good, Covered
  <2>7. Housed'
    BY <2>1 DEF Housed
  <2> QED
    BY <1>1, <2>6, <2>7
<1>15. CASE UNCHANGED vars
  <2>1. UNCHANGED <<issuers, sessions, context, later, command>>
    BY <1>15 DEF vars
  <2>2. Housed'
    BY <2>1 DEF Housed
  <2> QED
    BY <1>1, <1>3, <2>1, <2>2
<1> QED
  BY <1>6, <1>7, <1>8, <1>9, <1>10, <1>11, <1>12, <1>13, <1>14, <1>15 DEF Next

\* Whatever a command is granted or denied, and whoever logs in meanwhile, the
\* refresh token of every session stored is one its issuer honours (SessionsLive):
\* what Session.Refresh rotates is saved before anything is verified.
THEOREM StoredSessionsRenew == Spec => []SessionsLive
<1>1. Spec => []StoreInv
  BY InitStoreInv, NextStoreInv, PTL DEF Spec
<1>2. StoreInv => SessionsLive
  BY DEF StoreInv, Good, SessionsLive, D!RefreshTokenLive
<1> QED
  BY <1>1, <1>2, PTL

-----------------------------------------------------------------------------
(* Why a source denies a request.                                           *)

\* What two accesses share when a session stored for one is the other's.
Alike(a, b) ==
  /\ a.ref = b.ref /\ a.issuer = b.issuer /\ a.client = b.client
  /\ a.scopes = b.scopes /\ a.resource = b.resource

LEMMA MatchesAlike ==
  ASSUME NEW a, NEW b, Alike(a, b), Matches(a)
  PROVE  Matches(b)
  BY DEF Alike, Matches

\* The gateway is reached through the login's session, through its own, or by
\* exchange.
LEMMA GatewaySource ==
  ASSUME NEW c, NEW ns, c.kind # "client-credentials"
  PROVE  LET a == GatewayAccess(c, ns)
         IN /\ a.strategy \in {"direct", "sibling", "exchanged"} /\ a.client = c.client
            /\ a.strategy = "direct" => Alike(a, LoginAccess(c))
            /\ a.strategy = "sibling" => a.ref = ProductSessionRef(c, GatewayKey(ns))
<1> DEFINE key == GatewayKey(ns)
           ref == ProductSessionRef(c, key)
           g == c.products[ns].gateway
           grant == c.products[ns].grant
           resource == IF Derivation(c) = "token-resource" THEN g.audience ELSE None
           access == Reached(c, "sibling", key, g, ref)
           login == LoginAccess(c)
           shares == access.scopes = login.scopes /\ access.resource = login.resource
           loginRef == LoginRef(c)
           a == GatewayAccess(c, ns)
<1>1. access = [strategy |-> "sibling", key |-> key, issuer |-> c.issuer, issuerID |-> None,
                client |-> c.client, audience |-> g.audience, scopes |-> g.scopes,
                resource |-> resource, ref |-> ref]
  BY DEF Reached
<1>2. a = IF grant # None /\ grant.kind = "exchange"
          THEN [access EXCEPT !.strategy = "exchanged",
                              !.resource = access.audience, !.ref = None]
          ELSE IF shares
          THEN [access EXCEPT !.strategy = "direct", !.ref = loginRef]
          ELSE [access EXCEPT !.strategy = "sibling"]
  BY DEF GatewayAccess, OfLogin, SharesLogin
<1>3. login.issuer = c.issuer /\ login.client = c.client /\ login.ref = loginRef
  BY LoginReached
<1>4. shares => access.scopes = login.scopes /\ access.resource = login.resource
  OBVIOUS
<1>5. ref = ProductSessionRef(c, GatewayKey(ns))
  OBVIOUS
<1> HIDE DEF key, ref, g, grant, resource, access, login, shares, loginRef, a
<1>6. CASE grant # None /\ grant.kind = "exchange"
  BY <1>1, <1>2, <1>6 DEF a
<1>7. CASE ~(grant # None /\ grant.kind = "exchange") /\ shares
  <2>1. a = [access EXCEPT !.strategy = "direct", !.ref = loginRef]
    BY <1>2, <1>7
  <2>2. Alike(a, login) /\ a.strategy = "direct" /\ a.client = c.client
    BY <1>1, <1>3, <1>4, <1>7, <2>1 DEF Alike
  <2> QED
    BY <2>2 DEF a, login
<1>8. CASE ~(grant # None /\ grant.kind = "exchange") /\ ~shares
  <2>1. a = [access EXCEPT !.strategy = "sibling"]
    BY <1>2, <1>8
  <2>2. a.strategy = "sibling" /\ a.ref = ref /\ a.client = c.client
    BY <1>1, <2>1
  <2> QED
    BY <1>5, <2>2 DEF a
<1> QED
  BY <1>6, <1>7, <1>8

\* A product is reached through the login's session, through its own, or by
\* exchange, as the login's client or its grant's.
LEMMA ProductSource ==
  ASSUME NEW c, NEW ns, ns # None, c.kind # "client-credentials",
         Direct(c.products[ns]) \/ c.products[ns].grant.kind \in LegalGrants
  PROVE  LET a == ProductAccess(c, ns)
             p == c.products[ns]
         IN /\ a.strategy \in {"direct", "sibling", "exchanged", "derived", "federated"}
            /\ a.client = IF a.strategy = "federated" THEN p.grant.client ELSE c.client
            /\ a.strategy = "federated" => ~Direct(p) /\ p.grant.kind = "federated"
            /\ a.strategy = "direct" => Alike(a, LoginAccess(c))
            /\ a.strategy \in {"sibling", "derived", "federated"} =>
                 a.ref = ProductSessionRef(c, Key(ns))
<1> DEFINE p == c.products[ns]
           key == Key(ns)
           ref == ProductSessionRef(c, key)
           resource == IF Derivation(c) = "token-resource" THEN p.audience ELSE None
           access == Reached(c, "direct", key, p, ref)
           login == LoginAccess(c)
           pinned == ns = LoginNamespace(c)
           shares == access.scopes = login.scopes /\ access.resource = login.resource
           loginRef == LoginRef(c)
           scopes == AssertionScopes(p.grant)
           a == ProductAccess(c, ns)
<1>1. access = [strategy |-> "direct", key |-> key, issuer |-> c.issuer, issuerID |-> None,
                client |-> c.client, audience |-> p.audience, scopes |-> p.scopes,
                resource |-> resource, ref |-> ref]
  BY DEF Reached
<1>2. login.issuer = c.issuer /\ login.client = c.client /\ login.ref = loginRef
  BY LoginReached
<1>3. pinned => login.scopes = p.scopes /\ login.resource = resource
  BY LoginReached
<1>4. ref = ProductSessionRef(c, Key(ns))
  OBVIOUS
<1>5. CASE Direct(p)
  <2>1. a = IF pinned \/ shares
            THEN [access EXCEPT !.strategy = "direct", !.ref = loginRef]
            ELSE [access EXCEPT !.strategy = "sibling"]
    BY <1>5 DEF ProductAccess, OfLogin, SharesLogin
  <2>2. pinned \/ shares => access.scopes = login.scopes /\ access.resource = login.resource
    <3> HIDE DEF access, login, pinned, resource
    <3>1. access.scopes = p.scopes /\ access.resource = resource
      BY <1>1
    <3> QED
      BY <1>3, <3>1
  <2> HIDE DEF key, ref, p, resource, access, login, shares, pinned, loginRef, a
  <2>3. CASE pinned \/ shares
    <3>1. a = [access EXCEPT !.strategy = "direct", !.ref = loginRef]
      BY <2>1, <2>3
    <3>2. Alike(a, login) /\ a.strategy = "direct" /\ a.client = c.client
      BY <1>1, <1>2, <2>2, <2>3, <3>1 DEF Alike
    <3> QED
      BY <3>2 DEF a, login
  <2>4. CASE ~(pinned \/ shares)
    <3>1. a = [access EXCEPT !.strategy = "sibling"]
      BY <2>1, <2>4
    <3>2. a.strategy = "sibling" /\ a.ref = ref /\ a.client = c.client
      BY <1>1, <3>1
    <3> QED
      BY <1>4, <3>2 DEF a
  <2> QED
    BY <2>3, <2>4
<1>6. CASE ~Direct(p) /\ p.grant.kind = "exchange"
  <2>1. a = [access EXCEPT !.strategy = "exchanged", !.resource = p.audience, !.ref = None]
    BY <1>6 DEF ProductAccess
  <2> HIDE DEF key, ref, resource, access, a
  <2>2. a.strategy = "exchanged" /\ a.client = c.client
    BY <1>1, <2>1
  <2> QED
    BY <2>2 DEF a
<1>7. CASE ~Direct(p) /\ p.grant.kind = "jwt-bearer"
  <2>1. a = [access EXCEPT !.strategy = "derived", !.scopes = scopes,
                           !.resource = p.grant.resource]
    BY <1>7 DEF ProductAccess
  <2> HIDE DEF key, ref, resource, access, scopes, a
  <2>2. a.strategy = "derived" /\ a.client = c.client /\ a.ref = ref
    BY <1>1, <2>1
  <2> QED
    BY <1>4, <2>2 DEF a
<1>8. CASE ~Direct(p) /\ p.grant.kind = "federated"
  <2> DEFINE issuer == p.grant.issuer
             client == p.grant.client
             bound == p.grant.resource
  <2>1. a = [access EXCEPT !.strategy = "federated", !.issuer = issuer, !.client = client,
                           !.resource = bound]
    BY <1>8 DEF ProductAccess
  <2>2. client = p.grant.client
    OBVIOUS
  <2> HIDE DEF key, ref, resource, access, a, issuer, client, bound
  <2>3. a.strategy = "federated" /\ a.client = client /\ a.ref = ref
    BY <1>1, <2>1
  <2> QED
    BY <1>4, <1>8, <2>3, <2>2 DEF a
<1> QED
  BY <1>5, <1>6, <1>7, <1>8 DEF LegalGrants

\* A record's own session is not kept where the login's is.
LEMMA OwnReference ==
  ASSUME NEW c, NEW ns, NEW key \in {Key(ns), GatewayKey(ns)}
  PROVE  ProductSessionRef(c, key) # LoginRef(c)
<1> DEFINE Words == {c.ref, ns, "gateway"}
           own == ProductSessionRef(c, key)
           login == LoginRef(c)
<1>1. <<c.ref>> \in Seq(Words) /\ Len(<<c.ref>>) = 1
  OBVIOUS
<1>2. key \in Seq(Words) /\ Len(key) \in {1, 2}
  <2>1. <<ns>> \in Seq(Words) /\ Len(<<ns>>) = 1
    OBVIOUS
  <2>2. <<ns, "gateway">> \in Seq(Words) /\ Len(<<ns, "gateway">>) = 2
    OBVIOUS
  <2> QED
    BY <2>1, <2>2 DEF Key, GatewayKey
<1>3. Len(own) = 1 + Len(key)
  <2> HIDE DEF Words
  <2> QED
    BY <1>1, <1>2 DEF ProductSessionRef
<1>4. Len(login) = 1
  BY <1>1 DEF LoginRef
<1> HIDE DEF own, login, Words
<1>5. Len(own) # 1
  <2>1. CASE Len(key) = 1
    BY <1>3, <2>1
  <2>2. CASE Len(key) = 2
    BY <1>3, <2>2
  <2> QED
    BY <1>2, <2>1, <2>2
<1> QED
  BY <1>4, <1>5 DEF own, login

\* The clients a legal context names are there.
LEMMA ClientNamed ==
  ASSUME NEW c, ValidContext(c), c.kind \in InteractiveKinds
  PROVE  /\ c.client # None /\ c.issuer # None
         /\ \A ns \in DOMAIN c.products :
              ~Direct(c.products[ns]) /\ c.products[ns].grant.kind = "federated" =>
                c.products[ns].grant.client # None
<1>1. c.client # None /\ c.issuer # None
  BY DEF ValidContext, ValidAccount, ValidAuth
<1>2. ASSUME NEW ns \in DOMAIN c.products, ~Direct(c.products[ns]),
             c.products[ns].grant.kind = "federated"
      PROVE  c.products[ns].grant.client # None
  <2>1. ValidProduct(c.products[ns])
    BY DEF ValidContext, ValidAccount
  <2>2. ValidGrant(c.products[ns].grant)
    BY <1>2, <2>1 DEF ValidProduct, Direct
  <2> QED
    BY <1>2, <2>2 DEF ValidGrant
<1> QED
  BY <1>1, <1>2

\* How a request the policy let through is served: a machine client for itself,
\* and anyone else from the session of an access its context reaches.
Served5 == {"direct", "sibling", "derived", "federated"}

LEMMA SourceStored ==
  ASSUME NEW c, NEW receipt, NEW r, Permitted(c, receipt, r),
         c.kind \notin {"development-credential", "client-credentials"}
  PROVE  LET source == Source(c, r)
             access == Access(c, RecordKey(r))
         IN /\ LoginAccess(c) \in SessionsOf(c) /\ LoginAccess(c).client # None
            /\ source.strategy = access.strategy
            /\ source.strategy \in Served5 \cup {"exchanged"}
            /\ source.strategy \in Served5 =>
                 /\ source = access /\ source.client # None
                 /\ \E a \in SessionsOf(c) : Alike(a, source)
<1> DEFINE key == RecordKey(r)
           a == Access(c, key)
           source == Source(c, r)
           login == LoginAccess(c)
           p == c.products[Product]
<1>1. /\ c.kind \in InteractiveKinds /\ ValidContext(c) /\ ~c.synthetic /\ NoneApart(c)
      /\ Product \in DOMAIN c.products /\ key \in RecordKeys(c) /\ Access9(a)
  BY DEF Permitted, ValidContext, ValidAccount, ValidAuth, LegalKinds
<1>2. /\ c.client # None
      /\ ~Direct(p) /\ p.grant.kind = "federated" => p.grant.client # None
  BY <1>1, ClientNamed
<1>3. login.ref = LoginRef(c) /\ login.client = c.client
  BY LoginReached
<1>4. login \in SessionsOf(c)
  BY <1>1, <1>3 DEF SessionsOf, Accesses, NoneApart
<1>5. /\ a.strategy \in Served5 \cup {"exchanged"}
      /\ a.client = c.client
         \/ (~Direct(p) /\ p.grant.kind = "federated" /\ a.client = p.grant.client)
      /\ a.strategy = "direct" => Alike(a, login)
      /\ a.strategy \in {"sibling", "derived", "federated"} =>
           a.ref = ProductSessionRef(c, key)
  <2>1. CASE r.record = "gateway"
    <3> DEFINE b == GatewayAccess(c, Product)
    <3>1. a = AtLoginIssuer(c, b)
      BY <2>1, Keys DEF Access
    <3>2. Access9(b)
      BY GatewayReached
    <3>3. /\ b.strategy \in {"direct", "sibling", "exchanged"} /\ b.client = c.client
          /\ b.strategy = "direct" => Alike(b, login)
          /\ b.strategy = "sibling" => b.ref = ProductSessionRef(c, GatewayKey(Product))
      BY GatewaySource
    <3>4. key = GatewayKey(Product)
      BY <2>1 DEF RecordKey
    <3> HIDE DEF a, b, key, login
    <3>5. /\ a.strategy = b.strategy /\ a.client = b.client /\ a.ref = b.ref
          /\ a.issuer = b.issuer /\ a.scopes = b.scopes /\ a.resource = b.resource
      BY <3>1, <3>2, DeclaredIssuer DEF Access9
    <3> QED
      BY <3>3, <3>4, <3>5 DEF Served5, Alike
  <2>2. CASE r.record # "gateway"
    <3> DEFINE b == ProductAccess(c, Product)
    <3>1. a = AtLoginIssuer(c, b)
      BY <2>2, Keys DEF Access
    <3>2. Direct(p) \/ p.grant.kind \in LegalGrants
      <4>1. ValidProduct(p)
        BY <1>1 DEF ValidContext, ValidAccount
      <4> QED
        BY <4>1 DEF ValidProduct, ValidGrant, Direct
    <3>3. Access9(b)
      BY <3>2, ProductReached
    <3>4. Product # None
      BY BrokerAssumption
    <3>5. /\ b.strategy \in {"direct", "sibling", "exchanged", "derived", "federated"}
          /\ b.client = IF b.strategy = "federated" THEN p.grant.client ELSE c.client
          /\ b.strategy = "federated" => ~Direct(p) /\ p.grant.kind = "federated"
          /\ b.strategy = "direct" => Alike(b, login)
          /\ b.strategy \in {"sibling", "derived", "federated"} =>
               b.ref = ProductSessionRef(c, Key(Product))
      BY <3>2, <3>4, ProductSource
    <3>6. key = Key(Product)
      BY <2>2 DEF RecordKey
    <3> HIDE DEF a, b, key, login, p
    <3>7. /\ a.strategy = b.strategy /\ a.client = b.client /\ a.ref = b.ref
          /\ a.issuer = b.issuer /\ a.scopes = b.scopes /\ a.resource = b.resource
      BY <3>1, <3>3, DeclaredIssuer DEF Access9
    <3> QED
      BY <3>5, <3>6, <3>7 DEF Served5, Alike
  <2> QED
    BY <2>1, <2>2
<1>6. source = IF a.strategy = "exchanged" THEN [a EXCEPT !.ref = login.ref] ELSE a
  BY DEF Source
<1>7. source.strategy = a.strategy
  <2> HIDE DEF source, a, login
  <2> QED
    BY <1>1, <1>6 DEF Access9
<1>8. ASSUME a.strategy \in Served5
      PROVE  /\ source = a /\ a.client # None
             /\ \E b \in SessionsOf(c) : Alike(b, a)
  <2>1. source = a
    BY <1>6, <1>8 DEF Served5
  <2>2. a.client # None
    BY <1>2, <1>5
  <2>3. CASE a.strategy = "direct"
    <3>1. Alike(login, a)
      BY <1>5, <2>3 DEF Alike
    <3> QED
      BY <1>4, <2>1, <2>2, <3>1
  <2>4. CASE a.strategy # "direct"
    <3>1. a.ref = ProductSessionRef(c, key)
      BY <1>5, <1>8, <2>4 DEF Served5
    <3>2. key \in {Key(Product), GatewayKey(Product)}
      BY DEF RecordKey
    <3>3. a.ref # LoginRef(c)
      BY <3>1, <3>2, OwnReference
    <3>4. a.ref # None
      BY <1>1, <3>1 DEF NoneApart
    <3>5. a \in SessionsOf(c)
      BY <1>1, <1>8, <3>3, <3>4 DEF SessionsOf, Accesses, Served5
    <3>6. Alike(a, a)
      BY DEF Alike
    <3> QED
      BY <2>1, <2>2, <3>5, <3>6
  <2> QED
    BY <2>3, <2>4
<1> HIDE DEF a, source, login, key
<1> QED
  BY <1>2, <1>3, <1>4, <1>5, <1>7, <1>8 DEF a, source, login, key

\* A machine client is served for itself.
LEMMA SourceInline ==
  ASSUME NEW c, NEW receipt, NEW r, Permitted(c, receipt, r), c.kind = "client-credentials"
  PROVE  Source(c, r) = Access(c, RecordKey(r)) /\ Source(c, r).strategy = "inline"
<1> DEFINE a == Access(c, RecordKey(r))
<1>1. Source(c, r) = a
  BY DEF Source
<1>2. a.strategy = "inline"
  <2>1. CASE r.record = "gateway"
    <3> DEFINE b == GatewayAccess(c, Product)
               key == GatewayKey(Product)
               ref == ProductSessionRef(c, key)
               access == Reached(c, "sibling", key, c.products[Product].gateway, ref)
    <3>1. a = AtLoginIssuer(c, b)
      BY <2>1, Keys DEF Access
    <3>2. Access9(b)
      BY GatewayReached
    <3>3. b = [access EXCEPT !.strategy = "inline", !.ref = None]
      BY DEF GatewayAccess
    <3>4. access = [access EXCEPT !.ref = access.ref] /\ "strategy" \in DOMAIN access
      BY DEF Reached
    <3> HIDE DEF a, b, access
    <3>5. b.strategy = "inline"
      BY <3>3, <3>4
    <3> QED
      BY <3>1, <3>2, <3>5, DeclaredIssuer DEF Access9
  <2>2. CASE r.record # "gateway"
    <3>1. a = AtLoginIssuer(c, InlineAccess(c, Product))
      BY <2>2, Keys DEF Access
    <3> HIDE DEF a
    <3> QED
      BY <3>1, InlineReached, DeclaredIssuer DEF Access9
  <2> QED
    BY <2>1, <2>2
<1> QED
  BY <1>1, <1>2

\* How an issuer answers a renewal of a token it honours.
LEMMA RefreshAnswers ==
  ASSUME NEW s, NEW r, r.refresh \in DOMAIN s.refreshTokens
  PROVE  LET h == D!RefreshGrant(s, r)
             record == s.refreshTokens[r.refresh]
             issued == D!RenewedScopes(s, record.scopes, r.scopes)
         IN /\ issued = None => ~h.answer.ok /\ h.answer.error = "invalid_scope"
            /\ issued # None =>
                 /\ h.answer.ok /\ h.answer.scope \in {None, issued}
                 /\ h.answer.access.scopes = issued
                 /\ h.answer.access.audience =
                      IF record.resource # None THEN record.resource ELSE s.opts.audience
<1> DEFINE h == D!RefreshGrant(s, r)
           record == s.refreshTokens[r.refresh]
           issued == D!RenewedScopes(s, record.scopes, r.scopes)
           access == D!Access(s, "user-1", issued, record.resource)
           id == IF D!OpenID \in issued THEN D!IDToken(s, r.client, None, issued) ELSE None
           refresh == IF s.opts.rotate THEN s.minted + 1 ELSE None
           scope == IF s.opts.omitScopeField THEN None ELSE issued
<1>1. CASE issued = None
  <2>1. h = D!OAuthError(s, "invalid_scope")
    BY <1>1 DEF D!RefreshGrant
  <2> HIDE DEF h
  <2> QED
    BY <1>1, <2>1 DEF D!OAuthError, D!Answered, h
<1>2. CASE issued # None
  <2>1. h.answer = D!Tokens(access, refresh, id, scope)
    BY <1>2 DEF D!RefreshGrant, D!Answered
  <2>2. scope \in {None, issued}
    OBVIOUS
  <2>3. /\ access.scopes = issued
        /\ access.audience = IF record.resource # None THEN record.resource
                             ELSE s.opts.audience
    <3> HIDE DEF issued, record
    <3> QED
      BY DEF D!Access
  <2> HIDE DEF h, access, refresh, id, scope, issued, record
  <2>4. h.answer.ok /\ h.answer.access = access /\ h.answer.scope = scope
    BY <2>1 DEF D!Tokens
  <2> QED
    BY <1>2, <2>2, <2>3, <2>4 DEF h, issued, record
<1> QED
  BY <1>1, <1>2

\* What a renewal is denied for, and what it still is when the session is the one
\* a login leaves.
Causes == {None, "discovery_failed", "narrowing_unavailable"}
LoginCauses == {"login_required", "session_issuer_mismatch"}

LEMMA RenewalDenies ==
  ASSUME Good(issuers, sessions), NEW access, NEW scopes, NEW reached
  PROVE  LET made == Renew(access, scopes, reached)
         IN /\ made.denied \in Causes \cup LoginCauses
            /\ Matches(access) /\ access.client # None => made.denied \in Causes
<1> DEFINE ref == access.ref
           stored == sessions[ref]
           u == access.issuer
           s == issuers[u]
           r == [refresh |-> stored.refresh, scopes |-> scopes, client |-> access.client]
           served == D!RefreshGrant(s, r)
           iss == [issuers EXCEPT ![u] = served.issuer]
           ses == IF served.answer.refresh = None THEN sessions
                  ELSE [sessions EXCEPT ![ref].refresh = served.answer.refresh]
           drifted == (~stored.bound /\ access.resource # None) \/ Drifted(stored, access)
           unreached == Unreached(u, access.issuerID, reached)
           refused == RefusedRenewal(served.answer.error)
           made == Renew(access, scopes, reached)
<1>1. made = IF ref \notin DOMAIN sessions
             THEN Denied(issuers, sessions, "login_required")
             ELSE IF stored.issuer # u
             THEN Denied(issuers, sessions, "session_issuer_mismatch")
             ELSE IF drifted
             THEN Denied(issuers, sessions, "login_required")
             ELSE IF unreached # None
             THEN Denied(issuers, sessions, "discovery_failed")
             ELSE IF ~served.answer.ok
             THEN Denied(iss, sessions, refused)
             ELSE Issued(iss, ses, served.answer)
  BY DEF Renew
<1>2. refused \in {"narrowing_unavailable", "login_required"}
  BY DEF RefusedRenewal
<1>3. ASSUME Matches(access), access.client # None
      PROVE  /\ ref \in DOMAIN sessions /\ stored.issuer = u /\ ~drifted
             /\ ~served.answer.ok => refused = "narrowing_unavailable"
  <2>1. /\ ref \in DOMAIN sessions /\ stored.issuer = u /\ stored.client = access.client
        /\ stored.scopes = access.scopes /\ stored.resource = access.resource
    BY <1>3 DEF Matches
  <2>2. stored.bound = TRUE /\ r.refresh \in DOMAIN s.refreshTokens
    BY <1>3, <2>1 DEF Good, Covered
  <2>3. ~drifted
    BY <2>1, <2>2 DEF Drifted
  <2>4. served.answer.ok \/ served.answer.error = "invalid_scope"
    BY <2>2, RefreshAnswers
  <2> QED
    BY <2>1, <2>3, <2>4 DEF RefusedRenewal
<1> HIDE DEF stored, served, iss, ses, made, refused, drifted, unreached, u, ref
<1>4. made.denied \in Causes \cup LoginCauses
  BY <1>1, <1>2 DEF Denied, Issued, Causes, LoginCauses
<1>5. ASSUME Matches(access), access.client # None
      PROVE  made.denied \in Causes
  BY <1>1, <1>3, <1>5 DEF Denied, Issued, Causes
<1> QED
  BY <1>4, <1>5 DEF made

\* A session kept for what its access names renews to exactly what is asked for,
\* of an issuer that narrows.
LEMMA NarrowedRenewal ==
  ASSUME Good(issuers, sessions), NEW access, Matches(access), access.client # None,
         NEW r, r.scopes # {}, r.scopes # None, r.scopes \subseteq access.scopes,
         NEW reached, BoundThere(access),
         issuers[access.issuer].opts.refreshMode = "honor",
         IF access.resource = None
         THEN issuers[access.issuer].opts.audience = access.audience
         ELSE access.resource = access.audience
  PROVE  Verified(Renew(access, r.scopes, reached), r, access.audience).denied
           \in {None, "discovery_failed"}
<1> DEFINE ref == access.ref
           stored == sessions[ref]
           u == access.issuer
           s == issuers[u]
           q == [refresh |-> stored.refresh, scopes |-> r.scopes, client |-> access.client]
           served == D!RefreshGrant(s, q)
           iss == [issuers EXCEPT ![u] = served.issuer]
           ses == IF served.answer.refresh = None THEN sessions
                  ELSE [sessions EXCEPT ![ref].refresh = served.answer.refresh]
           drifted == (~stored.bound /\ access.resource # None) \/ Drifted(stored, access)
           unreached == Unreached(u, access.issuerID, reached)
           refused == RefusedRenewal(served.answer.error)
           made == Renew(access, r.scopes, reached)
           record == s.refreshTokens[stored.refresh]
<1>1. made = IF ref \notin DOMAIN sessions
             THEN Denied(issuers, sessions, "login_required")
             ELSE IF stored.issuer # u
             THEN Denied(issuers, sessions, "session_issuer_mismatch")
             ELSE IF drifted
             THEN Denied(issuers, sessions, "login_required")
             ELSE IF unreached # None
             THEN Denied(issuers, sessions, "discovery_failed")
             ELSE IF ~served.answer.ok
             THEN Denied(iss, sessions, refused)
             ELSE Issued(iss, ses, served.answer)
  BY DEF Renew
<1>2. /\ ref \in DOMAIN sessions /\ stored.issuer = u /\ stored.client = access.client
      /\ stored.scopes = access.scopes /\ stored.resource = access.resource
  BY DEF Matches
<1>3. /\ stored.bound = TRUE /\ stored.refresh \in DOMAIN s.refreshTokens
      /\ stored.scopes \subseteq record.scopes
  BY <1>2 DEF Good, Covered
<1>4. ~drifted
  BY <1>2, <1>3 DEF Drifted
<1>5. D!RenewedScopes(s, record.scopes, r.scopes) = r.scopes
  BY <1>2, <1>3 DEF D!RenewedScopes
<1>6. record.resource = access.resource
  BY DEF BoundThere
<1>7. /\ served.answer.ok /\ served.answer.scope \in {None, r.scopes}
      /\ served.answer.access.scopes = r.scopes
      /\ served.answer.access.audience =
           IF record.resource # None THEN record.resource ELSE s.opts.audience
  <2>1. q.refresh = stored.refresh /\ q.scopes = r.scopes
    OBVIOUS
  <2> HIDE DEF q, s, stored
  <2> QED
    BY <1>3, <1>5, <2>1, RefreshAnswers
<1>8. served.answer.access.audience = access.audience
  BY <1>6, <1>7
<1> HIDE DEF stored, served, iss, ses, made, refused, drifted, unreached, u, ref, s, record
<1>9. Narrowed(served.answer, r, access.audience)
  BY <1>7, <1>8 DEF Narrowed, Effective
<1>10. \/ made = Denied(issuers, sessions, "discovery_failed")
       \/ made = Issued(iss, ses, served.answer)
  BY <1>1, <1>2, <1>4, <1>7
<1>11. CASE made = Denied(issuers, sessions, "discovery_failed")
  <2>1. made.denied = "discovery_failed" /\ made.denied # None
    BY <1>11, DeniedIs DEF Denied, Denials
  <2> QED
    BY <2>1 DEF Verified, made
<1>12. CASE made = Issued(iss, ses, served.answer)
  <2>1. made.denied = None /\ made.answer = served.answer
    BY <1>12 DEF Issued
  <2> QED
    BY <1>9, <2>1 DEF Verified, made
<1> QED
  BY <1>10, <1>11, <1>12

\* A machine client that cooperates with its issuer is never told it cannot narrow.
LEMMA InlineDenies ==
  ASSUME NEW c, NEW r, NEW reached
  PROVE  LET access == Access(c, RecordKey(r))
             made == InlineMint(c, access, r, reached)
         IN /\ made.denied \in Causes \cup {"credential_unavailable"}
            /\ Cooperates(c, r) => made.denied # "narrowing_unavailable"
<1> DEFINE access == Access(c, RecordKey(r))
           source == InlineSource(c, r)
           s == issuers[access.issuer]
           q == [client |-> source.client, secret |-> source.secret,
                 scopes |-> r.scopes, resource |-> access.resource]
           served == D!ClientCredentialsGrant(s, q)
           iss == [issuers EXCEPT ![access.issuer] = served.issuer]
           refusal == RefusedInline(served.answer.error)
           unreached == Unreached(access.issuer, access.issuerID, reached)
           issued == Issued(iss, sessions, served.answer)
           made == InlineMint(c, access, r, reached)
<1>1. made = IF unreached # None
             THEN Denied(issuers, sessions, "discovery_failed")
             ELSE IF ~served.answer.ok
             THEN Denied(iss, sessions, refusal)
             ELSE Verified(issued, r, access.audience)
  BY DEF InlineMint
<1>2. refusal \in {"narrowing_unavailable", "credential_unavailable", "discovery_failed"}
  BY DEF RefusedInline
<1>3. ASSUME Cooperates(c, r)
      PROVE  IF served.answer.ok THEN Narrowed(served.answer, r, access.audience)
             ELSE refusal = "credential_unavailable"
  <2> DEFINE token == D!Access(s, "client-1", r.scopes, access.resource)
             refused == q.client = None \/ q.secret = None
                        \/ (s.opts.clientSecret # None /\ q.secret # s.opts.clientSecret)
  <2>1. /\ r.scopes # {} /\ s.opts.clientMode = "honor"
        /\ s.opts.registeredResource = None
        /\ access.resource = None => s.opts.audience = access.audience
                                     /\ ~s.opts.requireResource
        /\ access.resource # None => access.resource = access.audience
    BY <1>3 DEF Cooperates
  <2>2. token.scopes = r.scopes /\ token.audience = access.audience
    <3>1. /\ token.scopes = r.scopes
          /\ token.audience = IF access.resource # None THEN access.resource
                              ELSE s.opts.audience
      BY DEF D!Access
    <3> HIDE DEF token
    <3> QED
      BY <2>1, <3>1
  <2>3. CASE refused
    <3>1. served = D!OAuthError(s, "invalid_client")
      BY <2>3 DEF D!ClientCredentialsGrant
    <3> HIDE DEF served
    <3>2. ~served.answer.ok /\ served.answer.error = "invalid_client"
      BY <3>1 DEF D!OAuthError, D!Answered
    <3> QED
      BY <3>2 DEF RefusedInline
  <2>4. CASE ~refused
    <3>1. served.answer = D!Tokens(token, None, None, r.scopes)
      <4>1. q.resource = access.resource /\ q.scopes = r.scopes
        OBVIOUS
      <4> HIDE DEF q, s, access
      <4> QED
        BY <2>1, <2>4, <4>1 DEF D!ClientCredentialsGrant, D!Answered
    <3> HIDE DEF served, token
    <3>2. /\ served.answer.ok /\ served.answer.access = token
          /\ served.answer.scope = r.scopes
      BY <3>1 DEF D!Tokens
    <3> QED
      BY <2>1, <2>2, <3>2 DEF Narrowed, Effective
  <2> QED
    BY <2>3, <2>4
<1> HIDE DEF served, refusal, made, unreached, iss
<1>4. /\ issued.denied = None /\ issued.answer = served.answer
  BY DEF Issued
<1> HIDE DEF issued
<1>5. /\ Verified(issued, r, access.audience).denied \in {None, "narrowing_unavailable"}
      /\ Narrowed(served.answer, r, access.audience) =>
           Verified(issued, r, access.audience).denied = None
  BY <1>4 DEF Verified, Denied
<1>6. made.denied \in Causes \cup {"credential_unavailable"}
  BY <1>1, <1>2, <1>5 DEF Denied, Causes
<1>7. ASSUME Cooperates(c, r)
      PROVE  made.denied # "narrowing_unavailable"
  <2>1. None # "narrowing_unavailable"
    BY BrokerAssumption DEF Denials
  <2> QED
    BY <1>1, <1>3, <1>5, <1>7, <2>1 DEF Denied
<1> QED
  BY <1>6, <1>7 DEF made

\* A session of its own, an assertion and an exchange are denied for what the
\* renewal they begin with is, or for what follows it.
LEMMA SessionDenies ==
  ASSUME Good(issuers, sessions), NEW access, NEW r, NEW reached
  PROVE  LET made == SessionDerive(access, r, reached)
         IN /\ made.denied \in Causes \cup LoginCauses
            /\ Matches(access) /\ access.client # None =>
                 /\ made.denied \in Causes
                 /\ /\ r.scopes # {} /\ r.scopes # None /\ r.scopes \subseteq access.scopes
                    /\ BoundThere(access)
                    /\ issuers[access.issuer].opts.refreshMode = "honor"
                    /\ IF access.resource = None
                       THEN issuers[access.issuer].opts.audience = access.audience
                       ELSE access.resource = access.audience
                    => made.denied \in {None, "discovery_failed"}
<1> DEFINE made == SessionDerive(access, r, reached)
           renewed == Renew(access, r.scopes, reached)
           verified == Verified(renewed, r, access.audience)
<1>1. CASE StoredGrant(access, r)
  <2>1. made.denied = None
    BY <1>1 DEF SessionDerive, Issued
  <2> QED
    BY <2>1 DEF Causes
<1>2. CASE ~StoredGrant(access, r)
  <2>1. made = verified
    BY <1>2 DEF SessionDerive
  <2>2. /\ renewed.denied \in Causes \cup LoginCauses
        /\ Matches(access) /\ access.client # None => renewed.denied \in Causes
    BY RenewalDenies
  <2>3. verified.denied \in {renewed.denied, "narrowing_unavailable"}
    <3> HIDE DEF renewed
    <3> QED
      BY DEF Verified, Denied
  <2> HIDE DEF made, verified, renewed
  <2>4. made.denied \in Causes \cup LoginCauses
    BY <2>1, <2>2, <2>3 DEF Causes
  <2>5. Matches(access) /\ access.client # None => made.denied \in Causes
    BY <2>1, <2>2, <2>3 DEF Causes
  <2> QED
    BY <2>1, <2>4, <2>5, NarrowedRenewal DEF made, verified, renewed
<1> QED
  BY <1>1, <1>2

\* Further causes of an assertion's and an exchange's.
Further == {"trust_not_configured", "exchange_unusable", "exchange_unavailable"}

LEMMA AssertionDenies ==
  ASSUME Good(issuers, sessions), NEW c, NEW access, NEW r, NEW reached
  PROVE  LET made == AssertionDerive(c, access, r, reached)
         IN /\ made.denied \in Causes \cup Further \cup LoginCauses
            /\ Matches(access) /\ access.client # None =>
                 made.denied \in Causes \cup Further
<1> DEFINE g == c.products[Product].grant
           renewed == Renew(access, AssertionScopes(g), reached)
           served == D!BearerGrant(renewed.issuers[g.issuer], renewed.issuers[access.issuer],
                       [client |-> g.client, assertion |-> renewed.answer.id,
                        scopes |-> r.scopes])
           refusal == RefusedAssertion(served.answer.error)
           made == AssertionDerive(c, access, r, reached)
           followed == Followed(renewed, g.issuer, served, refusal)
           unreached == Unreached(g.issuer, None, reached)
<1>1. made = IF renewed.denied # None THEN renewed
             ELSE IF renewed.answer.id = None
             THEN Denied(renewed.issuers, renewed.sessions, "narrowing_unavailable")
             ELSE IF unreached # None
             THEN Denied(renewed.issuers, renewed.sessions, "discovery_failed")
             ELSE Verified(followed, r, access.audience)
  BY DEF AssertionDerive, AssertionPresented, Asserted
<1>2. refusal \in {"narrowing_unavailable", "trust_not_configured"}
  BY DEF RefusedAssertion
<1>3. /\ renewed.denied \in Causes \cup LoginCauses
      /\ Matches(access) /\ access.client # None => renewed.denied \in Causes
  BY RenewalDenies
<1> HIDE DEF served, refusal, made, unreached, renewed
<1>4. followed.denied \in {None, refusal}
  BY DEF Followed, Issued, Denied
<1> HIDE DEF followed
<1>5. Verified(followed, r, access.audience).denied
        \in {None, "narrowing_unavailable", "trust_not_configured"}
  BY <1>2, <1>4 DEF Verified, Denied
<1>6. made.denied \in {renewed.denied} \cup Causes \cup Further
  BY <1>1, <1>5 DEF Denied, Causes, Further
<1> QED
  BY <1>3, <1>6 DEF made

LEMMA ExchangeDenies ==
  ASSUME Good(issuers, sessions), NEW login, NEW access, NEW r, NEW reached
  PROVE  LET made == ExchangeDerive(login, access, r, reached)
         IN /\ made.denied \in Causes \cup Further \cup LoginCauses
            /\ Matches(login) /\ login.client # None =>
                 made.denied \in Causes \cup Further
<1> DEFINE audience == IF r.record = "api" THEN r.resource ELSE access.audience
           renewed == Renew(login, login.scopes, reached)
           served == D!ExchangeGrant(renewed.issuers[login.issuer],
                       [client |-> login.client, subject |-> renewed.answer.access,
                        resource |-> audience])
           made == ExchangeDerive(login, access, r, reached)
           followed == Followed(renewed, login.issuer, served, "exchange_unavailable")
<1>1. made = IF renewed.denied # None THEN renewed ELSE BindingVerified(followed, audience)
  BY DEF ExchangeDerive, ExchangedFor
<1>2. /\ renewed.denied \in Causes \cup LoginCauses
      /\ Matches(login) /\ login.client # None => renewed.denied \in Causes
  BY RenewalDenies
<1> HIDE DEF audience, renewed, made, served
<1>3. followed.denied \in {None, "exchange_unavailable"}
  BY DEF Followed, Issued, Denied
<1> HIDE DEF followed
<1>4. BindingVerified(followed, audience).denied
        \in {None, "exchange_unavailable", "exchange_unusable"}
  BY <1>3 DEF BindingVerified, Denied
<1>5. made.denied \in {renewed.denied} \cup Causes \cup Further
  BY <1>1, <1>4 DEF Causes, Further
<1> QED
  BY <1>2, <1>5 DEF made

\* What a denied request shows of its context and its issuer.
ForCause(c, r, interactive, code) ==
  LET source == Source(c, r)
  IN /\ code \in LoginCauses => ~LoggedIn(c)
     /\ code \in {"session_required", "reauthorization_required"} => ~interactive
     /\ code = "narrowing_unavailable" /\ source.strategy = "inline" => ~Cooperates(c, r)
     /\ code = "narrowing_unavailable"
        /\ source.strategy \in {"direct", "sibling", "federated"} =>
          ~Cooperates(c, r) \/ ~LoggedIn(c) \/ ~BoundThere(source)

\* A source denies a request the policy let through only for a cause.
LEMMA DeriveCause ==
  ASSUME Good(issuers, sessions), NEW c, NEW receipt, NEW r, Permitted(c, receipt, r),
         NEW reached, NEW interactive,
         Derive(c, Source(c, r), r, reached).denied # None
  PROVE  ForCause(c, r, interactive, Derive(c, Source(c, r), r, reached).denied)
<1> DEFINE source == Source(c, r)
           made == Derive(c, source, r, reached)
           access == Access(c, RecordKey(r))
           login == LoginAccess(c)
           code == made.denied
<1>1. CASE c.kind = "development-credential"
  <2>1. source.strategy = "development"
    BY <1>1 DEF Source
  <2>2. made = DevelopmentMint(c, r)
    BY <2>1 DEF Derive
  <2>3. made.denied = None
    BY <2>2 DEF DevelopmentMint, Issued
  <2> QED
    BY <2>3
<1>2. CASE c.kind = "client-credentials"
  <2>1. source = access /\ source.strategy = "inline"
    BY <1>2, SourceInline
  <2>2. made = InlineMint(c, access, r, reached)
    BY <2>1 DEF Derive
  <2>3. /\ code \in Causes \cup {"credential_unavailable"}
        /\ Cooperates(c, r) => code # "narrowing_unavailable"
    BY <2>2, InlineDenies
  <2> HIDE DEF code
  <2>4. code # None
    BY DEF code
  <2> QED
    BY <2>1, <2>3, <2>4 DEF ForCause, Causes, LoginCauses, code
<1>3. CASE c.kind \notin {"development-credential", "client-credentials"}
  <2>1. /\ login \in SessionsOf(c) /\ login.client # None
        /\ source.strategy = access.strategy
        /\ source.strategy \in Served5 \cup {"exchanged"}
        /\ source.strategy \in Served5 =>
             /\ source = access /\ source.client # None
             /\ \E a \in SessionsOf(c) : Alike(a, source)
    BY <1>3, SourceStored
  <2>2. ASSUME LoggedIn(c)
        PROVE  /\ Matches(login)
               /\ source.strategy \in Served5 => Matches(source)
    BY <2>1, <2>2, MatchesAlike DEF LoggedIn
  <2> DEFINE allowed == Causes \cup Further
  <2>3. /\ code \in allowed \cup LoginCauses
        /\ LoggedIn(c) => code \in allowed
        /\ source.strategy \in {"direct", "sibling", "federated"} =>
             (LoggedIn(c) /\ Cooperates(c, r) /\ BoundThere(source) =>
                code \in {None, "discovery_failed"})
    <3> HIDE DEF source, login, access
    <3>1. CASE source.strategy = "exchanged"
      <4>1. made = ExchangeDerive(login, source, r, reached)
        BY <3>1 DEF Derive, login
      <4>2. /\ code \in allowed \cup LoginCauses
            /\ Matches(login) /\ login.client # None => code \in allowed
        BY <4>1, ExchangeDenies
      <4> QED
        BY <2>1, <2>2, <3>1, <4>2
    <3>2. CASE source.strategy = "derived"
      <4>1. made = AssertionDerive(c, source, r, reached)
        BY <3>2 DEF Derive
      <4>2. /\ code \in allowed \cup LoginCauses
            /\ Matches(source) /\ source.client # None => code \in allowed
        BY <4>1, AssertionDenies
      <4> QED
        BY <2>1, <2>2, <3>2, <4>2 DEF Served5
    <3>3. CASE source.strategy \in {"direct", "sibling", "federated"}
      <4>1. made = SessionDerive(source, r, reached)
        BY <3>3 DEF Derive
      <4> DEFINE opts == issuers[source.issuer].opts
                 suited == /\ r.scopes # {} /\ r.scopes # None
                           /\ r.scopes \subseteq source.scopes
                           /\ BoundThere(source) /\ opts.refreshMode = "honor"
                           /\ IF source.resource = None
                              THEN opts.audience = source.audience
                              ELSE source.resource = source.audience
      <4>2. /\ code \in Causes \cup LoginCauses
            /\ Matches(source) /\ source.client # None =>
                 /\ code \in Causes
                 /\ suited => code \in {None, "discovery_failed"}
        <5> HIDE DEF made
        <5> QED
          BY <4>1, SessionDenies
      <4>3. r.scopes # None
        BY <1>3 DEF Permitted
      <4>4. source = Access(c, RecordKey(r))
        BY <2>1, <3>3 DEF Served5, access
      <4>5. Cooperates(c, r) /\ BoundThere(source) => suited
        BY <4>3, <4>4 DEF Cooperates
      <4> HIDE DEF made, suited
      <4> QED
        BY <2>1, <2>2, <3>3, <4>2, <4>5 DEF Served5
    <3> QED
      BY <2>1, <3>1, <3>2, <3>3 DEF Served5
  <2>4. source.strategy # "inline"
    BY <2>1 DEF Served5
  <2>5. code # None
    OBVIOUS
  <2> HIDE DEF code
  <2>6. code \in LoginCauses => ~LoggedIn(c)
    BY <2>3, <2>5 DEF Causes, Further, LoginCauses
  <2>7. code \notin {"session_required", "reauthorization_required"}
    BY <2>3, <2>5 DEF Causes, Further, LoginCauses
  <2>8. code = "narrowing_unavailable"
        /\ source.strategy \in {"direct", "sibling", "federated"} =>
          ~Cooperates(c, r) \/ ~LoggedIn(c) \/ ~BoundThere(source)
    BY <2>3, <2>5
  <2> QED
    BY <2>4, <2>6, <2>7, <2>8 DEF ForCause, code
<1> QED
  BY <1>1, <1>2, <1>3

\* What a session cannot be established for is none of these causes.
LEMMA EstablishDenies ==
  ASSUME NEW c, NEW access, NEW reached
  PROVE  Establish(c, access, reached).denied
           \in {None, "product_not_configured", "discovery_failed", "login_failed",
                "credential_unavailable"}
<1> DEFINE authorized == Authorized(c, access)
           why == NotEstablished(c, access, authorized.answer, reached)
<1>1. why \in {None, "product_not_configured", "discovery_failed", "login_failed",
               "credential_unavailable"}
  BY DEF NotEstablished
<1>2. Establish(c, access, reached) = Settled(access, authorized, why)
  BY DEF Establish, Completed
<1> HIDE DEF authorized, why
<1> QED
  BY <1>1, <1>2 DEF Settled, Denied

LEMMA NextForCause ==
  ASSUME StoreInv, [Next]_vars, Denying
  PROVE  ForCause(command.context, command.request, command.interactive,
                  command'.answer.denied)
<1> DEFINE c == command.context
           r == command.request
           source == Source(c, r)
<1>1. ASSUME NEW code, Deny(code)
      PROVE  command'.answer.denied = code
  <2> DEFINE answer == [denied |-> code, context |-> command.context,
                        request |-> command.request]
  <2>1. command' = [command EXCEPT !.at = "running", !.answer = answer]
    BY <1>1 DEF Deny, Answer
  <2>2. answer.denied = code
    OBVIOUS
  <2> HIDE DEF answer
  <2> QED
    BY <2>1, <2>2 DEF StoreInv, GrantInv, CommandKept
<1>2. ASSUME NEW reached, Deny(Establish(c, source, reached).denied)
      PROVE  ForCause(c, r, command.interactive, command'.answer.denied)
  <2> DEFINE code == Establish(c, source, reached).denied
  <2>1. command'.answer.denied = code
    BY <1>1, <1>2
  <2>2. code \in {"product_not_configured", "discovery_failed", "login_failed",
                  "credential_unavailable"}
    BY <2>1, EstablishDenies DEF Denying
  <2> HIDE DEF code, source
  <2> QED
    BY <2>1, <2>2 DEF ForCause, LoginCauses
<1>3. ASSUME NEW at, command' = [command EXCEPT !.at = at], at # "running"
      PROVE  FALSE
  <2>1. command'.at = at
    BY <1>3 DEF StoreInv, GrantInv, CommandKept
  <2> QED
    BY <1>3, <2>1 DEF Denying
<1>4. CASE EnsureSession
  <2>1. PICK reached :
          \/ command' = [command EXCEPT !.at = "derive"]
          \/ ~command.interactive /\ Deny("session_required")
          \/ Deny(Establish(c, source, reached).denied)
    BY <1>4 DEF EnsureSession, Authorizes
  <2>2. CASE ~command.interactive /\ Deny("session_required")
    BY <1>1, <2>2 DEF ForCause, LoginCauses
  <2> QED
    BY <1>2, <1>3, <2>1, <2>2
<1>5. CASE Mint
  <2>1. PICK reached :
          LET made == Derive(c, source, r, reached)
          IN \/ made.denied = None /\ Grant(made.answer.access)
             \/ command' = [command EXCEPT !.at = "reauthorize"]
             \/ made.denied # None /\ Deny(made.denied)
    BY <1>5 DEF Mint
  <2> DEFINE made == Derive(c, source, r, reached)
  <2>2. CASE made.denied = None /\ Grant(made.answer.access)
    <3> DEFINE own == command.own \/ command.request.record # "api"
               api == command.api \/ command.request.record = "api"
               answer == [denied |-> None]
    <3>1. command' = [[command EXCEPT !.own = own, !.api = api]
                        EXCEPT !.at = "running", !.answer = answer]
      BY <2>2 DEF Grant, Answer
    <3>2. answer.denied = None
      OBVIOUS
    <3> HIDE DEF own, api, answer
    <3>3. command'.answer = answer
      BY <3>1 DEF StoreInv, GrantInv, CommandKept
    <3> QED
      BY <3>2, <3>3 DEF Denying
  <2>3. CASE made.denied # None /\ Deny(made.denied)
    <3>1. Permitted(c, command.receipt, r)
      BY <1>5 DEF StoreInv, GrantInv, Screened, Mint, Minting
    <3>2. Good(issuers, sessions)
      BY DEF StoreInv
    <3>3. ForCause(c, r, command.interactive, made.denied)
      BY <2>3, <3>1, <3>2, DeriveCause
    <3> HIDE DEF made
    <3> QED
      BY <1>1, <2>3, <3>3
  <2> QED
    BY <1>3, <2>1, <2>2, <2>3
<1>6. CASE Reauthorize
  <2>1. PICK reached :
          \/ command' = [command EXCEPT !.at = "again"]
          \/ ~command.interactive /\ Deny("reauthorization_required")
          \/ Deny(Establish(c, source, reached).denied)
    BY <1>6 DEF Reauthorize, Authorizes
  <2>2. CASE ~command.interactive /\ Deny("reauthorization_required")
    BY <1>1, <2>2 DEF ForCause, LoginCauses
  <2> QED
    BY <1>2, <1>3, <2>1, <2>2
<1>7. CASE Start \/ Acquire \/ End
  <2>1. command.at \in {"idle", "running"}
    BY <1>7 DEF Start, Acquire, End
  <2> QED
    BY <2>1 DEF Denying
<1>8. CASE LogIn \/ Change \/ Expire \/ UNCHANGED vars
  <2>1. UNCHANGED command
    BY <1>8 DEF LogIn, Change, Expire, vars
  <2> QED
    BY <2>1 DEF Denying
<1> QED
  BY <1>4, <1>5, <1>6, <1>7, <1>8 DEF Next

\* A source denies a request only for a cause: no browser may open, some session
\* of the context is not the one a login leaves, or the deployment does not narrow
\* and bind as the context records (DeniedForCause).  Once wso2 login has run, two
\* records that share a session, or read one through the other's, never spoil it.
THEOREM DeniedOnlyForCause == Spec => DeniedForCause
<1> DEFINE Body == Denying => ForCause(command.context, command.request,
                                       command.interactive, command'.answer.denied)
<1>1. StoreInv /\ [Next]_vars => [Body]_vars
  BY NextForCause
<1>2. Spec => [][Body]_vars
  <2> HIDE DEF Body
  <2> QED
    BY <1>1, InitStoreInv, NextStoreInv, PTL DEF Spec
<1> QED
  BY <1>2 DEF DeniedForCause, ForCause, LoginCauses

=============================================================================
