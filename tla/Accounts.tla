------------------------------ MODULE Accounts ------------------------------
(***************************************************************************)
(* A context of the context document (internal/contexts): what it records   *)
(* of a deployment, when a document of them is legal, and how each of its   *)
(* products is reached.  A context and the account derived from it hold the *)
(* same members, and are one record here:                                   *)
(*                                                                          *)
(*   name, type, org         its name, its type and the organization       *)
(*   kind                    the authentication kind                       *)
(*   issuer, issuerID, client, tenant, provider, narrowing, secret          *)
(*                           the members of login                          *)
(*   login                   the namespace login.product names, or None    *)
(*   ref                     the secure-store reference, or None           *)
(*   products                from namespace to product                     *)
(*   synthetic, credential   a version 1 context, and its variable         *)
(*                                                                          *)
(* A product is [url, audience, scopes, grant, gateway, id, secret], a      *)
(* grant [kind, issuer, client, scopes, resource], a gateway [url,         *)
(* audience, scopes].  A URL is a value that is Served in one of four ways. *)
(***************************************************************************)
EXTENDS Integers, Sequences

CONSTANTS None,
          NamespaceOrder,   \* the product namespaces, in sorted order
          Served,           \* Served[u]: what a URL is served over
          Unslashed,        \* Unslashed[u]: u without the slashes it ends in, if any
          AbsoluteURIs      \* the audiences that are absolute URIs

ASSUME AccountsAssumption ==
  /\ \A m, n \in DOMAIN NamespaceOrder :
       NamespaceOrder[m] = NamespaceOrder[n] => m = n
  /\ \A u \in DOMAIN Served :
       Served[u] \in {"https", "loopback", "plaintext", "unreadable", "userinfo"}
  /\ \A u \in DOMAIN Unslashed :
       /\ {u, Unslashed[u]} \subseteq DOMAIN Served
       /\ Served[Unslashed[u]] = Served[u]
       /\ Unslashed[u] \notin DOMAIN Unslashed

TrimRight(u) == IF u \in DOMAIN Unslashed THEN Unslashed[u] ELSE u

InteractiveKinds == {"oauth-browser", "oauth-device"}
LegalKinds == InteractiveKinds \cup {"client-credentials", "pat"}
LegalGrants == {"jwt-bearer", "federated", "exchange"}

ProviderDerivation == [p \in {"asgardeo", "identity-server", "thunder"} |->
  IF p = "thunder" THEN "token-resource" ELSE "scoped-refresh"]

LegalDerivations == {"scoped-refresh", "token-resource"}

\* How the deployment binds access: what the context says, else what its
\* provider is known for, else the scoped refresh.
Derivation(c) ==
  IF c.narrowing # None THEN c.narrowing
  ELSE IF c.provider \in DOMAIN ProviderDerivation
  THEN ProviderDerivation[c.provider] ELSE "scoped-refresh"

\* Reached through the login itself, with no grant of its own.
Direct(p) == p.grant = None

\* What an assertion is asked with: openid, and the grant's own.
AssertionScopes(g) == {"openid"} \cup g.scopes

----------------------------------------------------------------------------
(* Which documents are legal.                                               *)

\* The transport rule: HTTPS, or plain HTTP to this machine.
SecureURL(u) == u # None /\ u \in DOMAIN Served /\ Served[u] \in {"https", "loopback"}

ValidGateway(g) == SecureURL(g.url)

ValidGrant(g) ==
  /\ g.kind \in LegalGrants
  /\ IF g.kind = "exchange" THEN g.issuer = None /\ g.client = None
     ELSE /\ g.client # None
          /\ SecureURL(g.issuer)
          /\ g.resource # None => g.resource \in AbsoluteURIs

ValidProduct(p) ==
  /\ SecureURL(p.url)
  /\ p.id # None => p.secret # None
  /\ p.secret # None => p.id # None \/ p.grant # None
  /\ p.gateway # None => ValidGateway(p.gateway)
  /\ p.grant # None =>
       /\ p.audience # None
       /\ p.grant.kind = "exchange" => p.audience \in AbsoluteURIs
       /\ ValidGrant(p.grant)

\* An identifier is for an issuer that names itself otherwise than by its URL,
\* and one that is a URL keeps the transport rule.
ValidIssuerID(c) ==
  c.issuerID # None =>
    /\ c.kind # "pat"
    /\ TrimRight(c.issuerID) # TrimRight(c.issuer)
    /\ c.issuerID \in DOMAIN Served => SecureURL(c.issuerID)

ValidAuth(c) ==
  /\ c.provider # None => c.provider \in DOMAIN ProviderDerivation
  /\ c.narrowing # None => c.narrowing \in LegalDerivations
  /\ c.kind \in LegalKinds
  /\ c.kind \in InteractiveKinds =>
       c.issuer # None /\ c.client # None /\ c.ref # None /\ c.secret = None
  /\ c.kind = "client-credentials" =>
       c.issuer # None /\ c.client # None /\ c.secret # None /\ c.ref = None
  /\ c.kind = "pat" => c.ref # None /\ c.secret = None
  /\ c.issuer # None => SecureURL(c.issuer)
  /\ ValidIssuerID(c)

\* A deployment that binds a login to a product needs a product, and an
\* absolute audience for every record that access is bound by.
ValidDerivation(c) ==
  Derivation(c) = "token-resource" =>
    /\ DOMAIN c.products # {}
    /\ \A ns \in DOMAIN c.products :
         LET p == c.products[ns]
         IN /\ Direct(p) => p.audience \in AbsoluteURIs
            /\ p.gateway # None => p.gateway.audience \in AbsoluteURIs

ValidAccount(c) ==
  /\ c.type \in {"cloud", "onprem"}
  /\ ValidAuth(c)
  /\ ValidDerivation(c)
  /\ \A ns \in DOMAIN c.products :
       /\ ValidProduct(c.products[ns])
       /\ c.products[ns].secret # None => c.kind = "client-credentials"
  /\ c.login # None =>
       c.login \in DOMAIN c.products /\ Direct(c.products[c.login])

----------------------------------------------------------------------------
(* How a record is reached.  A record's key is its product's namespace, with *)
(* "gateway" after it for the gateway's own record; a session is kept under *)
(* the context's reference, followed by the key of the record it is for.    *)

Key(ns) == <<ns>>
GatewayKey(ns) == <<ns, "gateway">>
IsGatewayKey(key) == Len(key) = 2

LoginRef(c) == <<c.ref>>
ProductSessionRef(c, key) == <<c.ref>> \o key

\* The direct product a login goes through: the one pinned, else the first.
LoginNamespace(c) ==
  LET direct == {n \in DOMAIN NamespaceOrder :
                   /\ NamespaceOrder[n] \in DOMAIN c.products
                   /\ Direct(c.products[NamespaceOrder[n]])}
  IN IF c.login \in DOMAIN c.products /\ Direct(c.products[c.login]) THEN c.login
     ELSE IF direct = {} THEN None
     ELSE NamespaceOrder[CHOOSE n \in direct : \A m \in direct : n <= m]

\* The identifier declared is the login issuer's, and no other issuer's.
AtLoginIssuer(c, access) ==
  [access EXCEPT !.issuerID =
     IF access.issuer # None /\ access.issuer = c.issuer THEN c.issuerID ELSE None]

Reached(c, strategy, key, record, ref) ==
  [strategy |-> strategy, key |-> key, issuer |-> c.issuer, issuerID |-> None,
   client |-> c.client, audience |-> record.audience, scopes |-> record.scopes,
   resource |-> IF Derivation(c) = "token-resource" THEN record.audience ELSE None,
   ref |-> ref]

\* The session a login leaves: bound to its product, or to none.
LoginAccess(c) ==
  LET ns == LoginNamespace(c)
      access == Reached(c, "direct", Key(ns),
                        IF ns = None THEN [audience |-> None, scopes |-> {}]
                        ELSE c.products[ns], LoginRef(c))
  IN AtLoginIssuer(c, IF ns = None THEN [access EXCEPT !.resource = None]
                      ELSE access)

\* Whether a record's session can be the login's own.
SharesLogin(c, access) ==
  /\ access.scopes = LoginAccess(c).scopes
  /\ access.resource = LoginAccess(c).resource

(* Mutant: OfLogin, the login's session taken for every direct product. *)
OfLogin_Always(c, access, pinned) ==
  [access EXCEPT !.strategy = "direct", !.ref = LoginRef(c)]

\* A record of the login issuer: the login's own session, or one beside it.
OfLogin(c, access, pinned) ==
  IF pinned \/ SharesLogin(c, access)
  THEN [access EXCEPT !.strategy = "direct", !.ref = LoginRef(c)]
  ELSE [access EXCEPT !.strategy = "sibling"]

GatewayAccess(c, ns) ==
  LET key == GatewayKey(ns)
      access == Reached(c, "sibling", key, c.products[ns].gateway,
                        ProductSessionRef(c, key))
      grant == c.products[ns].grant
  IN IF c.kind = "client-credentials"
     THEN [access EXCEPT !.strategy = "inline", !.ref = None]
     ELSE IF grant # None /\ grant.kind = "exchange"
     THEN [access EXCEPT !.strategy = "exchanged",
                         !.resource = access.audience, !.ref = None]
     ELSE OfLogin(c, access, FALSE)

InlineAccess(c, ns) ==
  LET p == c.products[ns]
      access == Reached(c, "inline", Key(ns), p, None)
  IN IF Direct(p) THEN access
     ELSE [access EXCEPT !.issuer = p.grant.issuer, !.resource = p.grant.resource]

ProductAccess(c, ns) ==
  LET p == c.products[ns]
      access == Reached(c, "direct", Key(ns), p, ProductSessionRef(c, Key(ns)))
  IN IF Direct(p) THEN OfLogin(c, access, ns = LoginNamespace(c))
     ELSE CASE p.grant.kind = "exchange" ->
                 [access EXCEPT !.strategy = "exchanged",
                                !.resource = p.audience, !.ref = None]
            [] p.grant.kind = "jwt-bearer" ->
                 [access EXCEPT !.strategy = "derived",
                                !.scopes = AssertionScopes(p.grant),
                                !.resource = p.grant.resource]
            [] p.grant.kind = "federated" ->
                 [access EXCEPT !.strategy = "federated",
                                !.issuer = p.grant.issuer,
                                !.client = p.grant.client,
                                !.resource = p.grant.resource]

\* The keys a context records: its products', and their gateways'.
RecordKeys(c) ==
  {Key(ns) : ns \in DOMAIN c.products} \cup
  {GatewayKey(ns) : ns \in {n \in DOMAIN c.products : c.products[n].gateway # None}}

\* How a recorded key is reached.
Access(c, key) ==
  LET ns == key[1]
  IN AtLoginIssuer(c,
       IF IsGatewayKey(key) THEN GatewayAccess(c, ns)
       ELSE IF c.kind = "client-credentials" THEN InlineAccess(c, ns)
       ELSE ProductAccess(c, ns))

\* Every access a login establishes a session for.
Accesses(c) ==
  IF c.kind = "client-credentials" THEN {Access(c, key) : key \in RecordKeys(c)}
  ELSE {LoginAccess(c)} \cup
       {a \in {Access(c, key) : key \in RecordKeys(c)} :
          a.strategy # "exchanged" /\ a.ref # LoginRef(c)}

\* The sessions a context reaches.
SessionsOf(c) ==
  IF c.kind = "client-credentials" \/ c.synthetic THEN {}
  ELSE {a \in Accesses(c) : a.ref # None}

\* What a stored session answers for: who it was established with, and what
\* it was asked for.
Binding(a) == [issuer |-> a.issuer, client |-> a.client, strategy |-> a.strategy,
               resource |-> a.resource, scopes |-> a.scopes]

----------------------------------------------------------------------------
(* A document is [contexts, default]: the contexts in order, and the name   *)
(* selected when none is given.                                             *)

Names(d) == {d.contexts[n].name : n \in DOMAIN d.contexts}

\* A context that reaches a direct product names its login's.
ValidContext(c) ==
  /\ ValidAccount(c)
  /\ c.login = None /\ c.kind # "client-credentials" => LoginNamespace(c) = None

\* No name twice, no reference twice: each context owns its own sessions.
ValidDocument(d) ==
  /\ \A n \in DOMAIN d.contexts : ValidContext(d.contexts[n])
  /\ \A m, n \in DOMAIN d.contexts :
       m # n => /\ d.contexts[m].name # d.contexts[n].name
                /\ d.contexts[m].ref # None => d.contexts[m].ref # d.contexts[n].ref
  /\ d.default # None => d.default \in Names(d)

\* The pinned login, before any change can move it.
FreezeContext(c) ==
  IF c.login # None \/ c.kind = "client-credentials" \/ c.synthetic THEN c
  ELSE [c EXCEPT !.login = LoginNamespace(c)]

Freeze(d) == [d EXCEPT !.contexts = [n \in DOMAIN @ |-> FreezeContext(@[n])]]

Find(d, name) == d.contexts[CHOOSE n \in DOMAIN d.contexts : d.contexts[n].name = name]

Put(d, c) ==
  IF c.name \in Names(d)
  THEN [d EXCEPT !.contexts =
          [n \in DOMAIN @ |-> IF @[n].name = c.name THEN c ELSE @[n]]]
  ELSE [d EXCEPT !.contexts = Append(@, c)]

\* The contexts but the one of a name, in their order.
Others(d, name) ==
  LET at == CHOOSE n \in DOMAIN d.contexts : d.contexts[n].name = name
  IN [n \in 1..(Len(d.contexts) - 1) |-> d.contexts[IF n < at THEN n ELSE n + 1]]

(* Mutant: Without, nothing selected whichever context goes. *)
Without_Default(d, name) == [contexts |-> Others(d, name), default |-> None]

\* A document that holds the name, without its context.
Without(d, name) ==
  [contexts |-> Others(d, name),
   default |-> IF d.default = name THEN None ELSE d.default]

\* A context without one record: its gateway, or the product and all it holds.
WithoutRecord(c, key) ==
  IF IsGatewayKey(key)
  THEN [c EXCEPT !.products[key[1]].gateway = None]
  ELSE [c EXCEPT !.products = [ns \in DOMAIN @ \ {key[1]} |-> @[ns]]]

\* The sessions of d that next does not reach for the same purpose.
SessionsUnreachedBy(d, next) ==
  LET of(e) == UNION {SessionsOf(e.contexts[n]) : n \in DOMAIN e.contexts}
  IN {a \in of(d) : \A b \in of(next) : b.ref = a.ref => Binding(a) # Binding(b)}

\* The first of base, base-2, ... no context holds its sessions under.
NewCredentialRef(d, bases) ==
  LET taken == {d.contexts[n].ref : n \in DOMAIN d.contexts}
  IN bases[CHOOSE n \in DOMAIN bases :
             /\ bases[n] \notin taken
             /\ \A m \in 1..(n - 1) : bases[m] \in taken]

\* What runs: the context named, else the default; None when neither names one.
Select(d, name) ==
  LET wanted == IF name # None THEN name ELSE d.default
  IN IF wanted \in Names(d) THEN Find(d, wanted) ELSE None

=============================================================================
