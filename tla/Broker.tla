------------------------------- MODULE Broker -------------------------------
(***************************************************************************)
(* The broker a running module asks for access (internal/auth): the policy  *)
(* Acquire applies to a request, the source it resolves from the context    *)
(* the command holds, and how each source obtains a token and verifies that *)
(* it is what was asked for.  The issuers are Issuer's records and decide   *)
(* for themselves; the module is not trusted with what it asks for.         *)
(*                                                                          *)
(* Between the steps of a command another shell may log in, an entry's      *)
(* access token may run out, and the context may be changed on disk: the    *)
(* command keeps the context it began with.  A locked section is one step   *)
(* here; SessionRotation takes it apart, with its crashes and losses.       *)
(***************************************************************************)
EXTENDS Accounts, FiniteSets

CONSTANTS
  RegisteredPorts,  \* as Issuer
  Worlds,           \* the deployments and contexts there may be: from each
                    \* issuer's URL to its options, the context on disk, and
                    \* the one it may be changed to
  Product,          \* the namespace of the module that runs
  ProofNamespace,   \* the one the development credential serves
  Receipts,         \* what an installed receipt may declare
  Requests,         \* what a module may ask for
  Environment,      \* from each variable set to its value
  MaxCommands,      \* bound: commands run one after another
  MaxAsks           \* bound: requests of one command

\* The reasons access is denied for.
Denials ==
  {"already_granted", "product_not_configured", "invocation_refused",
   "audience_not_declared", "scope_not_declared", "context_not_selected",
   "namespace_not_brokered", "organization_not_selected", "credential_unavailable",
   "kind_not_implemented", "organization_switch_unsupported", "invocation_unavailable",
   "login_required", "session_issuer_mismatch", "discovery_failed",
   "narrowing_unavailable", "trust_not_configured", "exchange_unusable",
   "exchange_unavailable", "login_failed"}

\* The issuers a context names: its login's, and its products' grants'.
Issuers(c) ==
  ({c.issuer} \cup
   {c.products[ns].grant.issuer :
      ns \in {n \in DOMAIN c.products : c.products[n].grant # None}}) \ {None}

\* How a device request ends, and after how many polls.
Answers(opts) ==
  /\ opts.deviceOutcome \in {"deny", "expire", "approve"}
  /\ opts.pending \in Nat /\ opts.slowDown \in Nat

\* The sets of permissions a context records.
RecordedScopes(c) ==
  {c.products[ns].scopes : ns \in DOMAIN c.products} \cup
  {c.products[ns].gateway.scopes :
     ns \in {n \in DOMAIN c.products : c.products[n].gateway # None}}

\* None is no reference a session is kept under, and no set of permissions.
NoneApart(c) ==
  /\ None \notin {LoginRef(c)} \cup {ProductSessionRef(c, key) : key \in RecordKeys(c)}
  /\ None \notin RecordedScopes(c)

\* A context the shell reads is legal, or stands for one of version 1, whose
\* product has an endpoint and nothing more; every issuer it names is deployed,
\* and answers a device request, in the end, one way or another.
ASSUME BrokerAssumption ==
  /\ \A w \in Worlds : \A c \in {w.context, w.later} \ {None} :
       \/ ValidContext(c) /\ ~c.synthetic /\ NoneApart(c)
       \/ /\ c.synthetic
          /\ \A ns \in DOMAIN c.products :
               c.products[ns].audience = None /\ c.products[ns].gateway = None
  /\ \A w \in Worlds :
       /\ \A c \in {w.context, w.later} \ {None} : Issuers(c) \subseteq DOMAIN w.deployment
       /\ w.upgraded => w.context # None /\ w.context.issuer # None
       /\ \A u \in DOMAIN w.deployment : Answers(w.deployment[u])
  /\ \A r \in Requests : /\ DOMAIN r = {"record", "audience", "scopes", "resource"}
                        /\ r.scopes # None
  /\ None \notin Denials \cup Nat \cup {"verifier", "invalid_target"}
  /\ None # Product /\ None # {}
  /\ RegisteredPorts # {}
  /\ MaxCommands \in Nat /\ MaxAsks \in Nat

D == INSTANCE Discovery

VARIABLES
  issuers,    \* the identity providers, by URL
  sessions,   \* the stored sessions, by reference
  context,    \* the context selected on disk
  later,      \* what it may still be changed to
  command,    \* the running command
  commands,   \* how many have run
  grants      \* every grant made: [context, receipt, request, token]

vars == <<issuers, sessions, context, later, command, commands, grants>>

\* The scopes every login asks for beside a product's own.
Protocol == {"openid", "offline_access", "profile", "email"}

NoCommand == [at |-> "idle", context |-> None, receipt |-> None,
              interactive |-> FALSE, asked |-> 0, own |-> FALSE, api |-> FALSE,
              request |-> None, answer |-> None]

----------------------------------------------------------------------------
(* Policy: what Acquire refuses before anything is obtained.                *)

RecordKey(r) == IF r.record = "gateway" THEN GatewayKey(Product) ELSE Key(Product)

\* What the context records for a request: nothing where it records nothing.
Recorded(c, r) ==
  LET nothing == [audience |-> None, scopes |-> {}]
  IN IF Product \notin DOMAIN c.products THEN nothing
     ELSE IF r.record # "gateway" THEN c.products[Product]
     ELSE IF c.products[Product].gateway = None THEN nothing
     ELSE c.products[Product].gateway

\* The records a receipt declares.
RecordDeclared(receipt, r) ==
  CASE r.record = "own"     -> TRUE
    [] r.record = "gateway" -> receipt.gateway # None
    [] r.record = "api"     -> receipt.invocation
    [] OTHER                -> FALSE

\* The audiences a context records, for any of its products or gateways.
ProductAudiences(c) ==
  {c.products[ns].audience : ns \in DOMAIN c.products} \cup
  {c.products[ns].gateway.audience :
     ns \in {n \in DOMAIN c.products : c.products[n].gateway # None}}

\* Only the api record names a resource, an absolute one, and none that a
\* product's own access is bound to.
Invocable(c, r) ==
  IF r.record = "api"
  THEN r.resource \in AbsoluteURIs /\ r.resource \notin ProductAudiences(c)
  ELSE r.resource = None

\* A request naming no scope asks for those recorded.
Defaulted(c, r) ==
  IF r.scopes = {} THEN [r EXCEPT !.scopes = Recorded(c, r).scopes] ELSE r

Declared(c, receipt, r) ==
  CASE r.audience \notin receipt.audiences -> "audience_not_declared"
    [] r.audience \in receipt.audiences ->
         IF r.scopes \subseteq receipt.scopes \cup Recorded(c, r).scopes
         THEN None ELSE "scope_not_declared"

\* The gateway's record, and whether a machine client may use it.
GatewayRefused(c, receipt, r) ==
  LET g == c.products[Product].gateway
  IN \/ g = None
     \/ g.audience = None
     \/ c.kind = "client-credentials" /\ "inline" \notin receipt.gateway
     \/ ~(r.scopes \subseteq g.scopes)

ProductRefused(c, receipt, r) ==
  \/ Product \notin DOMAIN c.products
  \/ r.record = "gateway" /\ GatewayRefused(c, receipt, r)
  \/ /\ r.record # "gateway"
     /\ LET p == c.products[Product]
        IN \/ p.audience = None
           \/ /\ Derivation(c) = "token-resource"
              /\ p.grant # None /\ p.grant.kind = "jwt-bearer"
              /\ p.grant.resource = None
           \/ p.scopes # {} /\ ~(r.scopes \subseteq p.scopes)

\* An api's access is exchanged from an interactive session, or not at all.
InvocationUnavailable(c, r) ==
  /\ r.record = "api"
  /\ \/ c.kind = "client-credentials"
     \/ Access(c, RecordKey(r)).strategy # "exchanged"

Variable(name) == IF name \in DOMAIN Environment THEN Environment[name] ELSE None

\* The machine client's source: [client, secret], or why there is none.
InlineSource(c, r) ==
  LET p == c.products[Product]
      own == r.record # "gateway" /\ p.secret # None
      secret == Variable(IF own THEN p.secret ELSE c.secret)
      client == IF ~own THEN c.client
                ELSE IF p.id # None THEN Variable(p.id) ELSE p.grant.client
  IN IF r.record # "gateway" /\ p.secret = None /\ ~Direct(p)
     THEN [refused |-> "kind_not_implemented"]
     ELSE IF client = None \/ secret = None
     THEN [refused |-> "credential_unavailable"]
     ELSE [refused |-> None, client |-> client, secret |-> secret]

DevelopmentRefused(c) ==
  CASE Product # ProofNamespace -> "namespace_not_brokered"
    [] Product = ProofNamespace ->
         IF c.org = None THEN "organization_not_selected"
         ELSE IF Variable(c.credential) = None THEN "credential_unavailable"
         ELSE None

\* Why no source is resolved for a request, or None.
SourceRefused(c, receipt, r) ==
  IF c = None THEN "context_not_selected"
  ELSE IF c.kind = "development-credential" THEN DevelopmentRefused(c)
  ELSE IF c.kind = "pat" THEN "kind_not_implemented"
  ELSE IF ProductRefused(c, receipt, r) THEN "product_not_configured"
  ELSE IF c.org \notin {None, c.tenant} THEN "organization_switch_unsupported"
  ELSE IF InvocationUnavailable(c, r) THEN "invocation_unavailable"
  ELSE IF c.kind = "client-credentials" THEN InlineSource(c, r).refused
  ELSE None

\* Why Acquire refuses a request, in its order, or None.
PolicyRefused(cmd, r) ==
  LET c == cmd.context
      asked == IF c = None THEN r ELSE Defaulted(c, r)
      recorded == IF c = None THEN [products |-> << >>] ELSE c
  IN IF (IF r.record = "api" THEN cmd.api ELSE cmd.own) THEN "already_granted"
     ELSE IF ~RecordDeclared(cmd.receipt, r) THEN "product_not_configured"
     ELSE IF ~Invocable(recorded, r) THEN "invocation_refused"
     ELSE IF Declared(recorded, cmd.receipt, asked) # None
     THEN Declared(recorded, cmd.receipt, asked)
     ELSE SourceRefused(c, cmd.receipt, asked)

----------------------------------------------------------------------------
(* Sources: what a locked section does, as [issuers, sessions, and either a *)
(* token or why it is denied].  `reached` says how the issuer was.          *)

Denied(iss, ses, code) == [issuers |-> iss, sessions |-> ses, denied |-> code]

Issued(iss, ses, answer) ==
  [issuers |-> iss, sessions |-> ses, denied |-> None, answer |-> answer]

\* Discovery of an issuer; an answer other than its document is a denial.
Unreached(url, declared, reached) ==
  D!DiscoveryRefused(D!Document(issuers[url]), url, Served[url], declared, reached)

\* A session established for another product than the record's now.
Drifted(stored, access) ==
  \/ stored.client # None /\ stored.client # access.client
  \/ stored.bound /\ stored.resource # access.resource
  \/ stored.scopes # {} /\ stored.scopes # access.scopes

RefusedRenewal(error) ==
  IF error = "invalid_scope" THEN "narrowing_unavailable" ELSE "login_required"

(* Mutant: Renew, a rotated refresh token never written back. *)
Renew_Unsaved(access, scopes, reached) ==
  LET stored == sessions[access.ref]
      served == D!RefreshGrant(issuers[access.issuer],
                  [refresh |-> stored.refresh, scopes |-> scopes,
                   client |-> access.client])
      iss == [issuers EXCEPT ![access.issuer] = served.issuer]
  IN IF access.ref \notin DOMAIN sessions \/ stored.issuer # access.issuer
        \/ ~stored.bound \/ Drifted(stored, access)
     THEN Denied(issuers, sessions, "login_required")
     ELSE IF served.answer.ok THEN Issued(iss, sessions, served.answer)
     ELSE Denied(iss, sessions, "login_required")

\* Renew the session a record reads, for some scopes; a rotated token is
\* saved before anything is made of the answer.
Renew(access, scopes, reached) ==
  IF access.ref \notin DOMAIN sessions
  THEN Denied(issuers, sessions, "login_required")
  ELSE LET stored == sessions[access.ref]
           unreached == Unreached(access.issuer, access.issuerID, reached)
           served == D!RefreshGrant(issuers[access.issuer],
                       [refresh |-> stored.refresh, scopes |-> scopes,
                        client |-> access.client])
           iss == [issuers EXCEPT ![access.issuer] = served.issuer]
       IN IF stored.issuer # access.issuer
          THEN Denied(issuers, sessions, "session_issuer_mismatch")
          ELSE IF \/ ~stored.bound /\ access.resource # None
                  \/ Drifted(stored, access)
          THEN Denied(issuers, sessions, "login_required")
          ELSE IF unreached # None THEN Denied(issuers, sessions, "discovery_failed")
          ELSE IF ~served.answer.ok
          THEN Denied(iss, sessions, RefusedRenewal(served.answer.error))
          ELSE Issued(iss,
                 IF served.answer.refresh = None THEN sessions
                 ELSE [sessions EXCEPT ![access.ref].refresh = served.answer.refresh],
                 served.answer)

\* The permissions an answer states: in its scope member, else in its token.
Effective(answer) ==
  IF answer.scope \notin {None, {}} THEN answer.scope ELSE answer.access.scopes

(* Mutant: Narrowed, an audience the shell does not compare. *)
Narrowed_AnyAudience(answer, r, audience) == Effective(answer) = r.scopes

\* Exactly what was asked for, bound to what the context records.
Narrowed(answer, r, audience) ==
  /\ Effective(answer) # {}
  /\ Effective(answer) = r.scopes
  /\ answer.access.audience = audience

\* A source's answer after verification.
Verified(issued, r, audience) ==
  IF issued.denied # None \/ Narrowed(issued.answer, r, audience) THEN issued
  ELSE Denied(issued.issuers, issued.sessions, "narrowing_unavailable")

\* A federated login's own access token, where it serves the request.
StoredGrant(access, r) ==
  /\ access.strategy = "federated"
  /\ access.ref \in DOMAIN sessions
  /\ LET stored == sessions[access.ref]
     IN /\ stored.fresh
        /\ stored.access.audience = access.audience
        /\ stored.access.scopes \ Protocol = r.scopes

SessionDerive(access, r, reached) ==
  IF StoredGrant(access, r)
  THEN Issued(issuers, sessions, [access |-> sessions[access.ref].access])
  ELSE Verified(Renew(access, r.scopes, reached), r, access.audience)

\* What follows a renewal: a second request, at another issuer or this one.
Followed(renewed, url, served, refusal) ==
  IF served.answer.ok
  THEN Issued([renewed.issuers EXCEPT ![url] = served.issuer], renewed.sessions,
              served.answer)
  ELSE Denied([renewed.issuers EXCEPT ![url] = served.issuer], renewed.sessions, refusal)

RefusedAssertion(error) ==
  IF error = "invalid_scope" THEN "narrowing_unavailable"
  ELSE "trust_not_configured"

Asserted(renewed, url, served) ==
  Followed(renewed, url, served, RefusedAssertion(served.answer.error))

\* The identity token of a renewal, presented to the product's own issuer.
AssertionPresented(renewed, g, access, r, reached) ==
  IF renewed.denied # None THEN renewed
  ELSE IF renewed.answer.id = None
  THEN Denied(renewed.issuers, renewed.sessions, "narrowing_unavailable")
  ELSE IF Unreached(g.issuer, None, reached) # None
  THEN Denied(renewed.issuers, renewed.sessions, "discovery_failed")
  ELSE Verified(
         Asserted(renewed, g.issuer,
           D!BearerGrant(renewed.issuers[g.issuer], renewed.issuers[access.issuer],
             [client |-> g.client, assertion |-> renewed.answer.id, scopes |-> r.scopes])),
         r, access.audience)

AssertionDerive(c, access, r, reached) ==
  LET g == c.products[Product].grant
  IN AssertionPresented(Renew(access, AssertionScopes(g), reached), g, access, r, reached)

\* Only the binding of an exchanged token is verified.
BindingVerified(exchanged, audience) ==
  IF exchanged.denied # None \/ exchanged.answer.access.audience = audience
  THEN exchanged
  ELSE Denied(exchanged.issuers, exchanged.sessions, "exchange_unusable")

ExchangedFor(renewed, login, audience) ==
  IF renewed.denied # None THEN renewed
  ELSE BindingVerified(
         Followed(renewed, login.issuer,
           D!ExchangeGrant(renewed.issuers[login.issuer],
             [client |-> login.client, subject |-> renewed.answer.access,
              resource |-> audience]),
           "exchange_unavailable"),
         audience)

\* The login's access token, exchanged for the audience of the record, or for
\* the api's resource.
ExchangeDerive(login, access, r, reached) ==
  ExchangedFor(Renew(login, login.scopes, reached), login,
               IF r.record = "api" THEN r.resource ELSE access.audience)

RefusedInline(error) ==
  CASE error \in {"invalid_target", "invalid_scope"} -> "narrowing_unavailable"
    [] error = "invalid_client" -> "credential_unavailable"
    [] OTHER -> "discovery_failed"

\* A machine client's own token: nothing is stored.
InlineMint(c, access, r, reached) ==
  LET source == InlineSource(c, r)
      served == D!ClientCredentialsGrant(issuers[access.issuer],
                  [client |-> source.client, secret |-> source.secret,
                   scopes |-> r.scopes, resource |-> access.resource])
      iss == [issuers EXCEPT ![access.issuer] = served.issuer]
  IN IF Unreached(access.issuer, access.issuerID, reached) # None
     THEN Denied(issuers, sessions, "discovery_failed")
     ELSE IF ~served.answer.ok
     THEN Denied(iss, sessions, RefusedInline(served.answer.error))
     ELSE Verified(Issued(iss, sessions, served.answer), r, access.audience)

\* The development credential signs its own token.
DevelopmentMint(c, r) ==
  Issued(issuers, sessions,
    [access |-> [issuer |-> "development", subject |-> None, scopes |-> r.scopes,
                 audience |-> r.audience, organization |-> c.org]])

\* The session whose lock a source works under, and what it does there.
Source(c, r) ==
  IF c.kind = "development-credential" THEN [strategy |-> "development", ref |-> None]
  ELSE LET access == Access(c, RecordKey(r))
       IN IF access.strategy = "exchanged" /\ c.kind # "client-credentials"
          THEN [access EXCEPT !.ref = LoginAccess(c).ref] ELSE access

Derive(c, source, r, reached) ==
  CASE source.strategy = "development" -> DevelopmentMint(c, r)
    [] source.strategy = "inline"    -> InlineMint(c, source, r, reached)
    [] source.strategy = "exchanged" -> ExchangeDerive(LoginAccess(c), source, r, reached)
    [] source.strategy = "derived"   -> AssertionDerive(c, source, r, reached)
    [] OTHER                         -> SessionDerive(source, r, reached)

\* A command may authorize a record that is not the login's own, and authorize
\* it again when its issuer will not narrow to what was asked.
Establishes(source) == source.strategy \in {"sibling", "derived", "federated"}
Reauthorizes(source) == source.strategy \in {"sibling", "federated"}

----------------------------------------------------------------------------
(* A login, as the shell runs it for one access: Login takes it apart.      *)

\* Authorize at the access's issuer and redeem what comes back.  The device
\* request names no resource.
Authorized(c, access) ==
  LET s == issuers[access.issuer]
      scopes == Protocol \cup access.scopes
      redirect == D!HandleAuthorize(s,
        [client |-> access.client, port |-> CHOOSE p \in RegisteredPorts : TRUE,
         challenge |-> "verifier", state |-> "state", nonce |-> "nonce",
         scopes |-> scopes, resource |-> access.resource])
      started == D!HandleDeviceAuthorize(s,
        [client |-> access.client, scopes |-> scopes])
  IN IF c.kind = "oauth-device"
     THEN IF started.answer.ok
          THEN D!DeviceGrant(started.issuer, [device |-> started.answer.device])
          ELSE started
     ELSE IF redirect.answer.error # None
     THEN [issuer |-> redirect.issuer, answer |-> [ok |-> FALSE]]
     ELSE D!ExchangeCode(redirect.issuer,
            [client |-> access.client, code |-> redirect.answer.code,
             port |-> redirect.answer.port, verifier |-> "verifier"])

\* The session a completed login stores.
Established(access, answer) ==
  [issuer |-> access.issuer, client |-> access.client, scopes |-> access.scopes,
   resource |-> access.resource, bound |-> TRUE, refresh |-> answer.refresh,
   access |-> answer.access, fresh |-> TRUE]

\* Why the session of an access cannot be established, or None.
NotEstablished(c, access, answer, reached) ==
  IF access.strategy = "derived" /\ access.resource = None
     /\ Derivation(c) = "token-resource" THEN "product_not_configured"
  ELSE IF Unreached(access.issuer, access.issuerID, reached) # None
  THEN "discovery_failed"
  ELSE IF ~answer.ok THEN "login_failed"
  ELSE IF answer.refresh = None THEN "credential_unavailable"
  ELSE None

Settled(access, authorized, why) ==
  IF why # None THEN Denied(issuers, sessions, why)
  ELSE [issuers |-> [issuers EXCEPT ![access.issuer] = authorized.issuer],
        sessions |-> D!With(sessions, access.ref, Established(access, authorized.answer)),
        denied |-> None]

Completed(c, access, authorized, reached) ==
  Settled(access, authorized, NotEstablished(c, access, authorized.answer, reached))

Establish(c, access, reached) ==
  Completed(c, access, Authorized(c, access), reached)

----------------------------------------------------------------------------
(* The command.                                                             *)

\* A login session an earlier shell stored: it records its issuer and nothing
\* of what it was established for.
Legacy(c, s) ==
  [issuer |-> c.issuer, client |-> None, scopes |-> {}, resource |-> None,
   bound |-> FALSE, refresh |-> s.minted, access |-> None, fresh |-> FALSE]

Init ==
  \E w \in Worlds :
    /\ context = w.context
    /\ later = w.later
    /\ LET running == [u \in DOMAIN w.deployment |-> D!New(u, w.deployment[u])]
           seeded == D!SeedSessionFor(running[context.issuer],
                                      LoginAccess(context).scopes, None)
       IN \/ issuers = running /\ sessions = << >>
          \/ /\ w.upgraded
             /\ issuers = [running EXCEPT ![context.issuer] = seeded]
             /\ sessions = D!With(<< >>, LoginRef(context), Legacy(context, seeded))
    /\ command = NoCommand
    /\ commands = 0
    /\ grants = {}

Start ==
  /\ command.at = "idle" /\ commands < MaxCommands
  /\ commands' = commands + 1
  /\ \E receipt \in Receipts, interactive \in BOOLEAN :
       command' = [NoCommand EXCEPT !.at = "running", !.context = context,
                                    !.receipt = receipt,
                                    !.interactive = interactive]
  /\ UNCHANGED <<issuers, sessions, context, later, grants>>

Answer(cmd, answer) == [cmd EXCEPT !.at = "running", !.answer = answer]

Deny(code) ==
  /\ command' = Answer(command, [denied |-> code, context |-> command.context,
                                 request |-> command.request])
  /\ UNCHANGED grants

\* The module asks; a request no policy refuses goes to its source.
Acquire ==
  /\ command.at = "running" /\ command.asked < MaxAsks
  /\ \E r \in Requests :
       \E why \in {PolicyRefused(command, r)},
          asked \in {IF command.context = None THEN r ELSE Defaulted(command.context, r)} :
         LET cmd == [command EXCEPT !.asked = @ + 1, !.request = asked]
         IN command' = IF why # None
                       THEN Answer(cmd, [denied |-> why, context |-> command.context,
                                         request |-> asked])
                       ELSE [cmd EXCEPT !.at =
                               IF Establishes(Source(command.context, asked))
                               THEN "ensure" ELSE "derive"]
  /\ UNCHANGED <<issuers, sessions, context, later, commands, grants>>

\* What an authorization inside a command leaves, and where the command goes.
Authorizes(made, next) ==
  /\ issuers' = made.issuers
  /\ sessions' = made.sessions
  /\ IF made.denied # None THEN Deny(made.denied)
     ELSE /\ command' = [command EXCEPT !.at = next]
          /\ UNCHANGED grants

\* Whoever finds no session yet establishes it, where a browser may open.
EnsureSession ==
  /\ command.at = "ensure"
  /\ \E reached \in {"read", "unreachable"},
        access \in {Source(command.context, command.request)} :
       IF access.ref \in DOMAIN sessions
       THEN /\ command' = [command EXCEPT !.at = "derive"]
            /\ UNCHANGED <<issuers, sessions, grants>>
       ELSE IF ~command.interactive
       THEN Deny("session_required") /\ UNCHANGED <<issuers, sessions>>
       ELSE \E made \in {Establish(command.context, access, reached)} :
              Authorizes(made, "derive")
  /\ UNCHANGED <<context, later, commands>>

\* The grant is the token and nothing else, once for a record of the product's
\* own and once for an api.
Grant(token) ==
  /\ command' = Answer([command EXCEPT
                          !.own = @ \/ command.request.record # "api",
                          !.api = @ \/ command.request.record = "api"],
                       [denied |-> None])
  /\ grants' = grants \cup {[context |-> command.context,
                             receipt |-> command.receipt,
                             request |-> command.request, token |-> token]}

\* The locked section, and for "again" the one after a new authorization.
Mint ==
  /\ command.at \in {"derive", "again"}
  /\ \E reached \in {"read", "unreachable"},
        source \in {Source(command.context, command.request)} :
       \E made \in {Derive(command.context, source, command.request, reached)} :
         /\ issuers' = made.issuers
         /\ sessions' = made.sessions
         /\ IF made.denied = None THEN Grant(made.answer.access)
            ELSE IF /\ command.at = "derive" /\ Reauthorizes(source)
                    /\ made.denied = "narrowing_unavailable"
            THEN /\ command' = [command EXCEPT !.at = "reauthorize"]
                 /\ UNCHANGED grants
            ELSE Deny(made.denied)
  /\ UNCHANGED <<context, later, commands>>

Reauthorize ==
  /\ command.at = "reauthorize"
  /\ \E reached \in {"read", "unreachable"},
        access \in {Source(command.context, command.request)} :
       IF ~command.interactive
       THEN Deny("reauthorization_required") /\ UNCHANGED <<issuers, sessions>>
       ELSE \E made \in {Establish(command.context, access, reached)} :
              Authorizes(made, "again")
  /\ UNCHANGED <<context, later, commands>>

End ==
  /\ command.at = "running"
  /\ command' = NoCommand
  /\ UNCHANGED <<issuers, sessions, context, later, commands, grants>>

----------------------------------------------------------------------------
(* Other shells, and time.                                                  *)

\* The stored session is the one an access would establish.
Matches(access) ==
  /\ access.ref \in DOMAIN sessions
  /\ LET stored == sessions[access.ref]
     IN /\ stored.issuer = access.issuer /\ stored.client = access.client
        /\ stored.scopes = access.scopes /\ stored.resource = access.resource

\* wso2 login authorizes one access of the context on disk, if it is of a kind
\* that holds a session.  Bound: not where the session there is already the one.
LogIn ==
  /\ context # None /\ context.kind \in InteractiveKinds
  /\ \E access \in SessionsOf(context) :
       /\ ~Matches(access)
       /\ \E made \in {Establish(context, access, "read")} :
            made.denied = None /\ issuers' = made.issuers /\ sessions' = made.sessions
  /\ UNCHANGED <<context, later, command, commands, grants>>

\* The context is replaced on disk by another.
Change ==
  /\ context # later
  /\ context' = later
  /\ UNCHANGED <<issuers, sessions, later, command, commands, grants>>

\* A stored access token runs out.
Expire ==
  /\ \E ref \in DOMAIN sessions :
       /\ sessions[ref].fresh
       /\ sessions' = [sessions EXCEPT ![ref].fresh = FALSE]
  /\ UNCHANGED <<issuers, context, later, command, commands, grants>>

Next == \/ Start \/ Acquire \/ EnsureSession \/ Mint \/ Reauthorize \/ End
        \/ LogIn \/ Change \/ Expire

Spec == Init /\ [][Next]_vars

----------------------------------------------------------------------------
(* Properties.                                                              *)

\* What a grant keeps to, whichever source served it.
Bounded(g) ==
  LET c == g.context
      r == g.request
      t == g.token
  IN IF c.kind = "development-credential"
     THEN t.audience = r.audience /\ r.audience \in g.receipt.audiences
     ELSE /\ t.audience = (IF r.record = "api" THEN r.resource
                           ELSE Recorded(c, r).audience)
          /\ r.record = "api" => t.audience \notin ProductAudiences(c)
          /\ r.scopes \subseteq g.receipt.scopes \cup Recorded(c, r).scopes
          /\ Source(c, r).strategy # "exchanged" =>
               r.scopes \subseteq t.scopes /\ t.scopes \ Protocol \subseteq r.scopes

\* Every token a module is handed is bound to what its context records for the
\* record asked (an api's own resource, never a product's audience), carries the
\* permissions asked for and no product's beside them, and asks for none that
\* neither the receipt nor the context declares: however the module asked, and
\* whichever source served it.
GrantsBound == \A g \in grants : Bounded(g)

\* Whatever a command is denied, the sessions stored are still good: the
\* refresh token of each is one its issuer honours, also after a renewal that
\* rotated it brought a token the shell then refused.
SessionsLive ==
  \A ref \in DOMAIN sessions :
    D!RefreshTokenLive(issuers[sessions[ref].issuer], sessions[ref].refresh)

\* A request for permissions the context records, of a deployment that narrows
\* as asked and binds as the context records it.
Cooperates(c, r) ==
  LET access == Access(c, RecordKey(r))
      opts == issuers[access.issuer].opts
  IN /\ r.scopes # {} /\ r.scopes \subseteq access.scopes
     /\ opts.refreshMode = "honor" /\ opts.clientMode = "honor"
     /\ opts.registeredResource = None
     /\ IF access.resource = None
        THEN opts.audience = access.audience /\ ~opts.requireResource
        ELSE access.resource = access.audience

\* The issuer keeps the session for the resource the access names: a device
\* request names none.
BoundThere(access) ==
  issuers[access.issuer].refreshTokens[sessions[access.ref].refresh].resource
    = access.resource

LoggedIn(c) == \A access \in SessionsOf(c) : Matches(access)

Denying ==
  /\ command.at \notin {"idle", "running"}
  /\ command'.at = "running" /\ command'.answer.denied # None

\* A request within what the context records, at a deployment that cooperates,
\* is denied by a source only for a cause: no browser may open, the issuer is
\* out of reach, or some session of the context is not the one a login there
\* leaves.  Once wso2 login has run for a context, two of its records that
\* share one session, or read one through the other's login, never spoil it.
DeniedForCause ==
  [][Denying =>
       LET c == command.context
           r == command.request
           source == Source(c, r)
           code == command'.answer.denied
       IN /\ code \in {"login_required", "session_issuer_mismatch"} => ~LoggedIn(c)
          /\ code \in {"session_required", "reauthorization_required"} =>
               ~command.interactive
          /\ code = "narrowing_unavailable" /\ source.strategy = "inline" =>
               ~Cooperates(c, r)
          /\ code = "narrowing_unavailable"
             /\ source.strategy \in {"direct", "sibling", "federated"} =>
               ~Cooperates(c, r) \/ ~LoggedIn(c) \/ ~BoundThere(source)]_vars

=============================================================================
