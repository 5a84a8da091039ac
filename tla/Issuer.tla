------------------------------- MODULE Issuer -------------------------------
(***************************************************************************)
(* The OpenID provider the shell logs in at and asks for access, as the     *)
(* repository's own deterministic issuer serves it (internal/auth/         *)
(* fakeissuer).  An issuer is a record: its options, what it has minted,    *)
(* and what each minted value is worth.  One operator per endpoint and per  *)
(* grant takes the issuer and a request and gives the issuer afterwards     *)
(* with the answer; a component that talks to an issuer keeps the record    *)
(* in a variable of its own and decides when a request arrives.             *)
(*                                                                          *)
(* Random values are the counter `minted`: no two are ever the same.  An    *)
(* access or identity token is what it says, for nothing tells two tokens   *)
(* with one content apart.                                                  *)
(***************************************************************************)
EXTENDS Integers, FiniteSets

CONSTANTS None,             \* a parameter, claim or option that is absent
          RegisteredPorts   \* the loopback callbacks of the registration

OpenID == "openid"

----------------------------------------------------------------------------
(* Options.  A deployment departs from DefaultOptions in the members a      *)
(* component's runs name.                                                   *)

DefaultOptions ==
  [identifier |-> None, idTokenIssuer |-> None, plaintextEndpoint |-> FALSE,
   omitS256 |-> FALSE, omitNonce |-> FALSE, negativeSerial |-> FALSE,
   audience |-> None, organization |-> None,
   names |-> {"email"}, scopeGatedClaims |-> FALSE,
   requireResource |-> FALSE, registeredResource |-> None,
   omitRefreshToken |-> FALSE, rotate |-> FALSE, refreshMode |-> "honor",
   omitScopeField |-> FALSE,
   clientMode |-> "honor", clientScopes |-> {}, clientSecret |-> None,
   exchangeGrant |-> FALSE, exchangeAudience |-> None,
   bearerAlias |-> None, bearerMode |-> "honor",
   omitDevice |-> FALSE, deviceOutcome |-> "approve", pending |-> 0,
   slowDown |-> 0, interval |-> 0, omitDeviceIDToken |-> FALSE,
   omitDeviceRefresh |-> FALSE, deviceAudience |-> None,
   omitRevocation |-> FALSE]

\* A running issuer: nothing minted yet.
New(url, opts) ==
  [url |-> url, opts |-> opts, minted |-> 0,
   codes |-> << >>, refreshTokens |-> << >>, deviceGrants |-> << >>,
   accessTokens |-> {}, idTokens |-> {}]

Identifier(s) == IF s.opts.identifier # None THEN s.opts.identifier ELSE s.url

\* The grants an issuer keeps are maps from the value minted to its record.
With(map, key, record) ==
  [k \in DOMAIN map \cup {key} |-> IF k = key THEN record ELSE map[k]]

Without(map, key) == [k \in DOMAIN map \ {key} |-> map[k]]

Answered(s, a) == [issuer |-> s, answer |-> a]

OAuthError(s, code) == Answered(s, [ok |-> FALSE, error |-> code])

----------------------------------------------------------------------------
(* Discovery and keys.                                                      *)

\* What each advertised endpoint is served over: only the key set's can be
\* a plain HTTP host that is not this machine.
Document(s) ==
  [issuer |-> Identifier(s),
   s256 |-> ~s.opts.omitS256,
   authorization |-> "loopback", token |-> "loopback",
   jwks |-> IF s.opts.plaintextEndpoint THEN "plaintext" ELSE "loopback",
   introspection |-> "loopback",
   revocation |-> IF s.opts.omitRevocation THEN None ELSE "loopback",
   device |-> IF s.opts.omitDevice THEN None ELSE "loopback",
   endSession |-> "loopback"]

\* One RSA key with its own parameters; the certificate beside it may be one
\* Go's parser refuses.
KeySet(s) ==
  {[signer |-> s.url, kty |-> "RSA", parameters |-> {"n", "e"},
    certificate |-> IF s.opts.negativeSerial THEN "unparseable" ELSE None]}

----------------------------------------------------------------------------
(* Minting.                                                                 *)

Access(s, subject, scopes, resource) ==
  [issuer |-> Identifier(s), subject |-> subject, scopes |-> scopes,
   audience |-> IF resource # None THEN resource ELSE s.opts.audience,
   organization |-> s.opts.organization]

\* Under scope-gated claims an issuer names the person only to a grant that
\* carries the scope the claim goes with.
Disclosed(s, scopes) ==
  {claim \in s.opts.names :
     \/ ~s.opts.scopeGatedClaims
     \/ (IF claim = "email" THEN "email" ELSE "profile") \in scopes}

IDToken(s, client, nonce, scopes) ==
  [issuer |-> IF s.opts.idTokenIssuer # None
              THEN s.opts.idTokenIssuer ELSE Identifier(s),
   signer |-> s.url, subject |-> "user-1", audience |-> client,
   nonce |-> IF s.opts.omitNonce THEN None ELSE nonce,
   claims |-> Disclosed(s, scopes)]

\* The answer every grant gives: access, and where the grant carries them a
\* refresh token and an identity token.
Tokens(access, refresh, id, scopes) ==
  [ok |-> TRUE, access |-> access, refresh |-> refresh, id |-> id,
   scope |-> scopes]

\* s with a fresh refresh token kept for `record`.
MintRefresh(s, record) ==
  [s EXCEPT !.minted = @ + 1,
            !.refreshTokens = With(@, s.minted + 1, record)]

----------------------------------------------------------------------------
(* The authorization endpoint.  The user always consents; the answer is the *)
(* redirect the browser follows, or nothing when the page itself refuses.   *)

AcceptsRedirect(port) == port \in RegisteredPorts

Redirected(s, r, code, error) ==
  Answered(s, [port |-> r.port, state |-> r.state, code |-> code,
               error |-> error])

HandleAuthorize(s, r) ==
  IF r.client = None \/ ~AcceptsRedirect(r.port) \/ r.challenge = None
  THEN Answered(s, None)
  ELSE IF \/ s.opts.requireResource /\ r.resource = None
          \/ /\ s.opts.registeredResource # None
             /\ r.resource # s.opts.registeredResource
  THEN Redirected(s, r, None, "invalid_target")
  ELSE LET code == s.minted + 1
       IN Redirected(
            [s EXCEPT !.minted = code,
                      !.codes = With(@, code,
                         [challenge |-> r.challenge, scopes |-> r.scopes,
                          port |-> r.port, nonce |-> r.nonce,
                          client |-> r.client, resource |-> r.resource])],
            r, code, None)

----------------------------------------------------------------------------
(* The token endpoint, grant by grant.                                      *)

\* A code is single use, and spent even by a request that fails.
ExchangeCode(s, r) ==
  LET spent == [s EXCEPT !.codes = Without(@, r.code)]
  IN IF \/ r.code \notin DOMAIN s.codes
        \/ LET g == s.codes[r.code]
           IN g.client # r.client \/ g.port # r.port \/ g.challenge # r.verifier
     THEN OAuthError(spent, "invalid_grant")
     ELSE LET g == s.codes[r.code]
              access == Access(s, "user-1", g.scopes, g.resource)
              id == IDToken(s, g.client, g.nonce, g.scopes)
              minted == [spent EXCEPT !.accessTokens = @ \cup {access},
                                      !.idTokens = @ \cup {id}]
          IN IF s.opts.omitRefreshToken
             THEN Answered(minted, Tokens(access, None, id, g.scopes))
             ELSE Answered(MintRefresh(minted, [scopes |-> g.scopes,
                                                resource |-> g.resource]),
                           Tokens(access, s.minted + 1, id, g.scopes))

\* What a renewal asking for `asked` is issued, or None when it is refused.
RenewedScopes(s, original, asked) ==
  IF asked = {} THEN original
  ELSE CASE s.opts.refreshMode = "honor" ->
              IF asked \subseteq original THEN asked ELSE None
         [] s.opts.refreshMode = "ignore" -> original
         [] s.opts.refreshMode = "reject" -> None

\* Finding the presented token and retiring it are one critical section; a
\* refusal leaves it alive, and a replacement inherits scopes and resource.
RefreshGrant(s, r) ==
  IF r.refresh \notin DOMAIN s.refreshTokens
  THEN OAuthError(s, "invalid_grant")
  ELSE LET record == s.refreshTokens[r.refresh]
           issued == RenewedScopes(s, record.scopes, r.scopes)
           access == Access(s, "user-1", issued, record.resource)
           id == IF OpenID \in issued
                 THEN IDToken(s, r.client, None, issued) ELSE None
           kept == [s EXCEPT !.accessTokens = @ \cup {access},
                             !.idTokens = @ \cup ({id} \ {None})]
           rotated == IF s.opts.rotate
                      THEN MintRefresh([kept EXCEPT !.refreshTokens =
                                          Without(@, r.refresh)], record)
                      ELSE kept
       IN IF issued = None THEN OAuthError(s, "invalid_scope")
          ELSE Answered(rotated,
                 Tokens(access, IF s.opts.rotate THEN s.minted + 1 ELSE None,
                        id, IF s.opts.omitScopeField THEN None ELSE issued))

ClientCredentialsGrant(s, r) ==
  IF r.client = None \/ r.secret = None
     \/ (s.opts.clientSecret # None /\ r.secret # s.opts.clientSecret)
  THEN OAuthError(s, "invalid_client")
  ELSE IF \/ s.opts.requireResource /\ r.resource = None
          \/ /\ s.opts.registeredResource # None
             /\ r.resource # s.opts.registeredResource
  THEN OAuthError(s, "invalid_target")
  ELSE IF s.opts.clientMode = "reject" THEN OAuthError(s, "invalid_scope")
  ELSE LET issued == IF s.opts.clientMode = "ignore"
                     THEN s.opts.clientScopes ELSE r.scopes
           access == Access(s, "client-1", issued, r.resource)
       IN Answered([s EXCEPT !.accessTokens = @ \cup {access}],
                   Tokens(access, None, None, issued))

\* RFC 8693: the resource decides the audience, only the OpenID scope
\* survives, and no refresh token comes back.
ExchangeGrant(s, r) ==
  IF ~s.opts.exchangeGrant
  THEN OAuthError(s, "unauthorized_client")
  ELSE IF r.client = None THEN OAuthError(s, "invalid_client")
  ELSE IF r.subject \notin s.accessTokens THEN OAuthError(s, "invalid_grant")
  ELSE IF /\ s.opts.registeredResource # None
          /\ r.resource # s.opts.registeredResource
  THEN OAuthError(s, "invalid_target")
  ELSE LET access == Access(s, "user-1", {OpenID},
                            IF s.opts.exchangeAudience # None
                            THEN s.opts.exchangeAudience ELSE r.resource)
       IN Answered([s EXCEPT !.accessTokens = @ \cup {access}],
                   Tokens(access, None, None, {OpenID}))

\* What an assertion is issued: everything asked for, one scope fewer, or
\* scopes of the issuer's own.
BearerScopes(s, asked) ==
  CASE s.opts.bearerMode = "default" -> {"default"}
    [] s.opts.bearerMode = "partial" /\ Cardinality(asked) > 1 ->
         asked \ {CHOOSE last \in asked : TRUE}
    [] OTHER -> asked

\* RFC 7523: an identity token of the trusted issuer, for the alias this one
\* registered.  The refresh token that comes back renews nothing.
BearerGrant(s, trusted, r) ==
  IF s.opts.bearerAlias = None THEN OAuthError(s, "unsupported_grant_type")
  ELSE IF r.client = None THEN OAuthError(s, "invalid_client")
  ELSE IF \/ r.assertion \notin trusted.idTokens
          \/ r.assertion.audience # s.opts.bearerAlias
          \/ s.opts.bearerMode = "refuse"
  THEN OAuthError(s, "invalid_grant")
  ELSE LET issued == BearerScopes(s, r.scopes)
           access == Access(s, "user-1", issued, None)
       IN Answered([s EXCEPT !.accessTokens = @ \cup {access},
                             !.minted = @ + 1],
                   Tokens(access, s.minted + 1, None, issued))

\* The device authorization endpoint.  The device code is what a session is
\* minted for; the code a person types is left out.
HandleDeviceAuthorize(s, r) ==
  IF s.opts.omitDevice THEN OAuthError(s, "invalid_request")
  ELSE IF r.client = None THEN OAuthError(s, "invalid_client")
  ELSE LET code == s.minted + 1
       IN Answered(
            [s EXCEPT !.minted = code,
                      !.deviceGrants = With(@, code,
                         [scopes |-> r.scopes, client |-> r.client,
                          pending |-> s.opts.pending,
                          slowDown |-> s.opts.slowDown,
                          redeemed |-> FALSE])],
            [ok |-> TRUE, device |-> code, interval |-> s.opts.interval])

\* An approved device: no resource, since the device request names none, and
\* no nonce, since RFC 8628 defines none.
Approved(s, device, g) ==
  LET access == Access(s, "user-1", g.scopes, None)
      id == IF s.opts.omitDeviceIDToken THEN None
            ELSE IDToken(s, IF s.opts.deviceAudience # None
                            THEN s.opts.deviceAudience ELSE g.client,
                         None, g.scopes)
      redeemed == [s EXCEPT !.deviceGrants[device].redeemed = TRUE,
                            !.accessTokens = @ \cup {access},
                            !.idTokens = @ \cup ({id} \ {None})]
  IN IF s.opts.omitDeviceRefresh
     THEN Answered(redeemed, Tokens(access, None, id, g.scopes))
     ELSE Answered(MintRefresh(redeemed, [scopes |-> g.scopes,
                                          resource |-> None]),
                   Tokens(access, s.minted + 1, id, g.scopes))

\* One poll: the waiting answers are drawn down, the outcome applied, and the
\* redemption recorded, in one critical section.
DeviceGrant(s, r) ==
  IF r.device \notin DOMAIN s.deviceGrants
     \/ s.deviceGrants[r.device].redeemed
  THEN OAuthError(s, "invalid_grant")
  ELSE LET g == s.deviceGrants[r.device]
           drawn(field) == [s EXCEPT !.deviceGrants =
                              With(@, r.device, [g EXCEPT ![field] = @ - 1])]
       IN CASE g.slowDown > 0 -> OAuthError(drawn("slowDown"), "slow_down")
            [] g.slowDown = 0 /\ g.pending > 0 ->
                 OAuthError(drawn("pending"), "authorization_pending")
            [] g.slowDown = 0 /\ g.pending = 0 ->
                 CASE s.opts.deviceOutcome = "deny" ->
                        OAuthError(s, "access_denied")
                   [] s.opts.deviceOutcome = "expire" ->
                        OAuthError(s, "expired_token")
                   [] s.opts.deviceOutcome = "approve" ->
                        Approved(s, r.device, g)

\* Every grant of the token endpoint.
HandleToken(s, trusted, r) ==
  CASE r.grant = "authorization_code" -> ExchangeCode(s, r)
    [] r.grant = "refresh_token"      -> RefreshGrant(s, r)
    [] r.grant = "client_credentials" -> ClientCredentialsGrant(s, r)
    [] r.grant = "device_code"        -> DeviceGrant(s, r)
    [] r.grant = "jwt-bearer"         -> BearerGrant(s, trusted, r)
    [] r.grant = "token-exchange"     -> ExchangeGrant(s, r)
    [] OTHER -> OAuthError(s, "unsupported_grant_type")

----------------------------------------------------------------------------
(* What the tests set up and look at.                                       *)

RefreshTokenLive(s, token) == token \in DOMAIN s.refreshTokens

\* A session established earlier, for one protected resource or for none.
SeedSessionFor(s, scopes, resource) ==
  MintRefresh(s, [scopes |-> scopes, resource |-> resource])

=============================================================================
