---------------------------- MODULE LoginProofs ----------------------------
(***************************************************************************)
(* Theorems of Login: what is stored and what is refused, for any number of *)
(* logins, ports, tabs and sign-ins, whichever deployment they run against. *)
(***************************************************************************)
EXTENDS Login, TLAPS

-----------------------------------------------------------------------------
(* What the issuer has minted.                                              *)

\* The members of an issuer's record, and the numbers it has drawn.
Minted(s) ==
  /\ s = [url |-> s.url, opts |-> s.opts, minted |-> s.minted, codes |-> s.codes,
          refreshTokens |-> s.refreshTokens, deviceGrants |-> s.deviceGrants,
          accessTokens |-> s.accessTokens, idTokens |-> s.idTokens]
  /\ s.url = IssuerURL /\ s.opts \in Deployments
  /\ s.minted \in Nat
  /\ \A t \in DOMAIN s.codes : t \in Nat /\ t <= s.minted
  /\ \A t \in DOMAIN s.refreshTokens : t \in Nat /\ t <= s.minted
  /\ \A t \in DOMAIN s.deviceGrants : t \in Nat /\ t <= s.minted

\* A code was minted for the login whose challenge it answers to.
CodeFor(g, l) ==
  /\ g.challenge = l
  /\ g.client = ClientOf[l] /\ g.scopes = Requested(l)
  /\ g.nonce = l /\ g.resource = ResourceOf[l]

CodesKept ==
  \A c \in DOMAIN issuer.codes :
    \E l \in Logins : Flow[l] = "browser" /\ CodeFor(issuer.codes[c], l)

\* What a renewal of a login's session may ask for.
Renewable(l) ==
  [scopes |-> Requested(l),
   resource |-> IF Flow[l] = "browser" THEN ResourceOf[l] ELSE None]

\* A device grant that a login polls for.
GrantFor(g, l) ==
  /\ g = [scopes |-> Requested(l), client |-> ClientOf[l], pending |-> g.pending,
          slowDown |-> g.slowDown, redeemed |-> g.redeemed]
  /\ g.pending \in Nat /\ g.slowDown \in Nat

GrantsKept ==
  \A d \in DOMAIN issuer.deviceGrants :
    \E l \in Logins : GrantFor(issuer.deviceGrants[d], l)

-----------------------------------------------------------------------------
(* Where a login stands.                                                    *)

Asking == {"exchange", "device_asked", "polled"}

Phases ==
  {"start", "bind", "open", "wait", "exchange", "authorize_device", "device_asked", "poll",
   "polled", "identify", "returned"}

Shaped ==
  /\ phase \in [Logins -> Phases]
  /\ port = [l \in Logins |-> port[l]]
  /\ channel = [l \in Logins |-> channel[l]]
  /\ call = [l \in Logins |-> call[l]]
  /\ device = [l \in Logins |-> device[l]]
  /\ outcome = [l \in Logins |-> outcome[l]]

Placed(l) ==
  /\ phase[l] \in {"bind", "open", "wait", "exchange"} => Flow[l] = "browser"
  /\ phase[l] \in {"authorize_device", "device_asked", "poll", "polled"} => Flow[l] = "device"
  /\ phase[l] \in {"authorize_device", "device_asked"} => ~issuer.opts.omitDevice
  /\ phase[l] # "returned" => outcome[l] = None
  /\ phase[l] \notin Asking \cup {"identify", "returned"} => call[l] = None
  /\ phase[l] = "exchange" => channel[l] # None
  /\ phase[l] \in {"start", "bind", "open"} => channel[l] = None

\* The code a login was brought: its own, and unspent until it is exchanged.
CodeOf(l, c) ==
  /\ c \in Nat /\ c <= issuer.minted
  /\ c \in DOMAIN issuer.codes => issuer.codes[c].challenge = l
  /\ phase[l] = "wait" =>
       /\ c \in DOMAIN issuer.codes
       /\ issuer.codes[c].port = port[l]

TargetRefused(l) ==
  \/ issuer.opts.requireResource /\ ResourceOf[l] = None
  \/ issuer.opts.registeredResource \notin {None, ResourceOf[l]}

\* A redirect the browser was sent, by its state.
TabOf(tab, l) ==
  /\ phase[l] \in {"wait", "exchange", "identify", "returned"}
  /\ Flow[l] = "browser"
  /\ tab.error \in {None, "access_denied", "invalid_target"}
  /\ tab.error = "invalid_target" => TargetRefused(l)
  /\ tab.error = None /\ tab.code # None => CodeOf(l, tab.code)

Tabs == \A tab \in tabs : tab.state \in Logins /\ TabOf(tab, tab.state)

Denied(l) == \E tab \in tabs : tab.state = l /\ tab.error = "access_denied"

\* The one result the callback delivered.
ChannelOf(l) ==
  \/ channel[l] = None
  \/ channel[l] = [error |-> "refused"] /\ Denied(l)
  \/ channel[l] = [error |-> "target_rejected"] /\ TargetRefused(l)
  \/ channel[l] = [code |-> channel[l].code] /\ CodeOf(l, channel[l].code)

-----------------------------------------------------------------------------
(* A request in flight, and its answer.                                     *)

\* The device code a login polls with, not redeemed yet.
DeviceOf(l, d) ==
  /\ d \in DOMAIN issuer.deviceGrants
  /\ GrantFor(issuer.deviceGrants[d], l)
  /\ issuer.deviceGrants[d].redeemed = FALSE

Request(l) ==
  LET r == call[l].request
  IN /\ phase[l] = "exchange" =>
          /\ r = [grant |-> "authorization_code", client |-> ClientOf[l],
                  code |-> channel[l].code, port |-> port[l],
                  verifier |-> l, resource |-> ResourceOf[l]]
          /\ r.code \in DOMAIN issuer.codes
          /\ CodeFor(issuer.codes[r.code], l)
          /\ issuer.codes[r.code].port = port[l]
     /\ phase[l] = "device_asked" => r.grant = "device_authorization"
     /\ phase[l] = "polled" =>
          /\ r = [grant |-> "device_code", client |-> ClientOf[l], device |-> device[l]]
          /\ DeviceOf(l, device[l])
     /\ r.grant \in {"authorization_code", "device_authorization", "device_code"}
     /\ r.grant = "authorization_code" =>
          r.verifier = l /\ Flow[l] = "browser" /\ CodeOf(l, r.code)
     /\ r.grant = "device_authorization" =>
          /\ r = [grant |-> "device_authorization", client |-> ClientOf[l],
                  scopes |-> Requested(l)]
          /\ Flow[l] = "device"
     /\ r.grant = "device_code" => r.device = device[l] /\ Flow[l] = "device"

\* A token is the one kept for what this login asked for.
TokenOf(l, t) ==
  t # None => /\ t \in DOMAIN issuer.refreshTokens
              /\ issuer.refreshTokens[t] = Renewable(l)

IdentityOf(l, id) ==
  IF Flow[l] = "browser"
  THEN id = IDToken(issuer, ClientOf[l], l, Requested(l))
  ELSE \/ id = None
       \/ id = IDToken(issuer, IF issuer.opts.deviceAudience # None
                               THEN issuer.opts.deviceAudience ELSE ClientOf[l],
                       None, Requested(l))

Answer(l) ==
  LET a == call[l].answer
  IN /\ a.ok \in BOOLEAN
     /\ phase[l] \in {"exchange", "polled", "identify"} /\ a.ok =>
          TokenOf(l, a.refresh) /\ IdentityOf(l, a.id)
     /\ phase[l] = "identify" => a.ok
     /\ phase[l] \in {"exchange", "device_asked"} /\ ~a.ok => l \in troubled
     /\ phase[l] = "device_asked" /\ a.ok => DeviceOf(l, a.device)
     /\ phase[l] = "polled" /\ ~a.ok =>
          \/ /\ a.error \in {"authorization_pending", "slow_down"}
             /\ DeviceOf(l, device[l])
          \/ a.error \in {"access_denied", "expired_token"}
          \/ a.error = "lost" /\ l \in troubled

Calling(l) ==
  call[l] # None \/ phase[l] \in Asking \cup {"identify"} =>
    /\ call[l].at \in {"issuer", "shell"}
    /\ call[l].at = "issuer" => Request(l) /\ phase[l] # "identify"
    /\ call[l].at = "shell" => Answer(l)

Polling(l) ==
  /\ phase[l] = "poll" => DeviceOf(l, device[l])
  /\ Flow[l] = "browser" => device[l] = None

\* The device codes a login has been given, and its refresh token.
Given(l, d) ==
  \/ device[l] = d
  \/ /\ phase[l] = "device_asked" /\ call[l].at = "shell" /\ call[l].answer.ok
     /\ call[l].answer.device = d

Holds(l, t) ==
  \/ /\ phase[l] \in {"exchange", "polled", "identify"}
     /\ call[l].at = "shell" /\ call[l].answer.ok
     /\ call[l].answer.refresh = t
  \/ Stored(l) /\ outcome[l].refresh = t

\* What one login was given no other was.
Apart ==
  \A l, k \in Logins : l # k =>
    /\ \A d : Given(l, d) /\ Given(k, d) => d = None
    /\ \A t : Holds(l, t) /\ Holds(k, t) => t = None

Drawn ==
  \A l \in Logins : \A d : Given(l, d) /\ d # None => d \in Nat /\ d <= issuer.minted

-----------------------------------------------------------------------------
(* What a login that has returned returned.                                 *)

SessionOf(l) ==
  Stored(l) =>
    LET o == outcome[l]
    IN /\ o.refresh # None /\ TokenOf(l, o.refresh)
       /\ Flow[l] = "browser" => o.id # None /\ o.id.nonce = l
       /\ o.id # None => o.id.audience = ClientOf[l] /\ o.id.issuer = Identifier(issuer)

\* What it takes for a login to end for a reason.
Caused(l, why) ==
  /\ why \in {"exchange_refused", "not_started"} => l \in troubled \cup expired
  /\ why \in {"keys_unreadable", "lost_contact"} => l \in troubled
  /\ why \in {"not_completed", "not_approved_in_time"} => l \in expired
  /\ why = "refused" => Denied(l)
  /\ why = "target_rejected" => TargetRefused(l)
  /\ why = "other_request" => issuer.opts.omitNonce
  /\ why = "other_application" => issuer.opts.deviceAudience # None
  /\ why = "other_issuer" => issuer.opts.idTokenIssuer # None
  /\ why \notin {"not_signed", "device_refused", "no_identity_token"}

CauseOf(l) == outcome[l] # None => Caused(l, outcome[l].kind)

Mine(l) ==
  /\ Placed(l) /\ ChannelOf(l) /\ Calling(l) /\ Polling(l)
  /\ SessionOf(l) /\ CauseOf(l)

IInv ==
  /\ Shaped /\ Minted(issuer) /\ CodesKept /\ GrantsKept /\ Tabs
  /\ \A l \in Logins : Mine(l)
  /\ Apart /\ Drawn

-----------------------------------------------------------------------------
(* Lemmas about the issuer's endpoints.                                     *)

LEMMA Maps ==
  ASSUME NEW map, NEW key, NEW record
  PROVE  /\ DOMAIN With(map, key, record) = DOMAIN map \cup {key}
         /\ With(map, key, record)[key] = record
         /\ \A k \in DOMAIN map \ {key} : With(map, key, record)[k] = map[k]
         /\ DOMAIN Without(map, key) = DOMAIN map \ {key}
         /\ \A k \in DOMAIN map \ {key} : Without(map, key)[k] = map[k]
  BY DEF With, Without

LEMMA NothingMinted ==
  ASSUME NEW opts \in Deployments
  PROVE  /\ Minted(New(IssuerURL, opts))
         /\ DOMAIN New(IssuerURL, opts).codes = {}
  BY DEF Minted, New

\* What the authorization endpoint does with a login's own request.
LEMMA Authorizing ==
  ASSUME NEW s, Minted(s), NEW l \in Logins, NEW p,
         NEW r, r = [client |-> ClientOf[l], port |-> p, challenge |-> l, state |-> l,
                     nonce |-> l, scopes |-> Requested(l), resource |-> ResourceOf[l]]
  PROVE  LET t == HandleAuthorize(s, r).issuer
             answer == HandleAuthorize(s, r).answer
         IN /\ Minted(t) /\ t.opts = s.opts /\ s.minted <= t.minted
            /\ t.refreshTokens = s.refreshTokens /\ t.deviceGrants = s.deviceGrants
            /\ \/ /\ t.codes = s.codes
                  /\ answer # None =>
                       /\ answer = [port |-> p, state |-> l, code |-> None,
                                    error |-> "invalid_target"]
                       /\ \/ s.opts.requireResource /\ ResourceOf[l] = None
                          \/ s.opts.registeredResource \notin {None, ResourceOf[l]}
               \/ /\ t.minted = s.minted + 1
                  /\ \E g : /\ t.codes = With(s.codes, s.minted + 1, g)
                            /\ CodeFor(g, l) /\ g.port = p
                  /\ answer = [port |-> p, state |-> l, code |-> s.minted + 1, error |-> None]
<1> DEFINE h == HandleAuthorize(s, r)
           t == h.issuer
<1>1. CASE r.client = None \/ ~AcceptsRedirect(r.port) \/ r.challenge = None
  <2>1. h = Answered(s, None)
    BY <1>1 DEF HandleAuthorize
  <2> QED
    BY <2>1 DEF Answered, Minted
<1>2. CASE /\ ~(r.client = None \/ ~AcceptsRedirect(r.port) \/ r.challenge = None)
           /\ \/ s.opts.requireResource /\ r.resource = None
              \/ /\ s.opts.registeredResource # None
                 /\ r.resource # s.opts.registeredResource
  <2>1. h = Redirected(s, r, None, "invalid_target")
    BY <1>2 DEF HandleAuthorize
  <2> QED
    BY <1>2, <2>1 DEF Answered, Redirected, Minted
<1>3. CASE /\ ~(r.client = None \/ ~AcceptsRedirect(r.port) \/ r.challenge = None)
           /\ ~(\/ s.opts.requireResource /\ r.resource = None
                \/ /\ s.opts.registeredResource # None
                   /\ r.resource # s.opts.registeredResource)
  <2> DEFINE code == s.minted + 1
             g == [challenge |-> r.challenge, scopes |-> r.scopes,
                   port |-> r.port, nonce |-> r.nonce,
                   client |-> r.client, resource |-> r.resource]
             u == [s EXCEPT !.minted = code, !.codes = With(s.codes, code, g)]
  <2>1. h = Redirected(u, r, code, None)
    BY <1>3 DEF HandleAuthorize
  <2>2. t = u /\ h.answer = [port |-> p, state |-> l, code |-> code, error |-> None]
    BY <2>1 DEF Redirected, Answered
  <2>3. CodeFor(g, l) /\ g.port = p
    BY DEF CodeFor
  <2> DEFINE w == With(s.codes, code, g)
  <2>4. DOMAIN w = DOMAIN s.codes \cup {code}
    <3> HIDE DEF g, code
    <3> QED
      BY DEF With
  <2>s. s = [url |-> s.url, opts |-> s.opts, minted |-> s.minted, codes |-> s.codes,
             refreshTokens |-> s.refreshTokens, deviceGrants |-> s.deviceGrants,
             accessTokens |-> s.accessTokens, idTokens |-> s.idTokens]
    BY DEF Minted
  <2>v. u = [s EXCEPT !.minted = code, !.codes = w]
    OBVIOUS
  <2>7. code \in Nat /\ s.minted <= code
    BY DEF Minted
  <2> HIDE DEF w, g, u, code
  <2>5. u = [url |-> s.url, opts |-> s.opts, minted |-> code, codes |-> w,
             refreshTokens |-> s.refreshTokens, deviceGrants |-> s.deviceGrants,
             accessTokens |-> s.accessTokens, idTokens |-> s.idTokens]
    BY <2>s, <2>v
  <2>6. Minted(u)
    BY <2>4, <2>5, <2>7 DEF Minted
  <2> QED
    BY <2>2, <2>3, <2>5, <2>6, <2>7 DEF w, code
<1> QED
  BY <1>1, <1>2, <1>3

\* Which request the token endpoint honours, and what it leaves of the code.
Matching(s, r) ==
  /\ r.code \in DOMAIN s.codes
  /\ s.codes[r.code].client = r.client
  /\ s.codes[r.code].port = r.port
  /\ s.codes[r.code].challenge = r.verifier

LEMMA Exchanging ==
  ASSUME NEW s, Minted(s), NEW r
  PROVE  LET t == ExchangeCode(s, r).issuer
             a == ExchangeCode(s, r).answer
             g == s.codes[r.code]
         IN /\ Minted(t) /\ t.opts = s.opts /\ s.minted <= t.minted
            /\ t.deviceGrants = s.deviceGrants
            /\ t.codes = Without(s.codes, r.code)
            /\ \/ /\ ~Matching(s, r)
                  /\ a.ok = FALSE /\ t.refreshTokens = s.refreshTokens
               \/ /\ Matching(s, r)
                  /\ a.ok = TRUE /\ a.id = IDToken(s, g.client, g.nonce, g.scopes)
                  /\ \/ a.refresh = None /\ t.refreshTokens = s.refreshTokens
                     \/ /\ a.refresh = s.minted + 1 /\ t.minted = s.minted + 1
                        /\ t.refreshTokens = With(s.refreshTokens, s.minted + 1,
                              [scopes |-> g.scopes, resource |-> g.resource])
<1> DEFINE g == s.codes[r.code]
           access == Access(s, "user-1", g.scopes, g.resource)
           id == IDToken(s, g.client, g.nonce, g.scopes)
           w == Without(s.codes, r.code)
           spent == [s EXCEPT !.codes = Without(@, r.code)]
           minted == [spent EXCEPT !.accessTokens = @ \cup {access},
                                   !.idTokens = @ \cup {id}]
           record == [scopes |-> g.scopes, resource |-> g.resource]
           next == s.minted + 1
           x == With(s.refreshTokens, next, record)
           kept == MintRefresh(minted, record)
<1>1. s = [url |-> s.url, opts |-> s.opts, minted |-> s.minted, codes |-> s.codes,
           refreshTokens |-> s.refreshTokens, deviceGrants |-> s.deviceGrants,
           accessTokens |-> s.accessTokens, idTokens |-> s.idTokens]
  BY DEF Minted
<1>2. spent = [url |-> s.url, opts |-> s.opts, minted |-> s.minted, codes |-> w,
               refreshTokens |-> s.refreshTokens, deviceGrants |-> s.deviceGrants,
               accessTokens |-> s.accessTokens, idTokens |-> s.idTokens]
  <2>1. spent = [s EXCEPT !.codes = w]
    BY <1>1
  <2> HIDE DEF spent, w
  <2> QED
    BY <1>1, <2>1
<1> DEFINE as == s.accessTokens \cup {access}
           is == s.idTokens \cup {id}
<1>3. minted = [url |-> s.url, opts |-> s.opts, minted |-> s.minted, codes |-> w,
                refreshTokens |-> s.refreshTokens, deviceGrants |-> s.deviceGrants,
                accessTokens |-> as, idTokens |-> is]
  <2> HIDE DEF spent, w, access, id
  <2>1. spent.accessTokens = s.accessTokens /\ spent.idTokens = s.idTokens
    BY <1>2
  <2>2. minted = [spent EXCEPT !.accessTokens = as, !.idTokens = is]
    BY <2>1
  <2> HIDE DEF minted, as, is
  <2> QED
    BY <1>2, <2>2
<1>4. kept = [url |-> s.url, opts |-> s.opts, minted |-> next, codes |-> w,
              refreshTokens |-> x, deviceGrants |-> s.deviceGrants,
              accessTokens |-> as, idTokens |-> is]
  <2> HIDE DEF minted, w, as, is, record
  <2>1. minted.minted = s.minted /\ minted.refreshTokens = s.refreshTokens
    BY <1>3
  <2>2. kept = [minted EXCEPT !.minted = next, !.refreshTokens = x]
    BY <2>1 DEF MintRefresh
  <2> HIDE DEF kept, next, x
  <2> QED
    BY <1>3, <2>2
<1>5. DOMAIN w = DOMAIN s.codes \ {r.code} /\ DOMAIN x = DOMAIN s.refreshTokens \cup {next}
  <2> HIDE DEF record, next
  <2> QED
    BY DEF With, Without
<1>6. next \in Nat /\ s.minted <= next /\ s.minted <= s.minted
  BY DEF Minted
<1>7. ExchangeCode(s, r) =
        IF ~Matching(s, r) THEN OAuthError(spent, "invalid_grant")
        ELSE IF s.opts.omitRefreshToken
             THEN Answered(minted, Tokens(access, None, id, g.scopes))
             ELSE Answered(kept, Tokens(access, next, id, g.scopes))
  <2> HIDE DEF access, id, record
  <2> QED
    BY DEF ExchangeCode, Matching, access, id, record
<1> HIDE DEF access, id, w, spent, minted, record, next, x, kept, as, is
<1>8. Minted(spent) /\ Minted(minted) /\ Minted(kept)
  BY <1>1, <1>2, <1>3, <1>4, <1>5, <1>6 DEF Minted
<1>9. CASE ~Matching(s, r)
  <2>1. ExchangeCode(s, r) = [issuer |-> spent, answer |-> [ok |-> FALSE, error |-> "invalid_grant"]]
    BY <1>7, <1>9 DEF OAuthError, Answered
  <2> QED
    BY <1>2, <1>6, <1>8, <1>9, <2>1 DEF w
<1>10. CASE Matching(s, r) /\ s.opts.omitRefreshToken
  <2>1. ExchangeCode(s, r) = [issuer |-> minted, answer |-> Tokens(access, None, id, g.scopes)]
    BY <1>7, <1>10 DEF Answered
  <2> QED
    BY <1>3, <1>6, <1>8, <1>10, <2>1 DEF w, id, Tokens
<1>11. CASE Matching(s, r) /\ ~s.opts.omitRefreshToken
  <2>1. ExchangeCode(s, r) = [issuer |-> kept, answer |-> Tokens(access, next, id, g.scopes)]
    BY <1>7, <1>11 DEF Answered
  <2> QED
    BY <1>4, <1>6, <1>8, <1>11, <2>1 DEF w, id, Tokens, next, x, record
<1> QED
  BY <1>9, <1>10, <1>11

\* What the device endpoint does with a login's own request.
Begun(s, t, a, l) ==
  /\ Minted(t) /\ t.opts = s.opts /\ s.minted <= t.minted
  /\ t.codes = s.codes /\ t.refreshTokens = s.refreshTokens
  /\ \/ /\ s.opts.omitDevice
        /\ a.ok = FALSE /\ t.deviceGrants = s.deviceGrants
     \/ /\ a.ok = TRUE /\ a.device = s.minted + 1 /\ t.minted = s.minted + 1
        /\ \E g : /\ t.deviceGrants = With(s.deviceGrants, s.minted + 1, g)
                  /\ GrantFor(g, l) /\ g.redeemed = FALSE

LEMMA DeviceAuthorizing ==
  ASSUME NEW s, Minted(s), NEW l \in Logins,
         NEW r, r = [grant |-> "device_authorization", client |-> ClientOf[l],
                     scopes |-> Requested(l)]
  PROVE  Begun(s, HandleDeviceAuthorize(s, r).issuer, HandleDeviceAuthorize(s, r).answer, l)
<1> SUFFICES LET t == HandleDeviceAuthorize(s, r).issuer
                 a == HandleDeviceAuthorize(s, r).answer
             IN /\ Minted(t) /\ t.opts = s.opts /\ s.minted <= t.minted
                /\ t.codes = s.codes /\ t.refreshTokens = s.refreshTokens
                /\ \/ /\ s.opts.omitDevice
                      /\ a.ok = FALSE /\ t.deviceGrants = s.deviceGrants
                   \/ /\ a.ok = TRUE /\ a.device = s.minted + 1 /\ t.minted = s.minted + 1
                      /\ \E g : /\ t.deviceGrants = With(s.deviceGrants, s.minted + 1, g)
                                /\ GrantFor(g, l) /\ g.redeemed = FALSE
  BY DEF Begun
<1> DEFINE next == s.minted + 1
           g == [scopes |-> r.scopes, client |-> r.client, pending |-> s.opts.pending,
                 slowDown |-> s.opts.slowDown, redeemed |-> FALSE]
           w == With(s.deviceGrants, next, g)
           u == [s EXCEPT !.minted = next, !.deviceGrants = With(@, next, g)]
           answer == [ok |-> TRUE, device |-> next, interval |-> s.opts.interval]
<1>1. s = [url |-> s.url, opts |-> s.opts, minted |-> s.minted, codes |-> s.codes,
           refreshTokens |-> s.refreshTokens, deviceGrants |-> s.deviceGrants,
           accessTokens |-> s.accessTokens, idTokens |-> s.idTokens]
  BY DEF Minted
<1>2. next \in Nat /\ s.minted <= next /\ s.minted <= s.minted
  BY DEF Minted
<1>3. GrantFor(g, l) /\ g.redeemed = FALSE
  <2>1. s.opts \in Deployments
    BY DEF Minted
  <2>2. s.opts.pending \in Nat /\ s.opts.slowDown \in Nat
    BY <2>1, DeploymentAssumption
  <2> QED
    BY <2>2 DEF GrantFor
<1>4. r.client # None
  BY LoginAssumption
<1>5. u = [url |-> s.url, opts |-> s.opts, minted |-> next, codes |-> s.codes,
           refreshTokens |-> s.refreshTokens, deviceGrants |-> w,
           accessTokens |-> s.accessTokens, idTokens |-> s.idTokens]
  <2>1. u = [s EXCEPT !.minted = next, !.deviceGrants = w]
    BY <1>1
  <2> HIDE DEF u, w, next
  <2> QED
    BY <1>1, <2>1
<1>6. DOMAIN w = DOMAIN s.deviceGrants \cup {next}
  <2> HIDE DEF g, next
  <2> QED
    BY DEF With
<1>7. HandleDeviceAuthorize(s, r) =
        IF s.opts.omitDevice THEN Answered(s, [ok |-> FALSE, error |-> "invalid_request"])
        ELSE Answered(u, answer)
  BY <1>4 DEF HandleDeviceAuthorize, OAuthError
<1> HIDE DEF next, g, w, u
<1>8. Minted(u)
  BY <1>1, <1>2, <1>5, <1>6 DEF Minted
<1>9. CASE s.opts.omitDevice
  <2>1. HandleDeviceAuthorize(s, r) =
          [issuer |-> s, answer |-> [ok |-> FALSE, error |-> "invalid_request"]]
    BY <1>7, <1>9 DEF Answered
  <2> QED
    BY <1>2, <1>9, <2>1
<1>10. CASE ~s.opts.omitDevice
  <2>1. HandleDeviceAuthorize(s, r) = [issuer |-> u, answer |-> answer]
    BY <1>7, <1>10 DEF Answered
  <2> QED
    BY <1>2, <1>3, <1>5, <1>8, <2>1 DEF w, next
<1> QED
  BY <1>9, <1>10

\* What a poll does: it moves no grant but the one polled, and a grant that
\* was not redeemed is answered with a wait, with the user's decision, or with
\* tokens for what the grant says.
Decided(s, t, a, d) ==
  LET g == s.deviceGrants[d]
  IN /\ Minted(t) /\ t.opts = s.opts /\ s.minted <= t.minted
     /\ t.codes = s.codes
     /\ DOMAIN t.deviceGrants = DOMAIN s.deviceGrants
     /\ \A e \in DOMAIN s.deviceGrants \ {d} : t.deviceGrants[e] = s.deviceGrants[e]
     /\ \A k \in Logins : d \in DOMAIN s.deviceGrants /\ GrantFor(g, k)
          => GrantFor(t.deviceGrants[d], k)
     /\ \/ /\ a.ok = FALSE /\ t.refreshTokens = s.refreshTokens
           /\ d \in DOMAIN s.deviceGrants /\ g.redeemed = FALSE =>
                \/ /\ a.error \in {"authorization_pending", "slow_down"}
                   /\ t.deviceGrants[d].redeemed = FALSE
                \/ a.error \in {"access_denied", "expired_token"}
        \/ /\ a.ok = TRUE /\ d \in DOMAIN s.deviceGrants
           /\ \/ a.id = None
              \/ a.id = IDToken(s, IF s.opts.deviceAudience # None
                                   THEN s.opts.deviceAudience ELSE g.client,
                                None, g.scopes)
           /\ \/ a.refresh = None /\ t.refreshTokens = s.refreshTokens
              \/ /\ a.refresh = s.minted + 1 /\ t.minted = s.minted + 1
                 /\ t.refreshTokens = With(s.refreshTokens, s.minted + 1,
                       [scopes |-> g.scopes, resource |-> None])

LEMMA DevicePolled ==
  ASSUME NEW s, Minted(s), NEW r,
         r.device \in DOMAIN s.deviceGrants =>
           \E k \in Logins : GrantFor(s.deviceGrants[r.device], k)
  PROVE  Decided(s, DeviceGrant(s, r).issuer, DeviceGrant(s, r).answer, r.device)
<1> SUFFICES LET t == DeviceGrant(s, r).issuer
                 a == DeviceGrant(s, r).answer
                 d == r.device
                 g == s.deviceGrants[d]
             IN /\ Minted(t) /\ t.opts = s.opts /\ s.minted <= t.minted
                /\ t.codes = s.codes
                /\ DOMAIN t.deviceGrants = DOMAIN s.deviceGrants
                /\ \A e \in DOMAIN s.deviceGrants \ {d} : t.deviceGrants[e] = s.deviceGrants[e]
                /\ \A k \in Logins : d \in DOMAIN s.deviceGrants /\ GrantFor(g, k)
                     => GrantFor(t.deviceGrants[d], k)
                /\ \/ /\ a.ok = FALSE /\ t.refreshTokens = s.refreshTokens
                      /\ d \in DOMAIN s.deviceGrants /\ g.redeemed = FALSE =>
                           \/ /\ a.error \in {"authorization_pending", "slow_down"}
                              /\ t.deviceGrants[d].redeemed = FALSE
                           \/ a.error \in {"access_denied", "expired_token"}
                   \/ /\ a.ok = TRUE /\ d \in DOMAIN s.deviceGrants
                      /\ \/ a.id = None
                         \/ a.id = IDToken(s, IF s.opts.deviceAudience # None
                                              THEN s.opts.deviceAudience ELSE g.client,
                                           None, g.scopes)
                      /\ \/ a.refresh = None /\ t.refreshTokens = s.refreshTokens
                         \/ /\ a.refresh = s.minted + 1 /\ t.minted = s.minted + 1
                            /\ t.refreshTokens = With(s.refreshTokens, s.minted + 1,
                                  [scopes |-> g.scopes, resource |-> None])
  BY DEF Decided
<1> DEFINE d == r.device
           g == s.deviceGrants[d]
           next == s.minted + 1
<1>1. s = [url |-> s.url, opts |-> s.opts, minted |-> s.minted, codes |-> s.codes,
           refreshTokens |-> s.refreshTokens, deviceGrants |-> s.deviceGrants,
           accessTokens |-> s.accessTokens, idTokens |-> s.idTokens]
  BY DEF Minted
<1>2. next \in Nat /\ s.minted <= next /\ s.minted <= s.minted
  BY DEF Minted
<1>3. CASE d \notin DOMAIN s.deviceGrants \/ g.redeemed
  <2>1. DeviceGrant(s, r) = [issuer |-> s, answer |-> [ok |-> FALSE, error |-> "invalid_grant"]]
    BY <1>3 DEF DeviceGrant, OAuthError, Answered
  <2> QED
    BY <1>2, <1>3, <2>1
<1>4. CASE d \in DOMAIN s.deviceGrants /\ ~g.redeemed
  <2> DEFINE drawn(field) == [s EXCEPT !.deviceGrants =
                               With(@, d, [g EXCEPT ![field] = @ - 1])]
  <2>1. PICK k0 \in Logins : GrantFor(g, k0)
    BY <1>4
  <2>2. /\ g = [scopes |-> g.scopes, client |-> g.client, pending |-> g.pending,
                slowDown |-> g.slowDown, redeemed |-> g.redeemed]
        /\ g.pending \in Nat /\ g.slowDown \in Nat
    BY <2>1 DEF GrantFor
  <2>3. \/ g.slowDown > 0
        \/ g.slowDown = 0 /\ g.pending > 0
        \/ g.slowDown = 0 /\ g.pending = 0
    BY <2>2
  <2>4. ASSUME NEW field \in {"slowDown", "pending"}, g[field] > 0,
               NEW error \in {"slow_down", "authorization_pending"},
               DeviceGrant(s, r) = OAuthError(drawn(field), error)
        PROVE  /\ Minted(drawn(field)) /\ drawn(field).codes = s.codes
               /\ drawn(field).opts = s.opts /\ drawn(field).minted = s.minted
               /\ drawn(field).refreshTokens = s.refreshTokens
               /\ DOMAIN drawn(field).deviceGrants = DOMAIN s.deviceGrants
               /\ \A e \in DOMAIN s.deviceGrants \ {d} :
                    drawn(field).deviceGrants[e] = s.deviceGrants[e]
               /\ \A k \in Logins : GrantFor(g, k) => GrantFor(drawn(field).deviceGrants[d], k)
               /\ drawn(field).deviceGrants[d].redeemed = g.redeemed
    <3> DEFINE n == [g EXCEPT ![field] = @ - 1]
               w == With(s.deviceGrants, d, n)
               u == drawn(field)
    <3>1. u = [url |-> s.url, opts |-> s.opts, minted |-> s.minted, codes |-> s.codes,
               refreshTokens |-> s.refreshTokens, deviceGrants |-> w,
               accessTokens |-> s.accessTokens, idTokens |-> s.idTokens]
      <4>1. u = [s EXCEPT !.deviceGrants = w]
        BY <1>1
      <4> HIDE DEF u, w
      <4> QED
        BY <1>1, <4>1
    <3>2. /\ n = [scopes |-> g.scopes, client |-> g.client, pending |-> n.pending,
                  slowDown |-> n.slowDown, redeemed |-> g.redeemed]
          /\ n.pending \in Nat /\ n.slowDown \in Nat
      <4>1. CASE field = "slowDown"
        <5>1. n = [g EXCEPT !.slowDown = g.slowDown - 1]
          BY <2>2, <4>1
        <5>2. g.slowDown - 1 \in Nat
          BY <2>2, <2>4, <4>1
        <5> HIDE DEF n, g
        <5> QED
          BY <2>2, <5>1, <5>2
      <4>2. CASE field = "pending"
        <5>1. n = [g EXCEPT !.pending = g.pending - 1]
          BY <2>2, <4>2
        <5>2. g.pending - 1 \in Nat
          BY <2>2, <2>4, <4>2
        <5> HIDE DEF n, g
        <5> QED
          BY <2>2, <5>1, <5>2
      <4> QED
        BY <4>1, <4>2
    <3> HIDE DEF n
    <3>3. /\ DOMAIN w = DOMAIN s.deviceGrants /\ w[d] = n
          /\ \A e \in DOMAIN s.deviceGrants \ {d} : w[e] = s.deviceGrants[e]
      BY <1>4 DEF With
    <3> HIDE DEF w, u
    <3>4. Minted(u)
      BY <1>1, <3>1, <3>3 DEF Minted
    <3>5. \A k \in Logins : GrantFor(g, k) => GrantFor(n, k)
      BY <3>2 DEF GrantFor
    <3>6. n.redeemed = g.redeemed
      BY <3>2
    <3> HIDE DEF g
    <3>7. u.deviceGrants = w
      BY <3>1
    <3> QED
      BY <3>1, <3>3, <3>4, <3>5, <3>6, <3>7 DEF u
  <2>5. DeviceGrant(s, r) =
          CASE g.slowDown > 0 -> OAuthError(drawn("slowDown"), "slow_down")
            [] g.slowDown = 0 /\ g.pending > 0 ->
                 OAuthError(drawn("pending"), "authorization_pending")
            [] g.slowDown = 0 /\ g.pending = 0 ->
                 CASE s.opts.deviceOutcome = "deny" -> OAuthError(s, "access_denied")
                   [] s.opts.deviceOutcome = "expire" -> OAuthError(s, "expired_token")
                   [] s.opts.deviceOutcome = "approve" -> Approved(s, d, g)
    <3> HIDE DEF OAuthError, Approved
    <3> QED
      BY <1>4 DEF DeviceGrant
  <2>6. CASE g.slowDown > 0
    <3> HIDE DEF drawn, g
    <3>1. ~(g.slowDown = 0)
      BY <2>2, <2>6
    <3>2. DeviceGrant(s, r) = OAuthError(drawn("slowDown"), "slow_down")
      BY <2>5, <2>6, <3>1
    <3>3. g["slowDown"] = g.slowDown
      OBVIOUS
    <3>4. DeviceGrant(s, r) = [issuer |-> drawn("slowDown"), answer |-> [ok |-> FALSE, error |-> "slow_down"]]
      BY <3>2 DEF OAuthError, Answered
    <3> QED
      BY <1>2, <1>4, <2>4, <2>6, <3>2, <3>3, <3>4 DEF g
  <2>7. CASE g.slowDown = 0 /\ g.pending > 0
    <3> HIDE DEF drawn, g
    <3>1. ~(g.slowDown > 0) /\ ~(g.pending = 0)
      BY <2>2, <2>7
    <3>2. DeviceGrant(s, r) = OAuthError(drawn("pending"), "authorization_pending")
      BY <2>5, <2>7, <3>1
    <3>3. g["pending"] = g.pending
      OBVIOUS
    <3>4. DeviceGrant(s, r) = [issuer |-> drawn("pending"),
                               answer |-> [ok |-> FALSE, error |-> "authorization_pending"]]
      BY <3>2 DEF OAuthError, Answered
    <3> QED
      BY <1>2, <1>4, <2>4, <2>7, <3>2, <3>3, <3>4 DEF g
  <2>8. CASE g.slowDown = 0 /\ g.pending = 0
    <3>1. s.opts.deviceOutcome \in {"deny", "expire", "approve"}
      BY DeploymentAssumption DEF Minted
    <3> HIDE DEF drawn, g
    <3>2. ~(g.slowDown > 0) /\ ~(g.pending > 0)
      BY <2>2, <2>8
    <3>3. DeviceGrant(s, r) =
            CASE s.opts.deviceOutcome = "deny" -> OAuthError(s, "access_denied")
              [] s.opts.deviceOutcome = "expire" -> OAuthError(s, "expired_token")
              [] s.opts.deviceOutcome = "approve" -> Approved(s, d, g)
      BY <2>5, <2>8, <3>2
    <3>4. CASE s.opts.deviceOutcome = "deny"
      <4>1. DeviceGrant(s, r) = [issuer |-> s, answer |-> [ok |-> FALSE, error |-> "access_denied"]]
        BY <3>3, <3>4 DEF OAuthError, Answered
      <4> QED
        BY <1>2, <1>4, <4>1 DEF g
    <3>5. CASE s.opts.deviceOutcome = "expire"
      <4>1. DeviceGrant(s, r) = [issuer |-> s, answer |-> [ok |-> FALSE, error |-> "expired_token"]]
        BY <3>3, <3>5 DEF OAuthError, Answered
      <4> QED
        BY <1>2, <1>4, <4>1 DEF g
    <3>6. CASE s.opts.deviceOutcome = "approve"
      <4> DEFINE access == Access(s, "user-1", g.scopes, None)
                 id == IF s.opts.omitDeviceIDToken THEN None
                       ELSE IDToken(s, IF s.opts.deviceAudience # None
                                       THEN s.opts.deviceAudience ELSE g.client,
                                    None, g.scopes)
                 as == s.accessTokens \cup {access}
                 is == s.idTokens \cup ({id} \ {None})
                 n == [g EXCEPT !.redeemed = TRUE]
                 w == [s.deviceGrants EXCEPT ![d] = n]
                 redeemed == [s EXCEPT !.deviceGrants[d].redeemed = TRUE,
                                       !.accessTokens = @ \cup {access},
                                       !.idTokens = @ \cup ({id} \ {None})]
                 record == [scopes |-> g.scopes, resource |-> None]
                 x == With(s.refreshTokens, next, record)
                 kept == MintRefresh(redeemed, record)
      <4>1. DeviceGrant(s, r) =
              IF s.opts.omitDeviceRefresh
              THEN Answered(redeemed, Tokens(access, None, id, g.scopes))
              ELSE Answered(kept, Tokens(access, next, id, g.scopes))
        <5>1. DeviceGrant(s, r) = Approved(s, d, g)
          BY <3>3, <3>6
        <5>2. Approved(s, d, g) =
              IF s.opts.omitDeviceRefresh
              THEN Answered(redeemed, Tokens(access, None, id, g.scopes))
              ELSE Answered(kept, Tokens(access, next, id, g.scopes))
          BY DEF Approved
        <5> QED
          BY <5>1, <5>2
      <4>2. redeemed = [url |-> s.url, opts |-> s.opts, minted |-> s.minted, codes |-> s.codes,
                        refreshTokens |-> s.refreshTokens, deviceGrants |-> w,
                        accessTokens |-> as, idTokens |-> is]
        <5> HIDE DEF access, id
        <5>1. redeemed = [s EXCEPT !.deviceGrants = w, !.accessTokens = as, !.idTokens = is]
          BY <1>1 DEF g
        <5> HIDE DEF redeemed, w, as, is
        <5> QED
          BY <1>1, <5>1
      <4>3. kept = [url |-> s.url, opts |-> s.opts, minted |-> next, codes |-> s.codes,
                    refreshTokens |-> x, deviceGrants |-> w,
                    accessTokens |-> as, idTokens |-> is]
        <5> HIDE DEF redeemed, w, as, is, record
        <5>1. redeemed.minted = s.minted /\ redeemed.refreshTokens = s.refreshTokens
          BY <4>2
        <5>2. kept = [redeemed EXCEPT !.minted = next, !.refreshTokens = x]
          BY <5>1 DEF MintRefresh
        <5> HIDE DEF kept, next, x
        <5> QED
          BY <4>2, <5>2
      <4>4. DOMAIN x = DOMAIN s.refreshTokens \cup {next}
        <5> HIDE DEF record, next
        <5> QED
          BY DEF With
      <4>5. /\ DOMAIN w = DOMAIN s.deviceGrants /\ w[d] = n
            /\ \A e \in DOMAIN s.deviceGrants \ {d} : w[e] = s.deviceGrants[e]
        <5> HIDE DEF n
        <5> QED
          BY <1>4
      <4>6. \A k \in Logins : GrantFor(g, k) => GrantFor(n, k)
        <5>1. n = [g EXCEPT !.redeemed = TRUE]
          OBVIOUS
        <5> HIDE DEF n
        <5>2. n = [scopes |-> g.scopes, client |-> g.client, pending |-> g.pending,
                   slowDown |-> g.slowDown, redeemed |-> TRUE]
          BY <2>2, <5>1
        <5>3. n.pending = g.pending /\ n.slowDown = g.slowDown /\ n.redeemed = TRUE
          BY <5>2
        <5>4. ASSUME NEW k \in Logins, GrantFor(g, k)
              PROVE  GrantFor(n, k)
          <6>1. g.scopes = Requested(k) /\ g.client = ClientOf[k]
            BY <5>4 DEF GrantFor
          <6> QED
            BY <2>2, <5>2, <5>3, <6>1 DEF GrantFor
        <5> QED
          BY <5>4
      <4> HIDE DEF access, id, as, is, n, w, redeemed, record, x, kept, next
      <4>7. Minted(redeemed) /\ Minted(kept)
        BY <1>1, <1>2, <4>2, <4>3, <4>4, <4>5 DEF Minted
      <4>8. \/ id = None
            \/ id = IDToken(s, IF s.opts.deviceAudience # None
                              THEN s.opts.deviceAudience ELSE g.client,
                           None, g.scopes)
        BY DEF id
      <4>9. CASE s.opts.omitDeviceRefresh
        <5>1. DeviceGrant(s, r) = [issuer |-> redeemed, answer |-> Tokens(access, None, id, g.scopes)]
          BY <4>1, <4>9 DEF Answered
        <5>2. /\ Tokens(access, None, id, g.scopes).ok = TRUE
              /\ Tokens(access, None, id, g.scopes).id = id
              /\ Tokens(access, None, id, g.scopes).refresh = None
          BY DEF Tokens
        <5>3. /\ redeemed.opts = s.opts /\ redeemed.minted = s.minted
              /\ redeemed.codes = s.codes /\ redeemed.refreshTokens = s.refreshTokens
              /\ redeemed.deviceGrants = w
          BY <4>2
        <5> QED
          BY <1>2, <1>4, <4>5, <4>6, <4>7, <4>8, <5>1, <5>2, <5>3 DEF g
      <4>10. CASE ~s.opts.omitDeviceRefresh
        <5>1. DeviceGrant(s, r) = [issuer |-> kept, answer |-> Tokens(access, next, id, g.scopes)]
          BY <4>1, <4>10 DEF Answered
        <5>2. /\ Tokens(access, next, id, g.scopes).ok = TRUE
              /\ Tokens(access, next, id, g.scopes).id = id
              /\ Tokens(access, next, id, g.scopes).refresh = next
          BY DEF Tokens
        <5>3. /\ kept.opts = s.opts /\ kept.minted = next
              /\ kept.codes = s.codes /\ kept.refreshTokens = x
              /\ kept.deviceGrants = w
          BY <4>3
        <5> QED
          BY <1>2, <1>4, <4>5, <4>6, <4>7, <4>8, <5>1, <5>2, <5>3 DEF g, next, x, record
      <4> QED
        BY <4>9, <4>10
    <3> QED
      BY <3>1, <3>4, <3>5, <3>6
  <2> QED
    BY <2>3, <2>6, <2>7, <2>8
<1> QED
  BY <1>3, <1>4

-----------------------------------------------------------------------------
(* What a step leaves a login that does not take it.                        *)

\* The issuer only draws new numbers and never takes a token back.
Grows ==
  /\ issuer'.url = issuer.url /\ issuer'.opts = issuer.opts
  /\ issuer.minted \in Nat /\ issuer'.minted \in Nat /\ issuer.minted <= issuer'.minted
  /\ \A c \in DOMAIN issuer'.codes :
       \/ c \in DOMAIN issuer.codes /\ issuer'.codes[c] = issuer.codes[c]
       \/ ~(c <= issuer.minted)
  /\ \A t \in DOMAIN issuer.refreshTokens :
       /\ t \in DOMAIN issuer'.refreshTokens
       /\ issuer'.refreshTokens[t] = issuer.refreshTokens[t]

\* It keeps a login's codes and the device grants it was given.
Keeps(l) ==
  /\ \A c \in DOMAIN issuer.codes : issuer.codes[c].challenge = l =>
       c \in DOMAIN issuer'.codes /\ issuer'.codes[c] = issuer.codes[c]
  /\ \A d \in DOMAIN issuer.deviceGrants : Given(l, d) =>
       d \in DOMAIN issuer'.deviceGrants /\ issuer'.deviceGrants[d] = issuer.deviceGrants[d]

LEMMA Unmoved ==
  ASSUME issuer' = issuer, Minted(issuer)
  PROVE  Grows /\ \A l \in Logins : Keeps(l)
<1>1. issuer.minted \in Nat
  BY DEF Minted
<1>2. issuer.minted <= issuer.minted
  BY <1>1
<1> QED
  BY <1>1, <1>2 DEF Grows, Keeps

\* What the issuer says of itself and of an identity token is settled by its
\* options.
LEMMA SameIssuer ==
  ASSUME Grows
  PROVE  /\ Identifier(issuer') = Identifier(issuer)
         /\ \A c, n, q : IDToken(issuer', c, n, q) = IDToken(issuer, c, n, q)
BY DEF Grows, Identifier, IDToken, Disclosed

LEMMA TokenStays ==
  ASSUME NEW l \in Logins, NEW t, TokenOf(l, t), Grows
  PROVE  TokenOf(l, t)'
BY DEF TokenOf, Grows, Renewable

LEMMA IdentityStays ==
  ASSUME NEW l \in Logins, NEW id, IdentityOf(l, id), Grows
  PROVE  IdentityOf(l, id)'
<1>1. issuer'.opts = issuer.opts
  BY DEF Grows
<1> QED
  BY <1>1, SameIssuer DEF IdentityOf

\* A code stays its login's while the login waits where it waited.
LEMMA CodeStays ==
  ASSUME NEW l \in Logins, NEW c, CodeOf(l, c), Grows,
         \/ phase'[l] # "wait"
         \/ Keeps(l) /\ phase[l] = "wait" /\ port'[l] = port[l]
  PROVE  CodeOf(l, c)'
<1>1. c \in Nat /\ c <= issuer'.minted
  BY DEF CodeOf, Grows
<1>2. c \in DOMAIN issuer'.codes => issuer'.codes[c].challenge = l
  BY DEF CodeOf, Grows
<1>3. phase'[l] = "wait" => c \in DOMAIN issuer'.codes /\ issuer'.codes[c].port = port'[l]
  BY DEF CodeOf, Keeps
<1> QED
  BY <1>1, <1>2, <1>3 DEF CodeOf

LEMMA TabStays ==
  ASSUME NEW l \in Logins, NEW tab, TabOf(tab, l), Grows,
         phase'[l] \in {"wait", "exchange", "identify", "returned"},
         \/ phase'[l] # "wait"
         \/ Keeps(l) /\ phase[l] = "wait" /\ port'[l] = port[l]
  PROVE  TabOf(tab, l)'
<1>1. issuer'.opts = issuer.opts
  BY DEF Grows
<1>2. tab.error = None /\ tab.code # None => CodeOf(l, tab.code)'
  BY CodeStays DEF TabOf
<1> QED
  BY <1>1, <1>2 DEF TabOf, TargetRefused

LEMMA DeviceStays ==
  ASSUME NEW l \in Logins, NEW d, DeviceOf(l, d), Given(l, d), Keeps(l)
  PROVE  DeviceOf(l, d)'
BY DEF DeviceOf, Keeps, GrantFor

\* The login's own values.
Steady(l) ==
  /\ phase'[l] = phase[l] /\ port'[l] = port[l] /\ channel'[l] = channel[l]
  /\ call'[l] = call[l] /\ device'[l] = device[l] /\ outcome'[l] = outcome[l]

Later == tabs \subseteq tabs' /\ troubled \subseteq troubled' /\ expired \subseteq expired'

LEMMA ChannelStays ==
  ASSUME NEW l \in Logins, ChannelOf(l), Grows, Later, channel'[l] = channel[l],
         \/ phase'[l] # "wait"
         \/ Keeps(l) /\ phase[l] = "wait" /\ port'[l] = port[l]
  PROVE  ChannelOf(l)'
<1>1. PICK c : c = channel[l]
  OBVIOUS
<1>2. Denied(l) => Denied(l)'
  BY DEF Denied, Later
<1>3. TargetRefused(l) => TargetRefused(l)'
  BY DEF TargetRefused, Grows
<1>4. CodeOf(l, c.code) => CodeOf(l, c.code)'
  BY CodeStays
<1>5. \/ c = None
      \/ c = [error |-> "refused"] /\ Denied(l)
      \/ c = [error |-> "target_rejected"] /\ TargetRefused(l)
      \/ c = [code |-> c.code] /\ CodeOf(l, c.code)
  BY <1>1 DEF ChannelOf, CodeOf
<1>6. \/ c = None
      \/ c = [error |-> "refused"] /\ Denied(l)'
      \/ c = [error |-> "target_rejected"] /\ TargetRefused(l)'
      \/ c = [code |-> c.code] /\ CodeOf(l, c.code)'
  BY <1>2, <1>3, <1>4, <1>5
<1>7. channel'[l] = c
  BY <1>1
<1> QED
  BY <1>6, <1>7 DEF ChannelOf, CodeOf

\* What a request and an answer in flight say stays so, given where the login
\* stands is the same.
LEMMA RequestStays ==
  ASSUME NEW l \in Logins, Request(l), Grows, Keeps(l), Steady(l), phase[l] # "wait"
  PROVE  Request(l)'
<1>1. phase[l] = "polled" => DeviceOf(l, device[l])'
  <2>1. PICK d : d = device[l]
    OBVIOUS
  <2>2. device'[l] = d /\ Given(l, d)
    BY <2>1 DEF Steady, Given
  <2>3. phase[l] = "polled" => DeviceOf(l, d)'
    BY <2>1, <2>2, DeviceStays DEF Request, DeviceOf
  <2> QED
    BY <2>2, <2>3 DEF DeviceOf
<1>2. PICK r : r = call[l].request
  OBVIOUS
<1>3. call'[l].request = r
  BY <1>2 DEF Steady
<1>4. phase[l] = "exchange" =>
        /\ r.code \in DOMAIN issuer'.codes
        /\ CodeFor(issuer'.codes[r.code], l)
        /\ issuer'.codes[r.code].port = port[l]
  BY <1>2 DEF Request, Keeps, CodeFor
<1>5. r.grant = "authorization_code" => CodeOf(l, r.code)'
  <2>1. r.grant = "authorization_code" => CodeOf(l, r.code)
    BY <1>2 DEF Request, CodeOf
  <2>2. phase'[l] # "wait"
    BY DEF Steady
  <2> QED
    BY <2>1, <2>2, CodeStays
<1> QED
  BY <1>1, <1>2, <1>3, <1>4, <1>5 DEF Request, CodeOf, Steady, DeviceOf

LEMMA AnswerStays ==
  ASSUME NEW l \in Logins, Answer(l), call[l].at = "shell", Grows, Keeps(l), Steady(l), Later
  PROVE  Answer(l)'
<1>1. PICK a : a = call[l].answer
  OBVIOUS
<1>2. call'[l].answer = a
  BY <1>1 DEF Steady
<1>3. PICK d : d = device[l]
  OBVIOUS
<1>4. device'[l] = d /\ Given(l, d)
  BY <1>3 DEF Steady, Given
<1>5. DeviceOf(l, d) => DeviceOf(l, d)'
  BY <1>4, DeviceStays
<1>6. phase[l] = "device_asked" /\ a.ok => DeviceOf(l, a.device)'
  <2> SUFFICES ASSUME phase[l] = "device_asked" /\ a.ok
               PROVE  DeviceOf(l, a.device)'
    OBVIOUS
  <2>1. DeviceOf(l, a.device)
    BY <1>1 DEF Answer, DeviceOf
  <2>2. Given(l, a.device)
    BY <1>1 DEF Given
  <2> QED
    BY <2>1, <2>2, DeviceStays
<1>7. TokenOf(l, a.refresh) => TokenOf(l, a.refresh)'
  BY TokenStays
<1>8. IdentityOf(l, a.id) => IdentityOf(l, a.id)'
  BY IdentityStays
<1>9. phase[l] \in {"exchange", "polled", "identify"} /\ a.ok =>
        TokenOf(l, a.refresh)' /\ IdentityOf(l, a.id)'
  <2>1. phase[l] \in {"exchange", "polled", "identify"} /\ a.ok =>
          TokenOf(l, a.refresh) /\ IdentityOf(l, a.id)
    BY <1>1 DEF Answer, TokenOf, IdentityOf
  <2> QED
    BY <1>7, <1>8, <2>1
<1>10. phase'[l] = phase[l]
  BY DEF Steady
<1>11. phase[l] \in {"exchange", "device_asked"} /\ ~a.ok => l \in troubled'
  BY <1>1 DEF Answer, Later
<1>12. phase[l] = "polled" /\ ~a.ok =>
         \/ /\ a.error \in {"authorization_pending", "slow_down"}
            /\ DeviceOf(l, d)'
         \/ a.error \in {"access_denied", "expired_token"}
         \/ a.error = "lost" /\ l \in troubled'
  BY <1>1, <1>3, <1>5 DEF Answer, DeviceOf, Later
<1>13. a.ok \in BOOLEAN /\ (phase[l] = "identify" => a.ok)
  BY <1>1 DEF Answer
<1> QED
  BY <1>2, <1>4, <1>6, <1>9, <1>10, <1>11, <1>12, <1>13
  DEF Answer, TokenOf, IdentityOf, DeviceOf

LEMMA CallingStays ==
  ASSUME NEW l \in Logins, Placed(l), Calling(l), Grows, Keeps(l), Steady(l), Later
  PROVE  Calling(l)'
<1>1. call'[l] = call[l] /\ phase'[l] = phase[l]
  BY DEF Steady
<1> SUFFICES ASSUME call[l] # None \/ phase[l] \in Asking \cup {"identify"}
             PROVE  /\ call[l].at \in {"issuer", "shell"}
                    /\ call[l].at = "issuer" => Request(l)' /\ phase[l] # "identify"
                    /\ call[l].at = "shell" => Answer(l)'
  BY <1>1 DEF Calling
<1>2. phase[l] # "wait"
  BY DEF Placed, Asking
<1> QED
  BY <1>2, RequestStays, AnswerStays DEF Calling

LEMMA SessionStays ==
  ASSUME NEW l \in Logins, SessionOf(l), Grows, outcome'[l] = outcome[l]
  PROVE  SessionOf(l)'
<1>1. PICK o : o = outcome[l]
  OBVIOUS
<1>2. TokenOf(l, o.refresh) => TokenOf(l, o.refresh)'
  BY TokenStays
<1>3. Stored(l) => TokenOf(l, o.refresh)
  BY <1>1 DEF SessionOf, TokenOf
<1>4. outcome'[l] = o
  BY <1>1
<1>5. Stored(l) =>
        /\ o.refresh # None
        /\ Flow[l] = "browser" => o.id # None /\ o.id.nonce = l
        /\ o.id # None => o.id.audience = ClientOf[l] /\ o.id.issuer = Identifier(issuer')
  BY <1>1, SameIssuer DEF SessionOf
<1>6. Stored(l)' => Stored(l)
  BY DEF Stored
<1> QED
  BY <1>2, <1>3, <1>4, <1>5, <1>6 DEF SessionOf, TokenOf

LEMMA CauseStays ==
  ASSUME NEW l \in Logins, CauseOf(l), Grows, Later, outcome'[l] = outcome[l]
  PROVE  CauseOf(l)'
<1>1. Denied(l) => Denied(l)'
  BY DEF Denied, Later
<1>2. TargetRefused(l) => TargetRefused(l)'
  BY DEF TargetRefused, Grows
<1>3. \A why : Caused(l, why) => Caused(l, why)'
  BY <1>1, <1>2 DEF Caused, Later, Grows
<1>4. PICK o : o = outcome[l]
  OBVIOUS
<1>5. o # None => Caused(l, o.kind)'
  BY <1>3, <1>4 DEF CauseOf, Caused
<1>6. outcome'[l] = o
  BY <1>4
<1> QED
  BY <1>5, <1>6 DEF CauseOf, Caused

\* A step that leaves a login's own values alone leaves what is known of it.
LEMMA Steadfast ==
  ASSUME NEW l \in Logins, Mine(l), Grows, Keeps(l), Steady(l), Later
  PROVE  Mine(l)'
<1>1. Placed(l)'
  BY DEF Mine, Placed, Steady, Grows
<1>2. Polling(l)'
  <2>1. PICK d : d = device[l]
    OBVIOUS
  <2>2. device'[l] = d /\ Given(l, d) /\ phase'[l] = phase[l]
    BY <2>1 DEF Steady, Given
  <2>3. phase[l] = "poll" => DeviceOf(l, d)'
    BY <2>1, <2>2, DeviceStays DEF Mine, Polling, DeviceOf
  <2> QED
    BY <2>1, <2>2, <2>3 DEF Mine, Polling, DeviceOf
<1>3. ChannelOf(l)' /\ Calling(l)' /\ SessionOf(l)' /\ CauseOf(l)'
  BY ChannelStays, CallingStays, SessionStays, CauseStays DEF Mine, Steady
<1> QED
  BY <1>1, <1>2, <1>3 DEF Mine

LEMMA NoMore ==
  ASSUME NEW l \in Logins, Steady(l)
  PROVE  /\ \A d : Given(l, d)' <=> Given(l, d)
         /\ \A t : Holds(l, t)' <=> Holds(l, t)
BY DEF Steady, Given, Holds, Stored

-----------------------------------------------------------------------------
(* A login takes a step of its own.                                         *)

\* Nothing but the login itself moves.
Moves(l) ==
  /\ issuer' = issuer /\ channel' = channel /\ tabs' = tabs /\ Later
  /\ Shaped'
  /\ \A k \in Logins \ {l} : Steady(k)

\* Where a login has been sent a redirect, it stays among such phases, and
\* does not come back to waiting.
Onward(l) ==
  phase[l] \in {"wait", "exchange", "identify", "returned"} =>
    /\ phase'[l] \in {"wait", "exchange", "identify", "returned"}
    /\ phase'[l] = "wait" => phase[l] = "wait" /\ port'[l] = port[l]

\* It is given and holds nothing that it had not been brought already.
Brings(l) ==
  /\ \A d : Given(l, d)' => Given(l, d)
  /\ \A t : Holds(l, t)' => Holds(l, t)

LEMMA ApartStays ==
  ASSUME Apart, Drawn, Grows, \A l \in Logins : Brings(l)
  PROVE  Apart' /\ Drawn'
<1>1. Apart'
  BY DEF Apart, Brings
<1>2. Drawn'
  <2> SUFFICES ASSUME NEW l \in Logins, NEW d, Given(l, d)', d # None
               PROVE  d \in Nat /\ d <= issuer'.minted
    BY DEF Drawn
  <2>1. d \in Nat /\ d <= issuer.minted
    BY DEF Drawn, Brings
  <2> QED
    BY <2>1 DEF Grows
<1> QED
  BY <1>1, <1>2

\* The rest of the invariant, once the login that moves has its own part.
LEMMA Others ==
  ASSUME IInv, NEW l \in Logins, Grows, Later, tabs' = tabs, Shaped',
         Minted(issuer)', CodesKept', GrantsKept',
         \A k \in Logins \ {l} : Steady(k) /\ Keeps(k),
         Mine(l)', Onward(l), phase'[l] = "wait" => Keeps(l), Apart', Drawn'
  PROVE  IInv'
<1>1. \A k \in Logins : Mine(k)'
  <2>1. ASSUME NEW k \in Logins, k # l
        PROVE  Mine(k)'
    BY <2>1, Steadfast DEF IInv
  <2> QED
    BY <2>1
<1>2. Tabs'
  <2>1. ASSUME NEW tab \in tabs
        PROVE  tab.state \in Logins /\ TabOf(tab, tab.state)'
    <3>1. PICK k \in Logins : k = tab.state /\ TabOf(tab, k)
      BY DEF IInv, Tabs
    <3>2. phase'[k] \in {"wait", "exchange", "identify", "returned"}
      BY <3>1 DEF Onward, Steady, TabOf
    <3>3. \/ phase'[k] # "wait"
          \/ Keeps(k) /\ phase[k] = "wait" /\ port'[k] = port[k]
      BY <3>1 DEF Onward, Steady, TabOf
    <3> QED
      BY <3>1, <3>2, <3>3, TabStays
  <2> QED
    BY <2>1 DEF Tabs
<1> QED
  BY <1>1, <1>2 DEF IInv

LEMMA Moved ==
  ASSUME IInv, NEW l \in Logins, Moves(l), Mine(l)', Onward(l), Brings(l)
  PROVE  IInv'
<1>1. Grows /\ \A k \in Logins : Keeps(k)
  BY Unmoved DEF IInv, Moves
<1>2. \A k \in Logins : Brings(k)
  BY NoMore DEF Moves, Brings
<1>3. Apart' /\ Drawn'
  BY <1>1, <1>2, ApartStays DEF IInv
<1>4. Minted(issuer)' /\ CodesKept' /\ GrantsKept'
  BY DEF IInv, Moves, CodesKept, GrantsKept
<1> QED
  BY <1>1, <1>3, <1>4, Others DEF Moves

\* A login that fails for a cause of its own.
LEMMA Failing ==
  ASSUME IInv, NEW l \in Logins, NEW why, Fail(l, why), why # "session", Caused(l, why)',
         phase[l] # "returned", Moves(l), Given(l, device'[l]),
         Flow[l] = "device" \/ device'[l] = device[l],
         call'[l] = None \/ (call'[l] = call[l] /\ device'[l] = device[l])
  PROVE  Mine(l)' /\ Onward(l) /\ Brings(l)
<1>1. phase'[l] = "returned" /\ outcome'[l] = [kind |-> why]
  BY DEF Fail, Return, IInv, Shaped
<1>2. Grows /\ \A k \in Logins : Keeps(k)
  BY Unmoved DEF IInv, Moves
<1>3. Placed(l)'
  BY <1>1 DEF Placed
<1>4. ChannelOf(l)'
  BY <1>1, <1>2, ChannelStays DEF IInv, Mine, Moves
<1>5. Polling(l)'
  BY <1>1 DEF Polling, IInv, Mine
<1>6. SessionOf(l)' /\ CauseOf(l)'
  <2>1. ~Stored(l)'
    BY <1>1 DEF Stored
  <2>2. outcome'[l].kind = why
    BY <1>1
  <2> QED
    BY <2>1, <2>2 DEF SessionOf, CauseOf, Caused
<1>7. Calling(l)'
  <2> SUFFICES ASSUME call'[l] # None
               PROVE  Calling(l)'
    BY <1>1 DEF Calling, Asking
  <2>1. call'[l] = call[l] /\ device'[l] = device[l]
    OBVIOUS
  <2>2. /\ call[l].at \in {"issuer", "shell"}
        /\ call[l].at = "issuer" => Request(l)
        /\ call[l].at = "shell" => Answer(l)
    BY <2>1 DEF IInv, Mine, Calling
  <2>3. call[l].at = "issuer" => Request(l)'
    <3>1. PICK r : r = call[l].request
      OBVIOUS
    <3>2. r.grant = "authorization_code" /\ call[l].at = "issuer" => CodeOf(l, r.code)'
      <4>1. r.grant = "authorization_code" /\ call[l].at = "issuer" => CodeOf(l, r.code)
        BY <2>2, <3>1 DEF Request, CodeOf
      <4> QED
        BY <1>1, <1>2, <4>1, CodeStays
    <3> QED
      BY <1>1, <2>1, <2>2, <3>1, <3>2 DEF Request, CodeOf
  <2>4. call[l].at = "shell" => Answer(l)'
    BY <1>1, <2>1, <2>2 DEF Answer
  <2> QED
    BY <1>1, <2>1, <2>2, <2>3, <2>4 DEF Calling
<1>8. Brings(l)
  BY <1>1 DEF Brings, Given, Holds, Stored
<1> QED
  BY <1>1, <1>3, <1>4, <1>5, <1>6, <1>7, <1>8 DEF Mine, Onward

\* What Return and Goto do to the shape of the state.
Progress(l) ==
  /\ phase' \in [Logins -> Phases]
  /\ port' = [k \in Logins |-> port'[k]] /\ outcome' = [k \in Logins |-> outcome'[k]]
  /\ \A k \in Logins \ {l} :
       phase'[k] = phase[k] /\ port'[k] = port[k] /\ outcome'[k] = outcome[k]

LEMMA Progressing ==
  ASSUME Shaped, NEW l \in Logins
  PROVE  /\ \A result : Return(l, result) => Progress(l)
         /\ \A why : Fail(l, why) => Progress(l)
         /\ \A next \in Phases : Goto(l, next) => Progress(l)
<1>1. ASSUME NEW result, Return(l, result)
      PROVE  Progress(l)
  BY <1>1 DEF Return, Progress, Shaped, Phases
<1>2. ASSUME NEW next \in Phases, Goto(l, next)
      PROVE  Progress(l)
  BY <1>2 DEF Goto, Progress, Shaped
<1> QED
  BY <1>1, <1>2 DEF Fail

LEMMA Framed ==
  ASSUME Shaped, NEW l \in Logins, Progress(l), issuer' = issuer, channel' = channel,
         tabs' = tabs, Later,
         call' = call \/ \E value : call' = [call EXCEPT ![l] = value],
         device' = device \/ \E value : device' = [device EXCEPT ![l] = value]
  PROVE  Moves(l)
<1>1. call' = [k \in Logins |-> call'[k]] /\ \A k \in Logins \ {l} : call'[k] = call[k]
  BY DEF Shaped
<1>2. device' = [k \in Logins |-> device'[k]] /\ \A k \in Logins \ {l} : device'[k] = device[k]
  BY DEF Shaped
<1> QED
  BY <1>1, <1>2 DEF Moves, Progress, Shaped, Steady

LEMMA Going ==
  ASSUME IInv, NEW l \in Logins, phase'[l] # "wait", outcome'[l] = outcome[l], Moves(l),
         Placed(l)', Calling(l)', Polling(l)'
  PROVE  Mine(l)'
<1>1. Grows /\ \A k \in Logins : Keeps(k)
  BY Unmoved DEF IInv, Moves
<1>2. ChannelOf(l)' /\ SessionOf(l)' /\ CauseOf(l)'
  BY <1>1, ChannelStays, SessionStays, CauseStays DEF IInv, Mine, Moves
<1> QED
  BY <1>2 DEF Mine

\* Nothing in flight, and no device code.
LEMMA Quiet ==
  ASSUME IInv, NEW l \in Logins, phase[l] \notin Asking \cup {"identify", "returned"}
  PROVE  /\ call[l] = None /\ outcome[l] = None
         /\ Placed(l) /\ Polling(l)
BY DEF IInv, Mine, Placed

LEMMA DiscoverKeeps ==
  ASSUME IInv, NEW l \in Logins, Discover(l)
  PROVE  IInv'
<1>1. /\ phase[l] = "start" /\ issuer' = issuer /\ channel' = channel /\ tabs' = tabs
      /\ call' = call /\ device' = device /\ Later
  BY DEF Discover, Later
<1>2. Shaped /\ Placed(l) /\ call[l] = None /\ Polling(l)
  BY <1>1, Quiet DEF IInv, Asking
<1>3. PICK reached \in {"read", "unreachable", "untrusted"} :
        LET document == Document(issuer)
            why == DiscoveryRefused(document, IssuerURL, "loopback", IssuerID,
                     IF l \in expired THEN "unreachable" ELSE reached)
        IN IF why # None THEN Fail(l, why)
           ELSE IF Flow[l] = "browser"
           THEN IF document.s256 THEN Goto(l, "bind") ELSE Fail(l, "no_s256")
           ELSE IF document.device # None
                THEN Goto(l, "authorize_device") ELSE Fail(l, "no_device_grant")
  BY DEF Discover
<1> DEFINE how == IF l \in expired THEN "unreachable" ELSE reached
<1>4. PICK why : why = DiscoveryRefused(Document(issuer), IssuerURL, "loopback", IssuerID, how)
  OBVIOUS
<1>5. why \in {"certificate_untrusted", "unreadable", "mismatch", "plaintext", None}
  <2>1. how \in {"read", "unreachable", "untrusted"}
    OBVIOUS
  <2> HIDE DEF how
  <2> QED
    BY <1>4, <2>1 DEF DiscoveryRefused
<1>6. \/ \E w \in {"certificate_untrusted", "unreadable", "mismatch", "plaintext", "no_s256",
                  "no_device_grant"} : Fail(l, w)
      \/ Flow[l] = "browser" /\ Goto(l, "bind")
      \/ Flow[l] # "browser" /\ ~issuer.opts.omitDevice /\ Goto(l, "authorize_device")
  BY <1>3, <1>4, <1>5 DEF Document
<1>7. Moves(l)
  <2>1. Progress(l)
    BY <1>2, <1>6, Progressing DEF Phases
  <2> QED
    BY <1>1, <1>2, <2>1, Framed
<1>8. CASE \E w \in {"certificate_untrusted", "unreadable", "mismatch", "plaintext", "no_s256",
                    "no_device_grant"} : Fail(l, w)
  <2>1. PICK w \in {"certificate_untrusted", "unreadable", "mismatch", "plaintext", "no_s256",
                   "no_device_grant"} : Fail(l, w)
    BY <1>8
  <2>2. Caused(l, w)' /\ w # "session"
    BY DEF Caused
  <2> QED
    BY <1>1, <1>7, <2>1, <2>2, Failing, Moved DEF Given
<1>9. CASE Flow[l] = "browser" /\ Goto(l, "bind")
  <2>1. phase'[l] = "bind" /\ outcome'[l] = outcome[l]
    BY <1>2, <1>9 DEF Goto, Shaped
  <2>2. Placed(l)' /\ Calling(l)' /\ Polling(l)'
    BY <1>1, <1>2, <1>9, <2>1 DEF Placed, Calling, Polling, Asking
  <2>3. Onward(l) /\ Brings(l)
    BY <1>1, <1>2, <2>1 DEF Onward, Brings, Given, Holds, Stored
  <2> QED
    BY <1>7, <2>1, <2>2, <2>3, Going, Moved
<1>10. CASE Flow[l] # "browser" /\ ~issuer.opts.omitDevice /\ Goto(l, "authorize_device")
  <2>1. phase'[l] = "authorize_device" /\ outcome'[l] = outcome[l]
    BY <1>2, <1>10 DEF Goto, Shaped
  <2>2. Flow[l] = "device"
    BY <1>10, LoginAssumption
  <2>3. Placed(l)' /\ Calling(l)' /\ Polling(l)'
    BY <1>1, <1>2, <1>10, <2>1, <2>2 DEF Placed, Calling, Polling, Asking
  <2>4. Onward(l) /\ Brings(l)
    BY <1>1, <1>2, <2>1 DEF Onward, Brings, Given, Holds, Stored
  <2> QED
    BY <1>7, <2>1, <2>3, <2>4, Going, Moved
<1> QED
  BY <1>6, <1>8, <1>9, <1>10

LEMMA BindKeeps ==
  ASSUME IInv, NEW l \in Logins, BindLoopback(l)
  PROVE  IInv'
<1>1. /\ phase[l] = "bind" /\ issuer' = issuer /\ channel' = channel /\ tabs' = tabs
      /\ call' = call /\ device' = device /\ Later
  BY DEF BindLoopback, Later
<1>2. Shaped /\ Placed(l) /\ call[l] = None /\ Polling(l) /\ outcome[l] = None
  BY <1>1, Quiet DEF IInv, Asking
<1>3. CASE Fail(l, "no_port")
  <2>1. Moves(l)
    BY <1>1, <1>2, <1>3, Progressing, Framed
  <2>2. Caused(l, "no_port")'
    BY DEF Caused
  <2> QED
    BY <1>1, <1>3, <2>1, <2>2, Failing, Moved DEF Given
<1>4. CASE /\ \E p : port' = [port EXCEPT ![l] = p]
           /\ phase' = [phase EXCEPT ![l] = "open"]
           /\ UNCHANGED outcome
  <2>1. Progress(l)
    BY <1>2, <1>4 DEF Progress, Shaped, Phases
  <2>2. Moves(l)
    BY <1>1, <1>2, <2>1, Framed
  <2>3. phase'[l] = "open" /\ outcome'[l] = outcome[l]
    BY <1>2, <1>4 DEF Shaped
  <2>4. Placed(l)' /\ Calling(l)' /\ Polling(l)'
    BY <1>1, <1>2, <2>3 DEF Placed, Calling, Polling, Asking
  <2>5. Onward(l) /\ Brings(l)
    BY <1>1, <1>2, <2>3 DEF Onward, Brings, Given, Holds, Stored
  <2> QED
    BY <2>2, <2>3, <2>4, <2>5, Going, Moved
<1> QED
  BY <1>3, <1>4 DEF BindLoopback

LEMMA OpenKeeps ==
  ASSUME IInv, NEW l \in Logins, Open(l)
  PROVE  IInv'
<1>1. /\ phase[l] = "open" /\ issuer' = issuer /\ channel' = channel /\ tabs' = tabs
      /\ call' = call /\ device' = device /\ Later
  BY DEF Open, Later
<1>2. Shaped /\ Placed(l) /\ call[l] = None /\ Polling(l) /\ outcome[l] = None
  BY <1>1, Quiet DEF IInv, Asking
<1>3. CASE Fail(l, "not_printed")
  <2>1. Moves(l)
    BY <1>1, <1>2, <1>3, Progressing, Framed
  <2>2. Caused(l, "not_printed")'
    BY DEF Caused
  <2> QED
    BY <1>1, <1>3, <2>1, <2>2, Failing, Moved DEF Given
<1>4. CASE Goto(l, "wait")
  <2>1. Moves(l)
    BY <1>1, <1>2, <1>4, Progressing, Framed DEF Phases
  <2>2. phase'[l] = "wait" /\ outcome'[l] = None
    BY <1>2, <1>4 DEF Goto, Shaped
  <2>3. Placed(l)' /\ Calling(l)' /\ Polling(l)'
    BY <1>1, <1>2, <2>2 DEF Placed, Calling, Polling, Asking
  <2>4. ChannelOf(l)' /\ SessionOf(l)' /\ CauseOf(l)'
    BY <1>1, <1>2, <2>2 DEF Placed, ChannelOf, SessionOf, CauseOf, Stored
  <2>5. Onward(l) /\ Brings(l)
    BY <1>1, <1>2, <2>2 DEF Onward, Brings, Given, Holds, Stored
  <2> QED
    BY <2>1, <2>3, <2>4, <2>5, Moved DEF Mine
<1> QED
  BY <1>3, <1>4 DEF Open

LEMMA GiveUpKeeps ==
  ASSUME IInv, NEW l \in Logins, GiveUp(l)
  PROVE  IInv'
<1>1. /\ phase[l] = "wait" /\ issuer' = issuer /\ channel' = channel /\ tabs' = tabs
      /\ call' = call /\ device' = device /\ Later /\ Fail(l, "not_completed")
  BY DEF GiveUp, Later
<1>2. Moves(l)
  BY <1>1, Progressing, Framed DEF IInv
<1>3. Caused(l, "not_completed")'
  BY DEF Caused, GiveUp
<1> QED
  BY <1>1, <1>2, <1>3, Failing, Moved DEF Given

LEMMA StopPollingKeeps ==
  ASSUME IInv, NEW l \in Logins, StopPolling(l)
  PROVE  IInv'
<1>1. /\ phase[l] # "returned" /\ issuer' = issuer /\ channel' = channel /\ tabs' = tabs
      /\ call' = call /\ device' = device /\ Later /\ Fail(l, "not_approved_in_time")
  BY DEF StopPolling, Later
<1>2. Moves(l)
  BY <1>1, Progressing, Framed DEF IInv
<1>3. Caused(l, "not_approved_in_time")'
  BY DEF Caused, StopPolling
<1> QED
  BY <1>1, <1>2, <1>3, Failing, Moved DEF Given

LEMMA CallCancelledKeeps ==
  ASSUME IInv, NEW l \in Logins, CallCancelled(l)
  PROVE  IInv'
<1>1. /\ phase[l] # "returned" /\ issuer' = issuer /\ channel' = channel /\ tabs' = tabs
      /\ call' = call /\ device' = device /\ Later
  BY DEF CallCancelled, Later
<1>2. PICK why \in {"exchange_refused", "not_started"} : Fail(l, why)
  BY DEF CallCancelled
<1>3. Moves(l)
  BY <1>1, <1>2, Progressing, Framed DEF IInv
<1>4. Caused(l, why)' /\ why # "session"
  BY <1>2 DEF Caused, CallCancelled
<1> QED
  BY <1>1, <1>2, <1>3, <1>4, Failing, Moved DEF Given

LEMMA WaitKeeps ==
  ASSUME IInv, NEW l \in Logins, Wait(l)
  PROVE  IInv'
<1>1. /\ phase[l] = "wait" /\ issuer' = issuer /\ channel' = channel /\ tabs' = tabs
      /\ device' = device /\ Later /\ channel[l] # None
  BY DEF Wait, Later
<1>2. Shaped /\ Placed(l) /\ call[l] = None /\ Polling(l) /\ outcome[l] = None
  BY <1>1, Quiet DEF IInv, Asking
<1>3. PICK result : result = channel[l]
  OBVIOUS
<1>4. ChannelOf(l)
  BY DEF IInv, Mine
<1>5. CASE "code" \notin DOMAIN channel[l]
  <2>1. Fail(l, channel[l].error) /\ call' = call
    BY <1>5 DEF Wait
  <2>2. \/ result = [error |-> "refused"] /\ Denied(l)
        \/ result = [error |-> "target_rejected"] /\ TargetRefused(l)
    BY <1>1, <1>3, <1>4, <1>5 DEF ChannelOf
  <2>3. PICK why \in {"refused", "target_rejected"} :
          /\ why = channel[l].error
          /\ why = "refused" => Denied(l)
          /\ why = "target_rejected" => TargetRefused(l)
    BY <1>3, <2>2
  <2>4. Fail(l, why)
    BY <2>1, <2>3
  <2>5. Moves(l)
    BY <1>1, <1>2, <2>1, <2>4, Progressing, Framed
  <2>6. Caused(l, why)' /\ why # "session"
    BY <1>1, <2>3 DEF Caused, Denied, TargetRefused
  <2> QED
    BY <1>1, <2>1, <2>4, <2>5, <2>6, Failing, Moved DEF Given
<1>6. CASE "code" \in DOMAIN channel[l]
  <2> DEFINE r == [grant |-> "authorization_code", client |-> ClientOf[l],
                   code |-> channel[l].code, port |-> port[l],
                   verifier |-> l, resource |-> ResourceOf[l]]
  <2>1. Goto(l, "exchange") /\ Send(l, r)
    BY <1>6 DEF Wait
  <2>2. phase'[l] = "exchange" /\ outcome'[l] = None /\ port'[l] = port[l]
    BY <1>2, <2>1 DEF Goto, Shaped
  <2>3. call'[l] = [at |-> "issuer", request |-> r]
    BY <1>2, <2>1 DEF Send, Sent, Shaped
  <2>4. Moves(l)
    BY <1>1, <1>2, <2>1, Progressing, Framed DEF Phases, Send
  <2>5. CodeOf(l, channel[l].code)
    BY <1>1, <1>4, <1>6 DEF ChannelOf
  <2>6. /\ r.code \in DOMAIN issuer.codes
        /\ issuer.codes[r.code].challenge = l
        /\ issuer.codes[r.code].port = port[l]
    BY <1>1, <2>5 DEF CodeOf
  <2>7. CodeFor(issuer.codes[r.code], l) /\ Flow[l] = "browser"
    <3>1. PICK k \in Logins : Flow[k] = "browser" /\ CodeFor(issuer.codes[r.code], k)
      BY <2>6 DEF IInv, CodesKept
    <3> QED
      BY <2>6, <3>1 DEF CodeFor
  <2>8. Request(l)'
    <3>1. call'[l].request = r /\ r.grant = "authorization_code" /\ r.verifier = l
          /\ r.code = channel[l].code
      BY <2>3
    <3>2. CodeOf(l, r.code)'
      BY <1>1, <2>2, <2>5 DEF CodeOf
    <3>3. channel'[l].code = channel[l].code
      BY <1>1
    <3> QED
      BY <1>1, <2>2, <2>6, <2>7, <3>1, <3>2, <3>3 DEF Request, CodeOf
  <2>9. Placed(l)' /\ Calling(l)' /\ Polling(l)'
    <3>1. call'[l].at = "issuer" /\ "issuer" # "shell"
      BY <2>3
    <3> QED
      BY <1>1, <1>2, <2>2, <2>7, <2>8, <3>1 DEF Placed, Calling, Polling, Asking
  <2>10. Onward(l) /\ Brings(l)
    <3>1. call'[l].at # "shell"
      BY <2>3
    <3> QED
      BY <1>1, <1>2, <2>2, <3>1 DEF Onward, Brings, Given, Holds, Stored
  <2> QED
    BY <1>2, <2>2, <2>4, <2>9, <2>10, Going, Moved
<1> QED
  BY <1>5, <1>6

LEMMA DeviceAuthKeeps ==
  ASSUME IInv, NEW l \in Logins, DeviceAuth(l)
  PROVE  IInv'
<1> DEFINE r == [grant |-> "device_authorization", client |-> ClientOf[l],
                 scopes |-> Requested(l)]
<1>1. /\ phase[l] = "authorize_device" /\ issuer' = issuer /\ channel' = channel /\ tabs' = tabs
      /\ device' = device /\ Later /\ Goto(l, "device_asked") /\ Send(l, r)
  BY DEF DeviceAuth, Later
<1>2. Shaped /\ Placed(l) /\ call[l] = None /\ Polling(l) /\ outcome[l] = None
  BY <1>1, Quiet DEF IInv, Asking
<1>3. phase'[l] = "device_asked" /\ outcome'[l] = None
  BY <1>1, <1>2 DEF Goto, Shaped
<1>4. call'[l] = [at |-> "issuer", request |-> r]
  BY <1>1, <1>2 DEF Send, Sent, Shaped
<1>5. Moves(l)
  BY <1>1, <1>2, Progressing, Framed DEF Phases, Send
<1>6. Request(l)'
  <2>1. call'[l].request = r /\ r.grant = "device_authorization"
    BY <1>4
  <2> HIDE DEF r
  <2> QED
    BY <1>1, <1>2, <1>3, <2>1 DEF Request, Placed, r
<1>7. Placed(l)' /\ Calling(l)' /\ Polling(l)'
  <2>1. call'[l].at = "issuer" /\ "issuer" # "shell"
    BY <1>4
  <2> QED
    BY <1>1, <1>2, <1>3, <1>6, <2>1 DEF Placed, Calling, Polling, Asking
<1>8. Onward(l) /\ Brings(l)
  <2>1. call'[l].at # "shell"
    BY <1>4
  <2> QED
    BY <1>1, <1>2, <1>3, <2>1 DEF Onward, Brings, Given, Holds, Stored
<1> QED
  BY <1>2, <1>3, <1>5, <1>7, <1>8, Going, Moved

LEMMA PollKeeps ==
  ASSUME IInv, NEW l \in Logins, Poll(l)
  PROVE  IInv'
<1> DEFINE r == [grant |-> "device_code", client |-> ClientOf[l], device |-> device[l]]
<1>1. /\ phase[l] = "poll" /\ issuer' = issuer /\ channel' = channel /\ tabs' = tabs
      /\ device' = device /\ Later /\ Goto(l, "polled") /\ Send(l, r)
  BY DEF Poll, Later
<1>2. Shaped /\ Placed(l) /\ call[l] = None /\ Polling(l) /\ outcome[l] = None
  BY <1>1, Quiet DEF IInv, Asking
<1>3. phase'[l] = "polled" /\ outcome'[l] = None
  BY <1>1, <1>2 DEF Goto, Shaped
<1>4. call'[l] = [at |-> "issuer", request |-> r]
  BY <1>1, <1>2 DEF Send, Sent, Shaped
<1>5. Moves(l)
  BY <1>1, <1>2, Progressing, Framed DEF Phases, Send
<1>6. Request(l)'
  <2>1. call'[l].request = r /\ r.grant = "device_code" /\ r.device = device[l]
    BY <1>4
  <2>2. DeviceOf(l, device[l])'
    BY <1>1, <1>2 DEF Polling, DeviceOf
  <2> QED
    BY <1>1, <1>2, <1>3, <2>1, <2>2 DEF Request, Placed, DeviceOf
<1>7. Placed(l)' /\ Calling(l)' /\ Polling(l)'
  <2>1. call'[l].at = "issuer" /\ "issuer" # "shell"
    BY <1>4
  <2> QED
    BY <1>1, <1>2, <1>3, <1>6, <2>1 DEF Placed, Calling, Polling, Asking
<1>8. Onward(l) /\ Brings(l)
  <2>1. call'[l].at # "shell"
    BY <1>4
  <2> QED
    BY <1>1, <1>2, <1>3, <2>1 DEF Onward, Brings, Given, Holds, Stored
<1> QED
  BY <1>2, <1>3, <1>5, <1>7, <1>8, Going, Moved

\* An answer has come for a login that waits for one.
LEMMA AnsweredIs ==
  ASSUME IInv, NEW l \in Logins, phase[l] \in Asking \cup {"identify"}, call[l].at = "shell"
  PROVE  Shaped /\ Placed(l) /\ Polling(l) /\ outcome[l] = None /\ Answer(l)
BY DEF IInv, Mine, Placed, Calling, Asking

LEMMA PresentKeeps ==
  ASSUME IInv, NEW l \in Logins, Present(l)
  PROVE  IInv'
<1>1. /\ phase[l] = "device_asked" /\ issuer' = issuer /\ channel' = channel /\ tabs' = tabs
      /\ call' = [call EXCEPT ![l] = None] /\ Later /\ call[l].at = "shell"
  BY DEF Present, Later
<1>2. Shaped /\ Placed(l) /\ Polling(l) /\ outcome[l] = None /\ Answer(l) /\ Flow[l] = "device"
  BY <1>1, AnsweredIs DEF Asking, Placed
<1>3. call'[l] = None
  BY <1>1, <1>2 DEF Shaped
<1>4. CASE ~call[l].answer.ok
  <2>1. Fail(l, "not_started") /\ device' = device
    BY <1>4 DEF Present
  <2>2. Moves(l)
    BY <1>1, <1>2, <2>1, Progressing, Framed
  <2>3. Caused(l, "not_started")'
    BY <1>1, <1>2, <1>4 DEF Caused, Answer, Later
  <2> QED
    BY <1>1, <1>3, <2>1, <2>2, <2>3, Failing, Moved DEF Given
<1>5. CASE call[l].answer.ok
  <2>1. /\ device' = [device EXCEPT ![l] = call[l].answer.device]
        /\ Goto(l, "poll") \/ Fail(l, "not_printed")
    BY <1>5 DEF Present
  <2>2. PICK d : d = call[l].answer.device
    OBVIOUS
  <2>3. device'[l] = d /\ Given(l, d) /\ DeviceOf(l, d)
    BY <1>1, <1>2, <1>5, <2>1, <2>2 DEF Shaped, Given, Answer, DeviceOf
  <2>4. Moves(l)
    BY <1>1, <1>2, <2>1, Progressing, Framed DEF Phases
  <2>5. CASE Fail(l, "not_printed")
    <3>1. Caused(l, "not_printed")'
      BY DEF Caused
    <3>2. Given(l, device'[l])
      BY <2>3
    <3> QED
      BY <1>1, <1>2, <1>3, <2>4, <2>5, <3>1, <3>2, Failing, Moved
  <2>6. CASE Goto(l, "poll")
    <3>1. phase'[l] = "poll" /\ outcome'[l] = None
      BY <1>2, <2>6 DEF Goto, Shaped
    <3>2. Placed(l)' /\ Calling(l)'
      BY <1>1, <1>2, <1>3, <3>1 DEF Placed, Calling, Asking
    <3>3. Polling(l)'
      BY <1>1, <1>2, <2>3, <3>1 DEF Polling, DeviceOf
    <3>4. Onward(l) /\ Brings(l)
      BY <1>1, <1>2, <1>3, <2>3, <3>1 DEF Onward, Brings, Given, Holds, Stored
    <3> QED
      BY <1>2, <2>4, <3>1, <3>2, <3>3, <3>4, Going, Moved
  <2> QED
    BY <2>1, <2>5, <2>6
<1> QED
  BY <1>4, <1>5

\* An accepted answer is kept for the identity in it.
LEMMA Accepted ==
  ASSUME IInv, NEW l \in Logins, phase[l] \in {"exchange", "polled"}, call[l].at = "shell",
         call[l].answer.ok, Goto(l, "identify"), Moves(l), call' = call, device' = device
  PROVE  IInv'
<1>1. Shaped /\ Placed(l) /\ Polling(l) /\ outcome[l] = None /\ Answer(l)
  BY AnsweredIs DEF Asking
<1>2. phase'[l] = "identify" /\ outcome'[l] = None
  BY <1>1 DEF Goto, Shaped
<1>3. PICK a : a = call[l].answer
  OBVIOUS
<1>4. TokenOf(l, a.refresh) /\ IdentityOf(l, a.id) /\ a.ok \in BOOLEAN
  BY <1>1, <1>3 DEF Answer, TokenOf, IdentityOf
<1>5. TokenOf(l, a.refresh)' /\ IdentityOf(l, a.id)'
  BY <1>4 DEF TokenOf, IdentityOf, Moves
<1>6. Answer(l)'
  BY <1>2, <1>3, <1>4, <1>5 DEF Answer, TokenOf, IdentityOf
<1>7. Placed(l)' /\ Calling(l)' /\ Polling(l)'
  BY <1>1, <1>2, <1>6 DEF Placed, Calling, Polling, Asking
<1>8. Onward(l) /\ Brings(l)
  BY <1>1, <1>2 DEF Onward, Brings, Given, Holds, Stored
<1> QED
  BY <1>1, <1>2, <1>7, <1>8, Going, Moved

LEMMA ExchangedKeeps ==
  ASSUME IInv, NEW l \in Logins, Exchanged(l)
  PROVE  IInv'
<1>1. /\ phase[l] = "exchange" /\ issuer' = issuer /\ channel' = channel /\ tabs' = tabs
      /\ call' = call /\ device' = device /\ Later /\ call[l].at = "shell"
  BY DEF Exchanged, Later
<1>2. Shaped /\ Answer(l)
  BY <1>1, AnsweredIs DEF Asking
<1>3. CASE call[l].answer.ok
  <2>1. Goto(l, "identify")
    BY <1>3 DEF Exchanged
  <2>2. Moves(l)
    BY <1>1, <1>2, <2>1, Progressing, Framed DEF Phases
  <2> QED
    BY <1>1, <1>3, <2>1, <2>2, Accepted
<1>4. CASE ~call[l].answer.ok
  <2>1. Fail(l, "exchange_refused")
    BY <1>4 DEF Exchanged
  <2>2. Moves(l)
    BY <1>1, <1>2, <2>1, Progressing, Framed
  <2>3. Caused(l, "exchange_refused")'
    BY <1>1, <1>2, <1>4 DEF Caused, Answer, Later
  <2> QED
    BY <1>1, <2>1, <2>2, <2>3, Failing, Moved DEF Given
<1> QED
  BY <1>3, <1>4

LEMMA PolledKeeps ==
  ASSUME IInv, NEW l \in Logins, Polled(l)
  PROVE  IInv'
<1>1. /\ phase[l] = "polled" /\ issuer' = issuer /\ channel' = channel /\ tabs' = tabs
      /\ device' = device /\ Later /\ call[l].at = "shell"
      /\ call' = IF call[l].answer.ok THEN call ELSE [call EXCEPT ![l] = None]
  BY DEF Polled, Later
<1>2. Shaped /\ Placed(l) /\ Polling(l) /\ outcome[l] = None /\ Answer(l)
  BY <1>1, AnsweredIs DEF Asking
<1>3. PICK a : a = call[l].answer
  OBVIOUS
<1>4. CASE a.ok
  <2>1. Goto(l, "identify")
    BY <1>3, <1>4 DEF Polled
  <2>2. Moves(l)
    BY <1>1, <1>2, <1>3, <1>4, <2>1, Progressing, Framed DEF Phases
  <2> QED
    BY <1>1, <1>3, <1>4, <2>1, <2>2, Accepted
<1>5. CASE ~a.ok
  <2>1. call' = [call EXCEPT ![l] = None] /\ call'[l] = None
    BY <1>1, <1>2, <1>3, <1>5 DEF Shaped
  <2>2. \/ /\ a.error \in {"authorization_pending", "slow_down"}
           /\ DeviceOf(l, device[l])
        \/ a.error \in {"access_denied", "expired_token"}
        \/ a.error = "lost" /\ l \in troubled
    BY <1>1, <1>2, <1>3, <1>5 DEF Answer, DeviceOf
  <2>3. CASE a.error \in {"authorization_pending", "slow_down"}
    <3>1. Goto(l, "poll") /\ DeviceOf(l, device[l])
      BY <1>3, <1>5, <2>2, <2>3 DEF Polled
    <3>2. phase'[l] = "poll" /\ outcome'[l] = None
      BY <1>2, <3>1 DEF Goto, Shaped
    <3>3. Moves(l)
      BY <1>1, <1>2, <2>1, <3>1, Progressing, Framed DEF Phases
    <3>4. Placed(l)' /\ Calling(l)'
      BY <1>1, <1>2, <2>1, <3>2 DEF Placed, Calling, Asking
    <3>5. Polling(l)'
      BY <1>1, <1>2, <3>1, <3>2 DEF Polling, DeviceOf
    <3>6. Onward(l) /\ Brings(l)
      BY <1>1, <1>2, <2>1, <3>2 DEF Onward, Brings, Given, Holds, Stored
    <3> QED
      BY <1>2, <3>2, <3>3, <3>4, <3>5, <3>6, Going, Moved
  <2>4. CASE a.error \notin {"authorization_pending", "slow_down"}
    <3>1. Fail(l, ApprovalFailed(a.error))
      BY <1>3, <1>5, <2>4 DEF Polled
    <3>2. PICK why \in {"declined", "window_closed", "lost_contact"} :
            why = ApprovalFailed(a.error) /\ (why = "lost_contact" => l \in troubled)
      BY <2>2, <2>4 DEF ApprovalFailed
    <3>3. Fail(l, why)
      BY <3>1, <3>2
    <3>4. Moves(l)
      BY <1>1, <1>2, <2>1, <3>3, Progressing, Framed
    <3>5. Caused(l, why)' /\ why # "session"
      BY <1>1, <3>2 DEF Caused, Later
    <3> QED
      BY <1>1, <2>1, <3>3, <3>4, <3>5, Failing, Moved DEF Given
  <2> QED
    BY <2>3, <2>4
<1> QED
  BY <1>4, <1>5

\* The issuer's own key can be read whatever certificate comes with it, and
\* keys that were not fetched cannot.
LEMMA Keys ==
  ASSUME NEW s
  PROVE  /\ Readable(WithoutCertificates(KeySet(s)))
         /\ \E key \in KeySet(s) : key.signer = s.url
         /\ ~Readable(WithoutCertificates({[kty |-> None, certificate |-> "unparseable"]}))
<1>1. Readable(WithoutCertificates(KeySet(s)))
  <2> SUFFICES ASSUME NEW key \in KeySet(s)
               PROVE  (IF SelfDescribing(key) THEN [key EXCEPT !.certificate = None] ELSE key).certificate
                        # "unparseable"
    BY DEF Readable, WithoutCertificates
  <2>1. PICK certificate :
          key = [signer |-> s.url, kty |-> "RSA", parameters |-> {"n", "e"},
                 certificate |-> certificate]
    BY DEF KeySet
  <2>2. SelfDescribing(key)
    BY <2>1 DEF SelfDescribing, KeyParameters
  <2>3. [key EXCEPT !.certificate = None].certificate = None
    BY <2>1
  <2> QED
    BY <2>2, <2>3, DeploymentAssumption
<1>2. \E key \in KeySet(s) : key.signer = s.url
  BY DEF KeySet
<1>3. ~Readable(WithoutCertificates({[kty |-> None, certificate |-> "unparseable"]}))
  <2> DEFINE key == [kty |-> None, certificate |-> "unparseable"]
  <2>1. ~SelfDescribing(key)
    BY DeploymentAssumption DEF SelfDescribing, KeyParameters
  <2>2. key \in WithoutCertificates({key})
    <3> HIDE DEF key
    <3> QED
      BY <2>1 DEF WithoutCertificates
  <2> QED
    BY <2>2 DEF Readable
<1> QED
  BY <1>1, <1>2, <1>3

\* What is asked of an identity token, and what a refusal says of the issuer.
LEMMA Identifying ==
  ASSUME IInv, NEW l \in Logins, NEW id, IdentityOf(l, id), NEW fetched \in BOOLEAN
  PROVE  LET why == NotIdentified(l, id, fetched)
         IN /\ why \in {None, "other_issuer", "other_application", "keys_unreadable", "other_request"}
            /\ why = None =>
                 /\ Flow[l] = "browser" => id # None /\ id.nonce = l
                 /\ id # None => id.audience = ClientOf[l] /\ id.issuer = Identifier(issuer)
            /\ why = "other_issuer" => issuer.opts.idTokenIssuer # None
            /\ why = "other_application" => issuer.opts.deviceAudience # None
            /\ why = "other_request" => issuer.opts.omitNonce
            /\ why = "keys_unreadable" => ~fetched
<1> DEFINE keys == IF fetched THEN KeySet(issuer) ELSE {[kty |-> None, certificate |-> "unparseable"]}
           refused == IdentityRefused(id, Identifier(issuer), ClientOf[l], keys)
<1>1. /\ issuer.url = IssuerURL /\ issuer.opts \in Deployments
      /\ Flow[l] \in {"browser", "device"} /\ l # None
  BY LoginAssumption DEF IInv, Minted
<1>2. CASE id = None
  <2>1. Flow[l] = "device"
    <3> SUFFICES ASSUME Flow[l] = "browser"
                 PROVE  FALSE
      BY <1>1
    <3>1. id = IDToken(issuer, ClientOf[l], l, Requested(l))
      BY DEF IdentityOf
    <3>2. IDToken(New(IssuerURL, issuer.opts), ClientOf[l], l, Requested(l)) # None
      BY <1>1, DeploymentAssumption DEF Requested
    <3>3. IDToken(issuer, ClientOf[l], l, Requested(l)) =
            IDToken(New(IssuerURL, issuer.opts), ClientOf[l], l, Requested(l))
      BY <1>1 DEF IDToken, New, Identifier, Disclosed
    <3> QED
      BY <1>2, <3>1, <3>2, <3>3
  <2>2. NotIdentified(l, id, fetched) = None
    BY <1>2, <2>1 DEF NotIdentified
  <2> QED
    BY <1>2, <2>1, <2>2, DeploymentAssumption
<1>3. CASE id # None
  <2>1. PICK client, nonce :
          /\ id = IDToken(issuer, client, nonce, Requested(l))
          /\ client # ClientOf[l] => issuer.opts.deviceAudience # None
          /\ Flow[l] = "browser" => nonce = l
    BY <1>1, <1>3 DEF IdentityOf
  <2>2. /\ id.audience = client /\ id.signer = issuer.url
        /\ id.issuer = IF issuer.opts.idTokenIssuer # None
                       THEN issuer.opts.idTokenIssuer ELSE Identifier(issuer)
        /\ id.nonce = IF issuer.opts.omitNonce THEN None ELSE nonce
    BY <2>1 DEF IDToken
  <2>3. NotIdentified(l, id, fetched) =
          IF refused # None THEN refused
          ELSE IF Flow[l] = "browser" /\ id.nonce # l THEN "other_request" ELSE None
    BY <1>3 DEF NotIdentified
  <2>4. /\ fetched => Readable(WithoutCertificates(keys)) /\ \E key \in keys : key.signer = id.signer
        /\ ~fetched => ~Readable(WithoutCertificates(keys))
    BY <2>2, Keys
  <2> HIDE DEF keys
  <2>5. /\ refused \in {None, "other_issuer", "other_application", "keys_unreadable"}
        /\ refused = "other_issuer" => id.issuer # Identifier(issuer)
        /\ refused = "other_application" => id.audience # ClientOf[l]
        /\ refused = "keys_unreadable" => ~fetched
        /\ refused = None => id.issuer = Identifier(issuer) /\ id.audience = ClientOf[l]
    <3>1. CASE id.issuer # Identifier(issuer)
      <4>1. refused = "other_issuer"
        BY <3>1 DEF IdentityRefused
      <4> QED
        BY <3>1, <4>1, DeploymentAssumption
    <3>2. CASE id.issuer = Identifier(issuer) /\ id.audience # ClientOf[l]
      <4>1. refused = "other_application"
        BY <3>2 DEF IdentityRefused
      <4> QED
        BY <3>2, <4>1, DeploymentAssumption
    <3>3. CASE id.issuer = Identifier(issuer) /\ id.audience = ClientOf[l]
      <4>1. refused = IF ~Readable(WithoutCertificates(keys)) THEN "keys_unreadable"
                      ELSE IF \A key \in keys : key.signer # id.signer THEN "not_signed" ELSE None
        BY <3>3 DEF IdentityRefused
      <4>2. refused = IF fetched THEN None ELSE "keys_unreadable"
        BY <2>4, <4>1
      <4> QED
        BY <3>3, <4>2, DeploymentAssumption
    <3> QED
      BY <3>1, <3>2, <3>3
  <2> HIDE DEF refused
  <2> QED
    BY <1>1, <1>3, <2>1, <2>2, <2>3, <2>5, DeploymentAssumption
<1> QED
  BY <1>2, <1>3

LEMMA IdentifyKeeps ==
  ASSUME IInv, NEW l \in Logins, Identify(l)
  PROVE  IInv'
<1>1. /\ phase[l] = "identify" /\ issuer' = issuer /\ channel' = channel /\ tabs' = tabs
      /\ call' = call /\ device' = device
  BY DEF Identify
<1>2. call[l].at = "shell"
  BY <1>1 DEF IInv, Mine, Calling
<1>3. Shaped /\ Placed(l) /\ Polling(l) /\ outcome[l] = None /\ Answer(l)
  BY <1>1, <1>2, AnsweredIs
<1>4. PICK a : a = call[l].answer
  OBVIOUS
<1>5. TokenOf(l, a.refresh) /\ IdentityOf(l, a.id) /\ a.ok \in BOOLEAN /\ a.ok
  BY <1>1, <1>3, <1>4 DEF Answer, TokenOf, IdentityOf
<1>6. PICK fetched \in BOOLEAN :
        LET why == NotIdentified(l, a.id, fetched)
        IN /\ IF why # None THEN Fail(l, why)
              ELSE IF a.refresh = None THEN Fail(l, "no_refresh_token")
              ELSE Return(l, [kind |-> "session", refresh |-> a.refresh,
                              access |-> a.access, id |-> a.id,
                              name |-> IF a.id = None THEN None
                                       ELSE DisplayName(a.id.claims)])
           /\ troubled' = IF fetched THEN troubled ELSE troubled \cup {l}
  BY <1>4 DEF Identify
<1>7. Later
  BY <1>1, <1>6 DEF Identify, Later
<1>8. PICK why : why = NotIdentified(l, a.id, fetched)
  OBVIOUS
<1>9. /\ why \in {None, "other_issuer", "other_application", "keys_unreadable", "other_request"}
      /\ why = None =>
           /\ Flow[l] = "browser" => a.id # None /\ a.id.nonce = l
           /\ a.id # None => a.id.audience = ClientOf[l] /\ a.id.issuer = Identifier(issuer)
      /\ why = "other_issuer" => issuer.opts.idTokenIssuer # None
      /\ why = "other_application" => issuer.opts.deviceAudience # None
      /\ why = "other_request" => issuer.opts.omitNonce
      /\ why = "keys_unreadable" => ~fetched
  BY <1>5, <1>8, Identifying
<1>10. CASE why # None \/ a.refresh = None
  <2>1. PICK w : /\ Fail(l, w)
                 /\ \/ w = why /\ why # None
                    \/ w = "no_refresh_token"
    BY <1>6, <1>8, <1>10
  <2>2. Moves(l)
    BY <1>1, <1>3, <1>7, <2>1, Progressing, Framed
  <2>3. Caused(l, w)' /\ w # "session"
    BY <1>1, <1>6, <1>9, <2>1 DEF Caused
  <2> QED
    BY <1>1, <2>1, <2>2, <2>3, Failing, Moved DEF Given
<1>11. CASE why = None /\ a.refresh # None
  <2> DEFINE name == IF a.id = None THEN None ELSE DisplayName(a.id.claims)
             session == [kind |-> "session", refresh |-> a.refresh,
                         access |-> a.access, id |-> a.id, name |-> name]
  <2>1. Return(l, session)
    BY <1>6, <1>8, <1>11
  <2>2. /\ session.kind = "session" /\ session.refresh = a.refresh /\ session.id = a.id
    OBVIOUS
  <2> HIDE DEF session
  <2>3. Moves(l)
    BY <1>1, <1>3, <1>7, <2>1, Progressing, Framed
  <2>4. phase'[l] = "returned" /\ outcome'[l] = session
    BY <1>3, <2>1 DEF Return, Shaped
  <2>5. Grows /\ \A k \in Logins : Keeps(k)
    BY <1>1, Unmoved DEF IInv
  <2>6. Placed(l)' /\ Polling(l)' /\ ChannelOf(l)'
    BY <1>1, <1>3, <1>7, <2>4, <2>5, ChannelStays DEF Placed, Polling, IInv, Mine
  <2>7. Calling(l)'
    <3>1. Answer(l)'
      BY <1>1, <1>4, <1>5, <2>4 DEF Answer
    <3> QED
      BY <1>1, <1>2, <2>4, <3>1 DEF Calling
  <2>8. SessionOf(l)'
    <3>1. TokenOf(l, a.refresh)'
      BY <1>1, <1>5 DEF TokenOf
    <3> QED
      BY <1>1, <1>9, <1>11, <2>2, <2>4, <3>1 DEF SessionOf, TokenOf
  <2>9. CauseOf(l)'
    BY <2>2, <2>4 DEF CauseOf, Caused
  <2>10. Onward(l) /\ Brings(l)
    BY <1>1, <1>2, <1>4, <1>5, <2>2, <2>4 DEF Onward, Brings, Given, Holds, Stored
  <2> QED
    BY <2>3, <2>6, <2>7, <2>8, <2>9, <2>10, Moved DEF Mine
<1> QED
  BY <1>10, <1>11

-----------------------------------------------------------------------------
(* The user, the network and the clock.                                     *)

\* A step that no login takes.
LEMMA Stood ==
  ASSUME IInv, Grows, Later, Shaped', \A k \in Logins : Steady(k) /\ Keeps(k),
         Minted(issuer)', CodesKept', GrantsKept',
         \A tab \in tabs' \ tabs : \E k \in Logins : tab.state = k /\ TabOf(tab, k)'
  PROVE  IInv'
<1>1. \A k \in Logins : Mine(k)'
  BY Steadfast DEF IInv
<1>2. \A k \in Logins : Brings(k)
  BY NoMore DEF Brings
<1>3. Tabs'
  <2>1. ASSUME NEW tab \in tabs
        PROVE  tab.state \in Logins /\ TabOf(tab, tab.state)'
    <3>1. PICK k \in Logins : k = tab.state /\ TabOf(tab, k)
      BY DEF IInv, Tabs
    <3>2. phase'[k] \in {"wait", "exchange", "identify", "returned"}
      BY <3>1 DEF Steady, TabOf
    <3>3. \/ phase'[k] # "wait"
          \/ Keeps(k) /\ phase[k] = "wait" /\ port'[k] = port[k]
      BY DEF Steady
    <3> QED
      BY <3>1, <3>2, <3>3, TabStays
  <2>2. ASSUME NEW tab \in tabs'
        PROVE  tab.state \in Logins /\ TabOf(tab, tab.state)'
    BY <2>1
  <2> QED
    BY <2>2 DEF Tabs
<1> QED
  BY <1>1, <1>2, <1>3, ApartStays DEF IInv

LEMMA DeadlineKeeps ==
  ASSUME IInv, NEW l \in Logins, Deadline(l)
  PROVE  IInv'
<1>1. /\ issuer' = issuer /\ channel' = channel /\ tabs' = tabs /\ phase' = phase /\ port' = port
      /\ call' = call /\ device' = device /\ outcome' = outcome /\ Later
  BY DEF Deadline, Later
<1>2. Grows /\ \A k \in Logins : Steady(k) /\ Keeps(k)
  BY <1>1, Unmoved DEF IInv, Steady
<1>3. Shaped' /\ Minted(issuer)' /\ CodesKept' /\ GrantsKept'
  BY <1>1 DEF IInv, Shaped, CodesKept, GrantsKept
<1> QED
  BY <1>1, <1>2, <1>3, Stood

LEMMA DeclineKeeps ==
  ASSUME IInv, NEW l \in Logins, Decline(l)
  PROVE  IInv'
<1>1. /\ issuer' = issuer /\ channel' = channel /\ phase' = phase /\ port' = port
      /\ call' = call /\ device' = device /\ outcome' = outcome /\ Later /\ phase[l] = "wait"
  BY DEF Decline, Later
<1>2. Grows /\ \A k \in Logins : Steady(k) /\ Keeps(k)
  BY <1>1, Unmoved DEF IInv, Steady
<1>3. Shaped' /\ Minted(issuer)' /\ CodesKept' /\ GrantsKept'
  BY <1>1 DEF IInv, Shaped, CodesKept, GrantsKept
<1>4. ASSUME NEW tab \in tabs' \ tabs
      PROVE  \E k \in Logins : tab.state = k /\ TabOf(tab, k)'
  <2>1. PICK error \in {"access_denied", None} :
          tab = [port |-> port[l], state |-> l, code |-> None, error |-> error]
    BY DEF Decline
  <2>2. tab.state = l /\ tab.error \in {"access_denied", None} /\ tab.code = None
    BY <2>1
  <2>3. Flow[l] = "browser"
    BY <1>1 DEF IInv, Mine, Placed
  <2>4. TabOf(tab, l)'
    BY <1>1, <2>2, <2>3, DeploymentAssumption DEF TabOf
  <2> QED
    BY <2>2, <2>4
<1> QED
  BY <1>1, <1>2, <1>3, <1>4, Stood

LEMMA SignInKeeps ==
  ASSUME IInv, NEW l \in Logins, SignIn(l)
  PROVE  IInv'
<1> DEFINE r == [client |-> ClientOf[l], port |-> port[l], challenge |-> l, state |-> l,
                 nonce |-> l, scopes |-> Requested(l), resource |-> ResourceOf[l]]
           answer == HandleAuthorize(issuer, r).answer
<1>1. /\ channel' = channel /\ phase' = phase /\ port' = port
      /\ call' = call /\ device' = device /\ outcome' = outcome /\ phase[l] = "wait"
      /\ expired' = expired /\ troubled' = troubled
  BY DEF SignIn
<1>2. issuer' = HandleAuthorize(issuer, r).issuer /\ tabs' = tabs \cup ({answer} \ {None})
  BY DEF SignIn, AuthorizeRequest
<1>3. /\ Minted(issuer') /\ issuer'.opts = issuer.opts /\ issuer.minted <= issuer'.minted
      /\ issuer'.refreshTokens = issuer.refreshTokens /\ issuer'.deviceGrants = issuer.deviceGrants
      /\ \/ /\ issuer'.codes = issuer.codes
            /\ answer # None =>
                 /\ answer = [port |-> port[l], state |-> l, code |-> None,
                              error |-> "invalid_target"]
                 /\ TargetRefused(l)
         \/ /\ issuer'.minted = issuer.minted + 1
            /\ \E g : /\ issuer'.codes = With(issuer.codes, issuer.minted + 1, g)
                      /\ CodeFor(g, l) /\ g.port = port[l]
            /\ answer = [port |-> port[l], state |-> l, code |-> issuer.minted + 1, error |-> None]
  <2>1. PICK s, p : s = issuer /\ p = port[l]
    OBVIOUS
  <2>2. Minted(s) /\ r = [client |-> ClientOf[l], port |-> p, challenge |-> l, state |-> l,
                          nonce |-> l, scopes |-> Requested(l), resource |-> ResourceOf[l]]
    BY <2>1 DEF IInv
  <2> HIDE DEF r
  <2>3. /\ Minted(issuer') /\ issuer'.opts = s.opts /\ s.minted <= issuer'.minted
        /\ issuer'.refreshTokens = s.refreshTokens /\ issuer'.deviceGrants = s.deviceGrants
        /\ \/ /\ issuer'.codes = s.codes
              /\ answer # None =>
                 /\ answer = [port |-> p, state |-> l, code |-> None,
                              error |-> "invalid_target"]
                 /\ \/ s.opts.requireResource /\ ResourceOf[l] = None
                    \/ s.opts.registeredResource \notin {None, ResourceOf[l]}
           \/ /\ issuer'.minted = s.minted + 1
              /\ \E g : /\ issuer'.codes = With(s.codes, s.minted + 1, g)
                        /\ CodeFor(g, l) /\ g.port = p
              /\ answer = [port |-> p, state |-> l, code |-> s.minted + 1, error |-> None]
    BY <1>2, <2>1, <2>2, Authorizing
  <2> QED
    BY <2>1, <2>3 DEF TargetRefused
<1> HIDE DEF r, answer
<1>4. Minted(issuer) /\ CodesKept /\ GrantsKept /\ Flow[l] = "browser"
  BY <1>1 DEF IInv, Mine, Placed
<1>5. /\ issuer'.url = issuer.url /\ issuer.minted \in Nat /\ issuer'.minted \in Nat
      /\ issuer.minted + 1 \notin DOMAIN issuer.codes /\ ~(issuer.minted + 1 <= issuer.minted)
  BY <1>3, <1>4 DEF Minted
<1>6. /\ \A c \in DOMAIN issuer.codes :
           c \in DOMAIN issuer'.codes /\ issuer'.codes[c] = issuer.codes[c]
      /\ \A c \in DOMAIN issuer'.codes :
           \/ c \in DOMAIN issuer.codes
           \/ /\ c = issuer.minted + 1 /\ issuer'.minted = c
              /\ CodeFor(issuer'.codes[c], l) /\ issuer'.codes[c].port = port[l]
  <2>1. CASE issuer'.codes = issuer.codes
    BY <2>1
  <2>2. ASSUME NEW g, issuer'.codes = With(issuer.codes, issuer.minted + 1, g),
               CodeFor(g, l), g.port = port[l], issuer'.minted = issuer.minted + 1
        PROVE  /\ \A c \in DOMAIN issuer.codes :
                    c \in DOMAIN issuer'.codes /\ issuer'.codes[c] = issuer.codes[c]
               /\ \A c \in DOMAIN issuer'.codes :
                    \/ c \in DOMAIN issuer.codes
                    \/ /\ c = issuer.minted + 1 /\ issuer'.minted = c
                       /\ CodeFor(issuer'.codes[c], l) /\ issuer'.codes[c].port = port[l]
    <3>1. /\ DOMAIN issuer'.codes = DOMAIN issuer.codes \cup {issuer.minted + 1}
          /\ issuer'.codes[issuer.minted + 1] = g
          /\ \A c \in DOMAIN issuer.codes \ {issuer.minted + 1} : issuer'.codes[c] = issuer.codes[c]
      BY <2>2 DEF With
    <3> QED
      BY <1>5, <2>2, <3>1
  <2> QED
    BY <1>3, <2>1, <2>2
<1>7. Grows /\ \A k \in Logins : Steady(k) /\ Keeps(k)
  BY <1>1, <1>3, <1>5, <1>6 DEF Grows, Steady, Keeps
<1>8. Shaped' /\ CodesKept' /\ GrantsKept'
  <2>1. CodesKept'
    BY <1>4, <1>6 DEF CodesKept
  <2> QED
    BY <1>1, <1>3, <1>4, <2>1 DEF IInv, Shaped, GrantsKept
<1>9. ASSUME NEW tab \in tabs' \ tabs
      PROVE  \E k \in Logins : tab.state = k /\ TabOf(tab, k)'
  <2>1. tab = answer /\ answer # None
    BY <1>2
  <2>2. CASE issuer'.codes = issuer.codes /\ TargetRefused(l) /\
             answer = [port |-> port[l], state |-> l, code |-> None, error |-> "invalid_target"]
    <3>1. tab.state = l /\ tab.error = "invalid_target"
      BY <2>1, <2>2
    <3>2. TabOf(tab, l)'
      BY <1>1, <1>3, <1>4, <2>2, <3>1, DeploymentAssumption DEF TabOf, TargetRefused
    <3> QED
      BY <3>1, <3>2
  <2>3. CASE /\ issuer'.minted = issuer.minted + 1
             /\ \E g : /\ issuer'.codes = With(issuer.codes, issuer.minted + 1, g)
                       /\ CodeFor(g, l) /\ g.port = port[l]
             /\ answer = [port |-> port[l], state |-> l, code |-> issuer.minted + 1, error |-> None]
    <3>1. tab.state = l /\ tab.error = None /\ tab.code = issuer.minted + 1
      BY <2>1, <2>3
    <3>2. issuer.minted + 1 \in DOMAIN issuer'.codes
      BY <2>3 DEF With
    <3>3. CodeOf(l, tab.code)'
      BY <1>1, <1>5, <1>6, <2>3, <3>1, <3>2 DEF CodeOf, CodeFor
    <3>4. TabOf(tab, l)'
      BY <1>1, <1>4, <3>1, <3>3, DeploymentAssumption DEF TabOf
    <3> QED
      BY <3>1, <3>4
  <2> QED
    BY <1>3, <2>1, <2>2, <2>3
<1> QED
  BY <1>1, <1>2, <1>3, <1>7, <1>8, <1>9, Stood DEF Later

\* A tab delivered to the listener is worth what its own login's tabs are.
LEMMA CallbackKeeps ==
  ASSUME IInv, NEW l \in Logins, NEW tab \in tabs, Callback(l, tab)
  PROVE  IInv'
<1>1. /\ issuer' = issuer /\ tabs' = tabs /\ phase' = phase /\ port' = port
      /\ call' = call /\ device' = device /\ outcome' = outcome /\ Later
      /\ troubled' = troubled /\ expired' = expired
  BY DEF Callback, Later
<1>2. Shaped /\ Minted(issuer) /\ CodesKept /\ GrantsKept
  BY DEF IInv
<1>3. Grows /\ \A k \in Logins : Keeps(k)
  BY <1>1, <1>2, Unmoved
<1>4. Minted(issuer)' /\ CodesKept' /\ GrantsKept'
  BY <1>1, <1>2 DEF CodesKept, GrantsKept
<1>5. CASE channel' = channel
  <2>1. \A k \in Logins : Steady(k)
    BY <1>1, <1>5 DEF Steady
  <2>2. Shaped'
    BY <1>1, <1>2, <1>5 DEF Shaped
  <2> QED
    BY <1>1, <1>3, <1>4, <2>1, <2>2, Stood
<1>6. CASE channel' # channel
  <2>1. PICK result :
          /\ Finish(l, result)
          /\ \/ /\ Page(l, tab) = "refused"
                /\ result = [error |-> IF tab.error = "invalid_target"
                                      THEN "target_rejected" ELSE "refused"]
             \/ Page(l, tab) = "signed_in" /\ result = [code |-> tab.code]
    BY <1>6 DEF Callback
  <2>2. tab.state = l
    BY <2>1 DEF Page
  <2>3. TabOf(tab, l)
    BY <2>2 DEF IInv, Tabs
  <2>4. \/ result = [error |-> "refused"] /\ Denied(l)
        \/ result = [error |-> "target_rejected"] /\ TargetRefused(l)
        \/ result = [code |-> result.code] /\ CodeOf(l, result.code)
    <3>1. CASE Page(l, tab) = "refused" /\ result = [error |-> IF tab.error = "invalid_target"
                                                             THEN "target_rejected" ELSE "refused"]
      <4>1. tab.error # None
        BY <2>2, <3>1 DEF Page
      <4> QED
        BY <2>2, <2>3, <3>1, <4>1 DEF TabOf, Denied
    <3>2. CASE Page(l, tab) = "signed_in" /\ result = [code |-> tab.code]
      <4>1. tab.error = None /\ tab.code # None
        BY <2>2, <3>2 DEF Page
      <4>2. result.code = tab.code /\ CodeOf(l, tab.code)
        BY <2>3, <3>2, <4>1 DEF TabOf
      <4> QED
        BY <3>2, <4>2
    <3> QED
      BY <2>1, <3>1, <3>2
  <2>5. /\ channel[l] = None /\ channel'[l] = result
        /\ \A k \in Logins \ {l} : channel'[k] = channel[k]
        /\ channel' = [k \in Logins |-> channel'[k]]
    BY <1>2, <1>6, <2>1 DEF Finish, Shaped
  <2>6. Shaped' /\ \A k \in Logins \ {l} : Steady(k) /\ Keeps(k)
    BY <1>1, <1>2, <1>3, <2>5 DEF Shaped, Steady
  <2>7. Mine(l)
    BY DEF IInv
  <2>8. phase[l] # "exchange" /\ phase[l] \in {"wait", "identify", "returned"}
    BY <2>3, <2>5, <2>7 DEF Mine, Placed, TabOf
  <2>9. Placed(l)' /\ Polling(l)' /\ SessionOf(l)' /\ CauseOf(l)'
    BY <1>1, <1>3, <2>7, <2>8, SessionStays, CauseStays
    DEF Mine, Placed, Polling, DeviceOf
  <2>10. Calling(l)'
    <3>1. Request(l) => Request(l)'
      BY <1>1, <2>8 DEF Request, CodeOf, DeviceOf
    <3>2. Answer(l) => Answer(l)'
      BY <1>1, <2>8 DEF Answer, TokenOf, IdentityOf, DeviceOf
    <3> QED
      BY <1>1, <2>7, <3>1, <3>2 DEF Mine, Calling
  <2>11. ChannelOf(l)'
    BY <1>1, <2>4, <2>5 DEF ChannelOf, CodeOf, Denied, TargetRefused
  <2>12. Apart' /\ Drawn'
    <3>1. \A k \in Logins : Brings(k)
      BY <1>1 DEF Brings, Given, Holds, Stored
    <3> QED
      BY <1>3, <3>1, ApartStays DEF IInv
  <2>13. Onward(l)
    BY <1>1 DEF Onward
  <2> QED
    BY <1>1, <1>3, <1>4, <2>6, <2>9, <2>10, <2>11, <2>12, <2>13, Others DEF Mine
<1> QED
  BY <1>5, <1>6

LEMMA LoseKeeps ==
  ASSUME IInv, NEW l \in Logins, Lose(l)
  PROVE  IInv'
<1> DEFINE lost == [ok |-> FALSE, error |-> "lost"]
<1>1. /\ issuer' = issuer /\ tabs' = tabs /\ phase' = phase /\ port' = port /\ channel' = channel
      /\ device' = device /\ outcome' = outcome /\ Later
      /\ phase[l] \in {"exchange", "device_asked", "polled"}
      /\ call' = [call EXCEPT ![l] = Received(lost)] /\ l \in troubled'
  BY DEF Lose, Later
<1>2. Shaped /\ Minted(issuer) /\ CodesKept /\ GrantsKept /\ Mine(l)
  BY DEF IInv
<1>3. Grows /\ \A k \in Logins : Keeps(k)
  BY <1>1, <1>2, Unmoved
<1>4. /\ call'[l] = [at |-> "shell", answer |-> lost]
      /\ \A k \in Logins \ {l} : call'[k] = call[k]
      /\ call' = [k \in Logins |-> call'[k]]
  BY <1>1, <1>2 DEF Received, Shaped
<1>5. Moves(l)
  BY <1>1, <1>2, <1>4 DEF Moves, Shaped, Steady
<1>6. call'[l].at = "shell" /\ call'[l].answer = lost
  BY <1>4
<1>7. lost.ok = FALSE /\ lost.error = "lost"
  OBVIOUS
<1> HIDE DEF lost
<1>8. Answer(l)'
  BY <1>1, <1>6, <1>7 DEF Answer
<1>9. Placed(l)' /\ Polling(l)' /\ Calling(l)'
  BY <1>1, <1>2, <1>6, <1>8 DEF Mine, Placed, Polling, Calling, Asking
<1>10. phase'[l] # "wait" /\ outcome'[l] = outcome[l]
  BY <1>1
<1>11. Onward(l) /\ Brings(l)
  BY <1>1, <1>6, <1>7 DEF Onward, Brings, Given, Holds, Stored
<1> QED
  BY <1>5, <1>9, <1>10, <1>11, Going, Moved

\* A token a login holds was drawn before now.
LEMMA HeldIsMinted ==
  ASSUME IInv, NEW k \in Logins, NEW t, Holds(k, t), t # None
  PROVE  t \in Nat /\ t <= issuer.minted
<1>1. TokenOf(k, t)
  <2>1. CASE /\ phase[k] \in {"exchange", "polled", "identify"}
             /\ call[k].at = "shell" /\ call[k].answer.ok
             /\ call[k].answer.refresh = t
    <3>1. Answer(k)
      BY <2>1 DEF IInv, Mine, Calling, Asking
    <3> QED
      BY <2>1, <3>1 DEF Answer, TokenOf
  <2>2. CASE Stored(k) /\ outcome[k].refresh = t
    BY <2>2 DEF IInv, Mine, SessionOf, TokenOf
  <2> QED
    BY <2>1, <2>2 DEF Holds
<1> QED
  BY <1>1 DEF TokenOf, IInv, Minted

\* The issuer has answered a login's request.
LEMMA Served ==
  ASSUME IInv, NEW l \in Logins, NEW a, call[l] # None, call[l].at = "issuer",
         call' = [call EXCEPT ![l] = Received(a)],
         phase' = phase, port' = port, channel' = channel, tabs' = tabs, device' = device,
         outcome' = outcome, expired' = expired, troubled' = troubled,
         Grows, Minted(issuer)', CodesKept', GrantsKept', \A k \in Logins \ {l} : Keeps(k),
         Answer(l)',
         phase[l] = "device_asked" /\ a.ok =>
           a.device = issuer.minted + 1 /\ issuer'.minted = issuer.minted + 1,
         phase[l] \in {"exchange", "polled"} /\ a.ok => a.refresh \in {None, issuer.minted + 1}
  PROVE  IInv'
<1>1. Shaped /\ Mine(l) /\ Apart /\ Drawn
  BY DEF IInv
<1>2. /\ call'[l].at = "shell" /\ call'[l].answer = a
      /\ \A k \in Logins \ {l} : call'[k] = call[k]
      /\ call' = [k \in Logins |-> call'[k]]
  BY <1>1 DEF Received, Shaped
<1>3. phase[l] \in Asking \cup {"returned"}
  BY <1>1 DEF Mine, Placed, Calling
<1>4. Shaped' /\ Later /\ Onward(l) /\ \A k \in Logins \ {l} : Steady(k)
  BY <1>1, <1>2 DEF Shaped, Later, Onward, Steady
<1>5. phase'[l] # "wait" /\ phase[l] # "poll" /\ phase[l] # "identify"
  BY <1>3 DEF Asking
<1>6. ChannelOf(l)' /\ SessionOf(l)' /\ CauseOf(l)'
  BY <1>1, <1>4, <1>5, ChannelStays, SessionStays, CauseStays DEF Mine
<1>7. Placed(l)' /\ Polling(l)'
  BY <1>1, <1>3, <1>5 DEF Mine, Placed, Polling, Grows
<1>8. Calling(l)'
  BY <1>2, <1>5 DEF Calling
<1>9. issuer.minted \in Nat /\ issuer'.minted \in Nat /\ issuer.minted <= issuer'.minted
  BY DEF Grows
<1>10. \A k \in Logins \ {l} : Brings(k)
  BY <1>4, NoMore DEF Brings
<1>11. \A d : Given(l, d)' =>
         Given(l, d) \/ (d = issuer.minted + 1 /\ issuer'.minted = issuer.minted + 1)
  BY <1>2 DEF Given
<1>12. \A t : Holds(l, t)' => Holds(l, t) \/ t \in {None, issuer.minted + 1}
  BY <1>2, <1>5 DEF Holds, Stored
<1>13. Drawn'
  <2> SUFFICES ASSUME NEW k \in Logins, NEW d, Given(k, d)', d # None
               PROVE  d \in Nat /\ d <= issuer'.minted
    BY DEF Drawn
  <2>1. CASE Given(k, d)
    <3>1. d \in Nat /\ d <= issuer.minted
      BY <1>1, <2>1 DEF Drawn
    <3> QED
      BY <1>9, <3>1
  <2>2. CASE ~Given(k, d)
    BY <1>9, <1>10, <1>11, <2>2 DEF Brings
  <2> QED
    BY <2>1, <2>2
<1>14. \A k \in Logins : \A d : Given(k, d) /\ d = issuer.minted + 1 => d = None
  BY <1>1, <1>9 DEF Drawn
<1>15. \A k \in Logins : \A t : Holds(k, t) /\ t = issuer.minted + 1 => t = None
  BY <1>9, HeldIsMinted
<1>16. Apart'
  <2>1. ASSUME NEW k \in Logins \ {l}
        PROVE  /\ \A d : Given(l, d)' /\ Given(k, d)' => d = None
               /\ \A t : Holds(l, t)' /\ Holds(k, t)' => t = None
    <3>1. /\ \A d : Given(k, d)' => Given(k, d)
          /\ \A t : Holds(k, t)' => Holds(k, t)
      BY <1>10 DEF Brings
    <3>2. /\ \A d : Given(l, d) /\ Given(k, d) => d = None
          /\ \A t : Holds(l, t) /\ Holds(k, t) => t = None
      BY <1>1 DEF Apart
    <3> QED
      BY <1>11, <1>12, <1>14, <1>15, <3>1, <3>2
  <2>2. ASSUME NEW k \in Logins \ {l}, NEW j \in Logins \ {l}, k # j
        PROVE  /\ \A d : Given(j, d)' /\ Given(k, d)' => d = None
               /\ \A t : Holds(j, t)' /\ Holds(k, t)' => t = None
    <3>1. /\ \A d : (Given(j, d)' => Given(j, d)) /\ (Given(k, d)' => Given(k, d))
          /\ \A t : (Holds(j, t)' => Holds(j, t)) /\ (Holds(k, t)' => Holds(k, t))
      BY <1>10 DEF Brings
    <3>2. /\ \A d : Given(j, d) /\ Given(k, d) => d = None
          /\ \A t : Holds(j, t) /\ Holds(k, t) => t = None
      BY <1>1, <2>2 DEF Apart
    <3> QED
      BY <3>1, <3>2
  <2> QED
    BY <2>1, <2>2 DEF Apart
<1> QED
  BY <1>4, <1>5, <1>6, <1>7, <1>8, <1>13, <1>16, Others DEF Mine

\* Drawing the next number takes nothing from the codes, the tokens and the
\* grants there are.
LEMMA GrowsBy ==
  ASSUME NEW s, Minted(s), s = issuer, Minted(issuer'), issuer'.opts = s.opts,
         s.minted <= issuer'.minted,
         \A c \in DOMAIN issuer'.codes : c \in DOMAIN s.codes /\ issuer'.codes[c] = s.codes[c],
         \/ issuer'.refreshTokens = s.refreshTokens
         \/ \E record : issuer'.refreshTokens = With(s.refreshTokens, s.minted + 1, record)
  PROVE  Grows
<1>1. s.minted \in Nat /\ issuer'.minted \in Nat /\ issuer'.url = s.url
  BY DEF Minted
<1>2. s.minted + 1 \notin DOMAIN s.refreshTokens
  BY <1>1 DEF Minted
<1>3. \A t \in DOMAIN s.refreshTokens :
        /\ t \in DOMAIN issuer'.refreshTokens
        /\ issuer'.refreshTokens[t] = s.refreshTokens[t]
  <2>1. ASSUME NEW record, issuer'.refreshTokens = With(s.refreshTokens, s.minted + 1, record),
               NEW t \in DOMAIN s.refreshTokens
        PROVE  t \in DOMAIN issuer'.refreshTokens /\ issuer'.refreshTokens[t] = s.refreshTokens[t]
    BY <1>2, <2>1 DEF With
  <2> QED
    BY <2>1
<1> QED
  BY <1>1, <1>3 DEF Grows

LEMMA ServeCode ==
  ASSUME IInv, NEW l \in Logins, Serve(l), call[l].request.grant = "authorization_code"
  PROVE  IInv'
<1>1. PICK s, r, t, a : /\ s = issuer /\ r = call[l].request
                        /\ t = ExchangeCode(s, r).issuer /\ a = ExchangeCode(s, r).answer
  OBVIOUS
<1>2. HandleToken(issuer, None, r) = ExchangeCode(s, r)
  BY <1>1 DEF HandleToken
<1>3. /\ call[l] # None /\ call[l].at = "issuer"
      /\ issuer' = t /\ call' = [call EXCEPT ![l] = Received(a)]
      /\ phase' = phase /\ port' = port /\ channel' = channel /\ tabs' = tabs /\ device' = device
      /\ outcome' = outcome /\ expired' = expired /\ troubled' = troubled
  BY <1>1, <1>2 DEF Serve
<1>4. Minted(s) /\ Shaped /\ Mine(l) /\ CodesKept /\ GrantsKept
  BY <1>1 DEF IInv
<1>5. Request(l)
  BY <1>3, <1>4 DEF Mine, Calling
<1>6. /\ r.verifier = l /\ Flow[l] = "browser"
      /\ r.code \in DOMAIN s.codes => s.codes[r.code].challenge = l
  BY <1>1, <1>5 DEF Request, CodeOf
<1>7. phase[l] \in {"exchange", "returned"}
  BY <1>1, <1>3, <1>4, <1>5, <1>6 DEF Mine, Placed, Asking, Calling
<1> DEFINE g == s.codes[r.code]
<1>8. /\ Minted(t) /\ t.opts = s.opts /\ s.minted <= t.minted
      /\ t.deviceGrants = s.deviceGrants
      /\ t.codes = Without(s.codes, r.code)
      /\ \/ /\ ~Matching(s, r)
            /\ a.ok = FALSE /\ t.refreshTokens = s.refreshTokens
         \/ /\ Matching(s, r)
            /\ a.ok = TRUE /\ a.id = IDToken(s, g.client, g.nonce, g.scopes)
            /\ \/ a.refresh = None /\ t.refreshTokens = s.refreshTokens
               \/ /\ a.refresh = s.minted + 1 /\ t.minted = s.minted + 1
                  /\ t.refreshTokens = With(s.refreshTokens, s.minted + 1,
                        [scopes |-> g.scopes, resource |-> g.resource])
  <2>1. Minted(s)
    BY <1>4
  <2>2. t = ExchangeCode(s, r).issuer /\ a = ExchangeCode(s, r).answer
    BY <1>1
  <2> QED
    BY <2>1, <2>2, Exchanging
<1>9. /\ DOMAIN t.codes = DOMAIN s.codes \ {r.code}
      /\ \A c \in DOMAIN t.codes : t.codes[c] = s.codes[c]
  BY <1>8 DEF Without
<1>10. Grows
  <2>1. Minted(s) /\ s = issuer /\ Minted(issuer') /\ issuer'.opts = s.opts /\ s.minted <= issuer'.minted
    BY <1>1, <1>3, <1>4, <1>8
  <2>2. \A c \in DOMAIN issuer'.codes : c \in DOMAIN s.codes /\ issuer'.codes[c] = s.codes[c]
    BY <1>3, <1>9
  <2>3. \/ issuer'.refreshTokens = s.refreshTokens
        \/ \E record : issuer'.refreshTokens = With(s.refreshTokens, s.minted + 1, record)
    BY <1>3, <1>8
  <2> QED
    BY <2>1, <2>2, <2>3, GrowsBy
<1>11. \A k \in Logins \ {l} : Keeps(k)
  <2>1. issuer'.deviceGrants = issuer.deviceGrants
    BY <1>1, <1>3, <1>8
  <2>2. ASSUME NEW k \in Logins \ {l}, NEW c \in DOMAIN issuer.codes, issuer.codes[c].challenge = k
        PROVE  c \in DOMAIN issuer'.codes /\ issuer'.codes[c] = issuer.codes[c]
    BY <1>1, <1>3, <1>6, <1>9, <2>2
  <2> QED
    BY <2>1, <2>2 DEF Keeps
<1>12. Minted(issuer)' /\ CodesKept' /\ GrantsKept'
  BY <1>1, <1>3, <1>4, <1>8, <1>9 DEF CodesKept, GrantsKept
<1>13. phase[l] = "exchange" =>
         /\ Matching(s, r) /\ CodeFor(g, l)
  BY <1>1, <1>5, <1>6 DEF Request, Matching, CodeFor
<1>14. phase[l] = "exchange" => TokenOf(l, a.refresh)' /\ IdentityOf(l, a.id)'
  <2> SUFFICES ASSUME phase[l] = "exchange"
               PROVE  TokenOf(l, a.refresh)' /\ IdentityOf(l, a.id)'
    OBVIOUS
  <2>1. IdentityOf(l, a.id)'
    <3>1. a.id = IDToken(issuer, ClientOf[l], l, Requested(l))
      BY <1>1, <1>8, <1>13 DEF CodeFor
    <3>2. a.id = IDToken(issuer', ClientOf[l], l, Requested(l))
      BY <1>10, <3>1, SameIssuer
    <3> QED
      BY <1>6, <3>2 DEF IdentityOf
  <2>2. TokenOf(l, a.refresh)'
    <3>1. CASE a.refresh = None
      BY <3>1 DEF TokenOf
    <3>2. CASE a.refresh = s.minted + 1 /\
               t.refreshTokens = With(s.refreshTokens, s.minted + 1,
                                      [scopes |-> g.scopes, resource |-> g.resource])
      <4>1. s.minted + 1 \in DOMAIN t.refreshTokens
            /\ t.refreshTokens[s.minted + 1] = [scopes |-> g.scopes, resource |-> g.resource]
        BY <3>2 DEF With
      <4> QED
        BY <1>3, <1>6, <1>13, <3>2, <4>1 DEF TokenOf, Renewable, CodeFor
    <3> QED
      BY <1>8, <1>13, <3>1, <3>2
  <2> QED
    BY <2>1, <2>2
<1>15. call'[l].answer = a /\ a.ok \in BOOLEAN /\ phase'[l] = phase[l]
  BY <1>3, <1>4, <1>8 DEF Received, Shaped
<1>16. phase[l] = "exchange" => a.ok
  BY <1>8, <1>13
<1>17. Answer(l)'
  BY <1>7, <1>14, <1>15, <1>16 DEF Answer, TokenOf, IdentityOf
<1>18. phase[l] \in {"exchange", "polled"} /\ a.ok => a.refresh \in {None, issuer.minted + 1}
  BY <1>1, <1>8
<1>19. phase[l] # "device_asked"
  BY <1>7
<1> QED
  BY <1>3, <1>10, <1>11, <1>12, <1>17, <1>18, <1>19, Served

LEMMA ServeDevice ==
  ASSUME IInv, NEW l \in Logins, Serve(l), call[l].request.grant = "device_authorization"
  PROVE  IInv'
<1>1. PICK s, r : s = issuer /\ r = call[l].request
  OBVIOUS
<1> DEFINE t == HandleDeviceAuthorize(s, r).issuer
           a == HandleDeviceAuthorize(s, r).answer
<1>2. /\ call[l] # None /\ call[l].at = "issuer"
      /\ issuer' = t /\ call' = [call EXCEPT ![l] = Received(a)]
      /\ phase' = phase /\ port' = port /\ channel' = channel /\ tabs' = tabs /\ device' = device
      /\ outcome' = outcome /\ expired' = expired /\ troubled' = troubled
  BY <1>1 DEF Serve
<1>3. Minted(s) /\ Shaped /\ Mine(l) /\ CodesKept /\ GrantsKept
  BY <1>1 DEF IInv
<1>4. Request(l) /\ Flow[l] = "device"
  BY <1>1, <1>2, <1>3 DEF Mine, Calling, Request
<1>5. phase[l] \in {"device_asked", "returned"}
  BY <1>1, <1>2, <1>3, <1>4 DEF Mine, Placed, Asking, Calling, Request
<1>7. r = [grant |-> "device_authorization", client |-> ClientOf[l], scopes |-> Requested(l)]
  BY <1>1, <1>4 DEF Request
<1>8. Minted(s)
  BY <1>3
<1>9. /\ Minted(t) /\ t.opts = s.opts /\ s.minted <= t.minted
      /\ t.codes = s.codes /\ t.refreshTokens = s.refreshTokens
      /\ \/ /\ s.opts.omitDevice
            /\ a.ok = FALSE /\ t.deviceGrants = s.deviceGrants
         \/ /\ a.ok = TRUE /\ a.device = s.minted + 1 /\ t.minted = s.minted + 1
            /\ \E g : /\ t.deviceGrants = With(s.deviceGrants, s.minted + 1, g)
                      /\ GrantFor(g, l) /\ g.redeemed = FALSE
  <2>1. Begun(s, t, a, l)
    BY <1>7, <1>8, DeviceAuthorizing
  <2> HIDE DEF t, a
  <2> QED
    BY <2>1 DEF Begun
<1> HIDE DEF t, a
<1>10. Grows
  <2>1. Minted(s) /\ s = issuer /\ Minted(issuer') /\ issuer'.opts = s.opts /\ s.minted <= issuer'.minted
    BY <1>1, <1>2, <1>8, <1>9
  <2>2. \A c \in DOMAIN issuer'.codes : c \in DOMAIN s.codes /\ issuer'.codes[c] = s.codes[c]
    BY <1>2, <1>9
  <2>3. issuer'.refreshTokens = s.refreshTokens
    BY <1>2, <1>9
  <2> QED
    BY <2>1, <2>2, <2>3, GrowsBy
<1>11. s.minted \in Nat /\ s.minted + 1 \notin DOMAIN s.deviceGrants
  BY <1>8 DEF Minted
<1>12. /\ \A d \in DOMAIN s.deviceGrants : d \in DOMAIN t.deviceGrants /\ t.deviceGrants[d] = s.deviceGrants[d]
       /\ \A d \in DOMAIN t.deviceGrants : d \in DOMAIN s.deviceGrants \/ GrantFor(t.deviceGrants[d], l)
       /\ a.ok => /\ a.device = s.minted + 1 /\ t.minted = s.minted + 1
                  /\ a.device \in DOMAIN t.deviceGrants
                  /\ GrantFor(t.deviceGrants[a.device], l)
                  /\ t.deviceGrants[a.device].redeemed = FALSE
  <2>1. CASE a.ok = FALSE /\ t.deviceGrants = s.deviceGrants
    BY <2>1
  <2>2. ASSUME NEW g, a.ok = TRUE, a.device = s.minted + 1, t.minted = s.minted + 1,
               t.deviceGrants = With(s.deviceGrants, s.minted + 1, g), GrantFor(g, l),
               g.redeemed = FALSE
        PROVE  /\ \A d \in DOMAIN s.deviceGrants :
                    d \in DOMAIN t.deviceGrants /\ t.deviceGrants[d] = s.deviceGrants[d]
               /\ \A d \in DOMAIN t.deviceGrants :
                    d \in DOMAIN s.deviceGrants \/ GrantFor(t.deviceGrants[d], l)
               /\ a.ok => /\ a.device = s.minted + 1 /\ t.minted = s.minted + 1
                          /\ a.device \in DOMAIN t.deviceGrants
                          /\ GrantFor(t.deviceGrants[a.device], l)
                          /\ t.deviceGrants[a.device].redeemed = FALSE
    <3>1. /\ DOMAIN t.deviceGrants = DOMAIN s.deviceGrants \cup {s.minted + 1}
          /\ t.deviceGrants[s.minted + 1] = g
          /\ \A d \in DOMAIN s.deviceGrants : t.deviceGrants[d] = s.deviceGrants[d]
      BY <1>11, <2>2 DEF With
    <3> QED
      BY <2>2, <3>1
  <2> QED
    BY <1>9, <2>1, <2>2
<1>13. \A k \in Logins \ {l} : Keeps(k)
  BY <1>1, <1>2, <1>9, <1>12 DEF Keeps
<1>14. Minted(issuer)' /\ CodesKept' /\ GrantsKept'
  <2>1. ASSUME NEW d \in DOMAIN t.deviceGrants
        PROVE  \E k \in Logins : GrantFor(t.deviceGrants[d], k)
    <3>1. CASE d \in DOMAIN s.deviceGrants
      BY <1>1, <1>3, <1>12, <3>1 DEF GrantsKept
    <3> QED
      BY <1>12, <3>1
  <2> QED
    BY <1>1, <1>2, <1>3, <1>9, <2>1 DEF CodesKept, GrantsKept
<1>15. call'[l].answer = a /\ a.ok \in BOOLEAN /\ phase'[l] = phase[l]
  BY <1>2, <1>3, <1>9 DEF Received, Shaped
<1>16. phase[l] = "device_asked" => a.ok
  BY <1>1, <1>3, <1>9 DEF Mine, Placed
<1>17. a.ok => DeviceOf(l, a.device)'
  BY <1>2, <1>12 DEF DeviceOf
<1>18. Answer(l)'
  BY <1>5, <1>15, <1>16, <1>17 DEF Answer, DeviceOf
<1>19. a.ok => a.device = issuer.minted + 1 /\ issuer'.minted = issuer.minted + 1
  BY <1>1, <1>2, <1>12
<1>20. phase[l] \notin {"exchange", "polled"}
  BY <1>5
<1> QED
  BY <1>2, <1>10, <1>13, <1>14, <1>18, <1>19, <1>20, Served

LEMMA ServePoll ==
  ASSUME IInv, NEW l \in Logins, Serve(l), call[l].request.grant = "device_code"
  PROVE  IInv'
<1>1. PICK s, r : s = issuer /\ r = call[l].request
  OBVIOUS
<1> DEFINE t == DeviceGrant(s, r).issuer
           a == DeviceGrant(s, r).answer
           d == r.device
           g == s.deviceGrants[d]
<1>2. HandleToken(issuer, None, r) = DeviceGrant(s, r)
  BY <1>1 DEF HandleToken
<1>3. /\ call[l] # None /\ call[l].at = "issuer"
      /\ issuer' = t /\ call' = [call EXCEPT ![l] = Received(a)]
      /\ phase' = phase /\ port' = port /\ channel' = channel /\ tabs' = tabs /\ device' = device
      /\ outcome' = outcome /\ expired' = expired /\ troubled' = troubled
  BY <1>1, <1>2 DEF Serve
<1>4. Minted(s) /\ Shaped /\ Mine(l) /\ CodesKept /\ GrantsKept /\ Apart
  BY <1>1 DEF IInv
<1>5. Request(l)
  BY <1>3, <1>4 DEF Mine, Calling
<1>6. r.device = device[l] /\ Flow[l] = "device"
  BY <1>1, <1>5 DEF Request
<1>7. phase[l] \in {"polled", "returned"}
  BY <1>1, <1>3, <1>4, <1>5, <1>6 DEF Mine, Placed, Asking, Calling, Request
<1>8. d = device[l]
  BY <1>6
<1>9. d \in DOMAIN s.deviceGrants => \E k \in Logins : GrantFor(g, k)
  BY <1>1, <1>4 DEF GrantsKept
<1>10. /\ Minted(t) /\ t.opts = s.opts /\ s.minted <= t.minted
       /\ t.codes = s.codes
       /\ DOMAIN t.deviceGrants = DOMAIN s.deviceGrants
       /\ \A e \in DOMAIN s.deviceGrants \ {d} : t.deviceGrants[e] = s.deviceGrants[e]
       /\ \A k \in Logins : d \in DOMAIN s.deviceGrants /\ GrantFor(g, k)
            => GrantFor(t.deviceGrants[d], k)
       /\ \/ /\ a.ok = FALSE /\ t.refreshTokens = s.refreshTokens
             /\ d \in DOMAIN s.deviceGrants /\ g.redeemed = FALSE =>
                  \/ /\ a.error \in {"authorization_pending", "slow_down"}
                     /\ t.deviceGrants[d].redeemed = FALSE
                  \/ a.error \in {"access_denied", "expired_token"}
          \/ /\ a.ok = TRUE /\ d \in DOMAIN s.deviceGrants
             /\ \/ a.id = None
                \/ a.id = IDToken(s, IF s.opts.deviceAudience # None
                                     THEN s.opts.deviceAudience ELSE g.client,
                                  None, g.scopes)
             /\ \/ a.refresh = None /\ t.refreshTokens = s.refreshTokens
                \/ /\ a.refresh = s.minted + 1 /\ t.minted = s.minted + 1
                   /\ t.refreshTokens = With(s.refreshTokens, s.minted + 1,
                         [scopes |-> g.scopes, resource |-> None])
  <2>1. Minted(s)
    BY <1>4
  <2>2. Decided(s, t, a, d)
    BY <1>9, <2>1, DevicePolled
  <2> HIDE DEF t, a, d
  <2> QED
    BY <2>2 DEF Decided
<1> HIDE DEF t, a, d
<1>11. Grows
  <2>1. Minted(s) /\ s = issuer /\ Minted(issuer') /\ issuer'.opts = s.opts /\ s.minted <= issuer'.minted
    BY <1>1, <1>3, <1>4, <1>10
  <2>2. \A c \in DOMAIN issuer'.codes : c \in DOMAIN s.codes /\ issuer'.codes[c] = s.codes[c]
    BY <1>3, <1>10
  <2>3. \/ issuer'.refreshTokens = s.refreshTokens
        \/ \E record : issuer'.refreshTokens = With(s.refreshTokens, s.minted + 1, record)
    BY <1>3, <1>10
  <2> QED
    BY <2>1, <2>2, <2>3, GrowsBy
<1>12. \A k \in Logins \ {l} : Keeps(k)
  <2>1. Given(l, d)
    BY <1>6, <1>8 DEF Given
  <2>2. None \notin DOMAIN s.deviceGrants
    BY <1>4, DeploymentAssumption DEF Minted
  <2>3. ASSUME NEW k \in Logins \ {l}, NEW e \in DOMAIN s.deviceGrants, Given(k, e)
        PROVE  e # d
    BY <1>4, <2>1, <2>2, <2>3 DEF Apart
  <2>4. issuer'.codes = issuer.codes
    BY <1>1, <1>3, <1>10
  <2>5. ASSUME NEW k \in Logins \ {l}, NEW e \in DOMAIN issuer.deviceGrants, Given(k, e)
        PROVE  e \in DOMAIN issuer'.deviceGrants /\ issuer'.deviceGrants[e] = issuer.deviceGrants[e]
    BY <1>1, <1>3, <1>10, <2>3, <2>5
  <2> QED
    BY <2>4, <2>5 DEF Keeps
<1>13. Minted(issuer)' /\ CodesKept' /\ GrantsKept'
  <2>1. ASSUME NEW e \in DOMAIN t.deviceGrants
        PROVE  \E k \in Logins : GrantFor(t.deviceGrants[e], k)
    <3>1. CASE e = d
      BY <1>9, <1>10, <3>1
    <3>2. CASE e # d
      BY <1>1, <1>4, <1>10, <3>2 DEF GrantsKept
    <3> QED
      BY <3>1, <3>2
  <2> QED
    BY <1>1, <1>3, <1>4, <1>10, <2>1 DEF CodesKept, GrantsKept
<1>14. call'[l].answer = a /\ a.ok \in BOOLEAN /\ phase'[l] = phase[l] /\ device'[l] = d
  BY <1>3, <1>4, <1>6, <1>8, <1>10 DEF Received, Shaped
<1>15. phase[l] = "polled" =>
         d \in DOMAIN s.deviceGrants /\ GrantFor(g, l) /\ g.redeemed = FALSE
  BY <1>1, <1>5, <1>6, <1>8 DEF Request, DeviceOf
<1>16. phase[l] = "polled" /\ a.ok => TokenOf(l, a.refresh)' /\ IdentityOf(l, a.id)'
  <2> SUFFICES ASSUME phase[l] = "polled", a.ok
               PROVE  TokenOf(l, a.refresh)' /\ IdentityOf(l, a.id)'
    OBVIOUS
  <2>1. g.scopes = Requested(l) /\ g.client = ClientOf[l]
    BY <1>15 DEF GrantFor
  <2>2. IdentityOf(l, a.id)'
    <3>1. \/ a.id = None
          \/ a.id = IDToken(issuer, IF issuer.opts.deviceAudience # None
                                    THEN issuer.opts.deviceAudience ELSE ClientOf[l],
                            None, Requested(l))
      BY <1>1, <1>10, <2>1
    <3>2. issuer'.opts = issuer.opts
      BY <1>11 DEF Grows
    <3> QED
      BY <1>6, <1>11, <3>1, <3>2, SameIssuer DEF IdentityOf
  <2>3. TokenOf(l, a.refresh)'
    <3>1. CASE a.refresh = None
      BY <3>1 DEF TokenOf
    <3>2. CASE a.refresh = s.minted + 1 /\
               t.refreshTokens = With(s.refreshTokens, s.minted + 1,
                                      [scopes |-> g.scopes, resource |-> None])
      <4>1. /\ s.minted + 1 \in DOMAIN t.refreshTokens
            /\ t.refreshTokens[s.minted + 1] = [scopes |-> g.scopes, resource |-> None]
        BY <3>2 DEF With
      <4> QED
        BY <1>3, <1>6, <2>1, <3>2, <4>1 DEF TokenOf, Renewable
    <3> QED
      BY <1>10, <3>1, <3>2
  <2> QED
    BY <2>2, <2>3
<1>17. phase[l] = "polled" /\ ~a.ok =>
         \/ /\ a.error \in {"authorization_pending", "slow_down"}
            /\ DeviceOf(l, d)'
         \/ a.error \in {"access_denied", "expired_token"}
  BY <1>3, <1>10, <1>15 DEF DeviceOf
<1>18. Answer(l)'
  BY <1>7, <1>14, <1>16, <1>17 DEF Answer, TokenOf, IdentityOf, DeviceOf
<1>19. phase[l] \in {"exchange", "polled"} /\ a.ok => a.refresh \in {None, issuer.minted + 1}
  BY <1>1, <1>10
<1>20. phase[l] # "device_asked"
  BY <1>7
<1> QED
  BY <1>3, <1>11, <1>12, <1>13, <1>18, <1>19, <1>20, Served

LEMMA ServeKeeps ==
  ASSUME IInv, NEW l \in Logins, Serve(l)
  PROVE  IInv'
<1>1. call[l].request.grant \in {"authorization_code", "device_authorization", "device_code"}
  BY DEF Serve, IInv, Mine, Calling, Request
<1> QED
  BY <1>1, ServeCode, ServeDevice, ServePoll

-----------------------------------------------------------------------------
(* The invariant.                                                           *)

LEMMA InitIInv == Init => IInv
<1> SUFFICES ASSUME Init
             PROVE  IInv
  OBVIOUS
<1>1. Minted(issuer) /\ CodesKept /\ GrantsKept /\ Tabs
  BY NothingMinted DEF Init, New, Minted, CodesKept, GrantsKept, Tabs
<1>2. phase \in [Logins -> {"start", "returned"}]
  BY DEF Init
<1>3. Shaped
  BY <1>2 DEF Init, Shaped, Phases
<1>4. ASSUME NEW l \in Logins
      PROVE  Mine(l) /\ (\A d : Given(l, d) => d = None) /\ (\A t : ~Holds(l, t))
  <2>1. /\ phase[l] \in {"start", "returned"} /\ channel[l] = None /\ call[l] = None
        /\ device[l] = None /\ outcome[l] = None
    BY <1>2 DEF Init
  <2>2. Placed(l) /\ ChannelOf(l) /\ Calling(l) /\ Polling(l)
    BY <2>1 DEF Placed, ChannelOf, Calling, Polling, Asking
  <2> QED
    BY <2>1, <2>2 DEF Mine, SessionOf, CauseOf, Stored, Given, Holds
<1> QED
  BY <1>1, <1>3, <1>4 DEF IInv, Apart, Drawn

LEMMA NextIInv == IInv /\ [Next]_vars => IInv'
<1> SUFFICES ASSUME IInv, [Next]_vars
             PROVE  IInv'
  OBVIOUS
<1>1. CASE UNCHANGED vars
  <2>1. Grows /\ Later /\ \A k \in Logins : Steady(k) /\ Keeps(k)
    BY <1>1, Unmoved DEF vars, Steady, Later, IInv
  <2>2. Shaped' /\ Minted(issuer)' /\ CodesKept' /\ GrantsKept' /\ tabs' = tabs
    BY <1>1 DEF vars, IInv, Shaped, CodesKept, GrantsKept
  <2> QED
    BY <2>1, <2>2, Stood
<1>2. ASSUME NEW l \in Logins, Shell(l)
      PROVE  IInv'
  BY <1>2, DiscoverKeeps, BindKeeps, OpenKeeps, WaitKeeps, GiveUpKeeps, DeviceAuthKeeps,
     PresentKeeps, PollKeeps, PolledKeeps, StopPollingKeeps, ExchangedKeeps,
     CallCancelledKeeps, IdentifyKeeps
  DEF Shell
<1>3. ASSUME NEW l \in Logins,
             \/ SignIn(l) \/ Decline(l) \/ Serve(l) \/ Lose(l) \/ Deadline(l)
             \/ \E tab \in tabs : Callback(l, tab)
      PROVE  IInv'
  BY <1>3, SignInKeeps, DeclineKeeps, ServeKeeps, LoseKeeps, DeadlineKeeps, CallbackKeeps
<1> QED
  BY <1>1, <1>2, <1>3 DEF Next

LEMMA Invariance == Spec => []IInv
  BY InitIInv, NextIInv, PTL DEF Spec

-----------------------------------------------------------------------------
(* Theorems.                                                                *)

\* What a login stores renews what that login asked for, was signed in for by
\* that login's own URL, and is no other login's, with any number of logins
\* running beside each other and any tabs they are sent.
THEOREM SessionIsAsAsked == Spec => []SessionAsAsked
<1>1. IInv => SessionAsAsked
  <2> SUFFICES ASSUME IInv, NEW l \in Logins, Stored(l)
               PROVE  LET o == outcome[l]
                          record == issuer.refreshTokens[o.refresh]
                      IN /\ RefreshTokenLive(issuer, o.refresh)
                         /\ record.scopes = Requested(l)
                         /\ record.resource = (IF Flow[l] = "browser" THEN ResourceOf[l] ELSE None)
                         /\ Flow[l] = "browser" => o.id # None /\ o.id.nonce = l
                         /\ o.id # None => o.id.audience = ClientOf[l]
                                           /\ o.id.issuer = Identifier(issuer)
                         /\ \A k \in Logins \ {l} : Stored(k) => outcome[k].refresh # o.refresh
    BY DEF SessionAsAsked
  <2>1. SessionOf(l) /\ outcome[l].refresh # None
    BY DEF IInv, Mine, SessionOf
  <2>2. RefreshTokenLive(issuer, outcome[l].refresh)
        /\ issuer.refreshTokens[outcome[l].refresh] = Renewable(l)
    BY <2>1 DEF SessionOf, TokenOf, RefreshTokenLive
  <2>3. ASSUME NEW k \in Logins \ {l}, Stored(k), outcome[k].refresh = outcome[l].refresh
        PROVE  FALSE
    <3>1. Holds(l, outcome[l].refresh) /\ Holds(k, outcome[l].refresh)
      BY <2>3 DEF Holds
    <3> QED
      BY <2>1, <3>1 DEF IInv, Apart
  <2> QED
    BY <2>1, <2>2, <2>3 DEF SessionOf, Renewable
<1> QED
  BY <1>1, Invariance, PTL

\* A login ends only for a reason that its user, its network, its clock or its
\* issuer gave it: nothing that another login or another tab does costs it its
\* session.
THEOREM RefusedOnlyForCause == Spec => []RefusedForCause
<1>1. IInv => RefusedForCause
  BY DEF IInv, Mine, CauseOf, Caused, Ended, Denied, TargetRefused, RefusedForCause
<1> QED
  BY <1>1, Invariance, PTL

=============================================================================
