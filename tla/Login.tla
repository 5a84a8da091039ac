------------------------------- MODULE Login -------------------------------
(***************************************************************************)
(* The two interactive logins (internal/auth/oauthflow) with the issuer     *)
(* they run against.  A browser login binds a loopback port, prints an      *)
(* authorization URL, waits for the browser to be redirected back, and      *)
(* exchanges the code it brings; a device login prints a code and polls.    *)
(* Several logins run at once, one per product session, beside each other   *)
(* and beside other programs holding ports.                                 *)
(*                                                                          *)
(* What the shell does not control is an action of its own: the user signs  *)
(* in, once, twice, late or for the wrong tab; a tab is reloaded; an answer *)
(* is lost; the deadline passes.  The one-time values of a login (verifier, *)
(* state, nonce) are the login itself: nobody else draws them.              *)
(***************************************************************************)
EXTENDS Discovery, Sequences

CONSTANTS
  Logins,       \* the logins there are
  Together,     \* the sets of them that run at once
  Flow,         \* Flow[l]: "browser" or "device"
  ClientOf,     \* ClientOf[l]: the public client the login presents
  ScopesOf,     \* ScopesOf[l]: the product's scopes
  ResourceOf,   \* ResourceOf[l]: the resource it binds to, or None
  IssuerURL, IssuerID,  \* the issuer of the context, and what it declares
  PortOrder,    \* the registered callback ports, in the order tried
  Occupied,     \* the sets of ports other programs may hold
  Deployments,  \* the options an issuer may run with
  MaxSignIns    \* bound: MaxSignIns[l] times the user completes l's URL

ASSUME LoginAssumption ==
  /\ None \notin Logins
  /\ Together \subseteq SUBSET Logins
  /\ Flow \in [Logins -> {"browser", "device"}]
  /\ MaxSignIns \in [Logins -> Nat]
  /\ Occupied \subseteq SUBSET RegisteredPorts
  /\ RegisteredPorts = {PortOrder[n] : n \in DOMAIN PortOrder}
  /\ \A l \in Logins : ClientOf[l] # None

\* None is no number, no reason, no key and no identity token; a device request
\* is answered, in the end, one way or another.
ASSUME DeploymentAssumption ==
  /\ None \notin Nat
  /\ None \notin {"access_denied", "invalid_target", "no_identity_token", "other_issuer",
                  "other_application", "other_request", "keys_unreadable", "not_signed"}
  /\ None \notin {"RSA", "EC", "OKP", "unparseable"}
  /\ \A opts \in Deployments :
       /\ opts.deviceOutcome \in {"deny", "expire", "approve"}
       /\ opts.pending \in Nat /\ opts.slowDown \in Nat
       /\ \A l \in Logins : \A nonce \in {l, None} :
            IDToken(New(IssuerURL, opts), ClientOf[l], nonce,
                    {OpenID, "offline_access", "profile", "email"} \cup ScopesOf[l]) # None

VARIABLES
  issuer,    \* the provider, see Issuer
  foreign,   \* ports other programs hold
  phase,     \* phase[l]: where Run stands
  expired,   \* logins whose context is done
  port,      \* port[l]: the port its listener holds, or None
  channel,   \* channel[l]: the callback's one result, or None
  tabs,      \* the redirects the browser was sent, any of them delivered again
  signIns,   \* signIns[l]: times its URL was completed
  call,      \* call[l]: the request in flight, its answer, or None
  interval,  \* interval[l]: seconds between two polls, or None
  device,    \* device[l]: the device code, or None
  troubled,  \* logins that lost a request, an answer or a key fetch
  outcome    \* outcome[l]: what Run returned, and the session stored

vars == <<issuer, foreign, phase, expired, port, channel, tabs, signIns, call,
          interval, device, troubled, outcome>>

\* openid and offline access, who signed in, then the product's own.
Requested(l) ==
  {OpenID, "offline_access", "profile", "email"} \cup ScopesOf[l]

Sent(r) == [at |-> "issuer", request |-> r]
Received(a) == [at |-> "shell", answer |-> a]

Init ==
  /\ \E opts \in Deployments : issuer = New(IssuerURL, opts)
  /\ foreign \in Occupied
  /\ \E run \in Together :
       phase = [l \in Logins |-> IF l \in run THEN "start" ELSE "returned"]
  /\ expired = {}
  /\ port = [l \in Logins |-> None]
  /\ channel = [l \in Logins |-> None]
  /\ tabs = {}
  /\ signIns = [l \in Logins |-> 0]
  /\ call = [l \in Logins |-> None]
  /\ interval = [l \in Logins |-> None]
  /\ device = [l \in Logins |-> None]
  /\ troubled = {}
  /\ outcome = [l \in Logins |-> None]

\* Run returns.  The listener is closed on every path out.
Return(l, result) ==
  /\ outcome' = [outcome EXCEPT ![l] = result]
  /\ phase' = [phase EXCEPT ![l] = "returned"]
  /\ port' = [port EXCEPT ![l] = None]

Fail(l, why) == Return(l, [kind |-> why])

Goto(l, next) ==
  /\ phase' = [phase EXCEPT ![l] = next]
  /\ UNCHANGED <<outcome, port>>

Send(l, r) == call' = [call EXCEPT ![l] = Sent(r)]

----------------------------------------------------------------------------
(* Discovery, and what each flow asks of it before anything is shown.       *)

Discover(l) ==
  /\ phase[l] = "start"
  /\ \E reached \in {"read", "unreachable", "untrusted"} :
       LET document == Document(issuer)
           why == DiscoveryRefused(document, IssuerURL, "loopback", IssuerID,
                    IF l \in expired THEN "unreachable" ELSE reached)
       IN IF why # None THEN Fail(l, why)
          ELSE IF Flow[l] = "browser"
          THEN IF document.s256 THEN Goto(l, "bind") ELSE Fail(l, "no_s256")
          ELSE IF document.device # None
               THEN Goto(l, "authorize_device") ELSE Fail(l, "no_device_grant")
  /\ UNCHANGED <<issuer, foreign, expired, channel, tabs, signIns, call,
                 interval, device, troubled>>

----------------------------------------------------------------------------
(* The browser flow.                                                        *)

Free(p) == p \notin foreign /\ \A l \in Logins : port[l] # p

\* The first free port, in the registered order.
BindLoopback(l) ==
  /\ phase[l] = "bind"
  /\ IF \E n \in DOMAIN PortOrder : Free(PortOrder[n])
     THEN /\ \E n \in DOMAIN PortOrder :
               /\ Free(PortOrder[n])
               /\ \A m \in 1..(n - 1) : ~Free(PortOrder[m])
               /\ port' = [port EXCEPT ![l] = PortOrder[n]]
          /\ phase' = [phase EXCEPT ![l] = "open"]
          /\ UNCHANGED outcome
     ELSE Fail(l, "no_port")
  /\ UNCHANGED <<issuer, foreign, expired, channel, tabs, signIns, call,
                 interval, device, troubled>>

\* The URL is printed whether or not a browser opened; a terminal it cannot be
\* printed on fails the login.
Open(l) ==
  /\ phase[l] = "open"
  /\ \/ Goto(l, "wait")
     \/ Fail(l, "not_printed")
  /\ UNCHANGED <<issuer, foreign, expired, channel, tabs, signIns, call,
                 interval, device, troubled>>

\* What the URL asks for.
AuthorizeRequest(l) ==
  [client |-> ClientOf[l], port |-> port[l], challenge |-> l, state |-> l,
   nonce |-> l, scopes |-> Requested(l), resource |-> ResourceOf[l]]

\* The user completes the sign-in the URL opens, and the issuer redirects.
SignIn(l) ==
  /\ phase[l] = "wait" /\ signIns[l] < MaxSignIns[l]
  /\ signIns' = [signIns EXCEPT ![l] = @ + 1]
  /\ LET authorized == HandleAuthorize(issuer, AuthorizeRequest(l))
     IN /\ issuer' = authorized.issuer
        /\ tabs' = tabs \cup ({authorized.answer} \ {None})
  /\ UNCHANGED <<foreign, phase, expired, port, channel, call, interval,
                 device, troubled, outcome>>

\* The user declines, or a provider redirects with neither code nor error.
Decline(l) ==
  /\ phase[l] = "wait" /\ signIns[l] < MaxSignIns[l]
  /\ signIns' = [signIns EXCEPT ![l] = @ + 1]
  /\ \E error \in {"access_denied", None} :
       tabs' = tabs \cup {[port |-> port[l], state |-> l, code |-> None,
                           error |-> error]}
  /\ UNCHANGED <<issuer, foreign, phase, expired, port, channel, call,
                 interval, device, troubled, outcome>>

(* Mutant: Page, taking any login's tab. *)
Page_AnyState(l, tab) ==
  IF tab.error # None THEN "refused"
  ELSE IF tab.code = None THEN "no_code" ELSE "signed_in"

\* The page the listener answers a tab with.
Page(l, tab) ==
  CASE tab.state # l -> "stray"
    [] tab.state = l /\ tab.error # None -> "refused"
    [] tab.state = l /\ tab.error = None ->
         IF tab.code = None THEN "no_code" ELSE "signed_in"

\* The first outcome is delivered and every later one dropped.
Finish(l, result) ==
  channel' = [channel EXCEPT ![l] = IF @ = None THEN result ELSE @]

\* A tab reaches the listener that holds its port now, whichever login that
\* is; the same tab may come again.
Callback(l, tab) ==
  /\ port[l] # None /\ port[l] = tab.port
  /\ LET page == Page(l, tab)
     IN CASE page = "refused" ->
               Finish(l, [error |-> IF tab.error = "invalid_target"
                                    THEN "target_rejected" ELSE "refused"])
          [] page = "signed_in" -> Finish(l, [code |-> tab.code])
          [] OTHER -> UNCHANGED channel
  /\ UNCHANGED <<issuer, foreign, phase, expired, port, tabs, signIns, call,
                 interval, device, troubled, outcome>>

\* The select of wait takes the result.
Wait(l) ==
  /\ phase[l] = "wait" /\ channel[l] # None
  /\ IF "code" \in DOMAIN channel[l]
     THEN /\ Goto(l, "exchange")
          /\ Send(l, [grant |-> "authorization_code", client |-> ClientOf[l],
                      code |-> channel[l].code, port |-> port[l],
                      verifier |-> l, resource |-> ResourceOf[l]])
     ELSE Fail(l, channel[l].error) /\ UNCHANGED call
  /\ UNCHANGED <<issuer, foreign, expired, channel, tabs, signIns, interval,
                 device, troubled>>

(* Mutant: GiveUp, the wait not selecting on its context. *)
GiveUp_WithResult(l) ==
  /\ phase[l] = "wait" /\ l \in expired /\ channel[l] # None
  /\ Fail(l, "not_completed")
  /\ UNCHANGED <<issuer, foreign, expired, channel, tabs, signIns, call,
                 interval, device, troubled>>

\* Or it takes the elapsed deadline, whether or not a result is there too.
GiveUp(l) ==
  /\ phase[l] = "wait" /\ l \in expired
  /\ Fail(l, "not_completed")
  /\ UNCHANGED <<issuer, foreign, expired, channel, tabs, signIns, call,
                 interval, device, troubled>>

----------------------------------------------------------------------------
(* The device flow.  The polling rule is the OAuth library's.               *)

DeviceAuth(l) ==
  /\ phase[l] = "authorize_device"
  /\ Goto(l, "device_asked")
  /\ Send(l, [grant |-> "device_authorization", client |-> ClientOf[l],
              scopes |-> Requested(l)])
  /\ UNCHANGED <<issuer, foreign, expired, channel, tabs, signIns, interval,
                 device, troubled>>

\* A polling interval the shell can act on.
UsableInterval(advertised) ==
  IF advertised <= 0 THEN 5
  ELSE IF advertised > 3600 THEN 3600 ELSE advertised

\* The instructions are printed, or could not be; polling begins.
Present(l) ==
  /\ phase[l] = "device_asked"
  /\ call[l].at = "shell"
  /\ LET a == call[l].answer
     IN IF ~a.ok THEN Fail(l, "not_started") /\ UNCHANGED <<device, interval>>
        ELSE /\ device' = [device EXCEPT ![l] = a.device]
             /\ interval' = [interval EXCEPT ![l] = UsableInterval(a.interval)]
             /\ \/ Goto(l, "poll")
                \/ Fail(l, "not_printed")
  /\ call' = [call EXCEPT ![l] = None]
  /\ UNCHANGED <<issuer, foreign, expired, channel, tabs, signIns, troubled>>

Poll(l) ==
  /\ phase[l] = "poll" /\ l \notin expired
  /\ Goto(l, "polled")
  /\ Send(l, [grant |-> "device_code", client |-> ClientOf[l],
              device |-> device[l]])
  /\ UNCHANGED <<issuer, foreign, expired, channel, tabs, signIns, interval,
                 device, troubled>>

\* What a refused poll means, the two waiting answers apart.
ApprovalFailed(error) ==
  CASE error = "access_denied" -> "declined"
    [] error = "expired_token" -> "window_closed"
    [] error = "lost" -> "lost_contact"
    [] OTHER -> "device_refused"

\* A waiting answer goes back to polling, five seconds slower when told to.
Polled(l) ==
  /\ phase[l] = "polled"
  /\ call[l].at = "shell"
  /\ LET a == call[l].answer
     IN /\ IF a.ok THEN Goto(l, "identify")
           ELSE IF a.error \in {"authorization_pending", "slow_down"}
           THEN Goto(l, "poll")
           ELSE Fail(l, ApprovalFailed(a.error))
        /\ interval' = IF ~a.ok /\ a.error = "slow_down"
                       THEN [interval EXCEPT ![l] = @ + 5] ELSE interval
        /\ call' = IF a.ok THEN call ELSE [call EXCEPT ![l] = None]
  /\ UNCHANGED <<issuer, foreign, expired, channel, tabs, signIns, device,
                 troubled>>

\* The code's own lifetime, or the login's deadline, ends the polling.
StopPolling(l) ==
  /\ phase[l] \in {"poll", "polled"} /\ l \in expired
  /\ Fail(l, "not_approved_in_time")
  /\ UNCHANGED <<issuer, foreign, expired, channel, tabs, signIns, call,
                 interval, device, troubled>>

----------------------------------------------------------------------------
(* The answer, and the session it makes.                                    *)

Exchanged(l) ==
  /\ phase[l] = "exchange"
  /\ call[l].at = "shell"
  /\ IF call[l].answer.ok THEN Goto(l, "identify")
     ELSE Fail(l, "exchange_refused")
  /\ UNCHANGED <<issuer, foreign, expired, channel, tabs, signIns, call,
                 interval, device, troubled>>

\* A request whose context is done returns, whatever becomes of it.
CallCancelled(l) ==
  /\ phase[l] \in {"exchange", "device_asked"} /\ l \in expired
  /\ Fail(l, IF phase[l] = "exchange" THEN "exchange_refused" ELSE "not_started")
  /\ UNCHANGED <<issuer, foreign, expired, channel, tabs, signIns, call,
                 interval, device, troubled>>

(* Mutant: NotIdentified, the nonce not compared. *)
NotIdentified_NoNonce(l, id, fetched) ==
  IF id = None THEN IF Flow[l] = "browser" THEN "no_identity_token" ELSE None
  ELSE IdentityRefused(id, Identifier(issuer), ClientOf[l],
                       IF fetched THEN KeySet(issuer) ELSE {})

\* Why the identity token of an answer is refused, or None.  A browser login
\* requires one, with the nonce of this login; a device login takes silence
\* but not a token that does not verify.
NotIdentified(l, id, fetched) ==
  IF id = None THEN IF Flow[l] = "browser" THEN "no_identity_token" ELSE None
  ELSE LET why == IdentityRefused(id, Identifier(issuer), ClientOf[l],
                                  IF fetched THEN KeySet(issuer)
                                  ELSE {[kty |-> None,
                                         certificate |-> "unparseable"]})
       IN IF why # None THEN why
          ELSE IF Flow[l] = "browser" /\ id.nonce # l THEN "other_request"
          ELSE None

\* The identity is verified and the session stored: a login that brought no
\* refresh token leaves none.
Identify(l) ==
  /\ phase[l] = "identify"
  /\ \E fetched \in (IF l \in expired THEN {FALSE} ELSE BOOLEAN) :
       LET a == call[l].answer
           why == NotIdentified(l, a.id, fetched)
       IN /\ IF why # None THEN Fail(l, why)
             ELSE IF a.refresh = None THEN Fail(l, "no_refresh_token")
             ELSE Return(l, [kind |-> "session", refresh |-> a.refresh,
                             access |-> a.access, id |-> a.id,
                             name |-> IF a.id = None THEN None
                                      ELSE DisplayName(a.id.claims)])
          /\ troubled' = IF fetched THEN troubled ELSE troubled \cup {l}
  /\ UNCHANGED <<issuer, foreign, expired, channel, tabs, signIns, call,
                 interval, device>>

----------------------------------------------------------------------------
(* The issuer, the network and the clock.                                   *)

\* The issuer handles a request, also one whose login has returned.
Serve(l) ==
  /\ call[l] # None /\ call[l].at = "issuer"
  /\ LET r == call[l].request
         served == IF r.grant = "device_authorization"
                   THEN HandleDeviceAuthorize(issuer, r)
                   ELSE HandleToken(issuer, None, r)
     IN /\ issuer' = served.issuer
        /\ call' = [call EXCEPT ![l] = Received(served.answer)]
  /\ UNCHANGED <<foreign, phase, expired, port, channel, tabs, signIns,
                 interval, device, troubled, outcome>>

\* The request never arrives, or its answer never does.
Lose(l) ==
  /\ call[l] # None /\ phase[l] \in {"exchange", "device_asked", "polled"}
  /\ call' = [call EXCEPT ![l] = Received([ok |-> FALSE, error |-> "lost"])]
  /\ troubled' = troubled \cup {l}
  /\ UNCHANGED <<issuer, foreign, phase, expired, port, channel, tabs,
                 signIns, interval, device, outcome>>

Deadline(l) ==
  /\ phase[l] # "returned" /\ l \notin expired
  /\ expired' = expired \cup {l}
  /\ UNCHANGED <<issuer, foreign, phase, port, channel, tabs, signIns, call,
                 interval, device, troubled, outcome>>

----------------------------------------------------------------------------

\* The steps of the shell itself.
Shell(l) ==
  \/ Discover(l) \/ BindLoopback(l) \/ Open(l) \/ Wait(l) \/ GiveUp(l)
  \/ DeviceAuth(l) \/ Present(l) \/ Poll(l) \/ Polled(l) \/ StopPolling(l)
  \/ Exchanged(l) \/ CallCancelled(l) \/ Identify(l)

Next ==
  \E l \in Logins :
    \/ Shell(l) \/ SignIn(l) \/ Decline(l) \/ Serve(l) \/ Lose(l)
    \/ Deadline(l)
    \/ \E tab \in tabs : Callback(l, tab)

Fairness == \A l \in Logins : WF_vars(Shell(l)) /\ WF_vars(Deadline(l))

Spec == Init /\ [][Next]_vars /\ Fairness

----------------------------------------------------------------------------
(* Properties.                                                              *)

Stored(l) == outcome[l] # None /\ outcome[l].kind = "session"

\* A session stored by a login is the one the user was asked for there: its
\* refresh token renews exactly the scopes and the resource this login asked
\* for, the identity beside it was minted for this login's client (and, in a
\* browser, for this very login), and no two logins hold one token, whatever
\* tabs were reloaded, mixed up or completed late.
SessionAsAsked ==
  \A l \in Logins : Stored(l) =>
    LET o == outcome[l]
        record == issuer.refreshTokens[o.refresh]
    IN /\ RefreshTokenLive(issuer, o.refresh)
       /\ record.scopes = Requested(l)
       /\ record.resource = (IF Flow[l] = "browser" THEN ResourceOf[l] ELSE None)
       /\ Flow[l] = "browser" => o.id # None /\ o.id.nonce = l
       /\ o.id # None => o.id.audience = ClientOf[l]
                         /\ o.id.issuer = Identifier(issuer)
       /\ \A k \in Logins \ {l} : Stored(k) => outcome[k].refresh # o.refresh

Ended(l, kinds) == outcome[l] # None /\ outcome[l].kind \in kinds

\* A login fails only for a cause of its own: a stray tab, a sign-in completed
\* twice or a certificate beside a usable key never costs a login that nothing
\* else was wrong with.
RefusedForCause ==
  \A l \in Logins :
    /\ Ended(l, {"exchange_refused", "not_started"}) =>
         l \in troubled \cup expired
    /\ Ended(l, {"keys_unreadable", "lost_contact"}) => l \in troubled
    /\ Ended(l, {"not_completed", "not_approved_in_time"}) => l \in expired
    /\ Ended(l, {"refused"}) => \E tab \in tabs :
         tab.state = l /\ tab.error = "access_denied"
    /\ Ended(l, {"target_rejected"}) =>
         \/ issuer.opts.requireResource /\ ResourceOf[l] = None
         \/ issuer.opts.registeredResource \notin {None, ResourceOf[l]}
    /\ Ended(l, {"other_request"}) => issuer.opts.omitNonce
    /\ Ended(l, {"other_application"}) => issuer.opts.deviceAudience # None
    /\ Ended(l, {"other_issuer"}) => issuer.opts.idTokenIssuer # None
    /\ ~Ended(l, {"not_signed", "device_refused", "no_identity_token"})

\* Every login returns, whether or not anybody comes back to it.
Returns == \A l \in Logins : <>(phase[l] = "returned")

=============================================================================
