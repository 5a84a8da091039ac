------------------------------ MODULE MCBroker ------------------------------
EXTENDS Broker

CONSTANTS apim, iam

MCOrder == <<apim, iam>>
IdP == "http://idp"
AM == "https://am"
AM2 == "https://am2"
MCServed == [u \in {IdP, AM, AM2} |-> IF u = IdP THEN "loopback" ELSE "https"]
MCUnslashed == << >>

Own(audience, scopes) ==
  [url |-> AM, audience |-> audience, scopes |-> scopes, grant |-> None,
   gateway |-> None, id |-> None, secret |-> None]

Granted(kind, issuer, client, scopes, resource) ==
  [kind |-> kind, issuer |-> issuer, client |-> client, scopes |-> scopes,
   resource |-> resource]

Base == [name |-> "dev", type |-> "onprem", org |-> None, kind |-> "oauth-browser",
         issuer |-> IdP, issuerID |-> None, client |-> "cli", tenant |-> None,
         provider |-> None, narrowing |-> None, secret |-> None, login |-> None,
         ref |-> "dev", products |-> << >>, synthetic |-> FALSE, credential |-> None]

Products(p, q) == [ns \in {apim, iam} |-> IF ns = apim THEN p ELSE q]
Thunder(c) == [c EXCEPT !.provider = "thunder"]

\* Two direct products: with one session, with one each, bound by resource.
Shared == [Base EXCEPT !.login = iam,
  !.products = Products(Own("app", {"read"}), Own("app", {"read"}))]
Apart == [Base EXCEPT !.login = iam,
  !.products = Products(Own("app", {"read", "write"}), Own("app", {"admin"}))]
Bound == Thunder([Base EXCEPT !.login = iam,
  !.products = Products([Own("apim", {"read"}) EXCEPT !.gateway =
                           [url |-> AM, audience |-> "gw", scopes |-> {"call"}]],
                        Own("iam", {"read"}))])
Single == Thunder([Base EXCEPT !.login = apim,
  !.products = [ns \in {apim} |-> Own("apim", {"read"})]])
Device == [Apart EXCEPT !.kind = "oauth-device"]
Derived(issuer) == [Base EXCEPT !.login = iam,
  !.products = Products([Own("app", {"read"}) EXCEPT !.grant =
                  Granted("jwt-bearer", issuer, "cli", {"groups"}, None)],
                        Own("app", {"admin"}))]
Federated(issuer) == [Base EXCEPT !.login = iam,
  !.products = Products([Own("app", {"read"}) EXCEPT !.grant =
                  Granted("federated", issuer, "am-cli", {}, None)],
                        Own("app", {"admin"}))]
Exchanged == Thunder([Base EXCEPT !.login = iam,
  !.products = Products([Own("apim", {"read"}) EXCEPT !.grant =
                  Granted("exchange", None, None, {}, None), !.gateway =
                  [url |-> AM, audience |-> "gw", scopes |-> {"call"}]],
                        Own("iam", {"read"}))])
Machine == [Base EXCEPT !.kind = "client-credentials", !.ref = None,
  !.secret = "SECRET",
  !.products = Products(Own("app", {"read"}), Own("app", {"admin"}))]
OwnMachine == [Machine EXCEPT !.products = Products(
  [Own("app", {"read"}) EXCEPT !.grant = Granted("federated", AM, "am-cli", {}, None),
                               !.secret = "AM_SECRET", !.id = "AM_ID"],
  Own("app", {"admin"}))]
Token == [Base EXCEPT !.kind = "pat"]
Elsewhere == [Apart EXCEPT !.org = "other"]
Development == [Base EXCEPT !.kind = "development-credential", !.issuer = None,
  !.client = None, !.ref = None, !.synthetic = TRUE, !.org = "org",
  !.credential = "SECRET"]
Named == [Apart EXCEPT !.issuerID = "urn:idp"]
Scopeless == [Base EXCEPT !.login = iam,
  !.products = Products(Own("app", {}), Own("app", {"admin"}))]
Misfederated == [Base EXCEPT !.login = iam,
  !.products = Products([Own("app", {"read"}) EXCEPT !.grant =
                  Granted("federated", AM, "am-cli", {}, "gw")],
                        Own("app", {"admin"}))]

Opts == D!DefaultOptions
Deploy(idp, am) == [u \in {IdP, AM} |-> IF u = IdP THEN idp ELSE am]
AMOpts == [Opts EXCEPT !.audience = "app", !.bearerAlias = "cli"]
Scoped == [Opts EXCEPT !.audience = "app", !.rotate = TRUE]

\* Deployments that cooperate with a context, and that do not.
Narrowing == Deploy(Scoped, AMOpts)
Resourced == Deploy([Opts EXCEPT !.requireResource = TRUE, !.exchangeGrant = TRUE,
                                !.omitScopeField = TRUE, !.rotate = TRUE], AMOpts)
Wide == Deploy([Scoped EXCEPT !.refreshMode = "ignore", !.clientMode = "ignore",
                              !.clientScopes = {"admin"}],
               [AMOpts EXCEPT !.bearerMode = "default", !.refreshMode = "reject"])
Refusing == Deploy([Scoped EXCEPT !.refreshMode = "reject", !.clientMode = "reject"],
                   [AMOpts EXCEPT !.bearerMode = "refuse", !.clientSecret = "new",
                                  !.omitRefreshToken = TRUE])
Misbound == Deploy([Opts EXCEPT !.exchangeGrant = TRUE, !.exchangeAudience = "other",
                                !.identifier = "urn:idp", !.audience = "wide"], AMOpts)
Untrusting == Deploy([Opts EXCEPT !.exchangeGrant = TRUE, !.exchangeAudience = "other",
                                  !.audience = "app", !.omitDevice = TRUE],
                     [AMOpts EXCEPT !.bearerMode = "refuse"])

World(deployment, c, next) ==
  [deployment |-> deployment, context |-> c, later |-> next,
   upgraded |-> c \in {Apart, Bound}]

MCWorlds ==
  {World(Narrowing, c, c) : c \in {Shared, Machine, OwnMachine, Token, Elsewhere,
                                   Derived(AM), Development, Exchanged,
                                   [Development EXCEPT !.org = None]}}
  \cup {World(Narrowing, Shared, Apart), World(Narrowing, Apart, Shared),
        World(Narrowing, Apart, Federated(AM)), World(Narrowing, Device, None),
        World(Narrowing, Federated(AM), Derived(AM)),
        World(Resourced, Bound, Exchanged), World(Resourced, Exchanged, Bound),
        World(Resourced, Device, Device),
        World(Misbound, Named, Apart), World(Misbound, Bound, Bound),
        World(Untrusting, Derived(AM), Exchanged), World(Untrusting, Device, Device)}
  \cup {World(Narrowing, Scopeless, Scopeless), World(Narrowing, Misfederated, Misfederated),
        World(Resourced, [Single EXCEPT !.kind = "oauth-device"], Single)}
  \cup {World(d, c, c) : d \in {Wide, Refusing},
          c \in {Apart, Machine, OwnMachine, Derived(AM), Federated(AM)}}

MCReceipts ==
  {[audiences |-> {"apim"}, scopes |-> {"read"}, gateway |-> {"inline"},
    invocation |-> TRUE],
   [audiences |-> {"apim"}, scopes |-> {}, gateway |-> None, invocation |-> FALSE]}

Ask(record, scopes, resource) ==
  [record |-> record, audience |-> "apim", scopes |-> scopes, resource |-> resource]

MCRequests ==
  {Ask("own", {}, None), Ask("own", {"read"}, None), Ask("own", {"admin"}, None),
   Ask("gateway", {}, None), Ask("api", {}, "https://api"), Ask("api", {}, "iam"),
   [Ask("own", {}, None) EXCEPT !.audience = "iam"], Ask("own", {}, "https://api"),
   Ask("vault", {}, None)}

MCAbsolute == {"apim", "gw", "iam", "https://api"}
MCEnvironment == [v \in {"SECRET", "AM_SECRET", "AM_ID"} |-> "value"]
=============================================================================
