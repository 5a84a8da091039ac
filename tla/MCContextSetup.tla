--------------------------- MODULE MCContextSetup ---------------------------
(* Three products: one a context logs in through, one it reaches by exchange *)
(* with a gateway, whose first release carries no descriptor, and one with   *)
(* an authorization server of its own.                                       *)
EXTENDS ContextSetup, TLC

IdP == "https://idp"
IdP2 == "https://idp2"
Api == "https://api"
Gw == "https://gw"
Portal == "https://portal"
PortalIdP == "https://portal/as"
Plain == "http://idp"
ApiSlash == "https://api/"
GwSlash == "https://gw/"

MCOrder == <<"apim", "iam", "portal">>
MCServed == [u \in {IdP, IdP2, Api, Gw, Portal, PortalIdP, Plain, ApiSlash, GwSlash} |->
               IF u = Plain THEN "plaintext" ELSE "https"]
MCUnslashed == [u \in {ApiSlash, GwSlash} |-> IF u = ApiSlash THEN Api ELSE Gw]
MCAbsolute == {"mcp", "aud", Api, Gw}
MCIssuerAt == [u \in DOMAIN MCServed |->
                 [path \in {"", "/as"} |->
                    IF u = Portal THEN PortalIdP
                    ELSE IF u \in DOMAIN MCUnslashed THEN MCUnslashed[u] ELSE u]]
MCHosted == [u \in {IdP2} |-> "acme"]

Base == [provider |-> None, client |-> None, audience |-> "resource", default |-> None,
         scopes |-> {}, path |-> "", grant |-> None, machine |-> {}, gateway |-> None,
         invoked |-> FALSE]
Login1 == [Base EXCEPT !.provider = "thunder", !.client = "cli", !.default = "mcp",
                       !.scopes = {"system"}, !.machine = {"inline"}]
Login2 == [Login1 EXCEPT !.client = None, !.default = None]
Exchange == [Base EXCEPT !.grant = "exchange", !.machine = {"credential"}, !.invoked = TRUE,
               !.gateway = [audience |-> "resource", scopes |-> {}, machine |-> {}]]
Exchange2 == [Exchange EXCEPT !.scopes = {"view"}]
Federated == [Base EXCEPT !.grant = "federated", !.path = "/as", !.scopes = {"read"},
                          !.audience = "client", !.machine = {"credential"}]
MCPublished == [ns \in {"apim", "iam", "portal"} |->
  CASE ns = "apim" -> <<None, Exchange, Exchange2>>
    [] ns = "iam" -> <<Login1, Login2>>
    [] ns = "portal" -> <<Federated>>]

MCNames == <<"ci", "dev", "stage">>
MCAssigned == <<"context-1", "context-2">>
MCNumbered == [base \in {"ci", "dev", "stage", "spare", "context-1", "context-2"} |->
                 <<base, base \o "-2", base \o "-3", base \o "-4", base \o "-5",
                   base \o "-6", base \o "-7">>]

Record(url, audience, scopes) ==
  [url |-> url, audience |-> audience, scopes |-> scopes, grant |-> None, id |-> None,
   secret |-> None, gateway |-> None]
ByExchange == [kind |-> "exchange", issuer |-> None, client |-> None, scopes |-> {},
               resource |-> None]
Through(name, ref) ==
  [NewContext(name) EXCEPT
     !.issuer = IdP, !.client = "cli", !.provider = "thunder", !.login = "iam",
     !.type = "onprem", !.ref = ref, !.products = ("iam" :> Record(IdP, "mcp", {"system"}))]
AlsoReaching(c) ==
  [c EXCEPT !.products = @ @@ ("apim" :> [Record(Api, Api, {}) EXCEPT !.grant = ByExchange,
     !.gateway = [url |-> GwSlash, audience |-> Gw, scopes |-> {}]])]
Beside(c) == [c EXCEPT !.products = @ @@ ("apim" :> Record(ApiSlash, "aud", {}))]
Issued(name, ref) ==
  [NewContext(name) EXCEPT !.issuer = IdP2, !.client = "cli", !.type = "cloud",
     !.tenant = "acme", !.org = "acme", !.ref = ref]

Using(name, account) == [name |-> name, org |-> None, account |-> account]

Now == [version |-> 4, default |-> "dev",
        contexts |-> <<AlsoReaching(Through("dev", "dev")), Issued("stage", "ci")>>]
Shared == [version |-> 3, default |-> "stage",
           contexts |-> <<Using("dev", "shared"), Using("stage", "shared")>>,
           accounts |-> <<Beside(Through("shared", "stage")), Issued("spare", "dev")>>]
Old == [version |-> 1, default |-> "dev",
        contexts |-> <<[NewContext("dev") EXCEPT !.kind = "development-credential",
                          !.synthetic = TRUE, !.org = "org", !.credential = "VAR",
                          !.type = "cloud"]>>]
Newer == [version |-> 5, default |-> None, contexts |-> << >>]
MCDocuments == {Absent, Now, Shared, Old, Newer}

MCFlags == {
  [NoFlags EXCEPT !.url = IdP],
  [NoFlags EXCEPT !.product = "iam", !.url = IdP2, !.client = "own", !.audience = "aud",
                  !.scopes = {}, !.use = TRUE, !.noInstall = TRUE],
  [NoFlags EXCEPT !.issuer = Plain, !.client = "cli"],
  [NoFlags EXCEPT !.issuer = IdP2, !.client = "cli", !.secret = "VAR"],
  [NoFlags EXCEPT !.issuer = IdP, !.url = IdP]}

MCSpecs == [ns \in {"apim", "iam", "portal"} |->
  CASE ns = "apim" -> {NewSpec(Api), [NewSpec(Api) EXCEPT !.audience = "aud"],
                       [NewSpec(Api) EXCEPT !.gateway =
                          [url |-> Gw, audience |-> None, scopes |-> None]]}
    [] ns = "iam" -> {NewSpec(IdP2)}
    [] ns = "portal" -> {[NewSpec(Portal) EXCEPT !.client = "pcli"],
                         [NewSpec(Portal) EXCEPT !.client = "pcli", !.secret = "PVAR"]}]

Short(name, url) ==
  [NewContext(name) EXCEPT !.kind = None, !.login = "iam", !.products = ("iam" :> NewSpec(url))]
MCFiles == {
  <<[Short("dev", IdP) EXCEPT !.products =
       @ @@ ("apim" :> [NewSpec(ApiSlash) EXCEPT !.version = 2])]>>,
  <<Short("stage", IdP2), [NewContext("ci") EXCEPT !.kind = None, !.issuer = IdP2,
                             !.client = "ci", !.secret = "VAR"]>>,
  <<[Short("dev", IdP) EXCEPT !.login = "apim"]>>}

MCPlaces == [ns \in {"apim", "iam", "portal"} |->
  CASE ns = "apim" -> {Api} [] ns = "iam" -> {IdP, Plain} [] ns = "portal" -> {Portal}]
MCStores == {[ns \in {"apim", "iam", "portal"} |-> None],
             [ns \in {"apim", "iam", "portal"} |-> 1]}
=============================================================================
