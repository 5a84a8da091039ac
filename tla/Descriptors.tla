------------------------------ MODULE Descriptors ------------------------------
(***************************************************************************)
(* What an installed product's descriptor says of reaching it, and how the  *)
(* shell fills a context's records in from it (internal/app's               *)
(* context_resolve.go and context_apply.go): resolved once, when a command  *)
(* records them, and never again.                                           *)
(*                                                                          *)
(* A descriptor is [provider, client, audience, default, scopes, path,      *)
(* grant, machine, gateway, invoked], the gateway [audience, scopes, machine]. *)
(* A spec is what a flag, or an input file, states of a product: [url,      *)
(* audience, scopes, grant, client, id, secret, gateway, version], with     *)
(* None for what it leaves out.  An operator that may refuse answers        *)
(* [refused, value].                                                        *)
(***************************************************************************)
EXTENDS Accounts

CONSTANTS Published,  \* Published[ns]: the descriptors of its releases, in order
          IssuerAt,   \* IssuerAt[u][path]: the issuer a product at u runs
          Hosted      \* from each issuer in a cloud WSO2 runs to its tenant

Refuse(code) == [refused |-> code, value |-> None]
Give(value) == [refused |-> None, value |-> value]

\* The receipt validation of a descriptor.
ValidDescriptor(d) ==
  /\ d.audience \in {"resource", "client"}
  /\ d.provider \in {None} \cup DOMAIN ProviderDerivation
  /\ d.grant \in {None} \cup LegalGrants
  /\ d.machine \subseteq {"inline", "credential"}
  /\ d.scopes = {} => d.grant = "exchange"
  /\ d.gateway # None => /\ d.gateway.audience \in {"resource", "client"}
                         /\ d.gateway.machine \subseteq {"inline"}
  /\ d.invoked => d.grant = "exchange"

ASSUME DescriptorsAssumption ==
  /\ DOMAIN Published = {NamespaceOrder[n] : n \in DOMAIN NamespaceOrder}
  /\ \A ns \in DOMAIN Published : \A n \in DOMAIN Published[ns] :
       Published[ns][n] = None \/ ValidDescriptor(Published[ns][n])
  /\ \A u \in DOMAIN IssuerAt : \A path \in DOMAIN IssuerAt[u] :
       /\ IssuerAt[u][path] \in DOMAIN Served
       /\ u \in DOMAIN Unslashed => IssuerAt[u][path] = IssuerAt[Unslashed[u]][path]

LoginProvider(d) == d # None /\ d.provider # None
AllowsMachine(d, strategy) == strategy \in d.machine
DescriptorIssuer(d, url) == IssuerAt[url][d.path]
AudienceFor(d, client) == IF d.audience = "client" THEN client ELSE d.default

\* The installed version's descriptor; a receipt may carry none.
Descriptor(installed, ns) ==
  IF installed[ns] = None THEN None ELSE Published[ns][installed[ns]]

IdentityTypeForIssuer(issuer) ==
  IF issuer \in DOMAIN Hosted THEN "cloud" ELSE "onprem"
TenantForIssuer(issuer) == IF issuer \in DOMAIN Hosted THEN Hosted[issuer] ELSE None

Or(value, fallback) == IF value = None THEN fallback ELSE value

\* spec and productURL: what is stated of a product is read without the slashes
\* its URL and its gateway's end in.
TrimURLs(p) ==
  [p EXCEPT !.url = TrimRight(@),
            !.gateway = IF p.gateway = None THEN None
                        ELSE [p.gateway EXCEPT !.url = TrimRight(@)]]

----------------------------------------------------------------------------
(* One product's record.                                                    *)

\* The gateway a product has, bound to its own resource: the context's client
\* only where access is not bound by resource, the URL only for an exchange.
ResolveGateway(d, spec, target, product) ==
  LET asked == spec.gateway
      audience ==
        CASE asked.audience # None -> asked.audience
          [] asked.audience = None /\ d.gateway.audience = "client"
             /\ Derivation(target) # "token-resource" -> target.client
          [] OTHER -> IF product.grant # None /\ product.grant.kind = "exchange"
                      THEN asked.url ELSE None
  IN CASE asked = None -> Give(product)
       [] asked # None /\ d.gateway = None -> Refuse("invalid_argument")
       [] asked # None /\ d.gateway # None
          /\ target.kind = "client-credentials" /\ "inline" \notin d.gateway.machine ->
            Refuse("product_not_configured")
       [] OTHER ->
            IF audience = None THEN Refuse("missing_required_flag")
            ELSE Give([product EXCEPT !.gateway =
                   [url |-> asked.url, audience |-> audience,
                    scopes |-> Or(asked.scopes, d.gateway.scopes)]])

\* A record exactly as stated: no installed product fills it in.
AsStated(spec) ==
  [url |-> spec.url, audience |-> spec.audience, scopes |-> Or(spec.scopes, {}),
   grant |-> spec.grant, id |-> spec.id, secret |-> spec.secret,
   gateway |-> IF spec.gateway = None THEN None
               ELSE [spec.gateway EXCEPT !.scopes = Or(@, {})]]

\* The grant a product is reached by when the spec states none.
DescribedGrant(d, spec) ==
  IF d.grant = "exchange"
  THEN [kind |-> "exchange", issuer |-> None, client |-> None, scopes |-> {},
        resource |-> None]
  ELSE [kind |-> d.grant, issuer |-> DescriptorIssuer(d, spec.url),
        client |-> Or(spec.client, d.client), scopes |-> {}, resource |-> None]

\* Why a product that is no login provider cannot be recorded, or None.
ProductRefused(d, spec, target) ==
  LET asked == IF spec.secret # None THEN "credential" ELSE "inline"
  IN CASE target.kind = "client-credentials" /\ ~AllowsMachine(d, asked) ->
            "product_not_configured"
       [] target.kind # "client-credentials" /\ {spec.secret, spec.id} # {None} ->
            "conflicting_arguments"
       [] spec.grant = None /\ d.grant = None -> "product_not_configured"
       [] spec.grant = None /\ d.grant \notin {None, "exchange"}
          /\ Or(spec.client, d.client) = None /\ spec.id = None ->
            "missing_required_flag"
       [] OTHER -> None

\* resolveProduct: a product added to a context that logs in already.
ResolveProduct(ns, d, spec, target) ==
  LET stated == [AsStated(spec) EXCEPT !.scopes = Or(spec.scopes, d.scopes),
                                       !.gateway = None]
      grant == Or(spec.grant, DescribedGrant(d, spec))
      audience == Or(Or(spec.audience, AudienceFor(d, spec.client)),
                     IF grant.kind = "exchange" THEN spec.url ELSE None)
  IN CASE d = None -> Give(AsStated(spec))
       [] LoginProvider(d) /\ DescriptorIssuer(d, spec.url) # target.issuer ->
            Refuse("conflicting_arguments")
       [] LoginProvider(d) /\ DescriptorIssuer(d, spec.url) = target.issuer ->
            ResolveGateway(d, spec, target,
              [stated EXCEPT !.audience = Or(@, AudienceFor(d, target.client))])
       [] ~LoginProvider(d) /\ d # None ->
            IF ProductRefused(d, spec, target) # None
            THEN Refuse(ProductRefused(d, spec, target))
            ELSE ResolveGateway(d, spec, target,
                   [stated EXCEPT !.grant = grant, !.audience = audience])

\* resolveLoginProduct: the login of a context through a product, and the
\* product's own record.  login holds the login members of a context.
ResolveLoginProduct(ns, d, spec, login) ==
  LET client == Or(login.client, d.client)
      named == [login EXCEPT
                  !.login = ns, !.client = client,
                  !.issuer = IF @ = None THEN DescriptorIssuer(d, spec.url) ELSE @,
                  !.provider = IF @ = None /\ login.narrowing = None
                               THEN d.provider ELSE @]
      product == [AsStated(spec) EXCEPT
                    !.audience = Or(@, AudienceFor(d, client)),
                    !.scopes = Or(spec.scopes, d.scopes),
                    !.grant = None, !.id = None, !.secret = None, !.gateway = None]
  IN IF ~LoginProvider(d) THEN Refuse("invalid_argument")
     ELSE CASE client = None -> Refuse("missing_required_flag")
            [] client # None /\ login.kind = "client-credentials"
               /\ ~AllowsMachine(d, "inline") -> Refuse("product_not_configured")
            [] OTHER -> IF product.audience = None THEN Refuse("missing_required_flag")
                        ELSE Give([login |-> named, product |-> product])

----------------------------------------------------------------------------
(* An input file's context: login members as a context's, where kind, type, *)
(* tenant and issuer may be None, and its products a function to specs.     *)

OneProduct(ns, product) == [n \in {ns} |-> product]

ValidInputURL(u) == u \in DOMAIN Served /\ Served[u] \in {"https", "loopback"}

\* decodeInputFile, of what a file may be wrong about here.
ValidInput(c) ==
  /\ \A ns \in DOMAIN c.products :
       /\ ValidInputURL(c.products[ns].url)
       /\ c.products[ns].gateway # None => ValidInputURL(c.products[ns].gateway.url)
  /\ IF c.login # None THEN c.login \in DOMAIN c.products
     ELSE c.issuer # None /\ c.client # None
  /\ c.issuer # None => Served[c.issuer] \notin {"unreadable", "userinfo"}

ValidFile(file) ==
  /\ file # << >>
  /\ \A m, n \in DOMAIN file : m # n => file[m].name # file[n].name
  /\ \A n \in DOMAIN file : ValidInput(file[n])

\* The login product, without which no other can be resolved.
ResolveInputLogin(d, c, login) ==
  LET spec == TrimURLs(c.products[c.login])
      direct == ResolveLoginProduct(c.login, d, spec, login)
  IN IF d = None
     THEN IF c.issuer = None \/ c.client = None THEN Refuse("input_malformed")
          ELSE Give([login |-> login, product |-> AsStated(spec)])
     ELSE IF direct.refused # None THEN direct
     ELSE LET gateway == ResolveGateway(d, spec, direct.value.login, direct.value.product)
          IN IF gateway.refused # None THEN gateway
             ELSE Give([direct.value EXCEPT !.product = gateway.value])

\* inputContext.resolve: the whole context, filled in from what is installed.
ResolveOthers(installed, c, target) ==
  [ns \in DOMAIN c.products \ {c.login} |->
     ResolveProduct(ns, Descriptor(installed, ns), TrimURLs(c.products[ns]), target)]

Assembled(c, through, target, others) ==
  LET refused == {ns \in DOMAIN others : others[ns].refused # None}
  IN IF refused # {} THEN others[CHOOSE ns \in refused : TRUE]
     ELSE Give(FreezeContext([target EXCEPT !.products =
            [ns \in DOMAIN c.products |->
               IF ns = c.login THEN through.value.product ELSE others[ns].value]]))

ResolveFor(installed, c, through, target) ==
  Assembled(c, through, target, ResolveOthers(installed, c, target))

\* What the login decides is stated before the other products are resolved.
ResolveThrough(installed, c, through) ==
  IF through.refused # None THEN through
  ELSE ResolveFor(installed, c, through,
         [through.value.login EXCEPT
            !.tenant = Or(@, TenantForIssuer(through.value.login.issuer)),
            !.type = Or(@, IdentityTypeForIssuer(through.value.login.issuer)),
            !.products = << >>])

Resolve(installed, c) ==
  LET kind == IF c.secret # None THEN "client-credentials" ELSE "oauth-browser"
      login == [c EXCEPT !.kind = Or(@, kind)]
  IN ResolveThrough(installed, c,
       IF c.login = None THEN Give([login |-> login])
       ELSE ResolveInputLogin(Descriptor(installed, c.login), c, login))

\* An empty list of scopes is left out of the file, like any member with no value.
Stated(scopes) == IF scopes = {} THEN None ELSE scopes

\* What export states of one product, and of a context: everything but its
\* credential reference.
StatedProduct(p) ==
  [url |-> p.url, audience |-> p.audience, scopes |-> Stated(p.scopes), grant |-> p.grant,
   client |-> None, id |-> p.id, secret |-> p.secret, version |-> None,
   gateway |-> IF p.gateway = None THEN None ELSE [p.gateway EXCEPT !.scopes = Stated(@)]]

Exported(c) ==
  LET frozen == FreezeContext(c)
  IN [frozen EXCEPT !.ref = None,
                    !.products = [ns \in DOMAIN @ |-> StatedProduct(@[ns])]]

(* Mutant: Drifted, the grant left out. *)
Drifted_ScopesOnly(installed, c, ns) ==
  LET d == Descriptor(installed, ns)
  IN d # None /\ d.scopes # {} /\ c.products[ns].scopes # d.scopes

\* productDrift: what context show notes, of a record the installed product's
\* descriptor would no longer produce.
Drifted(installed, c, ns) ==
  LET d == Descriptor(installed, ns)
      recorded == IF Direct(c.products[ns]) THEN None ELSE c.products[ns].grant.kind
  IN d # None /\ \/ ns # c.login /\ d.grant # None /\ recorded # d.grant
                 \/ d.scopes # {} /\ c.products[ns].scopes # d.scopes

=============================================================================
