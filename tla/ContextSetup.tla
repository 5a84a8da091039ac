----------------------------- MODULE ContextSetup -----------------------------
(***************************************************************************)
(* The rest of what writes contexts: a file applied, the document edited by *)
(* hand, logins and logouts, and the questions wso2 context create asks at  *)
(* a terminal, whose products are added one after another once the context  *)
(* exists.  Next is any of these commands and of ContextCommands', from any *)
(* number of terminals, each command whole.                                 *)
(***************************************************************************)
EXTENDS ContextCommands

----------------------------------------------------------------------------
(* wso2 context apply.                                                      *)

Listed(file) == UNION {DOMAIN file[n].products : n \in DOMAIN file}

\* The version the first context that lists a product pins.
Pinned(file, ns) ==
  LET n == CHOOSE k \in DOMAIN file :
             /\ ns \in DOMAIN file[k].products
             /\ \A m \in 1..(k - 1) : ns \notin DOMAIN file[m].products
  IN file[n].products[ns].version

\* planInstalls, of a file.
Missing(file) == {ns \in Listed(file) : installed[ns] = None}
Mismatched(file) ==
  {ns \in Listed(file) \ Missing(file) : Pinned(file, ns) \notin {None, installed[ns]}}

\* What a command that installs these may leave: all of them, or those before
\* one that failed.
AfterInstalling(file, needs) ==
  LET With(some) == [ns \in DOMAIN installed |->
                       IF ns \in some THEN Or(Pinned(file, ns), Newest(ns)) ELSE installed[ns]]
  IN {[installed |-> With(needs), refused |-> None]} \cup
     {[installed |-> With(some), refused |-> "install_failed"] :
        some \in SUBSET needs \ {needs}}

\* A context the document declares keeps its reference; another gets its own.
Placed(d, c) ==
  LET kept == IF c.name \in Names(d) THEN Find(d, c.name).ref ELSE None
  IN Put(d, IF c.kind = "client-credentials" \/ kept = None THEN WithRef(d, c)
            ELSE [c EXCEPT !.ref = kept])

Applied(d, resolved) ==
  LET upTo[n \in 0..Len(resolved)] ==
        IF n = 0 THEN d ELSE Placed(upTo[n - 1], resolved[n])
  IN upTo[Len(resolved)]

ApplyFrom(file, use, ensured) ==
  LET report == Report("apply", {file[n].name : n \in DOMAIN file})
  IN IF ensured.refused # None THEN Refused(report, ensured.refused)
     ELSE \E resolved \in {[n \in DOMAIN file |-> Resolve(ensured.installed, file[n])]} :
          LET refused == {n \in DOMAIN file : resolved[n].refused # None}
          IN IF refused # {} THEN Refused(report, resolved[CHOOSE n \in refused : TRUE].refused)
             ELSE \E applied \in {Applied(Loaded, [n \in DOMAIN file |-> resolved[n].value])} :
                    Change(report, IF use = None THEN applied
                                   ELSE [applied EXCEPT !.default = use])

Apply ==
  /\ Runs /\ Readable
  /\ \E file \in Files, noInstall, updateProducts \in BOOLEAN :
       \E use \in {None} \cup {file[n].name : n \in DOMAIN file} :
         LET needs == (IF noInstall THEN {} ELSE Missing(file)) \cup
                      (IF updateProducts THEN Mismatched(file) ELSE {})
             stopped == IF ~ValidFile(file) THEN "input_malformed" ELSE "document_frozen"
         IN IF ~ValidFile(file) \/ ~Writable
            THEN UNCHANGED installed /\ Refused(Report("apply", {}), stopped)
            ELSE \E ensured \in AfterInstalling(file, needs) :
                   /\ installed' = ensured.installed
                   /\ ApplyFrom(file, use, ensured)
  /\ UNCHANGED <<strays, setup>>

----------------------------------------------------------------------------
(* wso2 context edit: whatever a person makes of the document, as long as   *)
(* it decodes and is valid.                                                 *)

Reissued(d, n, issuer) == [d EXCEPT !.contexts[n].issuer = issuer]
Emptied(d, n) == [d EXCEPT !.contexts[n].products = << >>, !.contexts[n].login = None]
Swapped(d, m, n) ==
  [d EXCEPT !.contexts[m].ref = d.contexts[n].ref, !.contexts[n].ref = d.contexts[m].ref]

EditsOf(d) ==
  {Reissued(d, n, issuer) : n \in DOMAIN d.contexts, issuer \in Issuers} \cup
  {Swapped(d, m, n) : m, n \in DOMAIN d.contexts} \cup
  {Emptied(d, n) : n \in DOMAIN d.contexts}

Edit ==
  /\ Runs /\ Readable
  /\ LET report == Report("edit", Names(Loaded))
     IN IF ~Writable THEN Refused(report, "document_frozen")
        ELSE \E edited \in EditsOf(Loaded) :
               IF edited = Loaded THEN done' = report /\ UNCHANGED <<disk, sessions>>
               ELSE Change(report, edited)
  /\ UNCHANGED <<strays, installed, setup>>

----------------------------------------------------------------------------
(* wso2 login and logout.                                                   *)

\* A deployment that binds a login to a product needs one it can be bound to.
LoginBinds(c) ==
  \/ Derivation(c) # "token-resource" \/ DOMAIN c.products = {}
  \/ LoginNamespace(c) # None

\* loginAccesses: what a login of everything, of the login alone, or of one
\* recorded product and its gateway establishes.
LoginAccesses(c) ==
  (IF LoginBinds(c) THEN {Accesses(c), {LoginAccess(c)}} ELSE {}) \cup
  {{a \in {Access(c, k) : k \in {key, GatewayKey(key[1])} \cap RecordKeys(c)} :
      a.strategy # "exchanged"} : key \in RecordKeys(c)}

\* checkDerivedResource: an assertion session nothing binds is not begun.
Unbound(c, access) ==
  access.strategy = "derived" /\ access.resource = None
  /\ Derivation(c) = "token-resource"

\* What a login may get to before it is refused, or done: the login's own
\* session before any product's.
Establishable(c, accesses) ==
  {some \in SUBSET {a \in accesses : SecureURL(a.issuer) /\ ~Unbound(c, a)} :
     LoginAccess(c) \in accesses /\ some # {} => LoginAccess(c) \in some}

\* Each session is stored with what it was asked for.
Established(store, accesses) ==
  LET refs == {a.ref : a \in accesses}
  IN [ref \in refs \cup DOMAIN store |->
        IF ref \in refs THEN Binding(CHOOSE a \in accesses : a.ref = ref) ELSE store[ref]]

LogIn ==
  /\ Runs /\ Readable
  /\ \E name \in Names(Loaded) :
       LET c == Find(Loaded, name)
           report == Report("login", {name})
       IN IF c.kind \notin InteractiveKinds \/ c.synthetic
          THEN Refused(report, "kind_unsupported") /\ UNCHANGED strays
          ELSE \/ /\ ~LoginBinds(c)
                  /\ Refused(report, "product_not_configured") /\ UNCHANGED strays
               \/ \E accesses \in LoginAccesses(c) : \E some \in Establishable(c, accesses) :
                    /\ sessions' = Established(sessions, some)
                    /\ done' = IF some = accesses THEN report
                               ELSE [report EXCEPT !.refused = "login_failed"]
                    /\ strays' = strays \ {a.ref : a \in some}
                    /\ UNCHANGED disk
  /\ UNCHANGED <<installed, setup>>

\* loginIdentityName: the context an issuer and client are for, when no name
\* is given: one that logs in there already, else a new one.  AssignedNames
\* bounds the new ones.
LoginName(issuer, client) ==
  LET there == {n \in DOMAIN Loaded.contexts :
                  /\ Loaded.contexts[n].issuer = issuer
                  /\ Loaded.contexts[n].client = client
                  /\ Loaded.contexts[n].kind = "oauth-browser"}
      free == {n \in DOMAIN AssignedNames : AssignedNames[n] \notin Names(Loaded)}
      First(s) == {n \in s : \A m \in s : n <= m}
  IN IF there # {} THEN {Loaded.contexts[n].name : n \in First(there)}
     ELSE {AssignedNames[n] : n \in First(free)}

\* planLogin: the context declared under the name, or one with no products.
PlannedLogin(name, issuer, client) ==
  IF name \in Names(Loaded) THEN Find(Loaded, name)
  ELSE [NewContext(name) EXCEPT
          !.issuer = issuer, !.client = client, !.type = IdentityTypeForIssuer(issuer),
          !.tenant = TenantForIssuer(issuer), !.org = TenantForIssuer(issuer),
          !.ref = NewCredentialRef(Loaded, Numbered[name])]

\* The sessions are stored first, and the context is recorded after them: one
\* that cannot be recorded leaves a session no context is known to own.
LogInCreating ==
  /\ Runs /\ Readable
  /\ \E issuer \in Issuers, client \in Clients, given \in {None} \cup Range(ContextNames) :
       \E name \in IF given = None THEN LoginName(issuer, client) ELSE {given} :
       \E c \in {PlannedLogin(name, issuer, client)} :
         LET report == Report("login-creating", {name})
             default == IF Loaded.default = None THEN name ELSE Loaded.default
         IN \/ /\ Served[issuer] \in {"unreadable", "userinfo"}
               /\ Refused(report, "invalid_argument") /\ UNCHANGED strays
            \/ /\ Served[issuer] \notin {"unreadable", "userinfo"}
               /\ <<c.issuer, c.client>> # <<issuer, client>>
               /\ Refused(report, "context_exists") /\ UNCHANGED strays
            \/ /\ Served[issuer] \notin {"unreadable", "userinfo"}
               /\ <<c.issuer, c.client>> = <<issuer, client>>
               /\ IF ~Writable THEN Refused(report, "document_frozen") /\ UNCHANGED strays
                  ELSE IF c.kind \notin InteractiveKinds
                  THEN Refused(report, "kind_unsupported") /\ UNCHANGED strays
                  ELSE IF ~LoginBinds(c)
                  THEN Refused(report, "product_not_configured") /\ UNCHANGED strays
                  ELSE \/ \E some \in Establishable(c, Accesses(c)) \ {Accesses(c)} :
                            /\ RefusedLeaving(report, "login_failed", Established(sessions, some))
                            /\ UNCHANGED strays
                       \/ /\ Accesses(c) \in Establishable(c, Accesses(c))
                          /\ UpdateLeaving(report, [Put(Loaded, c) EXCEPT !.default = default],
                                           Established(sessions, Accesses(c)))
                          /\ strays' = IF done'.refused # None /\ name \notin Names(Loaded)
                                       THEN strays \cup {LoginRef(c)} ELSE strays \ {LoginRef(c)}
  /\ UNCHANGED <<installed, setup>>

\* Every session of the context, or those before one that could not be ended.
Logout ==
  /\ Runs /\ Readable
  /\ \E name \in Names(Loaded) :
       LET c == Find(Loaded, name)
           report == Report("logout", {name})
           refs == {a.ref : a \in SessionsOf(c)} \cap DOMAIN sessions
       IN IF c.kind \notin InteractiveKinds \cup {"client-credentials"} \/ c.synthetic
          THEN Refused(report, "kind_unsupported")
          ELSE \/ done' = report /\ sessions' = Keeping(sessions, refs) /\ UNCHANGED disk
               \/ \E ended \in SUBSET refs \ {refs} :
                    RefusedLeaving(report, "interrupted", Keeping(sessions, ended))
  /\ UNCHANGED <<strays, installed, setup>>

----------------------------------------------------------------------------
(* The questions wso2 context create asks at a terminal when it is given no *)
(* way to log in, and wso2 login when there is no context to log in to.     *)

\* The products a context could reach: installed, described, and not themselves
\* what a context logs in through.
Reachable(store) ==
  {ns \in DOMAIN store : Descriptor(store, ns) # None /\ ~LoginProvider(Descriptor(store, ns))}

\* The product a Thunder login goes through.
ThunderProduct(store) ==
  LET thunder == {n \in DOMAIN NamespaceOrder :
                    LET d == Descriptor(store, NamespaceOrder[n])
                    IN d # None /\ d.provider = "thunder"}
  IN IF thunder = {} THEN Suggested
     ELSE NamespaceOrder[CHOOSE n \in thunder : \A m \in thunder : n <= m]

\* askSignIn: the browser, a device code or a machine client, of those the
\* login product allows.
SignIns(d) ==
  {[device |-> FALSE, secret |-> None]} \cup
  (IF d # None /\ d.provider = "thunder" THEN {} ELSE {[device |-> TRUE, secret |-> None]}) \cup
  {[device |-> FALSE, secret |-> v] :
     v \in IF d = None \/ AllowsMachine(d, "inline") THEN Secrets ELSE {}}

\* askURL: asked again until it is a product's.
Typed(ns) == {u \in Places[ns] : ProductURL(u)}

\* askThunderLogin: what the descriptor leaves out is asked.
ThunderAnswer(ns, u, c, a, how, use) ==
  [NoFlags EXCEPT !.product = ns, !.url = u, !.client = c, !.audience = a,
                  !.device = how.device, !.secret = how.secret, !.use = use]

ThunderAnswers(ns, d) ==
  UNION {{ThunderAnswer(ns, u, c, a, how, use) :
            u \in Typed(ns), how \in SignIns(d), use \in BOOLEAN,
            a \in IF AudienceFor(d, Or(c, d.client)) = None THEN Audiences ELSE {None}} :
          c \in IF d.client = None THEN Clients ELSE {None}}

\* askIssuerLogin, of an Asgardeo organization.
IssuerAnswer(i, c, how, use) ==
  [NoFlags EXCEPT !.issuer = i, !.client = c, !.provider = "asgardeo",
                  !.device = how.device, !.secret = how.secret, !.use = use]

IssuerAnswers ==
  {IssuerAnswer(i, c, how, use) :
     i \in {j \in Issuers : ProductURL(j)}, c \in Clients, how \in SignIns(None), use \in BOOLEAN}

\* askProduct: where a product runs, and the client its deployment registered
\* where it is not reached by an exchange.
ProductAnswer(u, c, g) ==
  [NewSpec(u) EXCEPT !.client = c,
     !.gateway = IF g = None THEN None ELSE [url |-> g, audience |-> None, scopes |-> None]]

ProductAnswers(ns, d) ==
  {ProductAnswer(u, c, g) :
     u \in Typed(ns),
     c \in IF d.client = None /\ d.grant \notin {None, "exchange"} THEN Clients ELSE {None},
     g \in {None} \cup (IF d.gateway = None THEN {} ELSE Gateways)}

\* What is asked of the products picked, each once.
ProductsAsked(store) ==
  UNION {{specs \in [some -> UNION {ProductAnswers(ns, Descriptor(store, ns)) : ns \in some}] :
            \A ns \in some : specs[ns] \in ProductAnswers(ns, Descriptor(store, ns))} :
          some \in SUBSET Reachable(store)}

\* setUpContext: the context is created as answered, and the products picked are
\* still to be added.
SetUpAs(name, flags, store) ==
  \E specs \in ProductsAsked(store) :
    /\ CreateFrom(name, flags, [installed |-> store, refused |-> None], "setup")
    /\ setup' = IF done'.refused # None \/ DOMAIN specs = {} THEN NoSetup
                ELSE [name |-> name, products |-> specs]

SetUpIssuer ==
  /\ Runs /\ Readable /\ Writable /\ setup = NoSetup
  /\ \E name \in Range(ContextNames) \ Names(Loaded), flags \in IssuerAnswers :
       SetUpAs(name, flags, installed)
  /\ UNCHANGED <<strays, installed>>

SetUpThunder ==
  /\ Runs /\ Readable /\ Writable /\ setup = NoSetup
  /\ LET ns == ThunderProduct(installed)
     IN \E name \in Range(ContextNames) \ Names(Loaded), ensured \in Ensured(ns, FALSE) :
          LET d == Descriptor(ensured.installed, ns)
          IN /\ installed' = ensured.installed
             /\ IF ensured.refused # None \/ ~LoginProvider(d)
                THEN /\ Refused(Report("setup", {name}), Or(ensured.refused, "invalid_argument"))
                     /\ UNCHANGED setup
                ELSE \E flags \in ThunderAnswers(ns, d) : SetUpAs(name, flags, ensured.installed)
  /\ UNCHANGED strays

\* Its products, one after another, up to the first that is refused.
SetUpAdd ==
  /\ setup # NoSetup
  /\ \E ns \in DOMAIN setup.products : \E ensured \in Ensured(ns, FALSE) :
       /\ installed' = ensured.installed
       /\ AddTo(setup.name, ns, setup.products[ns], FALSE, ensured)
       /\ setup' = IF done'.refused # None \/ DOMAIN setup.products = {ns} THEN NoSetup
                   ELSE [setup EXCEPT !.products = [n \in DOMAIN @ \ {ns} |-> @[n]]]
  /\ UNCHANGED <<strays, commands>>

----------------------------------------------------------------------------
(* What the program is given, and what is on disk when it begins.           *)

ContextMembers ==
  {"name", "type", "org", "kind", "issuer", "issuerID", "client", "tenant", "provider",
   "narrowing", "secret", "login", "ref", "products", "synthetic", "credential"}

Holding(r, members) == r = [m \in members |-> r[m]]
IsSequence(s) == s \in Seq({s[n] : n \in DOMAIN s})

\* A string, or none; and what the members of a grant and a gateway hold.
Text == STRING \cup {None}
Scopes == SUBSET STRING
Gateway(scopes) == [url : STRING, audience : Text, scopes : scopes]
Grant == [kind : LegalGrants, issuer : Text, client : Text, scopes : Scopes, resource : Text]

\* A product as a command records it, and as one is stated to it.
RecordedProduct(p) ==
  /\ Holding(p, {"url", "audience", "scopes", "grant", "id", "secret", "gateway"})
  /\ p.scopes # None
  /\ p.gateway # None => p.gateway \in Gateway(Scopes) /\ p.gateway.scopes # None

Stateable(spec) ==
  /\ Holding(spec, DOMAIN NewSpec(None))
  /\ spec.gateway \in {None} \cup Gateway({None} \cup Scopes)

\* What may be installed: of each product a version it was released in, or none.
Inventory(store) ==
  /\ DOMAIN store = DOMAIN Published
  /\ \A ns \in DOMAIN store : store[ns] \in {None} \cup DOMAIN Published[ns]

\* A context as a command records it; one of version 1 is not recorded again.
Recorded(c) ==
  /\ Holding(c, ContextMembers)
  /\ c.ref \in Text /\ c.client \in Text /\ c.synthetic = FALSE
  /\ Holding(c.products, DOMAIN c.products) /\ DOMAIN c.products \subseteq DOMAIN Published
  /\ \A ns \in DOMAIN c.products : RecordedProduct(c.products[ns])

\* The names a context may come to have.
Nameable ==
  Range(ContextNames) \cup Range(AssignedNames)
    \cup (UNION {{file[n].name : n \in DOMAIN file} : file \in Files})
    \cup (UNION {Names(Read(d)) : d \in Documents})

\* A document the shell reads as it writes it.
Shaped(d) ==
  /\ {"contexts", "default"} \subseteq DOMAIN d
  /\ IsSequence(d.contexts)
  /\ \A n \in DOMAIN d.contexts : Recorded(d.contexts[n]) /\ d.contexts[n].name \in Nameable

Sound(d) == Shaped(d) /\ ValidDocument(d)

\* A document of accounts, each with a reference of its own.
SoundAccounts(d) ==
  /\ IsSequence(d.contexts) /\ IsSequence(d.accounts)
  /\ \A n \in DOMAIN d.accounts : Recorded(d.accounts[n]) /\ ValidAccount(d.accounts[n])
  /\ \A m, n \in DOMAIN d.accounts :
       m # n => /\ d.accounts[m].name # d.accounts[n].name
                /\ d.accounts[m].ref # None => d.accounts[m].ref # d.accounts[n].ref
  /\ \A n \in DOMAIN d.contexts :
       /\ d.contexts[n].name \in Range(ContextNames)
       /\ \E m \in DOMAIN d.accounts : d.accounts[m].name = d.contexts[n].account
  /\ \A m, n \in DOMAIN d.contexts : m # n => d.contexts[m].name # d.contexts[n].name
  /\ d.default # None => d.default \in Names(d)

\* The codes a command is refused with.
Codes ==
  {"conflicting_arguments", "context_exists", "document_busy", "document_frozen",
   "document_malformed", "input_malformed", "install_failed", "interrupted",
   "invalid_argument", "kind_unsupported", "login_failed", "login_product",
   "missing_required_flag", "no_context_selected", "organization_switch_unsupported",
   "product_exists", "product_not_configured", "product_not_installed", "unknown_context"}

\* A missing value is unlike a name, a code, a kind, a type, a piece of advice, a
\* reference, a set of scopes, a grant or a gateway, whatever these are made of.
Words == STRING \cup {"gateway", None}
ASSUME NoneAssumption ==
  /\ None \notin STRING \cup Codes \cup LegalKinds \cup {"cloud", "onprem"} \cup Seq(Words)
                   \cup {"help", "login", "only", "reached"}
  /\ None # {} /\ None \notin Grant /\ None \notin Gateway({None} \cup Scopes)

ASSUME DocumentsAssumption ==
  \A d \in Documents :
    /\ d.version \in {0, Current} => Sound(d)
    /\ d.version \in AccountsVersions => SoundAccounts(d)
    /\ d.version = LegacyVersion => \A n \in DOMAIN d.contexts : d.contexts[n].synthetic

\* The numbers of a base do not run out.
ASSUME NumberedAssumption ==
  /\ IsFiniteSet(Nameable) /\ Nameable \subseteq DOMAIN Numbered
  /\ \A base \in DOMAIN Numbered :
       /\ Numbered[base] \in Seq(STRING)
       /\ \A m, n \in DOMAIN Numbered[base] : Numbered[base][m] = Numbered[base][n] => m = n
       /\ Len(Numbered[base]) > Cardinality(Nameable)
  /\ \A d \in Documents : d.version \in AccountsVersions =>
       /\ \A n \in DOMAIN d.accounts :
            Users(d, d.accounts[n]) = {} => d.accounts[n].name \in DOMAIN Numbered
       /\ \A base \in DOMAIN Numbered :
            Len(Numbered[base]) > Len(d.contexts) + 2 * Len(d.accounts)

\* What is installed, stated and typed of a product is of one there is, and runs
\* an issuer wherever it is.
ASSUME InputsAssumption ==
  /\ DOMAIN Published \subseteq STRING
  /\ \A ns \in DOMAIN Published : IsSequence(Published[ns]) /\ Published[ns] # << >>
  /\ \A ns \in DOMAIN Published : \A n \in DOMAIN Published[ns] :
       LET d == Published[ns][n]
       IN d # None => /\ d.client \in Text /\ d.scopes # None
                      /\ d.gateway # None => d.gateway.scopes \in Scopes \ {None}
                      /\ \A u \in DOMAIN Served : IssuerAt[u][d.path] \in STRING
  /\ DOMAIN Served \subseteq STRING
  /\ IsSequence(NamespaceOrder) /\ IsSequence(ContextNames)
  /\ \A store \in Stores : Inventory(store)
  /\ \A flags \in CreateFlags :
       /\ Holding(flags, DOMAIN NoFlags)
       /\ flags.product \in {None} \cup DOMAIN Published
       /\ flags.client \in Text
  /\ Clients \subseteq STRING /\ Gateways \subseteq STRING
  /\ DOMAIN Specs \subseteq DOMAIN Published
  /\ \A ns \in DOMAIN Specs : \A spec \in Specs[ns] : Stateable(spec)
  /\ \A file \in Files :
       /\ IsSequence(file)
       /\ \A n \in DOMAIN file :
            /\ Holding(file[n], ContextMembers) /\ file[n].synthetic = FALSE
            /\ file[n].client \in Text
            /\ DOMAIN file[n].products \subseteq DOMAIN Published
            /\ \A ns \in DOMAIN file[n].products :
                 /\ Stateable(file[n].products[ns])
                 /\ file[n].products[ns].version \in {None} \cup DOMAIN Published[ns]

\* What an earlier command stored of a document's sessions.
StoredFor(d) ==
  LET held == IF d.version \in AccountsVersions THEN d.accounts ELSE d.contexts
  IN Established(<< >>, UNION {SessionsOf(held[n]) : n \in DOMAIN held})

Init ==
  /\ disk \in Documents
  /\ sessions \in {<< >>, StoredFor(disk)}
  /\ installed \in Stores
  /\ strays = {} /\ setup = NoSetup /\ commands = 0
  /\ done = Report("none", {})

Next ==
  \/ ModuleChanges \/ Upgrade
  \/ Use \/ Rename \/ Delete \/ OrgUse \/ Create \/ ProductAdd \/ ProductRemove
  \/ Apply \/ Edit \/ LogIn \/ LogInCreating \/ Logout
  \/ SetUpIssuer \/ SetUpThunder \/ SetUpAdd

Spec == Init /\ [][Next]_vars

----------------------------------------------------------------------------
(* Properties.                                                              *)

Uninstalled == [ns \in DOMAIN installed |-> None]

\* No command, however it ends, leaves a session in the secure store that no
\* context reaches for what it was bound to: not one whose record changed, nor
\* one of an account that was migrated.  The exception is a login that could
\* not record the context it was for.
SessionsReached ==
  Readable =>
    \A ref \in DOMAIN sessions \ strays : <<ref, sessions[ref]>> \in SessionIDs(Loaded)

\* A migrated document selects a context that has the sessions it had: the
\* account's own reference, when another context shares the account.
MigrationKeepsSelected ==
  disk.version \in AccountsVersions /\ disk.default # None =>
    LET was == disk.contexts[CHOOSE n \in DOMAIN disk.contexts :
                               disk.contexts[n].name = disk.default]
    IN Find(Loaded, disk.default).ref = AccountOf(disk, was.account).ref

\* What one step leaves alone: the contexts it does not name, their sessions,
\* and the selection of one of them.
SparesOthers ==
  \A before \in {Loaded}, after \in {Read(disk')} :
    \A name \in Names(before) \ done'.names :
      LET c == FreezeContext(Find(before, name))
      IN /\ name \in Names(after) /\ FreezeContext(Find(after, name)) = c
         /\ \A a \in SessionsOf(c) : a.ref \in DOMAIN sessions =>
              a.ref \in DOMAIN sessions' /\ sessions'[a.ref] = sessions[a.ref]
         /\ before.default = name => after.default \in {name} \cup done'.names

\* A command leaves the contexts it does not name as they were, with their
\* sessions, and never moves the selection away from one of them.
OnlyWhatItNames == [][SparesOthers]_vars

\* A person told that the login session already reaches a product is told so
\* of a session bound as reaching the product needs.
NextStepHolds ==
  done.next = "reached" =>
    LET c == Find(Loaded, CHOOSE name \in done.names : TRUE)
        access == Access(c, Key(done.product))
        used == IF access.strategy = "exchanged" THEN LoginAccess(c) ELSE access
    IN used.ref \notin strays =>
         used.ref \in DOMAIN sessions /\ sessions[used.ref] = Binding(used)

\* An exported file, applied where no product is installed, comes to the records
\* it was taken from.  Two things a person may have written in the document do
\* not come back as they were: slashes a product's or a gateway's URL ends in are
\* trimmed, and a tenant edited out of a context is filled in again.  The schema
\* also lets a context hold a token nothing logs in with, and no file states that
\* one.
ExportAppliesAlike ==
  Readable /\ disk.version # LegacyVersion =>
    \A n \in DOMAIN Loaded.contexts :
      LET c == FreezeContext(Loaded.contexts[n])
      IN c.kind # "pat" =>
           Resolve(Uninstalled, Exported(c)) =
             Give([c EXCEPT !.ref = None, !.tenant = Or(@, TenantForIssuer(c.issuer)),
                            !.products = [ns \in DOMAIN @ |-> TrimURLs(@[ns])]])

\* A document put in another form says what it said: migrated it selects a
\* context that has the sessions it had, and exported it applies as the contexts
\* it held, but for the slashes their URLs end in.
RewrittenAlike == MigrationKeepsSelected /\ ExportAppliesAlike

\* A record context show has no note about is one that adding the product again
\* would not ask other scopes for, nor reach by another grant unless the product
\* has become one to log in through: an update that changes either is told.
DriftTold ==
  Readable /\ disk.version # LegacyVersion =>
    \A n \in DOMAIN Loaded.contexts :
      LET c == FreezeContext(Loaded.contexts[n])
      IN \A ns \in DOMAIN c.products \ {c.login} :
           LET d == Descriptor(installed, ns)
               record == c.products[ns]
               again == ResolveProduct(ns, d, NewSpec(record.url), c)
           IN d # None /\ ~Drifted(installed, c, ns) /\ again.refused = None =>
                /\ d.scopes # {} => again.value.scopes = record.scopes
                /\ ~LoginProvider(d) => /\ ~Direct(record) /\ ~Direct(again.value)
                                        /\ again.value.grant.kind = record.grant.kind

=============================================================================
