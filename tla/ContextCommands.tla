---------------------------- MODULE ContextCommands ----------------------------
(***************************************************************************)
(* The commands that write the context document (wso2 context, login, org), *)
(* one after another: what each makes of the document on disk, which stored *)
(* sessions it ends, and what stays when one of its steps is refused.       *)
(* ContextChange interleaves them and sees the document only as a view;     *)
(* here a command is one step, and the document is whole: contexts resolved *)
(* from what is installed, migrated from what an earlier shell wrote.       *)
(***************************************************************************)
EXTENDS Descriptors, FiniteSets, Functions

CONSTANTS
  ContextNames,   \* in lexicographic order
  Numbered,       \* Numbered[name]: the references base, base-2, ... in order
  Suggested,      \* the namespace the shell suggests a login product from
  Documents,      \* what may be on disk to begin with
  CreateFlags,    \* what wso2 context create is given
  Places,         \* Places[ns]: where a person says a product runs
  Gateways,       \* and its gateway
  Audiences,      \* the audiences a person types
  Secrets,        \* and the variables holding a client secret
  Specs,          \* Specs[ns]: what wso2 context product add is given
  Files,          \* the files wso2 context apply is given
  Issuers,        \* the issuers a person types
  Clients,        \* the client IDs a person types
  Organizations,
  AssignedNames,  \* context-1, context-2, ...
  Stores,         \* what may be installed to begin with
  MaxCommands     \* bound: commands run one after another

VARIABLES
  disk,       \* the document as it is on disk, at its schema version
  sessions,   \* the secure store: from reference to what it was bound to
  installed,  \* from each namespace to the version installed, or None
  strays,     \* history: references a login stored and could not record
  setup,      \* the products a set-up has still to add, or NoSetup
  done,       \* what the last command reports
  commands

vars == <<disk, sessions, strays, installed, setup, done, commands>>

ASSUME CommandsAssumption ==
  /\ Suggested \in DOMAIN Published
  /\ \A d \in Documents : d.version \in 0..5

NoSetup == [name |-> None, products |-> << >>]
Report(command, names) ==
  [command |-> command, names |-> names, refused |-> None, product |-> None, next |-> None]

----------------------------------------------------------------------------
(* The document on disk.  Versions 2 and 3 keep accounts apart from the     *)
(* contexts that reference them; version 1 is read and never written.       *)

Current == 4
AccountsVersions == {2, 3}
LegacyVersion == 1
Absent == [version |-> 0, contexts |-> << >>, default |-> None]

FreeName(base, taken) ==
  Numbered[base][CHOOSE n \in DOMAIN Numbered[base] :
    /\ Numbered[base][n] \notin taken
    /\ \A m \in 1..(n - 1) : Numbered[base][m] \in taken]

AccountOf(d, name) == d.accounts[CHOOSE n \in DOMAIN d.accounts : d.accounts[n].name = name]

Users(d, account) ==
  {d.contexts[n].name : n \in {m \in DOMAIN d.contexts :
                                 d.contexts[m].account = account.name}}

FirstByName(users) ==
  ContextNames[CHOOSE n \in DOMAIN ContextNames :
    /\ ContextNames[n] \in users
    /\ \A m \in 1..(n - 1) : ContextNames[m] \notin users]

(* Mutant: Owner, whatever is selected. *)
Owner_First(d, account) == FirstByName(Users(d, account))

\* The context that keeps an account's sessions: the one selected, else the
\* first by name.
Owner(d, account) ==
  LET users == Users(d, account)
  IN IF d.default \in users THEN d.default ELSE FirstByName(users)

\* A context that carries all an account does, added to those so far.
Joined(acc, account, name, org, ref) ==
  [contexts |-> Append(acc.contexts, [account EXCEPT !.name = name, !.org = org, !.ref = ref]),
   claimed |-> acc.claimed \cup {ref},
   names |-> acc.names \cup {name}]

Reserved(d) == {d.accounts[n].ref : n \in DOMAIN d.accounts}

\* Each context takes its account's members; one of them keeps the reference
\* its sessions are under, and the others are free of every account's.
Convert(d, acc, c) ==
  LET account == AccountOf(d, c.account)
      own == \/ account.ref = None
             \/ Owner(d, account) = c.name /\ account.ref \notin acc.claimed
  IN Joined(acc, account, c.name, c.org,
            IF own THEN account.ref ELSE FreeName(c.name, Reserved(d) \cup acc.claimed))

\* An account no context used becomes a context.
Adopt(d, acc, account) ==
  LET name == FreeName(account.name, acc.names)
      own == account.ref = None \/ account.ref \notin acc.claimed
  IN IF Users(d, account) # {} THEN acc
     ELSE Joined(acc, account, name, None,
                 IF own THEN account.ref ELSE FreeName(name, Reserved(d) \cup acc.claimed))

Converted(d) ==
  LET none == [contexts |-> << >>, claimed |-> {},
               names |-> {d.contexts[n].name : n \in DOMAIN d.contexts}]
      upTo[n \in 0..Len(d.contexts)] ==
        IF n = 0 THEN none ELSE Convert(d, upTo[n - 1], d.contexts[n])
  IN upTo[Len(d.contexts)]

Adopted(d, converted) ==
  LET upTo[n \in 0..Len(d.accounts)] ==
        IF n = 0 THEN converted ELSE Adopt(d, upTo[n - 1], d.accounts[n])
  IN upTo[Len(d.accounts)]

Migrate(d) ==
  Freeze([version |-> Current, contexts |-> Adopted(d, Converted(d)).contexts,
          default |-> d.default])

\* What is read of the document on disk.
Read(d) == IF d.version \in AccountsVersions THEN Migrate(d) ELSE d
Loaded == Read(disk)

Readable == disk.version \in {0, LegacyVersion, Current} \cup AccountsVersions

\* A document of a schema this shell does not write is left as it is.
Writable == disk.version \in {0, Current} \cup AccountsVersions

Written(d) == [version |-> Current, contexts |-> Freeze(d).contexts, default |-> d.default]

SessionIDs(d) ==
  UNION {{<<a.ref, Binding(a)>> : a \in SessionsOf(d.contexts[n])} :
           n \in DOMAIN d.contexts}

ContextOf(d, name) == IF name \in Names(d) THEN Find(d, name) ELSE None

\* The context a command that names none runs on.
Target(name) == Select(Loaded, name)

----------------------------------------------------------------------------
(* How a command ends.                                                      *)

RefusedLeaving(report, code, store) ==
  /\ done' = [report EXCEPT !.refused = code, !.next = None]
  /\ sessions' = store /\ UNCHANGED disk

Refused(report, code) == RefusedLeaving(report, code, sessions)

\* contexts.Update: the document is written whole, or not at all.  store is the
\* secure store as the command leaves it.
UpdateLeaving(report, next, store) ==
  IF ~Writable THEN RefusedLeaving(report, "document_frozen", store)
  ELSE IF ~ValidDocument(Freeze(next))
  THEN RefusedLeaving(report, "document_malformed", store)
  ELSE \/ done' = report /\ disk' = Written(next) /\ sessions' = store
       \/ RefusedLeaving(report, "document_busy", store)

Update(report, next) == UpdateLeaving(report, next, sessions)

Keeping(store, refs) == [ref \in DOMAIN store \ refs |-> store[ref]]

(* Mutant: Ending, sessions ended only where nothing reaches them any more. *)
Ending_Unreachable(next) ==
  {a.ref : a \in SessionsUnreachedBy(Loaded, Freeze(next))}
    \ {id[1] : id \in SessionIDs(Freeze(next))}

\* The stored sessions a change leaves no context to reach as they were bound.
Ending(next) ==
  {a.ref : a \in SessionsUnreachedBy(Loaded, Freeze(next))} \cap DOMAIN sessions

\* planChange and writeChange: every session the change leaves behind is ended,
\* and only then is the document written.  What has been ended stays ended.
Change(report, next) ==
  IF ~Writable THEN Refused(report, "document_frozen")
  ELSE IF ~ValidDocument(Freeze(next)) THEN Refused(report, "invalid_argument")
  ELSE \E ending \in {Ending(next)} :
         \/ /\ done' = report /\ disk' = Written(next)
            /\ sessions' = Keeping(sessions, ending)
         \/ \E ended \in SUBSET ending :
              RefusedLeaving(report, "interrupted", Keeping(sessions, ended))

Runs == commands < MaxCommands /\ commands' = commands + 1

(* wso2 product, and the installs of a command that needs one: ModuleStore   *)
(* has how they go.                                                         *)
Newest(ns) == Len(Published[ns])

\* ensureInstalled: what becomes of the store, and why it could not be.
Ensured(ns, noInstall) ==
  IF installed[ns] # None THEN {[installed |-> installed, refused |-> None]}
  ELSE IF noInstall THEN {[installed |-> installed, refused |-> "product_not_installed"]}
  ELSE {[installed |-> [installed EXCEPT ![ns] = Newest(ns)], refused |-> None],
        [installed |-> installed, refused |-> "install_failed"]}

ModuleChanges ==
  /\ Runs
  /\ \E ns \in DOMAIN installed :
       \E version \in ({None} \cup DOMAIN Published[ns]) \ {installed[ns]} :
         installed' = [installed EXCEPT ![ns] = version]
  /\ done' = Report("product", {})
  /\ UNCHANGED <<disk, sessions, strays, setup>>

----------------------------------------------------------------------------
(* wso2 context: one context.                                               *)

\* The start of an invocation writes an earlier shell's document as it reads it.
Upgrade ==
  /\ disk.version \in AccountsVersions
  /\ Update(Report("upgrade", {}), Loaded)
  /\ UNCHANGED <<strays, installed, setup, commands>>

Use ==
  /\ Runs /\ Readable
  /\ \E name \in Names(Loaded) :
       Update(Report("use", {name}), [Loaded EXCEPT !.default = name])
  /\ UNCHANGED <<strays, installed, setup>>

Rename ==
  /\ Runs /\ Readable
  /\ \E name \in Names(Loaded), renamed \in Range(ContextNames) :
       LET report == Report("rename", {name, renamed})
           left == Without(Loaded, name)
           put == Put(left, [Find(Loaded, name) EXCEPT !.name = renamed])
       IN IF renamed \in Names(Loaded) THEN Refused(report, "context_exists")
          ELSE Update(report, IF Loaded.default = name
                              THEN [put EXCEPT !.default = renamed] ELSE put)
  /\ UNCHANGED <<strays, installed, setup>>

Delete ==
  /\ Runs /\ Readable
  /\ \E name \in Names(Loaded) :
       Change(Report("delete", {name}), Without(Loaded, name))
  /\ UNCHANGED <<strays, installed, setup>>

OrgUse ==
  /\ Runs /\ Readable /\ Loaded.contexts # << >>
  /\ \E org \in Organizations \cup {None} :
       LET c == Target(None)
       IN IF c = None THEN Refused(Report("org", {}), "no_context_selected")
          ELSE IF org # None /\ c.provider \in {"thunder", "identity-server"}
          THEN Refused(Report("org", {c.name}), "organization_switch_unsupported")
          ELSE Update(Report("org", {c.name}), Put(Loaded, [c EXCEPT !.org = org]))
  /\ UNCHANGED <<strays, installed, setup>>

\* The login product --url stands for when --login-product is not given.
DefaultLoginProduct(store) ==
  LET providers == {ns \in DOMAIN store : LoginProvider(Descriptor(store, ns))}
  IN IF providers = {} THEN Suggested
     ELSE IF Cardinality(providers) = 1 THEN CHOOSE ns \in providers : TRUE ELSE None

\* checkContextCreateFlags, of which of the flags go together.
FlagsRefused(flags) ==
  CASE {flags.product, flags.issuer} \cap {None} = {} -> "conflicting_arguments"
    [] flags.url # None /\ flags.product = None -> "missing_required_flag"
    [] flags.product # None /\ flags.url = None -> "missing_required_flag"
    [] {flags.product, flags.issuer} = {None} -> "missing_required_flag"
    [] flags.issuer # None /\ flags.client = None -> "missing_required_flag"
    [] flags.issuer # None /\ {flags.audience, flags.scopes} # {None} ->
         "conflicting_arguments"
    [] flags.issuerID # None /\ flags.issuer = None -> "conflicting_arguments"
    [] flags.device /\ flags.secret # None -> "conflicting_arguments"
    [] OTHER -> None

ProductURL(u) == u \in DOMAIN Served /\ Served[u] \in {"https", "loopback"}

NewContext(name) ==
  [name |-> name, type |-> None, org |-> None, kind |-> "oauth-browser",
   issuer |-> None, issuerID |-> None, client |-> None, tenant |-> None,
   provider |-> None, narrowing |-> None, secret |-> None, login |-> None,
   ref |-> None, products |-> << >>, synthetic |-> FALSE, credential |-> None]

NoFlags ==
  [product |-> None, url |-> None, issuer |-> None, issuerID |-> None, client |-> None,
   provider |-> None, audience |-> None, scopes |-> None, device |-> FALSE,
   secret |-> None, org |-> None, use |-> FALSE, noInstall |-> FALSE]

NewSpec(url) ==
  [url |-> url, audience |-> None, scopes |-> None, grant |-> None, client |-> None,
   id |-> None, secret |-> None, gateway |-> None, version |-> None]

\* The context the flags describe, before it has a reference.
Described(name, flags, store) ==
  LET kind == IF flags.device THEN "oauth-device"
              ELSE IF flags.secret # None THEN "client-credentials" ELSE "oauth-browser"
      login == [NewContext(name) EXCEPT !.kind = kind, !.client = flags.client,
                  !.provider = flags.provider, !.secret = flags.secret]
      through == ResolveLoginProduct(flags.product, Descriptor(store, flags.product),
                   [NewSpec(TrimRight(flags.url)) EXCEPT !.audience = flags.audience,
                     !.scopes = flags.scopes], login)
      Placed(c) == [c EXCEPT !.type = IdentityTypeForIssuer(c.issuer),
                             !.tenant = TenantForIssuer(c.issuer),
                             !.org = Or(flags.org, TenantForIssuer(c.issuer))]
  IN IF flags.product = None
     THEN IF Served[flags.issuer] \in {"unreadable", "userinfo"}
          THEN Refuse("invalid_argument")
          ELSE IF flags.provider = "thunder" THEN Refuse("conflicting_arguments")
          ELSE Give(Placed([login EXCEPT !.issuer = TrimRight(flags.issuer),
                                         !.issuerID = flags.issuerID]))
     ELSE IF through.refused # None THEN through
     ELSE Give([Placed(through.value.login) EXCEPT
                  !.products = OneProduct(flags.product, through.value.product)])

\* The reference a context's sessions are kept under: one of its own.
WithRef(d, c) ==
  IF c.kind = "client-credentials" THEN [c EXCEPT !.ref = None]
  ELSE [c EXCEPT !.ref = NewCredentialRef(d, Numbered[c.name])]

\* contextCreate, given what a needed install made of the store.
CreateFrom(name, flags, ensured, command) ==
  LET report == Report(command, {name})
      described == Described(name, flags, ensured.installed)
      put == Put(Loaded, WithRef(Loaded, described.value))
  IN CASE FlagsRefused(flags) # None -> Refused(report, FlagsRefused(flags))
       [] FlagsRefused(flags) = None /\ ~Writable -> Refused(report, "document_frozen")
       [] OTHER ->
            IF name \in Names(Loaded) THEN Refused(report, "context_exists")
            ELSE IF flags.product # None /\ ~ProductURL(flags.url)
            THEN Refused(report, "invalid_argument")
            ELSE IF ensured.refused # None THEN Refused(report, ensured.refused)
            ELSE IF described.refused # None THEN Refused(report, described.refused)
            ELSE Update(report, IF flags.use THEN [put EXCEPT !.default = name] ELSE put)

\* What creating a context may do to the store, before the document is written.
CreateInstalls(name, flags) ==
  IF /\ FlagsRefused(flags) = None /\ Writable /\ name \notin Names(Loaded)
     /\ flags.product # None /\ ProductURL(flags.url)
  THEN Ensured(flags.product, flags.noInstall)
  ELSE {[installed |-> installed, refused |-> None]}

Named(flags) ==
  IF flags.url # None /\ {flags.product, flags.issuer} = {None}
  THEN [flags EXCEPT !.product = DefaultLoginProduct(installed)] ELSE flags

Create ==
  /\ Runs /\ Readable
  /\ \E name \in Range(ContextNames), given \in CreateFlags :
       LET flags == Named(given)
       IN \E ensured \in CreateInstalls(name, flags) :
            /\ installed' = ensured.installed
            /\ CreateFrom(name, flags, ensured, "create")
  /\ UNCHANGED <<strays, setup>>

----------------------------------------------------------------------------
(* Its products.                                                            *)

(* Mutant: Advice, the product's own session not asked for. *)
Advice_LoginAlone(c, ns, store) ==
  IF c.kind = "client-credentials" THEN "help"
  ELSE IF LoginAccess(c).ref \notin DOMAIN store THEN "login" ELSE "reached"

\* productNext: what a person is told to do next, once the change is made.
Advice(c, ns, store) ==
  IF c.kind = "client-credentials" THEN "help"
  ELSE IF LoginAccess(c).ref \notin DOMAIN store THEN "login"
  ELSE IF Access(c, Key(ns)).strategy \in {"exchanged", "direct"} THEN "reached"
  ELSE "only"

\* The login stays where it is, whatever product is recorded beside it.
Added(c, ns, product) ==
  [FreezeContext(c) EXCEPT
     !.products = [n \in DOMAIN @ \cup {ns} |-> IF n = ns THEN product ELSE @[n]]]

AddTo(name, ns, spec, replace, ensured) ==
  LET c == ContextOf(Loaded, name)
      command == IF c # None /\ ns \in DOMAIN c.products THEN "replace" ELSE "add"
      report == Report(command, {name})
  IN CASE ensured.refused # None -> Refused(report, ensured.refused)
       [] ensured.refused = None /\ ~Writable -> Refused(report, "document_frozen")
       [] OTHER ->
            IF c = None THEN Refused(report, "unknown_context")
            ELSE IF command = "replace" /\ ~replace THEN Refused(report, "product_exists")
            ELSE \E product \in {ResolveProduct(ns, Descriptor(ensured.installed, ns),
                                                TrimURLs(spec), FreezeContext(c))} :
                 IF product.refused # None THEN Refused(report, product.refused)
                 ELSE \E added \in {Added(c, ns, product.value)} :
                      \E next \in {Put(Loaded, added)} :
                        Change([report EXCEPT !.product = ns, !.next =
                                  Advice(FreezeContext(added), ns,
                                         Keeping(sessions, Ending(next)))], next)

\* context product add: what its flags may state, and the context it acts on.
ProductAdd ==
  /\ Runs /\ Readable
  /\ \E ns \in DOMAIN Specs, replace, noInstall \in BOOLEAN :
       \E spec \in Specs[ns], name \in Names(Loaded) :
         \E ensured \in Ensured(ns, noInstall) :
           /\ installed' = ensured.installed
           /\ AddTo(name, ns, spec, replace, ensured)
  /\ UNCHANGED <<strays, setup>>

ProductRemove ==
  /\ Runs /\ Readable
  /\ \E name \in Names(Loaded) :
       LET c == FreezeContext(Find(Loaded, name))
       IN \E key \in RecordKeys(c) :
            IF c.kind # "client-credentials" /\ key = Key(c.login)
            THEN Refused(Report("remove", {name}), "login_product")
            ELSE Change(Report("remove", {name}), Put(Loaded, WithoutRecord(c, key)))
  /\ UNCHANGED <<strays, installed, setup>>

=============================================================================
