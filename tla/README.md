# A verification of the WSO2 CLI

The WSO2 CLI (`wso2`, `ws`) is a small shell that installs products as separate
executables, keeps a person's contexts and login sessions, and hands a product
it launches the access its context allows. This directory holds TLA+ models of
the parts of it where several invocations, crashes, an issuer, a release host
and the operating system meet, the TLC runs that check them on small instances,
and TLAPS proofs that hold for every instance.

Source paths below are relative to the repository root; `internal/` stands for
`src/internal/` in `PROJECT.json`, which maps each definition to its lines.

## 1. The system

Nothing of the shell stays running: every command is a process, and what two of
them share is on disk, in the OS keyring, at the issuer or in the catalog.

| Part | State it keeps | Operations | Talks to |
|---|---|---|---|
| lock file (`lockfile`) | an empty file, the kernel's lock on it | `With` | everything below that read-modify-writes |
| session store (`auth/session`) | a keyring entry per credential reference and two side entries (access and identity token) | `Load`, `Save`, `Delete`, `Stored`, `WithLock` | the keyring, the lock file |
| session broker: sources (`auth/source*.go`, `tokenrequest.go`) | none of its own | mint access: refresh, rotate, narrow, exchange, re-authorize | session store, issuer |
| broker policy (`auth/auth.go`, `auth/narrowing.go`) | counters of one invocation | which product, scopes and grants a module may ask for | context document, sources |
| browser and device login (`auth/oauthflow`) | a loopback port and a flow of its own | authorize, wait, exchange, poll, verify | issuer |
| discovery and trust (`auth/oidcdiscovery`, `issuertrust`, `trustedhttp`) | none | fetch the issuer's document and keys | issuer |
| identity provider (`auth/fakeissuer`, the one the tests run against) | codes, tokens and what each is worth | authorize, token, device, discovery, keys | |
| logout (`app/logout.go`) | none of its own | revoke, delete | issuer, session store |
| context document (`contexts`) | `contexts.yaml`: contexts, each with a login, products and a credential reference | `Load`, `Update`, `Upgrade`, migration | lock file |
| context commands, wizard (`app/context*.go`, `app/org.go`, `app/login*.go`) | a plan in memory | create, use, edit, apply, export, delete, rename, product add and remove, org use, login | context document, session store, module store |
| module store (`install`, `modules`) | `<namespace>/<version>/` with executable and receipt, `policy.json`, `active.json` | install, pin, update, remove, list, resolve | filesystem, catalog |
| module RPC (`rpc`, `sdk`) | one connection per invocation, an answer deadline | handshake, invoke, access requests, result, stop | the module process, the broker |
| catalog, versions (`catalog`, `semver`, `release`) | the index and one history per namespace | gate, generate, verify, select | git tags, releases, Pages |
| release workflows (`.github/workflows`, `cmd/*`) | drafts, releases, the queue for the deployment | tag, gate, upload, publish, assemble, deploy | the release host |
| command line (`app/command.go`, `app/module.go`, `app/productargs.go`, `sdk/cobratree`) | none | route, check flags, forward, redirect, help | module store, module RPC |
| preferences, output, completion, doctor, whoami | `preferences.yaml` | save; rendering | all of the above |

What is hard here, and what the properties are for:

* **Rotation.** An issuer that rotates refresh tokens revokes the whole family
  when a spent one is presented. Two invocations minting from one session, a
  crash between the issuer's answer and the keyring write, and a lost answer all
  threaten the login (ADR 0007).
* **A store that cannot be listed.** The keyring answers for a name and cannot
  enumerate. An entry whose record is gone is never found again, so every order
  of writes is chosen for what a failure in the middle leaves (ADR 0016).
* **Plans made outside a lock.** Ending a session and logging in are network
  calls, and the document lock admits none. What was planned is stale when it is
  written, unless something checks.
* **No lock at all.** The module store relies on renames and on writing the
  pointer last (`docs/architecture.md`).
* **Deadlines.** A waiter must outlast a slow holder and give up on a stuck one;
  a login's callback may arrive as its deadline passes, late, or twice.
* **Several documents of one site.** The index, a history and an archive are
  fetched one after another, and a deployment may fall between any two.
* **Several readers of one line.** The shell, the module's flag set and Cobra
  each read a command line, and what they make of it has to agree.

For each component, what makes it correct:

* lock file: one caller runs at a time; busy means overtaken or really stuck,
  never merely slow; every call returns;
* session store and sources: the stored refresh token is the live one; a refresh
  token is presented only where it was obtained; nothing readable is left that no
  logout can reach; a logout ends what it read;
* broker policy: what a module is handed is what its context records, whichever
  source served it; a denial has a cause and costs no session;
* login: the session stored is the one asked for; a login fails for a cause of
  its own, and returns;
* context document and commands: no session outlives or contradicts its record;
  no invocation's change is silently replaced; a newer document is left alone; a
  command touches the contexts it names; another form of a document means the same;
* module store: what the pointer names can be launched; a failed install leaves
  no trace; only what was activated is let through to a launch;
* module RPC: one result or one refusal per invocation, in bounded time, whatever
  the module does; time spent in the broker, which may wait for a person, is not
  the module's;
* catalog and updates: everything released is eventually listed and stays so;
  products move forward, and only when somebody agreed;
* command line: a line means one thing, to every reader and in every spelling.

## 2. Modules

| Module | Models | Checked by |
|---|---|---|
| `AdvisoryLock` | what a lock promises its callers, and nothing else | refined by `LockFile` and by `SessionRotation` |
| `LockFile` | `lockfile.With`: open, poll, take, deadline, close, crashes, a path that may be replaced | `lock_file` |
| `SessionRotation` | the session store, the sources that use a stored session, login and logout over one credential reference, and a rotating issuer | `session`, `session_bindings` |
| `Issuer` | the identity provider: one operator per endpoint and grant | with `Login` and `Broker` |
| `Discovery` | transports, the issuer's document, its key set | with `Login` and `Broker` |
| `Login` | browser and device login against an `Issuer` | `login` |
| `Accounts` | a context record, when a document is valid, which accesses a context has | with the next four |
| `Broker` | `Acquire`'s policy, and every source against `Issuer` | `product` |
| `Descriptors` | a context filled in from what products declare | with `ContextSetup` |
| `ContextCommands`, `ContextSetup` | every command that writes the document, as one step over the whole document; migration, files, wizard | `documents` |
| `ContextChange` | the same commands taken apart, two at once, the document a view | `context` |
| `ModuleStore` | one namespace directory: install, pin, update, remove, resolve | `store`, `store_republished`, `store_reinstall` |
| `Versions`, `Catalog` | version order and ranges; the gate, the generated index and history, selection | with `Releases` and `Updates` |
| `Releases` | from a tag to a deployed site, several at once | `catalog` |
| `Updates` | the product commands against a site that is being deployed; extends `Releases` | `catalog` |
| `ProductLine`, `CommandLine` | one line read by shell, flag set and Cobra; from a typed line to what runs; extends `Updates` | `catalog` |
| `AnswerDeadline` | the timer of a module's answer, paused while the broker is asked and resumed | with `ModuleRpc`, which extends it |
| `ModuleRpc` | one product command over two pipes: session, launcher, broker, and a module built on the SDK or any other program | `rpc` |
| `*Proofs` | the theorems of the components | the prover |
| `MC*` | values of the constants and symmetry sets | |

Two components are modelled twice, at two sizes of step, because their hazards
are at two sizes. `SessionRotation` takes one locked section of one session apart
and knows little of what a token carries; `Broker` takes the section as one step
and knows what every token is bound to. `ContextChange` interleaves the commands
and sees a document as bindings; `ContextSetup` runs them whole and has the
document itself. `ModuleStore` has every filesystem call of an install, `Updates`
has every request that decides on one.

### LockFile

`path` is the inode the name points at and `fd` what each caller has open, so a
file removed and created again while somebody waits is another inode with
another lock. `waited`, `held` and `Tick` give time; `Deadline` is
`session.lockDeadline` and `MaxHold` the longest section (`grantDeadline`),
whose relation the code's comment fixes. `LockFile` implements `AdvisoryLock`
(`IsAdvisoryLock`); `SessionRotation` and `ContextChange` then treat the lock as
one variable, `holder`, and `SessionRotation` is itself shown to keep to the
abstract lock (`KeepsToTheLock`).

### SessionRotation

`main` is the session entry, `side` its two side entries, `bare` the entry an older
shell stored under another service name, `holder` the session lock, `pc` and `job`
each invocation, `live` and `grantedTo` the issuer. A mint goes through
`EnsureSession` (an unlocked read), `Authorize`, `Lock`, `LoadSession` (read again,
drift), `Refresh`, `Answer`, `Reply`, `SaveMain`, `SaveSide`; a login through
`Authorize`, `Lock`, `SaveMain`, `SaveSide`; a logout through `Lock`, `EndLoad`,
`Revoke`, `DeleteSide`, `DeleteMain`. Every command resolves a record of its own
(`Bindings`), so a logout revokes at the issuer and as the client its record names
by then, which need not be those of the session it read (`SentHome`); an issuer
confirms the revocation of a token it does not know. `unasked` holds the logins
whose request named no resource although the record does: a device request has no
such member. Each keyring call and each issuer call is one step. `Faults` switches
on crashes, refused keyring calls, unreadable side entries, a lock file that cannot
be opened, lost answers and an issuer that ends sessions; `broken` and `torn` record
which fault hit where, so that an exemption in an invariant is exactly that fault.

### Issuer, Discovery and Login

An issuer is a record (`opts`, what it has `minted`, and what each code, device
code and token is worth); an operator takes it with a request and gives it
afterwards with the answer. `Options` are the deployment switches of the
repository's own provider that change an answer the shell acts on: whether it
rotates, narrows, binds by resource, signs with which key, omits which member.
Whatever it answers follows from those, so a deployment that misbehaves does so
in the ways that provider was built to.

`Login` keeps several logins over one issuer. `Shell(l)` is the process: bind a
port, discover, print the address, take a callback, exchange, identify; or
authorize the device and poll. Everybody else is an action of their own:
`SignIn` and `Decline` (the user, in any tab, at any time, more than once),
`Callback` (a tab arriving at whichever login holds its port), `Lose` (an answer
lost), `Deadline`. Ports are taken and given back, so a late tab of one login can
arrive at the listener of another. `troubled` and `expired` are history: which
login lost an answer, and which ran out of time.

### Accounts, Broker

`Accounts` is the context record: its validity (`ValidDocument`), its accesses
(`Access`), the strategy and the reference each is reached by. `Broker` takes a
command's context as it was read at launch, `Acquire` applies the refusals in
the code's order, `EnsureSession` and `Mint` are the source's unlocked read and
locked section, `Reauthorize` the browser it may open. `LogIn`, `Change` and
`Expire` are what happens meanwhile; `wso2 login` refuses a context whose kind has
no interactive login (`kindGate`). A deployment, a context and the context it
changes into are chosen together (`Worlds`).

### Descriptors, ContextCommands, ContextSetup

An installed product's descriptor is resolved into records once
(`Descriptors.Resolve`), from flags, a file or answers. Each command is one
operator over the loaded document: what it refuses, what it writes, which
sessions it ends first, and what is left when the write is refused or the
process is interrupted. Documents begin absent, current, of the accounts schema,
of version 1, or of a newer shell; every command that writes migrates what it
read. `done` says what the last command named and told.

### ContextChange

`doc` is the document's schema and view: for each reference, the binding a
stored session is compared by (`contexts.binding`), and a `rest` no session
depends on. `stored` is the keyring seen from here: one step per session, since
`SessionRotation` has the steps inside. A command that rewrites records is
`StartChange` or `OpenEditor`/`CloseEditor` (`planChange`), `EndSession` for each
session the change leaves behind, `Lock`, `Replay` (refuse if the document
moved), `LookUp` for each of them (`Store.Stored`, under the lock), `Write`. The
commands that go to `contexts.Update` at once are `StartAmend`, `Lock`, `Amend`,
`Write`. A configured login is `StartLogin`, `Establish` per access, `Finish`; a
creating one is `StartCreate`, `Establish`, `Lock`, `Record`, `Write`. Every step
can be refused, and every invocation killed. `Supersede` is a newer shell.

A change's `after` is *any* valid document, so the model covers what any flag or
file could ask for; `UnreachedBy` alone decides which sessions end.

### ModuleStore

`offered` is what the catalog offers meanwhile (versions, and for each its builds),
`here` is the namespace directory, `staged`, `dirs` and `aside` what is in it,
`policy` and `active` its two documents. Each filesystem call of
`Installer.activate` is one action, in the code's order, followed by the
deferred cleanup (`Sweep`, or `RestorePolicy`, `DiscardVersion`, `PutBack`).
`Resolve` is three reads: pointer, receipt, executable, whose digest it checks; then
`Execute` starts the process by its path (`launch.go:76`, `:95`), whatever lies there
by that time, and checks nothing. `MaxFaults` bounds
refused calls in one invocation; `Crash` stops one between two calls. `spoilt`
names the versions an interrupted or shared install may have left unfinished.

### Versions, Catalog, Releases, Updates

A version is what `semver.Parse` looks at; `Compare` and ranges follow. `Catalog`
has the release gate (what a tag's tree may declare), `Generate` (index and
histories from every tag with a public release), `Select` and the receipt's own
checks.

`Releases` runs one pipeline per tag: gate, draft, upload, publish, then the
queue of the concurrency group `pages`, which keeps one run waiting and cancels
what waited before. Assembly reads the tags as they are then, from the checkout
of its own commit; the deployment replaces the site. A run fails, is cancelled
or is run again; a run of the Pages workflow assembles and deploys in the same way from
the commit it was triggered at (`siteRuns`), which may lie behind main by then.

`Updates` reads the index, a history and an archive in requests of their own.
`seen` says which deployment each document was last read at: an answer may come
from a cache, but never from before that. `disturbed` names the products another
terminal has changed under the command that runs.

### ProductLine, CommandLine

A word is what a parser looks at, and a reader is a recursive function over the
words. `ProductLine` has three: `productargs` in the shell with the tree of the
receipt, `cobratree` in the module over what was forwarded, and Cobra over the
whole line, which the other two are written to agree with. `CommandLine` routes:
the shell's own commands, help, the answers to commands that were removed, and
products. The store it reads is the one `Updates` installs into.

### ModuleRpc and AnswerDeadline

`session` is the goroutine of `Session.Run`, one action per read or write:
`Handshake`, `Welcome`, `SendInvoke`, `ReadTerminal` (which pauses the deadline
when it reads an access request), `BrokerAnswers` (which resumes it),
`AnswerAccess`, `ExpectNoFurtherMessages`. `launcher` is `Launcher.Invoke`:
`Launch`, `Select` or `Cancelled`, then `stop`: `CloseInput`, `AwaitSession` and
`AwaitExit`, each with its grace and its kill. `toModule` and `fromModule` are
the pipes; a writer blocks when `Pipe` frames are in one, and a reader sees its
end when nobody holds the other side. `module` and `asker` are the process: the
SDK's `ServeStreams` with handler goroutines that call `Acquire`, or any program
that writes what frames it likes, reads or not, closes its streams and exits.
Either may crash in the middle of a frame (`Cut`) or leave children behind that
keep its streams. `spoken` is history: what the module's writing amounts to as a
conversation. A frame is reduced to what is checked of it, so that one kind
stands for every identity, capability or protocol that is refused.

The deadline is relative time in ticks. `age` is the time since `resumedAt`, so
the subtraction in `hold` and the reset in `release` are the code's own;
`awaited` is history and counts, independently of them, the time that passes outside
the broker: the module's own work, and the shell's writes of answers, which block
while the pipe is full and come after the release. The clock runs only while `Select`
waits, since afterwards nobody looks at the timer.

## 3. What the runs show

| Run | Bounds | Question |
|---|---|---|
| `lock_file` | 3 calls, 2 inodes, deadline 4 and section 3 ticks | honest refusal, progress, and refinement of the abstract lock |
| `session` | 2 invocations, 2 logins, 2 records that differ in their issuer, 2 generations, 3 strategies, all faults but a failed side read; 1.6 million states | rotation, orphans, revocation, who deletes what |
| `session_bindings` | 2 invocations, 1 login, in a browser or on a device, 5 records differing in one member each | a token is presented only where it was obtained, the resource of a device login apart; every invocation ends |
| `login` | 2 of 3 logins at once (browser, browser, device), 2 ports, 9 deployments, 2 sign-ins | the session stored is the one asked for; a failure has a cause; every login returns |
| `product` | 1 command of 2 requests out of 9, 2 receipts, 2 products, 34 worlds | what a module is handed; denials without cause; sessions that survive them |
| `documents` | 2 commands and a set-up's products, 5 documents, 3 products with up to 3 releases | sessions reached, records kept, migration, export, advice and drift |
| `context` | 2 invocations, 1 context with 1 product session, 2 bindings, all commands, kills, a newer shell | sessions and records agree; no change is lost; frozen stays frozen |
| `store` | 1 invocation, 2 versions, 1 refused call per invocation, kills | what failures and crashes leave behind, over any sequence of commands |
| `store_republished` | 2 invocations installing, removing and launching, 2 versions or 2 builds of 1 version, no faults | an executable rewritten between the reads of a launch, and before it is executed; installs that share a directory |
| `store_reinstall` | as `store` | expects a violation, below |
| `rpc` | 2 asking goroutines and 3 requests, or 3 arbitrary frames; 2 answered requests, deadline 2 ticks, pipes of 1 frame | what is believed, which time counts, and that Invoke returns |
| `catalog` | 5 tags of 2 products, 2 shells, five scenes, some 2,500 lines | publication catches up and never withdraws; updates; what a line means |

The scenes of `catalog` are begun from one specification, each with its own
allowance: four releases at once from nothing; one release among a failure, a rerun
and a run of the Pages workflow, triggered before or after main moved; two commands,
one failing request and two publications; one update of two products beside another
terminal; and lines.

The bounds are the smallest at which the interesting cases occur: a race needs
two invocations (three callers for the lock, so that a waiter can be overtaken);
an orphan needs an old and a new login; an overtaken generation is the second; a
changed binding needs two values; a cancelled waiting run needs three that want
to deploy; a stray tab needs a second sign-in and a second login on its port; a
stale record needs a product that was updated after a context was made. TLC's
coverage shows every action fired. `context` takes one value for `rest`: every
guard compares views as a whole, and `access` already gives views that differ.
Symmetry is used in safety runs only, over invocations and interchangeable values.

What the exemptions in the properties say is as much a result as the rest, for each
was forced by a trace. `SessionsNamed` exempts exactly the logins that overlap a
change; `CatalogCatchesUp` needs every deploying checkout to know every tagged
module; `ConfirmedMeansDead` speaks of a logout whose record names the issuer and
the client its session is from; `PresentedWhereEstablished` asks a device login for
no resource; `LaunchesOnlyActivated` lets a process run files placed and not yet
pointed at, if an install put them there after the digest was checked; `PinIsActive`
ends with a kill, or a refused clean-up, between policy and pointer;
`FailedInstallChangesNothing` leaves the directory of the version to
`store_reinstall` if it was there and not yet moved aside; `UpdateNeverGoesBack`
excepts a version the shell can no longer launch and a product another terminal
touched; `DeniedForCause` names three situations in which a context that is logged
in is denied (section 6), each with a world of its own in `product`;
`ModuleUnderstands` leaves out the spellings on which the readers differ.

One run expects a violation. `store_reinstall`: reinstalling or updating to the
active version, and failing while the archive is extracted, removes the active
version's directory, where the documentation promises that a previous version
stays usable.

## 4. Fairness and liveness

Five runs claim progress. In `ModuleRpc`, `Spec` is weak fairness of the
session's goroutine, the launcher and the clock; the broker is part of the
session's goroutine and bounds its own waits. Nothing is assumed of the module.
`Returns` exempts a module that left children holding its streams: the wait for
the session after the kill (`launch.go:206`) and `command.Wait` end only when
the last holder does. In `LockFile`, `FairSpec` is weak fairness of `Tick`
(time passes) and of what a caller does with the file open (`With` polls until
its deadline); nothing is assumed of the holder, whose section ends because its
own deadline bounds it. In `SessionRotation`, `FairSpec` is weak fairness of each
invocation's own next step, never of starting, crashing or a fault: every call
the code makes there has a deadline. Neither assumes a lock is ever obtained. In
`Login`, `Spec` is weak fairness of `Shell(l)` and of `Deadline(l)`: the process
takes its next step, and its context's deadline passes. Nothing is assumed of the
user, of a tab or of an answer, so `Returns` says that nobody can keep a login
from ending. `CatalogCatchesUp` is stated of settled states instead: GitHub
promises no progress of a run.

Deadlock is checked in the lock and session specifications. In the others the
system may really stop (no command is running and none has to start; a document
that is frozen accepts no change; an invocation has returned; every release is
out), so `CHECK_DEADLOCK` is off.

## 5. What is proved

For any number of invocations, contexts, logins, versions and any faults, from
the assumptions named in each module. Most say that null values are none of the
others, that bounds are natural numbers and that a product's session belongs to a
context. Those of `Login` and `Broker` also say that a provider answers a device
request in the end; that of `Broker`, that a context is one the shell accepts
(`ValidContext`) or one read from version 1, which alone is synthetic
(`legacy.go:83`), that the issuers it names exist and that some redirect port is
registered.
Those of `ContextSetup` say what its constants hold, and nothing of what a command
does with them:

* `NoneAssumption`: a missing value is no string, code, kind, list, grant or gateway;
* `AccountsAssumption`: a URL without the slashes it ends in is a URL reached in the
  same way, with none left to take off;
* `DocumentsAssumption`: a document of this schema is one the shell accepts on load
  (`Sound`), with contexts as its own commands record them; one of schema 2 or 3 has
  valid accounts, named apart, each with a reference of its own if it has one (section
  6 says what two that share one come to); a context of version 1 is synthetic;
* `NumberedAssumption`: the numbers `freeName` counts through do not run out before
  the names there are to give;
* `InputsAssumption`: products, descriptors' members, typed flags, answers and files
  are strings or missing where the code has strings, of products that are published
  in a sequence of versions, with the members a file or a flag can state (`Stateable`);
  what may be installed is one of the versions published (`Inventory`).

TLC evaluates every one of these assumptions on the runs.

* `ContextChangeProofs`, of `LockFile`: types; mutual exclusion (`OneRunner`);
  `BusyMeansOvertaken`; `IsAdvisoryLock`. The inductive part is that an owner of an
  inode's lock has that inode open and is running, and that a waiter's clock trails
  the clock of the section it waits for as long as it has not been overtaken.
* `SessionRotationProofs`: types with what each invocation carries at each place;
  one writer under the lock (`OneWriter`); `SideReachable`; `StoredTokenCurrent`;
  `ConfirmedMeansDead`, of a logout sent to the issuer and client the session is from;
  and the action properties `OnlyLoginsInstall` and `DeletesWhatItRead`. They rest on
  one another in that order: the lock makes what was read under it still true,
  so a generation answered by the issuer is the stored one's successor.
  `RotationKeepsToTheLock` is the refinement: with `holder` as its owner, every
  step of the specification is a step of `AdvisoryLock` or none.
  `PresentedWhereEstablished` rests on `Faithful`: wherever a session lies (in
  the keyring, in the older entry, in an invocation's memory) it carries the
  binding its login was authorized under, the resource excepted where the login's
  request named none. `SidesOfOneLogin` rests on `Beside`: what
  an invocation in the middle of a `Save` has yet to write is of the login whose
  entry it wrote first.
* `ModuleStoreProofs`: types; `LaunchesOnlyActivated`, from the invariant that
  the pointer and whatever a launch has read of it name pairs once activated, and
  that a whole directory no install is working in holds such a pair too
  (`Unpointed` and `Unsettled` name the files that are none); `ActivatedIsLaunchable`
  and `RefusedOnlyByFault`, for any number of invocations; `PinIsActive` and
  `FailedInstallChangesNothing`, for one invocation at a time.
  The argument follows which invocations are touching a version's directory and
  what each has made of it so far, and charges to `spoilt` exactly what was cut
  short or shared. The last two are stated of one invocation because they are
  about what it found: two installs of different versions that overlap can leave
  the pin of one and the pointer of the other (the store takes no lock).
  `FailedInstallChangesNothing` is about installs and updates; a removal that fails
  has taken away what it got to, and the next one goes on from there.
* `ContextChangeProofs`, of `ContextChange`: types; `SessionsNamed`; `NoChangeDiscarded`;
  `FrozenStaysFrozen`. `IInv` adds to the properties what makes them inductive:
  who is inside `Update` holds the lock, and what it looked at is still on disk
  (`LookedAgain`); a login obtains a session as the document records it, until a
  change lets it go (`Agrees`); a session looked up under the lock is gone, or a
  login saved one since (`Seen`); and a stored session is its record's, or that
  of a context a creating login is about to record (`Named`). `SessionsNamed`
  alone is not inductive: it says nothing of what a change has looked up, nor of
  the session a creating login holds.

* `ContextSetupProofs`: `SessionsReached`; `NextStepHolds`; `OnlyWhatItNames`;
  `MigrationKeepsSelected`; `RewrittenAlike`; `DriftTold`, for any documents of any
  schema, products, descriptors, flags, files and answers, and any number of
  commands, each of which may be refused or cut short. The inductive invariant is
  `Sustained`. `DiskSound` says that what is on disk was there to begin with or is a
  document the shell accepts, which is what every command must check of what it
  writes. `Held` is `SessionsReached` as the commands need it. `Ready` says that what
  is installed was published and that a set-up under way has a document it may write
  and products that can be stated. `NextStepHolds` speaks of the last command's advice
  and rests on the other three. None of the properties is inductive: each says of one
  document what follows only from how that document was made.

  Two facts about a valid document carry the argument. Every reference a context
  reaches begins with the reference of the context's own (`RefBinds`), which no two
  contexts share: so ending what a change left behind (`Ending`) spares every session
  of a context that was left, and one reference is never bound in two ways. And a
  command leaves each context it does not name in the document (`Leaves`). For the
  schemas of accounts, `MigrateSound` shows that a migrated document is valid: the
  context that keeps an account's reference is the selected one, if it uses that
  account; every other is given a reference, and an account no context used a name,
  that nothing has taken before.

  `ExportAppliesAlike` follows the product records through `Resolve`: each stored
  one is a `RecordedProduct`, with its scopes, and stating one in full leaves the
  descriptor nothing to decide, whatever its grant or gateway, and no member of it
  changed but the slashes its URLs end in (`TrimURLs`); an issuer's kind and
  tenant are recognised again from its address. `DriftTold` compares a record with
  what `ResolveProduct` makes of the product's address alone.

* `ModuleRpcProofs`: types; `ChildGone`; `ModuleTimeOnly`; `DeadlineKept`;
  `Believed`; `RefusalIsTheShells`, for pipes of any length and any number of
  goroutines, codes and requests. `Clock` says that the timer, the remainder and
  the time passed outside the broker agree at every place. `Believed` speaks of everything a
  module wrote, of which the session has read a part: `Understood` says that the
  unread frames carry on (`Carries`, a run of `Spoken` over them) from what the
  session has understood to what the module has said, so once nothing is unread,
  and nobody is left to write, the two are the same. `Honest` says that every
  denial on its way to the module is one the session issued; the lemma
  `LeastPosition`, from well-foundedness, gives `restoreDenial` its first match.
  `SdkUnderstood` rests on `Conversing`, which says of every place of a module
  built on the SDK whose turn it is: which frames may lie in either pipe, which
  goroutine they answer, and that what was written so far is a conversation.

* `LoginProofs`: `SessionAsAsked`; `RefusedForCause`, for any number of logins and
  tabs and any deployment. `IInv` follows what each login is owed by the issuer:
  a code kept for a challenge answers the login that made it; a tab carries such
  a code or an error with a cause; the callback delivers one of those; the
  request in flight, and its answer, are this login's; and what two logins were
  given differs (`Apart`), since it was drawn (`Drawn`) from what the issuer mints
  once. Neither property is inductive: both speak only of logins that returned.
  The lemmas about the issuer say what an operator leaves alone (`Keeps`) and
  that it only adds (`Grows`).

* `BrokerProofs`: `GrantsBound`; `SessionsLive`, for any worlds, receipts and
  requests. `GrantInv` adds to the first that a request a source works on passed
  the policy for the command's own context (`Screened`), and the lemmas about
  the sources say that an answer that states its scopes states its token's
  (`Told`). `StoreInv` adds to the second that every session is of an issuer that
  is deployed and that no two sessions of one issuer share a refresh token
  (`Good`): `SessionsLive` alone is not inductive, since a rotation retires a
  token that, for all it says, another entry may still hold. That the issuer a
  session is established with is deployed needs the context's records to be valid
  or a version-1 document's (`Housed`), which is what the shell checks on load.
  The first attempt did not go through: the model let a context whose kind has
  no interactive login be logged in, which the code refuses.

  `DeniedForCause` is proved from the same invariant, once `Good` also says of each
  session (`Covered`) that one which names its client is bound, and that its issuer
  keeps it for every permission it names: what a login stores and what the issuer
  keeps are two records, written apart. A rotation has to hand the old token's worth
  to the new one (`Inherits`), and a code or a device has to carry the scopes from
  the request to the token (`AuthorizedCarries`). A request is then served from the
  session of an access the context reaches, or of one that is `Alike`
  (`SourceStored`), so that a context that is logged in has the session the source
  renews. `RenewalDenies`, `NarrowedRenewal` and `InlineDenies` say what a source
  can still be told there. The proof made the property precise: it used to call a
  deployment cooperative that records another resource than the product's audience,
  and to leave device logins out altogether.

* `UpdatesProofs`: `NothingMovesUnasked`, for any products, tags, shells and
  scenes, whatever is released and deployed meanwhile. The inductive invariant is
  `Shaped` (the command's record and the store keep their shape) with `Unmoved`:
  while nobody agreed, a command past its plan has nothing left to do but
  products that another terminal disturbed. The property alone says nothing of a
  command before it downloads.

  `NeverUnpublishes` and `CatalogCatchesUp` are proved beside it, for any tags,
  commits and overlap of pipelines. The first rests on `SiteInv`: the group
  "pages" lets a run read the tags only after the deployment before it, so the
  tags behind the served site (`Backed`) are among those the next site is
  assembled from, and lists all it can of them (`Full`). The second rests on
  `Coming`: a public tag is listed, or among the tags or in the site of the run
  inside the group, or some run waits, was lost or cannot assemble because a
  sibling's release is not public yet (`Pending`). A run of the Pages workflow
  promises something only if the commit it was triggered at, which `Sited` says there
  is, knows every tagged module (`Capable`). Neither property is inductive:
  both speak of what is served and say nothing of the run that is about to
  replace it. Their premises on the history of main are `ModulesStay` (a module
  stays in the directory it was released from; section 6 says what moving one
  does) and, for the second, `ModulesKept` (declarations are valid and no module
  is removed); TLC evaluates both, and `ReleaseAssumption`, on the instance.

  `UpdateNeverGoesBack` is proved on top of them, for the same scenes and any
  versions. `VersionOrder` shows `Compare` to be reflexive and its "before"
  transitive over every version a tag can be read as (`PreBefore` says what a
  prerelease comes before), so finitely many have a newest (`SomeNewest`) and
  `Select` returns one. `Chronicle` says that every deployment so far offers what
  those before it offered, which `SiteInv` gives for the next one. `ClientInv` adds
  what the commands rely on: each history is read from a deployment there is
  (`Places`); what is installed is published where its history was last read, on
  the channel its product follows unless it is pinned (`Stock`); what an update
  has left to move, and what it holds, follow the policy that is stored, unless
  another terminal changed it (`Course`); and what it holds is the newest it could
  take when it read the history (`Basket`). What is installed is then one of the
  versions the newest was chosen from. The property alone is not inductive: it
  compares what is held with what is installed, and says nothing of the histories
  they came from. `UpdateAssumption` is what it needs of a scene: what is installed
  beforehand could be installed from the site the scene begins with; TLC evaluates
  it too.

The properties were model-checked on instances before they were proved. Some that
are proved need no run any more: `TypeOK` of five modules, `OneRunner`,
`OneWriter`, `OnlyLoginsInstall`, `KeepsToTheLock`, `ChildGone`, `ModuleTimeOnly`,
`RefusalIsTheShells`.

Only model-checked:

* liveness (`Comes`, `Returns`), which the prover does not reach;
* `ModuleUnderstands` and `OneMeaning`, which are about recursive functions over
  words: what two readers make of a line of any length is induction over the line.
  They also depend on what the words of a tree are (a command that is spelled like
  another's flag value, say), so that a statement for every tree would need premises
  the code does not check.

## 6. Where code, comments and models differ

Met while modelling, and kept here without a run of their own. Each is stated by
an exemption in a property or by the definition that follows the code.

Sessions and logins:

* a login whose `Save` is refused after the first of its entries leaves an earlier
  login's access token beside the new session entry (`session.go:244-254`);
* `sideEntry` (`session.go:183`) takes a side entry it could not read for an absent
  one, so the `Save` after a rotation deletes it, though `source_session.go:411`
  says only the refresh token is replaced; the `session` run leaves failed reads of
  side entries out;
* a logout revokes at the issuer and as the client of the record as it is now, which
  is never compared with the stored session's issuer (`logout.go:283-288`). If the
  record has moved, the request goes to another issuer, which confirms a token it does
  not know (RFC 7009), and "revoked" is reported of a session that stays alive where it
  was obtained. `ConfirmedMeansDead` exempts that by `SentHome`;
* a login on a device asks for no resource (`login.go:462-483`), and its session is
  stored with the record's (`login.go:441`): `PresentedWhereEstablished` holds such a
  session to that record, not to what its token was granted for;
* "You are signed in" is shown before the code is exchanged (`login.go:581`,
  `callbackpage.go:44`);
* a federated product moved to another issuer can be granted the token stored for
  the earlier one: the stored-grant path does not compare issuers;
* three requests are refused as not narrowed (`narrowing_unavailable`) though every
  session of the context is recorded as the one asked for: one that names no
  permissions, of a product recorded with none, since a token that states none is
  refused (`narrowing.go:218-234`); one of a federated grant whose resource is not
  the product's audience; and one of a context under `token-resource` that was
  `oauth-device` when its session was established: a device request names no
  resource (`app/login.go:462-483`), yet the session is stored with it
  (`app/login.go:441`) and `contexts.binding` (`remove.go:129`) does not compare
  kinds, so the session stays when the kind is changed, and its tokens are bound to
  nothing until somebody logs in again. `DeniedForCause` exempts the first two in
  `Cooperates` and the third in `BoundThere`.

Contexts:

* `writeChange` asks whether a session is still gone, and then writes; a login that
  saves in between leaves an entry no record names (`context_write.go:121`, ADR 0016);
* `context edit` plans with the document its editor was opened on, and what another
  invocation wrote meanwhile is replaced (`context_edit.go:140`, `save.go:81-83`);
* `context show` is said to note any record whose frozen values differ
  (`context_apply.go:691-695`); it compares the grant, unless the product is the one
  logged in through, and the scopes, unless the descriptor has none. A descriptor
  that comes to provide the login, or drops its grant, is told nowhere (`DriftTold`
  claims the rest). Export leaves empty scopes out, so what they are when applied is
  the descriptor's to say;
* a file `context export` wrote is said to be applied unchanged
  (`docs/reference/context-file.md:283-285`); `context apply` takes the slashes off
  the end of a product's and a gateway's URL (`context_apply.go:347`, `:351`), which a
  stored record may have (`identity.go:636-656`). `RewrittenAlike` claims the rest;
* the schema admits a context of kind `pat`, which has neither issuer nor client id
  (`identity.go:533`), and `context export` writes it; `context apply` refuses a file
  that states neither them nor a login product (`context_apply.go:251`);
* "the login session already reaches it" is told by the session's existence
  (`productNext`);
* the wizard offers a client-credentials context products that `product add` refuses;
* two accounts that share a reference migrate into contexts of which one loses it.

Modules:

* `Resolve` checks the executable's digest and the process is started later, by path
  (`launch.go:76`, `:95`): an install of the same version in between may have placed
  other bytes there. `LaunchesOnlyActivated` exempts them until they are pointed at, or
  for good if that install was cut short or shared the version;
* a kill between the policy and the pointer of an install (`install.go:265`), or before a
  failed one has put the policy back, leaves a pin that names another version than the
  active one until a later command writes both. `PinIsActive` ends there;
* the timer is said to resume once the answer to a request is written
  (`launch.go:242-243`); it resumes before (`session.go:324`, the writes are at
  326-343), so a write that blocks on a full pipe uses up the module's time.
  `DeadlineKept` counts as the code does;
* `restoreDenial` (`rpc/session.go:400`) restores the first refusal with the code a
  module returned; if two requests were refused with one code, the guidance shown
  may be that of the other;
* `ServeStreams` (`sdk/module/serve.go:139`) says every outcome is a terminal
  message, but a result that does not fit a frame is rejected by the writer and the
  module ends without one (`tooLarge`).

Catalog and updates:

* `Select` ignores `compatibility.shell`, which a launch refuses on (`select.go:57-59`,
  `app/module.go:147-149`); the gate asks only that the range parses; protocols
  `[0, 2]` pass gate and generation and fail the receipt; "01" and "1" compare equal;
* `update --dry-run` and `list` name the index's newest version, which may not be the
  one `Select` takes; `incompatibleProtocol` always says the shell is too old;
* moving a module's directory drops its earlier tags from the next assembly; a tag
  that was refused, or whose release is still a draft, blocks every later assembly,
  and so does a checkout that lacks a newer module;
* a deployment is skipped by commit, also when it was `pages.yml` that deployed it;
  that file's comment says a queued run is not cancelled, where GitHub keeps one
  pending run. `CatalogCatchesUp` holds with the queue as GitHub keeps it;
* two terminals: an update can clear a pin, reinstall a removed product or step back
  after the statuses it planned with were read.

Command line:

* `takeBoolFlag` strips `--verbose` and `--no-input` also where they are a flag's
  value; `--all --output=json status` is accepted and `--output=json --all status`
  refused;
* `--help=false` is said to run the command (`productargs.go:325`), but the module's
  flag set has no help flag and refuses it (`cobratree.go:103-110`); `-ha=false`
  loses the help;
* the shell is said to land where Cobra would, but does not for a flag that stands
  alone or a run of letters before the command that declares it (`-ar status`);
* a redirect is said to name a line that runs; `account create X --issuer U
  --audience A` is answered with one that `context create` refuses
  (`context_create.go:305`). Anything before the removed word misses the redirect, and
  a product with a command of that name and no declared tree is shadowed by it.

## 7. What is not modelled

* Preferences: a flat document under the lock and the replace of the context
  document, without sessions to end; `ContextChange`'s protocol with nothing to add.
* Output, completion, `doctor` and `whoami`: they read what the other parts keep and
  render it.
* Sign-out pages opened at a logout, redirects and pinned certificates in discovery,
  token lifetimes in numbers (a token is fresh or not), the sanitized environment
  and the diagnostics of a module, the extraction of an archive (one step that may
  fail).
* The Windows lock and keyring backends, which differ in the system call, and a
  binary of an earlier shell that takes no lock (its code is not here).
* The products' requests to their own services, scaffolding, generated code
  (`contract.pb.go`), end-to-end harnesses.
