---------------------------- MODULE UpdatesProofs ----------------------------
(***************************************************************************)
(* Theorems of Updates: what holds of the product commands whatever is     *)
(* released, installed and published while they run.                       *)
(***************************************************************************)
EXTENDS Updates, TLAPS, FiniteSetTheorems, WellFoundedInduction, NaturalsInduction

-----------------------------------------------------------------------------
(* What a command carries, and what it may still move.                      *)

Shaped ==
  /\ command = [verb |-> command.verb, step |-> command.step, names |-> command.names,
                policy |-> command.policy, agreed |-> command.agreed,
                inventory |-> command.inventory, todo |-> command.todo,
                ns |-> command.ns, entry |-> command.entry]
  /\ command.agreed \in BOOLEAN
  /\ command.step # "idle" => command.verb \in {"install", "list", "plan", "update"}
  /\ store = [ns \in Namespaces |-> store[ns]]
  /\ othersRun \in Nat

Unagreed == command.verb = "update" /\ ~command.agreed

\* Every product there is to ask about was pinned when nobody was asked.
AllPinned ==
  \A ns \in DOMAIN command.inventory :
    ns \in Namespaces /\ (ns \in disturbed \/ store[ns].pinned)

OnlyDisturbedLeft == \A status \in command.todo : status.ns \in disturbed

Unmoved ==
  Unagreed =>
    /\ command.step = "index" => AllPinned
    /\ command.step \in {"next", "history", "download"} => OnlyDisturbedLeft
    /\ command.step \in {"history", "download"} => command.ns \in disturbed

IInv == Shaped /\ Unmoved

LEMMA InitIInv == Init => IInv
<1> SUFFICES ASSUME Init PROVE IInv
  OBVIOUS
<1>1. command = Waiting /\ othersRun = 0
  BY DEF Init, ClientInit
<1>2. store = [ns \in Namespaces |-> store[ns]]
  BY DEF Init, ClientInit
<1> QED
  BY <1>1, <1>2 DEF IInv, Shaped, Unmoved, Unagreed, Waiting

\* A command that is over, or goes on without anything left to move.
LEMMA EndKeeps ==
  ASSUME Shaped, NEW rows, End(rows), UNCHANGED <<store, othersRun>>
  PROVE  IInv'
  BY DEF Shaped, End, IInv, Unmoved, Unagreed, Waiting

LEMMA GiveUpKeeps ==
  ASSUME IInv, NEW problem, GiveUp(problem), command.step \in {"history", "download"},
         UNCHANGED <<store, othersRun>>
  PROVE  IInv'
<1>1. CASE command.verb = "update"
  <2>1. Step([command EXCEPT !.step = "next", !.ns = NoChannel, !.entry = [absent |-> TRUE]])
    BY <1>1 DEF GiveUp
  <2> QED
    BY <2>1 DEF IInv, Shaped, Step, Unmoved, Unagreed, OnlyDisturbedLeft
<1>2. CASE command.verb # "update"
  BY <1>2, EndKeeps DEF GiveUp, IInv
<1> QED
  BY <1>1, <1>2

LEMMA BeginsIdle ==
  ASSUME IInv, NEW next, Begin(next)
  PROVE  command = Waiting /\ command' = next /\ UNCHANGED <<store, othersRun>>
  BY DEF Begin

LEMMA StartKeeps ==
  ASSUME IInv, NEW names, NEW yes \in BOOLEAN, StartUpdate(names, yes)
  PROVE  IInv'
<1> DEFINE step == IF names # {} \/ yes \/ NothingWouldMove(Installed) THEN "index" ELSE "check"
           next == [Asking("update", names, step) EXCEPT !.agreed = yes \/ names # {}]
<1>1. Begin(next) /\ Selected(names) \subseteq Installed
  BY DEF StartUpdate
<1>2. command' = next /\ UNCHANGED <<store, othersRun>>
  BY <1>1 DEF Begin
<1>3. /\ next = [Waiting EXCEPT !.verb = "update", !.step = step, !.names = names,
                                !.inventory = [ns \in Selected(names) |-> Inventory[ns]],
                                !.agreed = yes \/ names # {}]
  BY DEF Asking, Waiting
<1>4. /\ next.agreed = (yes \/ names # {}) /\ next.agreed \in BOOLEAN
      /\ next.step = step /\ next.verb = "update"
      /\ DOMAIN next.inventory = Selected(names)
  BY <1>3 DEF Waiting
<1>5. next = [verb |-> next.verb, step |-> next.step, names |-> next.names,
              policy |-> next.policy, agreed |-> next.agreed,
              inventory |-> next.inventory, todo |-> next.todo,
              ns |-> next.ns, entry |-> next.entry]
  <2> DEFINE inventory == [ns \in Selected(names) |-> Inventory[ns]]
             agreed == yes \/ names # {}
  <2>1. next = [Waiting EXCEPT !.verb = "update", !.step = step, !.names = names,
                               !.inventory = inventory, !.agreed = agreed]
    BY <1>3
  <2> HIDE DEF inventory, agreed, step, next
  <2> QED
    BY <2>1 DEF Waiting
<1>6. ASSUME ~next.agreed
      PROVE  /\ next.step \in {"index", "check"}
             /\ next.step = "index" =>
                  \A ns \in DOMAIN next.inventory : ns \in Namespaces /\ store[ns].pinned
  <2>1. names = {} /\ ~yes
    BY <1>4, <1>6
  <2>2. Selected(names) = Installed
    BY <2>1 DEF Selected
  <2>3. Installed \subseteq Namespaces
    BY DEF Installed
  <2>4. step = "index" => NothingWouldMove(Installed)
    BY <2>1
  <2> QED
    BY <1>4, <2>2, <2>3, <2>4 DEF NothingWouldMove
<1> HIDE DEF next, step
<1> QED
  <2>1. Unmoved'
    BY <1>2, <1>4, <1>6 DEF Unmoved, Unagreed, AllPinned
  <2> QED
    BY <1>2, <1>4, <1>5, <2>1 DEF IInv, Shaped

LEMMA ReadIndexKeeps ==
  ASSUME IInv, NEW deployment, ReadIndex(deployment)
  PROVE  IInv'
<1> DEFINE index == deployed[deployment].index
           statuses == Statuses(index, command.inventory)
           left == {s \in statuses : s.update}
<1>1. command.step = "index" /\ UNCHANGED <<store, othersRun>>
  BY DEF ReadIndex, Others
<1>2. CASE command.verb = "update"
  <2>1. Step([command EXCEPT !.step = "next", !.todo = left])
    BY <1>2 DEF ReadIndex
  <2>2. ASSUME Unagreed PROVE \A s \in left : s.ns \in disturbed
    <3>1. AllPinned
      BY <1>1, <2>2 DEF IInv, Unmoved
    <3>2. ASSUME NEW ns \in DOMAIN command.inventory,
                 Status(index, ns, command.inventory[ns]).update
          PROVE  ns \in disturbed /\ Status(index, ns, command.inventory[ns]).ns = ns
      BY <3>1, <3>2 DEF Status, AllPinned
    <3> QED
      BY <3>2 DEF Statuses
  <2> HIDE DEF left
  <2> QED
    BY <2>1, <2>2, <1>1 DEF IInv, Shaped, Step, Unmoved, Unagreed, OnlyDisturbedLeft
<1>3. ASSUME NEW rows, End(rows) PROVE IInv'
  BY <1>1, <1>3, EndKeeps DEF IInv
<1>4. CASE command.verb = "install"
  <2>1. PICK ns \in command.names :
          IF ns \in DOMAIN index
          THEN Step([command EXCEPT !.step = "history", !.ns = ns])
          ELSE End({[ns |-> ns, state |-> "catalog.unknown_module"]})
    BY <1>4 DEF ReadIndex
  <2>2. CASE Step([command EXCEPT !.step = "history", !.ns = ns])
    BY <1>1, <1>4, <2>2 DEF IInv, Shaped, Step, Unmoved, Unagreed
  <2> QED
    BY <1>3, <2>1, <2>2
<1>5. CASE command.verb = "list"
  BY <1>3, <1>5 DEF ReadIndex
<1>6. CASE command.verb = "plan"
  BY <1>3, <1>6 DEF ReadIndex
<1> QED
  BY <1>1, <1>2, <1>4, <1>5, <1>6 DEF IInv, Shaped

LEMMA ActivateKeeps ==
  ASSUME IInv, NEW tree, Activate(tree)
  PROVE  /\ IInv'
         /\ \A ns \in Namespaces : store'[ns] # store[ns] => ns = command.ns
<1>1. command.step = "download" /\ UNCHANGED othersRun
  BY DEF Activate, Others
<1>2. CASE UNCHANGED store /\ \E problem : GiveUp(problem)
  BY <1>1, <1>2, GiveUpKeeps
<1>3. ASSUME NEW new, store' = [store EXCEPT ![command.ns] = new],
             IF command.verb = "update"
             THEN Step([command EXCEPT !.step = "next", !.ns = NoChannel,
                                       !.entry = [absent |-> TRUE]])
             ELSE End({[ns |-> command.ns, state |-> "installed"]})
      PROVE  /\ IInv'
             /\ \A ns \in Namespaces : store'[ns] # store[ns] => ns = command.ns
  <2>1. /\ store' = [ns \in Namespaces |-> store'[ns]]
        /\ \A ns \in Namespaces : store'[ns] # store[ns] => ns = command.ns
    BY <1>3 DEF IInv, Shaped
  <2>2. CASE command.verb = "update"
    <3>1. Step([command EXCEPT !.step = "next", !.ns = NoChannel, !.entry = [absent |-> TRUE]])
      BY <1>3, <2>2
    <3>2. Unagreed' => Unagreed /\ OnlyDisturbedLeft'
      BY <1>1, <3>1 DEF IInv, Shaped, Step, Unmoved, Unagreed, OnlyDisturbedLeft
    <3>3. Unmoved'
      BY <3>1, <3>2 DEF IInv, Shaped, Step, Unmoved
    <3>4. Shaped'
      BY <1>1, <2>1, <3>1 DEF IInv, Shaped, Step
    <3> QED
      BY <2>1, <3>3, <3>4 DEF IInv
  <2>3. CASE command.verb # "update"
    <3>1. command' = Waiting
      BY <1>3, <2>3 DEF End
    <3> QED
      BY <1>1, <2>1, <3>1 DEF IInv, Shaped, Unmoved, Unagreed, Waiting
  <2> QED
    BY <2>1, <2>2, <2>3
<1> QED
  BY <1>2, <1>3 DEF Activate

\* A second terminal changes one product, and is known to have done so.
LEMMA OtherKeeps ==
  ASSUME IInv, NEW ns, NEW new, store' = [store EXCEPT ![ns] = new],
         disturbed' = disturbed \cup {ns}, othersRun' = othersRun + 1, UNCHANGED command
  PROVE  IInv'
<1>1. /\ store' = [n \in Namespaces |-> store'[n]]
      /\ \A n \in Namespaces : n # ns => store'[n] = store[n]
      /\ othersRun' \in Nat
  BY DEF IInv, Shaped
<1> QED
  BY <1>1 DEF IInv, Shaped, Unmoved, Unagreed, AllPinned, OnlyDisturbedLeft

\* One step of the commands, and what it does to the store.
LEMMA ClientStep ==
  IInv /\ ClientNext => /\ IInv'
                        /\ \A ns \in Namespaces : MovedBy("update", ns) => ns = command.ns
<1> SUFFICES ASSUME IInv, ClientNext
             PROVE  /\ IInv'
                    /\ \A ns \in Namespaces : MovedBy("update", ns) => ns = command.ns
  OBVIOUS
<1> DEFINE Goal == /\ IInv'
                   /\ \A ns \in Namespaces : MovedBy("update", ns) => ns = command.ns
<1>0. ASSUME IInv', UNCHANGED store PROVE Goal
  BY <1>0 DEF MovedBy
<1>1. CASE UpgradeShell
  BY <1>0, <1>1 DEF UpgradeShell, IInv, Shaped, Unmoved, Unagreed, AllPinned, OnlyDisturbedLeft
<1>2. CASE StartList
  <2>1. command' = Asking("list", {}, "index") /\ UNCHANGED <<store, othersRun>>
    BY <1>2 DEF StartList, Begin
  <2> QED
    BY <1>0, <2>1 DEF IInv, Shaped, Unmoved, Unagreed, Asking, Waiting
<1>3. ASSUME NEW ns, NEW policy, StartInstall(ns, policy) PROVE Goal
  BY <1>0, <1>3 DEF StartInstall, Begin, IInv, Shaped, Unmoved, Unagreed, Waiting
<1>4. ASSUME NEW names, StartPlan(names) PROVE Goal
  <2>1. command' = Asking("plan", names, "index") /\ UNCHANGED <<store, othersRun>>
    BY <1>4 DEF StartPlan, Begin
  <2> QED
    BY <1>0, <2>1 DEF IInv, Shaped, Unmoved, Unagreed, Asking, Waiting
<1>5. ASSUME NEW names, NEW yes \in BOOLEAN, StartUpdate(names, yes) PROVE Goal
  <2>1. UNCHANGED store
    BY <1>5 DEF StartUpdate, Begin
  <2> QED
    BY <1>0, <1>5, <2>1, StartKeeps
<1>6. ASSUME NEW deployment, CheckAll(deployment) PROVE Goal
  <2>1. command.step = "check" /\ UNCHANGED <<store, othersRun>>
    BY <1>6 DEF CheckAll, Others
  <2>2. CASE \E rows : End(rows)
    BY <1>0, <2>1, <2>2, EndKeeps DEF IInv
  <2>3. CASE Step([command EXCEPT !.step = "ask"])
    BY <1>0, <2>1, <2>3 DEF IInv, Shaped, Step, Unmoved, Unagreed
  <2> QED
    BY <1>6, <2>2, <2>3 DEF CheckAll
<1>7. ASSUME NEW deployment, ReadIndex(deployment) PROVE Goal
  <2>1. UNCHANGED store
    BY <1>7 DEF ReadIndex
  <2> QED
    BY <1>0, <1>7, <2>1, ReadIndexKeeps
<1>8. ASSUME NEW deployment, ReadHistory(deployment) PROVE Goal
  <2>1. command.step = "history" /\ UNCHANGED <<store, othersRun>>
    BY <1>8 DEF ReadHistory, Others
  <2>2. CASE \E problem : GiveUp(problem)
    BY <1>0, <2>1, <2>2, GiveUpKeeps
  <2>3. CASE \E entry : Step([command EXCEPT !.step = "download", !.entry = entry])
    BY <1>0, <2>1, <2>3 DEF IInv, Shaped, Step, Unmoved, Unagreed, OnlyDisturbedLeft
  <2> QED
    BY <1>8, <2>2, <2>3 DEF ReadHistory
<1>9. CASE Confirm
  <2>1. command' = [Asking("update", {}, "index") EXCEPT !.agreed = TRUE]
        /\ UNCHANGED <<store, othersRun>>
    BY <1>9 DEF Confirm, Step, Others
  <2> QED
    BY <1>0, <2>1 DEF IInv, Shaped, Unmoved, Unagreed, Asking, Waiting
<1>10. CASE Decline
  <2>1. UNCHANGED <<store, othersRun>>
    BY <1>10 DEF Decline, Others
  <2> QED
    BY <1>0, <1>10, <2>1, EndKeeps DEF Decline, IInv
<1>11. CASE NextProduct
  <2>1. command.step = "next" /\ UNCHANGED <<store, othersRun>>
    BY <1>11 DEF NextProduct, Others
  <2>2. CASE End({})
    BY <1>0, <2>1, <2>2, EndKeeps DEF IInv
  <2>3. ASSUME NEW s \in command.todo, NEW policy,
               Step([command EXCEPT !.step = "history", !.ns = s.ns, !.todo = @ \ {s},
                                    !.policy = policy])
        PROVE  Goal
    BY <1>0, <2>1, <2>3 DEF IInv, Shaped, Step, Unmoved, Unagreed, OnlyDisturbedLeft
  <2> QED
    BY <1>11, <2>2, <2>3 DEF NextProduct
<1>12. ASSUME NEW tree, Activate(tree) PROVE Goal
  BY <1>12, ActivateKeeps DEF MovedBy
<1>13. CASE Unreachable
  <2>1. UNCHANGED <<store, othersRun>>
    BY <1>13 DEF Unreachable, Others
  <2>2. CASE command.step = "check" /\ Step([command EXCEPT !.step = "ask"])
    BY <1>0, <2>1, <2>2 DEF IInv, Shaped, Step, Unmoved, Unagreed
  <2>3. CASE \E rows : End(rows)
    BY <1>0, <2>1, <2>3, EndKeeps DEF IInv
  <2>4. CASE command.step \in {"history", "download"} /\ GiveUp("catalog.origin_unreachable")
    BY <1>0, <2>1, <2>4, GiveUpKeeps
  <2> QED
    BY <1>13, <2>2, <2>3, <2>4 DEF Unreachable
<1>14. ASSUME NEW ns, OtherRemove(ns) PROVE Goal
  <2>1. IInv'
    BY <1>14, OtherKeeps DEF OtherRemove
  <2>2. othersRun' # othersRun
    BY <1>14 DEF OtherRemove, IInv, Shaped
  <2> QED
    BY <2>1, <2>2 DEF MovedBy
<1>15. ASSUME NEW ns, NEW policy, OtherInstall(ns, policy) PROVE Goal
  <2>1. IInv'
    BY <1>15, OtherKeeps DEF OtherInstall
  <2>2. othersRun' # othersRun
    BY <1>15 DEF OtherInstall, IInv, Shaped
  <2> QED
    BY <2>1, <2>2 DEF MovedBy
<1> QED
  BY <1>1, <1>2, <1>3, <1>4, <1>5, <1>6, <1>7, <1>8, <1>9, <1>10, <1>11, <1>12, <1>13,
     <1>14, <1>15 DEF ClientNext

LEMMA NextIInv == IInv /\ [Next]_updateVars => IInv'
<1> SUFFICES ASSUME IInv, [Next]_updateVars PROVE IInv'
  OBVIOUS
<1>1. CASE UNCHANGED clientVars
  BY <1>1 DEF clientVars, IInv, Shaped, Unmoved, Unagreed, AllPinned, OnlyDisturbedLeft
<1>2. CASE ClientNext
  BY <1>2, ClientStep
<1> QED
  BY <1>1, <1>2 DEF Next, updateVars

LEMMA IInvHolds == Spec => []IInv
  BY InitIInv, NextIInv, PTL DEF Spec

(* An update of everything that nobody confirmed moves no product, whatever *)
(* is published, released or lost on the way: it was begun because every    *)
(* product was pinned, and only a product whose policy another terminal     *)
(* changed since can have become one to move.                               *)
THEOREM UnaskedUpdateMovesNothing == Spec => NothingMovesUnasked
<1> DEFINE Asked == \A ns \in Namespaces :
                      (MovedBy("update", ns) /\ ns \notin disturbed) => command.agreed
<1>1. IInv /\ [Next]_updateVars => [Asked]_store
  <2> SUFFICES ASSUME IInv, [Next]_updateVars, store' # store PROVE Asked
    OBVIOUS
  <2>1. ClientNext
    BY DEF Next, updateVars, clientVars
  <2> SUFFICES ASSUME NEW ns \in Namespaces, MovedBy("update", ns), ns \notin disturbed
               PROVE  command.agreed
    OBVIOUS
  <2>2. ns = command.ns
    BY <2>1, ClientStep
  <2> QED
    BY <2>2 DEF MovedBy, IInv, Unmoved, Unagreed
<1> QED
  BY <1>1, IInvHolds, PTL DEF Spec, NothingMovesUnasked

-----------------------------------------------------------------------------
(* What a site lists, and what the next one will.                           *)

\* A checkout finds the declaration a tag was released with.
Carries(c, t) ==
  /\ Buildable(DiscoverProducts(Trees[c]), ParseTag(t).ns)
  /\ DeclaredAtTag(DiscoverProducts(Trees[c]), t, TreeAt) # NoDeclaration

Released(t) == \E c \in DOMAIN Trees : Carries(c, t)

\* What a release was declared to be, wherever it is found.
DeclaredBy(t) ==
  DeclaredAtTag(DiscoverProducts(Trees[CHOOSE c \in DOMAIN Trees : Carries(c, t)]), t, TreeAt)

\* An entry of a tag, from what was declared there.
Describes(entry, t, declared) ==
  /\ entry.version = ParseTag(t).version
  /\ entry.channel = Channel(ParseTag(t).version)
  /\ entry.protocols = declared.protocols
  /\ DOMAIN entry.artifacts = Platforms

EntryOf(entry, t) == Describes(entry, t, DeclaredBy(t))

Offers(site, t) ==
  /\ ParseTag(t).ns \in DOMAIN site.files
  /\ \E entry \in site.files[ParseTag(t).ns] : EntryOf(entry, t)

\* A site offers no more than these tags, and not less.
Backed(site, tags) ==
  /\ DOMAIN site.index = DOMAIN site.files
  /\ \A ns \in DOMAIN site.files : \A entry \in site.files[ns] :
       \E t \in ModuleTags(tags) :
         /\ ParseTag(t) # Malformed /\ ParseTag(t).ns = ns
         /\ Released(t) /\ EntryOf(entry, t)

Full(site, tags) ==
  \A t \in ModuleTags(tags) : Released(t) => Offers(site, t)

\* The group "pages" is held by the one job that assembles or deploys.
OneDeploys ==
  \A job \in Jobs : pipeline[job].phase \in {"assemble", "deploy"} <=> turn = job

\* What is deployed next was assembled from what is served now, and more.
NextIsMore ==
  /\ Backed(Served, Pushed)
  /\ \A job \in Jobs :
       /\ pipeline[job].phase = "assemble" =>
            pipeline[job].tags \subseteq Pushed /\ Backed(Served, pipeline[job].tags)
       /\ pipeline[job].phase = "deploy" =>
            \E tags \in SUBSET Pushed :
              /\ Backed(Served, tags)
              /\ Backed(pipeline[job].site, tags) /\ Full(pipeline[job].site, tags)

Deployments ==
  /\ main \in DOMAIN Trees
  /\ pipeline = [job \in Jobs |-> pipeline[job]]
  /\ \A job \in Jobs :
       pipeline[job] = [phase |-> pipeline[job].phase, tags |-> pipeline[job].tags,
                        site |-> pipeline[job].site]
  /\ deployed # <<>> /\ \E sites : deployed \in Seq(sites)

\* A run of the Pages workflow was triggered at a commit there is.
Sited ==
  /\ siteRuns \in Seq(DOMAIN Trees)
  /\ pipeline[PagesRun].phase # "none" => siteRuns # << >>

SiteInv == Deployments /\ OneDeploys /\ NextIsMore /\ Sited

\* What a run has got to, and what its tag has become by then.
Standing(tag) ==
  /\ release[tag] = [state |-> release[tag].state, build |-> release[tag].build]
  /\ pipeline[tag].phase = "none" => release[tag].state # "public"
  /\ pipeline[tag].phase = "verify" \/ release[tag].state = "public" => Deliverable(tag)
  /\ pipeline[tag].phase \in {"wait", "cancelled", "assemble", "unassembled", "incomplete",
                               "deploy", "unserved"} => release[tag].state = "public"
  /\ pipeline[tag].phase \notin {"none", "done"} => Product(tag)
  /\ pipeline[tag].phase = "assemble" => tag \in pipeline[tag].tags

\* What is public can be generated, and main is no older than what was pushed.
Public ==
  /\ release = [tag \in Tags |-> release[tag]]
  /\ \A tag \in Tags : Standing(tag)
  /\ \A tag \in Pushed : CommitOf[tag] <= main

\* A run whose checkout can build whatever was pushed.  A Pages run that was
\* triggered before a module was added is none.
Capable(job) == KnowsAll(CheckoutOf(job))

\* A run that will list everything is still to come, or was lost.
Pending ==
  \/ \E job \in Jobs : pipeline[job].phase \in {"unassembled", "unserved"}
  \/ \E job \in Jobs : pipeline[job].phase = "wait" /\ Capable(job)
  \/ \E tag \in Pushed : Product(tag) /\ release[tag].state # "public"

Coming(t) ==
  \/ Listed(Served, t)
  \/ \E job \in Jobs : pipeline[job].phase = "assemble" /\ Capable(job) /\ t \in pipeline[job].tags
  \/ \E job \in Jobs : pipeline[job].phase = "deploy" /\ Listed(pipeline[job].site, t)

AllComing ==
  (\A tag \in Pushed : KnowsAll(CommitOf[tag])) =>
    Pending \/ \A t \in Pushed : Product(t) => Coming(t)

CatchUpInv == SiteInv /\ Public /\ AllComing

-----------------------------------------------------------------------------
(* What AssembleSite makes of a checkout.                                   *)

LEMMA AssembledIs ==
  ASSUME NEW checkout, NEW tags, NEW treeAt, NEW published
  PROVE  LET input == AssembleInput(DiscoverProducts(checkout), ModuleTags(tags), treeAt, published)
             catalog == IF input = Refused THEN Refused ELSE Generate(input)
         IN  AssembleSite(checkout, tags, treeAt, published)
               = IF catalog = Refused THEN Refused ELSE Write(EmptySite, catalog)
<1> DEFINE input == AssembleInput(DiscoverProducts(checkout), ModuleTags(tags), treeAt, published)
           catalog == IF input = Refused THEN Refused ELSE Generate(input)
           inputs == {AssembleInput(products, ModuleTags(tags), treeAt, public) :
                        products \in {DiscoverProducts(checkout)}, public \in {published}}
           catalogs == {IF i = Refused THEN Refused ELSE Generate(i) : i \in inputs}
<1>1. inputs = {input}
  OBVIOUS
<1>2. catalogs = {catalog}
  <2> HIDE DEF inputs, input
  <2> QED
    BY <1>1
<1>3. AssembleSite(checkout, tags, treeAt, published)
        = CHOOSE site \in {IF c = Refused THEN Refused ELSE Write(EmptySite, c) : c \in catalogs} : TRUE
  BY DEF AssembleSite
<1> HIDE DEF catalogs, catalog
<1>4. AssembleSite(checkout, tags, treeAt, published)
        = IF catalog = Refused THEN Refused ELSE Write(EmptySite, catalog)
  BY <1>2, <1>3
<1> QED
  BY <1>4 DEF catalog

LEMMA NoSiteIsRefused ==
  ASSUME NEW catalog
  PROVE  Write(EmptySite, catalog) # Refused
  BY DEF Write, Refused

LEMMA Histories ==
  ASSUME NEW input, Generate(input) # Refused
  PROVE  /\ DOMAIN Generate(input).files = {ParseTag(tag).ns : tag \in DOMAIN input.published}
         /\ DOMAIN Generate(input).index = DOMAIN Generate(input).files
         /\ \A ns \in DOMAIN Generate(input).files :
              Generate(input).files[ns] =
                {VersionEntry(tag, input.published[tag]) :
                   tag \in {t \in DOMAIN input.published : ParseTag(t).ns = ns}}
  BY DEF Generate

LEMMA Written ==
  ASSUME NEW catalog
  PROVE  /\ Write(EmptySite, catalog).files = [ns \in DOMAIN catalog.files |-> catalog.files[ns]]
         /\ Write(EmptySite, catalog).index = catalog.index
<1>1. DOMAIN EmptySite.files = {}
  BY DEF EmptySite
<1> QED
  BY <1>1 DEF Write

\* A site that was assembled has an entry for each tag that was declared, and
\* no other.
LEMMA AssembledLists ==
  ASSUME NEW checkout, NEW tags, NEW treeAt, NEW published,
         AssembleSite(checkout, tags, treeAt, published) # Refused
  PROVE  LET products == DiscoverProducts(checkout)
             site == AssembleSite(checkout, tags, treeAt, published)
             kept == {t \in ModuleTags(tags) : /\ DeclaredAtTag(products, t, treeAt) # NoDeclaration
                                               /\ published[t] # Unpublished}
         IN  /\ Assemblable(products, ModuleTags(tags), treeAt, published)
             /\ DOMAIN site.index = DOMAIN site.files
             /\ \A ns \in DOMAIN site.files : \A entry \in site.files[ns] :
                  \E t \in kept : /\ ParseTag(t).ns = ns
                                 /\ Describes(entry, t, DeclaredAtTag(products, t, treeAt))
             /\ \A t \in kept :
                  /\ ParseTag(t).ns \in DOMAIN site.files
                  /\ \E entry \in site.files[ParseTag(t).ns] :
                       Describes(entry, t, DeclaredAtTag(products, t, treeAt))
<1> DEFINE products == DiscoverProducts(checkout)
           input == AssembleInput(products, ModuleTags(tags), treeAt, published)
           kept == {t \in ModuleTags(tags) : /\ DeclaredAtTag(products, t, treeAt) # NoDeclaration
                                             /\ published[t] # Unpublished}
           catalog == Generate(input)
           site == AssembleSite(checkout, tags, treeAt, published)
<1>1. input # Refused /\ catalog # Refused /\ site = Write(EmptySite, catalog)
  BY AssembledIs
<1>2. Assemblable(products, ModuleTags(tags), treeAt, published)
  <2> HIDE DEF products
  <2> QED
    BY <1>1 DEF AssembleInput
<1>3. /\ DOMAIN input.published = kept
      /\ \A t \in kept :
           /\ input.published[t].protocols = DeclaredAtTag(products, t, treeAt).protocols
           /\ input.published[t].artifacts = ArtifactsFor(published[t])
  <2> HIDE DEF products
  <2> QED
    BY <1>2 DEF AssembleInput
<1> HIDE DEF input, products, site
<1>4. site.files = [ns \in DOMAIN catalog.files |-> catalog.files[ns]] /\ site.index = catalog.index
  BY <1>1, Written
<1> HIDE DEF kept
<1>5. /\ DOMAIN catalog.files = {ParseTag(t).ns : t \in kept}
      /\ DOMAIN catalog.index = DOMAIN catalog.files
      /\ \A ns \in DOMAIN catalog.files :
           catalog.files[ns] = {VersionEntry(t, input.published[t]) :
                                  t \in {u \in kept : ParseTag(u).ns = ns}}
  BY <1>1, <1>3, Histories
<1> HIDE DEF catalog
<1>6. \A t \in kept :
        Describes(VersionEntry(t, input.published[t]), t, DeclaredAtTag(products, t, treeAt))
  BY <1>3 DEF Describes, VersionEntry, ArtifactsFor
<1>7. ASSUME NEW ns \in DOMAIN site.files, NEW entry \in site.files[ns]
      PROVE  \E t \in kept : /\ ParseTag(t).ns = ns
                            /\ Describes(entry, t, DeclaredAtTag(products, t, treeAt))
  <2>1. PICK t \in kept : ParseTag(t).ns = ns /\ entry = VersionEntry(t, input.published[t])
    BY <1>4, <1>5
  <2> QED
    BY <1>6, <2>1
<1>8. ASSUME NEW t \in kept
      PROVE  /\ ParseTag(t).ns \in DOMAIN site.files
             /\ \E entry \in site.files[ParseTag(t).ns] :
                  Describes(entry, t, DeclaredAtTag(products, t, treeAt))
  <2>1. ParseTag(t).ns \in DOMAIN catalog.files
    BY <1>5
  <2>2. VersionEntry(t, input.published[t]) \in catalog.files[ParseTag(t).ns]
    BY <1>5, <2>1
  <2> QED
    BY <1>4, <1>6, <2>1, <2>2
<1>9. DOMAIN site.index = DOMAIN site.files
  BY <1>4, <1>5
<1> QED
  BY <1>2, <1>7, <1>8, <1>9 DEF products, kept, site

LEMMA FoundWhereItIs ==
  ASSUME NEW c \in DOMAIN Trees, NEW ns, Buildable(DiscoverProducts(Trees[c]), ns)
  PROVE  \E x \in DOMAIN Trees[c] :
           /\ Trees[c][x] # NoDeclaration /\ Trees[c][x].ns = ns
           /\ Trees[c][x].directory = DirectoryOf(DiscoverProducts(Trees[c]), ns)
<1> DEFINE products == DiscoverProducts(Trees[c])
           found == CHOOSE d \in products : d.ns = ns
<1>1. found \in products /\ found.ns = ns
  BY DEF Buildable
<1>2. \A d \in products : \E x \in DOMAIN Trees[c] : d = Trees[c][x] /\ d # NoDeclaration
  BY DEF DiscoverProducts
<1>3. DirectoryOf(products, ns) = found.directory
  BY DEF DirectoryOf
<1> HIDE DEF found, products
<1>4. PICK x \in DOMAIN Trees[c] : found = Trees[c][x] /\ found # NoDeclaration
  BY <1>1, <1>2
<1> QED
  BY <1>1, <1>3, <1>4 DEF products

\* Modules that stay are found by one checkout as by another.
LEMMA CarriesSame ==
  ASSUME ModulesStay, NEW c \in DOMAIN Trees, NEW d \in DOMAIN Trees, NEW t, Carries(c, t),
         Buildable(DiscoverProducts(Trees[d]), ParseTag(t).ns)
  PROVE  /\ Carries(d, t)
         /\ DeclaredAtTag(DiscoverProducts(Trees[d]), t, TreeAt)
              = DeclaredAtTag(DiscoverProducts(Trees[c]), t, TreeAt)
<1>1. DirectoryOf(DiscoverProducts(Trees[c]), ParseTag(t).ns)
        = DirectoryOf(DiscoverProducts(Trees[d]), ParseTag(t).ns)
  <2> DEFINE ns == ParseTag(t).ns
  <2>1. PICK x \in DOMAIN Trees[c] :
          /\ Trees[c][x] # NoDeclaration /\ Trees[c][x].ns = ns
          /\ Trees[c][x].directory = DirectoryOf(DiscoverProducts(Trees[c]), ns)
    BY FoundWhereItIs DEF Carries
  <2>2. PICK y \in DOMAIN Trees[d] :
          /\ Trees[d][y] # NoDeclaration /\ Trees[d][y].ns = ns
          /\ Trees[d][y].directory = DirectoryOf(DiscoverProducts(Trees[d]), ns)
    BY FoundWhereItIs
  <2> QED
    BY <2>1, <2>2 DEF ModulesStay
<1> QED
  BY <1>1 DEF Carries, DeclaredAtTag

LEMMA DeclaredOnce ==
  ASSUME ModulesStay, NEW c \in DOMAIN Trees, NEW t, Carries(c, t)
  PROVE  DeclaredBy(t) = DeclaredAtTag(DiscoverProducts(Trees[c]), t, TreeAt)
<1> DEFINE found == CHOOSE d \in DOMAIN Trees : Carries(d, t)
<1>1. found \in DOMAIN Trees /\ Carries(found, t)
  OBVIOUS
<1>2. DeclaredBy(t) = DeclaredAtTag(DiscoverProducts(Trees[found]), t, TreeAt)
  BY DEF DeclaredBy
<1> HIDE DEF found
<1>3. Buildable(DiscoverProducts(Trees[c]), ParseTag(t).ns)
  BY DEF Carries
<1> QED
  BY <1>1, <1>2, <1>3, CarriesSame

LEMMA CheckoutLists ==
  ASSUME ModulesStay, NEW c \in DOMAIN Trees, NEW tags, NEW published, NEW site,
         site = AssembleSite(Trees[c], tags, TreeAt, published), site # Refused
  PROVE  Backed(site, tags) /\ Full(site, tags)
<1> DEFINE products == DiscoverProducts(Trees[c])
           kept == {t \in ModuleTags(tags) : /\ DeclaredAtTag(products, t, TreeAt) # NoDeclaration
                                             /\ published[t] # Unpublished}
<1>1. /\ Assemblable(products, ModuleTags(tags), TreeAt, published)
      /\ DOMAIN site.index = DOMAIN site.files
      /\ \A ns \in DOMAIN site.files : \A entry \in site.files[ns] :
           \E t \in kept : /\ ParseTag(t).ns = ns
                          /\ Describes(entry, t, DeclaredAtTag(products, t, TreeAt))
      /\ \A t \in kept :
           /\ ParseTag(t).ns \in DOMAIN site.files
           /\ \E entry \in site.files[ParseTag(t).ns] :
                Describes(entry, t, DeclaredAtTag(products, t, TreeAt))
  BY AssembledLists
<1> HIDE DEF products
<1>2. \A t \in ModuleTags(tags) :
        /\ ParseTag(t) # Malformed /\ Buildable(products, ParseTag(t).ns)
        /\ (DeclaredAtTag(products, t, TreeAt) # NoDeclaration => published[t] # Unpublished)
  BY <1>1 DEF Assemblable
<1>3. \A t \in ModuleTags(tags) : t \in kept <=> Carries(c, t)
  BY <1>2 DEF Carries, products
<1>4. \A t \in ModuleTags(tags) : Released(t) => Carries(c, t)
  BY <1>2, CarriesSame DEF Released, products
<1>5. \A t \in kept : t \in ModuleTags(tags)
  OBVIOUS
<1> HIDE DEF kept
<1>6. \A t \in kept : /\ Released(t) /\ ParseTag(t) # Malformed
                      /\ DeclaredAtTag(products, t, TreeAt) = DeclaredBy(t)
  BY <1>2, <1>3, <1>5, DeclaredOnce DEF Released, products
<1>7. Backed(site, tags)
  BY <1>1, <1>5, <1>6 DEF Backed, EntryOf
<1>8. Full(site, tags)
  BY <1>1, <1>3, <1>4, <1>6 DEF Full, Offers, EntryOf
<1> QED
  BY <1>7, <1>8

LEMMA BackedGrows ==
  ASSUME NEW site, NEW tags, NEW more, tags \subseteq more, Backed(site, tags)
  PROVE  Backed(site, more)
<1>1. ModuleTags(tags) \subseteq ModuleTags(more)
  BY DEF ModuleTags
<1> QED
  BY <1>1 DEF Backed

\* What a site offers, the one that was assembled from its tags and more offers.
LEMMA MoreOffers ==
  ASSUME NEW old, NEW new, NEW tags, Backed(old, tags), Full(new, tags), NEW tag, Offers(old, tag)
  PROVE  Offers(new, tag)
<1>1. PICK entry \in old.files[ParseTag(tag).ns] :
        ParseTag(tag).ns \in DOMAIN old.files /\ EntryOf(entry, tag)
  BY DEF Offers
<1>2. PICK t \in ModuleTags(tags) :
        ParseTag(t).ns = ParseTag(tag).ns /\ Released(t) /\ EntryOf(entry, t)
  BY <1>1 DEF Backed
<1>3. PICK other \in new.files[ParseTag(t).ns] :
        ParseTag(t).ns \in DOMAIN new.files /\ EntryOf(other, t)
  BY <1>2 DEF Full, Offers
<1>4. EntryOf(other, tag)
  BY <1>1, <1>2, <1>3 DEF EntryOf, Describes
<1> QED
  BY <1>2, <1>3, <1>4 DEF Offers

\* What is offered is listed, and nothing else.
LEMMA ListedStays ==
  ASSUME NEW old, NEW new, NEW tags \in SUBSET Tags, Backed(old, tags),
         \A t \in Tags : Offers(old, t) => Offers(new, t),
         NEW tag, Listed(old, tag)
  PROVE  Listed(new, tag)
<1>1. PICK entry \in old.files[TagText[tag].ns] :
        TagText[tag].ns \in DOMAIN old.files /\ entry.version = ParseTag(tag).version
  BY DEF Listed
<1>2. PICK t \in ModuleTags(tags) :
        ParseTag(t).ns = TagText[tag].ns /\ EntryOf(entry, t)
  BY <1>1 DEF Backed
<1>3. t \in Tags /\ Offers(old, t)
  BY <1>1, <1>2 DEF Offers, ModuleTags
<1>4. PICK other \in new.files[ParseTag(t).ns] :
        ParseTag(t).ns \in DOMAIN new.files /\ EntryOf(other, t)
  BY <1>3 DEF Offers
<1> QED
  BY <1>1, <1>2, <1>4 DEF EntryOf, Describes, Listed

LEMMA NothingBacked == \A tags : Backed(EmptySite, tags)
<1>1. DOMAIN EmptySite.files = {} /\ DOMAIN EmptySite.index = {}
  BY DEF EmptySite
<1> QED
  BY <1>1 DEF Backed

-----------------------------------------------------------------------------
(* Every deployment lists what was served before it.                        *)

LEMMA AtShape ==
  ASSUME NEW phase
  PROVE  At(phase) = [phase |-> phase, tags |-> {}, site |-> EmptySite]
  BY DEF At, Idle

LEMMA BecomeShape ==
  ASSUME Deployments, NEW job \in Jobs, NEW phase, Become(job, phase)
  PROVE  /\ pipeline' = [j \in Jobs |-> pipeline'[j]]
         /\ pipeline'[job] = At(phase)
         /\ \A other \in Jobs : other # job => pipeline'[other] = pipeline[other]
<1> DEFINE new == At(phase)
<1>1. pipeline' = [pipeline EXCEPT ![job] = new]
  BY DEF Become
<1> HIDE DEF new
<1>2. /\ pipeline' = [j \in Jobs |-> pipeline'[j]]
      /\ pipeline'[job] = new
      /\ \A other \in Jobs : other # job => pipeline'[other] = pipeline[other]
  BY <1>1 DEF Deployments
<1> QED
  BY <1>2 DEF new

LEMMA QueueShape ==
  ASSUME NEW job \in Jobs, Queue(job)
  PROVE  /\ pipeline' = [j \in Jobs |-> pipeline'[j]]
         /\ pipeline'[job] = At("wait")
         /\ \A other \in Jobs : other # job =>
              \/ pipeline'[other] = pipeline[other]
              \/ pipeline[other].phase = "wait" /\ pipeline'[other] = At("cancelled")
  BY DEF Queue

LEMMA DeployedShape ==
  ASSUME NEW site, deployed' = Append(deployed, site), deployed # <<>>,
         \E sites : deployed \in Seq(sites)
  PROVE  /\ Served' = site /\ deployed' # <<>>
         /\ \E sites : deployed' \in Seq(sites)
<1>1. PICK sites : deployed \in Seq(sites)
  OBVIOUS
<1> DEFINE more == sites \cup {site}
<1>2. deployed \in Seq(more) /\ site \in more
  BY <1>1
<1> HIDE DEF more
<1>3. deployed' \in Seq(more) /\ Len(deployed') = Len(deployed) + 1
      /\ deployed'[Len(deployed) + 1] = site /\ Len(deployed) \in Nat
  BY <1>2
<1> QED
  BY <1>3 DEF Served

LEMMA InitSiteInv ==
  ASSUME ModulesStay, ReleaseInit
  PROVE  SiteInv
<1>1. PICK from \in Scenes :
        /\ main = Newest(from.served)
        /\ pipeline = [job \in Jobs |-> At(IF job \in from.served THEN "done" ELSE "none")]
        /\ turn = Nobody /\ siteRuns = << >>
        /\ deployed = <<SiteBefore(from.served)>>
  BY DEF ReleaseInit
<1>2. /\ from.served \subseteq Tags /\ Newest(from.served) \in DOMAIN Trees
      /\ SiteBefore(from.served) # Refused /\ Nobody \notin Jobs
  BY ReleaseAssumption
<1>3. \A job \in Jobs :
        /\ pipeline[job] = [phase |-> pipeline[job].phase, tags |-> pipeline[job].tags,
                            site |-> pipeline[job].site]
        /\ pipeline[job].phase \notin {"assemble", "deploy"}
        /\ job \in from.served => pipeline[job].phase # "none"
  BY <1>1, AtShape
<1>4. from.served \subseteq Pushed
  BY <1>2, <1>3 DEF Pushed, Jobs
<1>5. Served = SiteBefore(from.served) /\ deployed # <<>> /\ deployed \in Seq({SiteBefore(from.served)})
  BY <1>1 DEF Served
<1>6. Backed(Served, Pushed)
  <2>1. CASE from.served = {}
    BY <1>5, <2>1, NothingBacked DEF SiteBefore
  <2>2. CASE from.served # {}
    <3>1. SiteBefore(from.served) = AssembleSite(Trees[Newest(from.served)], from.served, TreeAt,
                                                 PublishedBefore(from.served))
      BY <2>2 DEF SiteBefore
    <3>2. Backed(SiteBefore(from.served), from.served)
      BY <1>2, <3>1, CheckoutLists
    <3> QED
      BY <1>4, <1>5, <3>2, BackedGrows
  <2> QED
    BY <2>1, <2>2
<1>7. Deployments
  <2>1. \E sites : deployed \in Seq(sites)
    BY <1>5
  <2> QED
    BY <1>1, <1>2, <1>3, <1>5, <2>1 DEF Deployments
<1>8. OneDeploys
  BY <1>1, <1>2, <1>3 DEF OneDeploys
<1>9. Sited
  <2>1. pipeline[PagesRun].phase = "none"
    BY <1>1, <1>2, AtShape, ReleaseAssumption DEF Jobs
  <2> QED
    BY <1>1, <2>1 DEF Sited
<1> QED
  BY <1>3, <1>6, <1>7, <1>8, <1>9 DEF SiteInv, NextIsMore

\* NextIsMore of the next state.
LEMMA NextIsMoreThen ==
  ASSUME Backed(Served', Pushed'),
         \A job \in Jobs : pipeline'[job].phase = "assemble" =>
           pipeline'[job].tags \subseteq Pushed' /\ Backed(Served', pipeline'[job].tags),
         \A job \in Jobs : pipeline'[job].phase = "deploy" =>
           \E tags \in SUBSET Pushed' :
             /\ Backed(Served', tags)
             /\ Backed(pipeline'[job].site, tags) /\ Full(pipeline'[job].site, tags)
  PROVE  NextIsMore'
  BY DEF NextIsMore, Backed, Full, Offers, EntryOf, DeclaredBy, Released, Carries, TreeAt

LEMMA SitedThen ==
  ASSUME Sited, UNCHANGED siteRuns,
         pipeline[PagesRun].phase = "none" => pipeline'[PagesRun].phase = "none"
  PROVE  Sited'
  BY DEF Sited

LEMMA CheckoutThere ==
  ASSUME Sited, NEW job \in Jobs, pipeline[job].phase # "none"
  PROVE  CheckoutOf(job) \in DOMAIN Trees
<1>1. CASE job \in Tags
  BY <1>1, ReleaseAssumption DEF CheckoutOf
<1>2. CASE job = PagesRun
  <2>1. siteRuns \in Seq(DOMAIN Trees) /\ siteRuns # << >>
    BY <1>2 DEF Sited
  <2>2. siteRuns[Len(siteRuns)] \in DOMAIN Trees
    BY <2>1
  <2> QED
    BY <1>2, <2>2 DEF CheckoutOf
<1> QED
  BY <1>1, <1>2 DEF Jobs

\* Runs that come and go, without a deployment, and without one about to be.
LEMMA QuietSites ==
  ASSUME SiteInv, UNCHANGED deployed, main' \in DOMAIN Trees, OneDeploys', Sited',
         pipeline' = [job \in Jobs |-> pipeline'[job]],
         \A job \in Jobs :
           \/ pipeline'[job] = pipeline[job]
           \/ \E phase : /\ phase \notin {"none", "assemble", "deploy"}
                         /\ pipeline'[job] = At(phase)
  PROVE  SiteInv' /\ Pushed \subseteq Pushed'
<1>1. \A job \in Jobs :
        /\ pipeline'[job] = [phase |-> pipeline'[job].phase, tags |-> pipeline'[job].tags,
                             site |-> pipeline'[job].site]
        /\ pipeline[job].phase # "none" => pipeline'[job].phase # "none"
        /\ pipeline'[job].phase \in {"assemble", "deploy"} => pipeline'[job] = pipeline[job]
  BY AtShape DEF SiteInv, Deployments
<1>2. Pushed \subseteq Pushed'
  BY <1>1 DEF Pushed, Jobs
<1>3. Served' = Served
  BY DEF Served
<1>4. Deployments'
  BY <1>1 DEF SiteInv, Deployments
<1>5. NextIsMore'
  <2>1. Backed(Served, Pushed')
    BY <1>2, BackedGrows DEF SiteInv, NextIsMore
  <2>2. ASSUME NEW job \in Jobs, pipeline'[job].phase = "assemble"
        PROVE  pipeline'[job].tags \subseteq Pushed' /\ Backed(Served, pipeline'[job].tags)
    BY <1>1, <1>2, <2>2 DEF SiteInv, NextIsMore
  <2>3. ASSUME NEW job \in Jobs, pipeline'[job].phase = "deploy"
        PROVE  \E tags \in SUBSET Pushed' :
                 /\ Backed(Served, tags)
                 /\ Backed(pipeline'[job].site, tags) /\ Full(pipeline'[job].site, tags)
    BY <1>1, <1>2, <2>3 DEF SiteInv, NextIsMore
  <2>4. Backed(Served', Pushed')
    BY <1>3, <2>1
  <2>5. \A job \in Jobs : pipeline'[job].phase = "assemble" =>
          pipeline'[job].tags \subseteq Pushed' /\ Backed(Served', pipeline'[job].tags)
    BY <1>3, <2>2
  <2>6. \A job \in Jobs : pipeline'[job].phase = "deploy" =>
          \E tags \in SUBSET Pushed' :
            /\ Backed(Served', tags)
            /\ Backed(pipeline'[job].site, tags) /\ Full(pipeline'[job].site, tags)
    BY <1>3, <2>3
  <2> QED
    BY <2>4, <2>5, <2>6, NextIsMoreThen
<1> QED
  BY <1>2, <1>4, <1>5 DEF SiteInv

LEMMA BecomeSites ==
  ASSUME SiteInv, NEW job \in Jobs, NEW phase, Become(job, phase),
         phase \notin {"none", "assemble", "deploy"},
         turn' = IF turn = job THEN Nobody ELSE turn, UNCHANGED <<main, deployed, siteRuns>>,
         job \in Tags \/ pipeline[job].phase # "none"
  PROVE  SiteInv' /\ Pushed \subseteq Pushed'
<1>1. /\ pipeline' = [j \in Jobs |-> pipeline'[j]]
      /\ pipeline'[job] = At(phase)
      /\ \A other \in Jobs : other # job => pipeline'[other] = pipeline[other]
  BY BecomeShape DEF SiteInv
<1>2. OneDeploys'
  BY <1>1, AtShape, ReleaseAssumption DEF SiteInv, OneDeploys
<1>3. \A j \in Jobs :
        \/ pipeline'[j] = pipeline[j]
        \/ \E p : p \notin {"none", "assemble", "deploy"} /\ pipeline'[j] = At(p)
  BY <1>1
<1>4. main' \in DOMAIN Trees
  BY DEF SiteInv, Deployments
<1>5. Sited'
  <2>1. PagesRun # job \/ pipeline[PagesRun].phase # "none"
    BY ReleaseAssumption
  <2> QED
    BY <1>1, <2>1, SitedThen DEF SiteInv, Jobs
<1> QED
  BY <1>1, <1>2, <1>3, <1>4, <1>5, QuietSites

LEMMA QueueSites ==
  ASSUME SiteInv, NEW job \in Jobs, Queue(job), pipeline[job].phase \notin {"assemble", "deploy"},
         UNCHANGED <<turn, main, deployed>>,
         \/ job \in Tags /\ UNCHANGED siteRuns
         \/ siteRuns' = Append(siteRuns, main)
  PROVE  SiteInv' /\ Pushed \subseteq Pushed'
<1>1. /\ pipeline' = [j \in Jobs |-> pipeline'[j]]
      /\ pipeline'[job] = At("wait")
      /\ \A other \in Jobs : other # job =>
           \/ pipeline'[other] = pipeline[other]
           \/ pipeline[other].phase = "wait" /\ pipeline'[other] = At("cancelled")
  BY QueueShape
<1>2. OneDeploys'
  BY <1>1, AtShape DEF SiteInv, OneDeploys
<1>3. \A j \in Jobs :
        \/ pipeline'[j] = pipeline[j]
        \/ \E p : p \notin {"none", "assemble", "deploy"} /\ pipeline'[j] = At(p)
  BY <1>1
<1>4. main' \in DOMAIN Trees
  BY DEF SiteInv, Deployments
<1>5. Sited'
  <2>1. CASE job \in Tags /\ UNCHANGED siteRuns
    <3>1. PagesRun # job /\ PagesRun \in Jobs
      BY <2>1, ReleaseAssumption DEF Jobs
    <3>2. pipeline[PagesRun].phase = "none" => pipeline'[PagesRun].phase = "none"
      BY <1>1, <3>1
    <3> QED
      BY <2>1, <3>2, SitedThen DEF SiteInv
  <2>2. CASE siteRuns' = Append(siteRuns, main)
    <3>1. siteRuns \in Seq(DOMAIN Trees) /\ main \in DOMAIN Trees
      BY DEF SiteInv, Sited, Deployments
    <3>2. siteRuns' \in Seq(DOMAIN Trees) /\ siteRuns' # << >>
      BY <2>2, <3>1
    <3> QED
      BY <3>2 DEF Sited
  <2> QED
    BY <2>1, <2>2
<1> QED
  BY <1>1, <1>2, <1>3, <1>4, <1>5, QuietSites

LEMMA EnterSites ==
  ASSUME SiteInv, NEW job \in Jobs, EnterPages(job)
  PROVE  /\ SiteInv' /\ Pushed' = Pushed /\ Served' = Served
         /\ pipeline'[job].phase = "assemble" /\ pipeline'[job].tags = Pushed
         /\ \A other \in Jobs : other # job => pipeline'[other] = pipeline[other]
<1> DEFINE new == [At("assemble") EXCEPT !.tags = Pushed]
<1>1. /\ pipeline[job].phase = "wait" /\ turn = Nobody /\ turn' = job
      /\ pipeline' = [pipeline EXCEPT ![job] = new]
      /\ UNCHANGED <<main, deployed, siteRuns>>
  BY DEF EnterPages
<1>2. new = [phase |-> "assemble", tags |-> Pushed, site |-> EmptySite]
  <2> DEFINE tags == Pushed
  <2>1. new = [At("assemble") EXCEPT !.tags = tags]
    OBVIOUS
  <2> HIDE DEF new, tags
  <2>2. new = [phase |-> "assemble", tags |-> tags, site |-> EmptySite]
    BY <2>1, AtShape
  <2> QED
    BY <2>2 DEF tags
<1> HIDE DEF new
<1>3. /\ pipeline' = [j \in Jobs |-> pipeline'[j]]
      /\ pipeline'[job] = new
      /\ \A other \in Jobs : other # job => pipeline'[other] = pipeline[other]
  BY <1>1 DEF SiteInv, Deployments
<1>4. Pushed' = Pushed /\ Served' = Served
  BY <1>1, <1>2, <1>3 DEF Pushed, Jobs, Served
<1>5. Deployments'
  BY <1>1, <1>2, <1>3 DEF SiteInv, Deployments
<1>6. OneDeploys'
  BY <1>1, <1>2, <1>3, ReleaseAssumption DEF SiteInv, OneDeploys
<1>7. NextIsMore'
  <2>1. \A j \in Jobs : j # job => pipeline[j].phase \notin {"assemble", "deploy"}
    BY <1>1, ReleaseAssumption DEF SiteInv, OneDeploys
  <2>2. Backed(Served', Pushed')
    BY <1>4 DEF SiteInv, NextIsMore
  <2>3. Backed(Served', pipeline'[job].tags) /\ pipeline'[job].tags = Pushed'
    BY <1>2, <1>3, <1>4, <2>2
  <2> QED
    BY <1>2, <1>3, <1>4, <2>1, <2>2, <2>3, NextIsMoreThen
<1>8. Sited'
  BY <1>1, <1>3, SitedThen DEF SiteInv, Jobs
<1> QED
  BY <1>2, <1>3, <1>4, <1>5, <1>6, <1>7, <1>8 DEF SiteInv

LEMMA AssembleSites ==
  ASSUME ModulesStay, SiteInv, NEW job \in Jobs, Assemble(job)
  PROVE  /\ SiteInv' /\ Pushed' = Pushed /\ Served' = Served
         /\ \A other \in Jobs : other # job => pipeline'[other] = pipeline[other]
<1> DEFINE site == Site(CheckoutOf(job), pipeline[job].tags)
           new == [At("deploy") EXCEPT !.site = site]
<1>1. /\ pipeline[job].phase = "assemble" /\ UNCHANGED <<main, deployed, siteRuns>>
      /\ \/ /\ site # Refused /\ pipeline' = [pipeline EXCEPT ![job] = new] /\ UNCHANGED turn
         \/ Become(job, "incomplete") /\ turn' = Nobody
  BY DEF Assemble
<1>2. turn = job
  BY <1>1 DEF SiteInv, OneDeploys
<1>3. CASE Become(job, "incomplete") /\ turn' = Nobody
  <2>1. SiteInv' /\ Pushed \subseteq Pushed'
    BY <1>1, <1>2, <1>3, BecomeSites
  <2>2. /\ \A other \in Jobs : other # job => pipeline'[other] = pipeline[other]
        /\ pipeline'[job].phase # "none"
    BY <1>3, BecomeShape, AtShape DEF SiteInv
  <2> QED
    BY <1>1, <2>1, <2>2 DEF Pushed, Jobs, Served
<1>4. CASE site # Refused /\ pipeline' = [pipeline EXCEPT ![job] = new] /\ UNCHANGED turn
  <2>1. new = [phase |-> "deploy", tags |-> {}, site |-> site]
    <3>1. new = [At("deploy") EXCEPT !.site = site]
      OBVIOUS
    <3> HIDE DEF new, site
    <3> QED
      BY <3>1, AtShape
  <2>2. CheckoutOf(job) \in DOMAIN Trees
    BY <1>1, CheckoutThere DEF SiteInv
  <2>3. Backed(site, pipeline[job].tags) /\ Full(site, pipeline[job].tags)
    <3> DEFINE published == [tag \in Tags |-> PublishedAt(tag)]
    <3>1. site = AssembleSite(Trees[CheckoutOf(job)], pipeline[job].tags, TreeAt, published)
      BY DEF Site
    <3> HIDE DEF site, published
    <3> QED
      BY <1>4, <2>2, <3>1, CheckoutLists
  <2>4. pipeline[job].tags \subseteq Pushed /\ Backed(Served, pipeline[job].tags)
    BY <1>1 DEF SiteInv, NextIsMore
  <2> HIDE DEF new
  <2>5. /\ pipeline' = [j \in Jobs |-> pipeline'[j]]
        /\ pipeline'[job] = new
        /\ \A other \in Jobs : other # job => pipeline'[other] = pipeline[other]
    BY <1>4 DEF SiteInv, Deployments
  <2> HIDE DEF site
  <2>6. Pushed' = Pushed /\ Served' = Served
    BY <1>1, <2>1, <2>5 DEF Pushed, Jobs, Served
  <2>7. Deployments'
    BY <1>1, <2>1, <2>5 DEF SiteInv, Deployments
  <2>8. OneDeploys'
    BY <1>1, <1>2, <1>4, <2>1, <2>5 DEF SiteInv, OneDeploys
  <2>9. NextIsMore'
    <3>1. \A j \in Jobs : j # job => pipeline[j].phase \notin {"assemble", "deploy"}
      BY <1>2, <2>5 DEF SiteInv, OneDeploys
    <3>2. Backed(Served', Pushed')
      BY <2>6 DEF SiteInv, NextIsMore
    <3>3. pipeline'[job].site = site /\ pipeline'[job].phase = "deploy"
      BY <2>1, <2>5
    <3>4. \E tags \in SUBSET Pushed' :
            /\ Backed(Served', tags)
            /\ Backed(pipeline'[job].site, tags) /\ Full(pipeline'[job].site, tags)
      BY <2>3, <2>4, <2>6, <3>3
    <3>5. \A j \in Jobs : pipeline'[j].phase \in {"assemble", "deploy"} => j = job
      BY <2>5, <3>1
    <3> QED
      BY <3>2, <3>3, <3>4, <3>5, NextIsMoreThen
  <2>10. Sited'
    BY <1>1, <2>5, SitedThen DEF SiteInv, Jobs
  <2> QED
    BY <2>5, <2>6, <2>7, <2>8, <2>9, <2>10 DEF SiteInv
<1> QED
  BY <1>1, <1>3, <1>4

LEMMA DeploySites ==
  ASSUME SiteInv, NEW job \in Jobs, Deploy(job)
  PROVE  /\ SiteInv' /\ Pushed' = Pushed
         /\ \A tag \in Tags : Offers(Served, tag) => Offers(Served', tag)
         /\ \/ Become(job, "unserved") /\ Served' = Served
            \/ Become(job, "done") /\ Served' = pipeline[job].site
<1>1. /\ pipeline[job].phase = "deploy" /\ turn' = Nobody /\ UNCHANGED <<main, siteRuns>>
      /\ \/ Become(job, "unserved") /\ UNCHANGED deployed
         \/ Become(job, "done") /\ deployed' = Append(deployed, pipeline[job].site)
  BY DEF Deploy
<1>2. turn = job
  BY <1>1 DEF SiteInv, OneDeploys
<1>3. ASSUME NEW phase \in {"unserved", "done"}, Become(job, phase)
      PROVE  /\ pipeline' = [j \in Jobs |-> pipeline'[j]]
             /\ pipeline'[job] = [phase |-> phase, tags |-> {}, site |-> EmptySite]
             /\ \A other \in Jobs : other # job => pipeline'[other] = pipeline[other]
             /\ Pushed' = Pushed
  <2>1. /\ pipeline' = [j \in Jobs |-> pipeline'[j]]
        /\ pipeline'[job] = At(phase)
        /\ \A other \in Jobs : other # job => pipeline'[other] = pipeline[other]
    BY <1>3, BecomeShape DEF SiteInv
  <2> QED
    BY <1>1, <2>1, AtShape DEF Pushed, Jobs
<1>4. CASE Become(job, "unserved") /\ UNCHANGED deployed
  <2>1. SiteInv'
    BY <1>1, <1>2, <1>4, BecomeSites
  <2> QED
    BY <1>3, <1>4, <2>1 DEF Served
<1>5. CASE Become(job, "done") /\ deployed' = Append(deployed, pipeline[job].site)
  <2>1. PICK tags \in SUBSET Pushed :
          /\ Backed(Served, tags)
          /\ Backed(pipeline[job].site, tags) /\ Full(pipeline[job].site, tags)
    BY <1>1 DEF SiteInv, NextIsMore
  <2>2. /\ Served' = pipeline[job].site /\ deployed' # <<>>
        /\ \E sites : deployed' \in Seq(sites)
    BY <1>5, DeployedShape DEF SiteInv, Deployments
  <2>3. \A tag \in Tags : Offers(Served, tag) => Offers(pipeline[job].site, tag)
    BY <2>1, MoreOffers
  <2>4. Backed(pipeline[job].site, Pushed)
    BY <2>1, BackedGrows
  <2>5. /\ pipeline' = [j \in Jobs |-> pipeline'[j]]
        /\ pipeline'[job] = [phase |-> "done", tags |-> {}, site |-> EmptySite]
        /\ \A other \in Jobs : other # job => pipeline'[other] = pipeline[other]
        /\ Pushed' = Pushed
    BY <1>3, <1>5
  <2>6. Deployments'
    BY <1>1, <2>2, <2>5 DEF SiteInv, Deployments
  <2>7. \A j \in Jobs : pipeline'[j].phase \notin {"assemble", "deploy"}
    BY <1>2, <2>5 DEF SiteInv, OneDeploys
  <2>8. OneDeploys'
    BY <1>1, <2>7, ReleaseAssumption DEF OneDeploys
  <2>9. Backed(Served', Pushed')
    BY <2>2, <2>4, <2>5
  <2>10. NextIsMore'
    BY <2>7, <2>9 DEF NextIsMore, Backed, EntryOf, DeclaredBy, Released, Carries, TreeAt
  <2>11. \A tag \in Tags : Offers(Served, tag) => Offers(Served', tag)
    BY <2>2, <2>3
  <2>12. Sited'
    BY <1>1, <2>5, SitedThen DEF SiteInv, Jobs
  <2> QED
    BY <1>5, <2>2, <2>5, <2>6, <2>8, <2>10, <2>11, <2>12 DEF SiteInv
<1> QED
  BY <1>1, <1>4, <1>5

LEMMA ReleaseSites ==
  ASSUME ModulesStay, SiteInv, ReleaseNext
  PROVE  /\ SiteInv' /\ Pushed \subseteq Pushed'
         /\ \A tag \in Tags : Offers(Served, tag) => Offers(Served', tag)
<1> DEFINE Goal == /\ SiteInv' /\ Pushed \subseteq Pushed'
                   /\ \A tag \in Tags : Offers(Served, tag) => Offers(Served', tag)
<1>t. Tags \subseteq Jobs
  BY DEF Jobs
<1>0. ASSUME SiteInv', Pushed \subseteq Pushed', UNCHANGED deployed PROVE Goal
  BY <1>0 DEF Served
<1>1. CASE AdvanceMain \/ ReleaseShell
  <2>1. UNCHANGED <<deployed, pipeline, turn, siteRuns>> /\ main' \in DOMAIN Trees
    BY <1>1 DEF AdvanceMain, ReleaseShell, SiteInv, Deployments
  <2>2. pipeline' = [job \in Jobs |-> pipeline'[job]] /\ OneDeploys' /\ Sited'
        /\ \A job \in Jobs : pipeline'[job] = pipeline[job]
    BY <2>1, SitedThen DEF SiteInv, Deployments, OneDeploys
  <2>3. SiteInv' /\ Pushed \subseteq Pushed'
    BY <2>1, <2>2, QuietSites
  <2> QED
    BY <1>0, <2>1, <2>3
<1>2. CASE RunPages
  <2>1. /\ Queue(PagesRun) /\ pipeline[PagesRun].phase \notin {"assemble", "deploy"}
        /\ UNCHANGED <<turn, main, deployed>> /\ PagesRun \in Jobs
        /\ siteRuns' = Append(siteRuns, main)
    BY <1>2 DEF RunPages, Jobs
  <2> QED
    BY <1>0, <2>1, QueueSites
<1>3. ASSUME NEW job \in Tags, NEW phase, Become(job, phase), phase \notin {"none", "assemble", "deploy"},
             pipeline[job].phase \notin {"assemble", "deploy"}, UNCHANGED <<turn, main, deployed, siteRuns>>
      PROVE  Goal
  <2>1. turn # job
    BY <1>3, <1>t DEF SiteInv, OneDeploys
  <2>2. SiteInv' /\ Pushed \subseteq Pushed'
    BY <1>3, <1>t, <2>1, BecomeSites
  <2> QED
    BY <1>0, <1>3, <2>2
<1>4. ASSUME NEW tag \in Tags, PushTag(tag) PROVE Goal
  <2>1. /\ pipeline[tag].phase = "none" /\ UNCHANGED <<turn, main, deployed, siteRuns>>
        /\ Become(tag, "done") \/ Become(tag, "gate")
    BY <1>4 DEF PushTag
  <2> QED
    BY <1>3, <1>t, <2>1
<1>5. ASSUME NEW tag \in Tags, DecideGate(tag) PROVE Goal
  <2>1. /\ pipeline[tag].phase = "gate" /\ UNCHANGED <<turn, main, deployed, siteRuns>>
        /\ Become(tag, "publish") \/ Become(tag, "refused")
    BY <1>5 DEF DecideGate
  <2> QED
    BY <1>3, <1>t, <2>1
<1>6. ASSUME NEW tag \in Tags, UploadDraft(tag) PROVE Goal
  <2>1. /\ pipeline[tag].phase = "publish" /\ UNCHANGED <<turn, main, deployed, siteRuns>>
        /\ Become(tag, "verify") \/ Become(tag, "refused")
    BY <1>6 DEF UploadDraft
  <2> QED
    BY <1>3, <1>t, <2>1
<1>7. ASSUME NEW tag \in Tags, MakePublic(tag) PROVE Goal
  <2>1. /\ pipeline[tag].phase = "verify" /\ UNCHANGED <<turn, main, deployed, siteRuns>> /\ Queue(tag)
    BY <1>7 DEF MakePublic
  <2> QED
    BY <1>0, <1>t, <2>1, QueueSites
<1>8. ASSUME NEW tag \in Tags, Rerun(tag) PROVE Goal
  <2>1. /\ UNCHANGED <<turn, main, deployed, siteRuns>>
        /\ \/ pipeline[tag].phase = "refused" /\ Become(tag, "gate")
           \/ pipeline[tag].phase = "unpublished" /\ Become(tag, "publish")
           \/ /\ pipeline[tag].phase \in {"cancelled", "unassembled", "incomplete", "unserved"}
              /\ Queue(tag)
    BY <1>8 DEF Rerun
  <2>2. CASE pipeline[tag].phase = "refused" /\ Become(tag, "gate")
    BY <1>3, <1>t, <2>1, <2>2
  <2>3. CASE pipeline[tag].phase = "unpublished" /\ Become(tag, "publish")
    BY <1>3, <1>t, <2>1, <2>3
  <2>4. CASE pipeline[tag].phase \in {"cancelled", "unassembled", "incomplete", "unserved"} /\ Queue(tag)
    BY <1>0, <1>t, <2>1, <2>4, QueueSites
  <2> QED
    BY <2>1, <2>2, <2>3, <2>4
<1>9. ASSUME NEW job \in Jobs, EnterPages(job) PROVE Goal
  BY <1>9, EnterSites
<1>10. ASSUME NEW job \in Jobs, Assemble(job) PROVE Goal
  BY <1>10, AssembleSites
<1>11. ASSUME NEW job \in Jobs, Deploy(job) PROVE Goal
  BY <1>11, DeploySites
<1>12. ASSUME NEW job \in Jobs, Outage(job) PROVE Goal
  <2>1. /\ Become(job, "unpublished") \/ Become(job, "unassembled")
        /\ turn' = (IF turn = job THEN Nobody ELSE turn) /\ UNCHANGED <<main, deployed, siteRuns>>
        /\ pipeline[job].phase # "none"
    BY <1>12 DEF Outage
  <2> QED
    BY <1>0, <2>1, BecomeSites
<1> QED
  BY <1>1, <1>2, <1>4, <1>5, <1>6, <1>7, <1>8, <1>9, <1>10, <1>11, <1>12 DEF ReleaseNext

LEMMA NextSiteInv ==
  ASSUME ModulesStay, SiteInv, [Next]_updateVars
  PROVE  /\ SiteInv' /\ Pushed \subseteq Pushed'
         /\ \A tag \in Tags : Offers(Served, tag) => Offers(Served', tag)
<1>1. CASE ReleaseNext
  BY <1>1, ReleaseSites
<1>2. CASE UNCHANGED releaseVars
  <2>1. UNCHANGED <<main, pipeline, turn, deployed, siteRuns>>
    BY <1>2 DEF releaseVars
  <2>2. main' \in DOMAIN Trees /\ pipeline' = [job \in Jobs |-> pipeline'[job]] /\ OneDeploys' /\ Sited'
        /\ \A job \in Jobs : pipeline'[job] = pipeline[job]
    BY <2>1, SitedThen DEF SiteInv, Deployments, OneDeploys
  <2>3. SiteInv' /\ Pushed \subseteq Pushed'
    BY <2>1, <2>2, QuietSites
  <2> QED
    BY <2>1, <2>3 DEF Served
<1> QED
  BY <1>1, <1>2 DEF Next, updateVars

(* No deployment withdraws what the one before it listed, whichever commits *)
(* they ran at, in whatever order runs waited, were cancelled, failed or    *)
(* were repeated: the group "pages" lets the tags be read only after the    *)
(* deployment before, so whatever that one listed is found again, as long   *)
(* as modules stay in the directory they were released from.                *)
THEOREM NothingIsWithdrawn ==
  ASSUME ModulesStay
  PROVE  Spec => NeverUnpublishes
<1> DEFINE Kept == \A tag \in Tags : Listed(Served, tag) => Listed(Served', tag)
<1>1. Init => SiteInv
  BY InitSiteInv DEF Init
<1>2. SiteInv /\ [Next]_updateVars => SiteInv' /\ [Kept]_deployed
  <2> SUFFICES ASSUME SiteInv, [Next]_updateVars PROVE SiteInv' /\ Kept
    OBVIOUS
  <2>1. SiteInv' /\ \A tag \in Tags : Offers(Served, tag) => Offers(Served', tag)
    BY NextSiteInv
  <2>2. Backed(Served, Pushed) /\ Pushed \in SUBSET Tags
    BY DEF SiteInv, NextIsMore, Pushed
  <2> QED
    BY <2>1, <2>2, ListedStays
<1> QED
  BY <1>1, <1>2, PTL DEF Spec, NeverUnpublishes

-----------------------------------------------------------------------------
(* A checkout that knows every module assembles every tag.                  *)

LEMMA Generated ==
  ASSUME NEW checkout, NEW tags, NEW treeAt, NEW published,
         Assemblable(DiscoverProducts(checkout), ModuleTags(tags), treeAt, published),
         DeclarationsValid(DiscoverProducts(checkout)),
         \A t \in ModuleTags(tags) :
           LET declared == DeclaredAtTag(DiscoverProducts(checkout), t, treeAt)
           IN  declared # NoDeclaration =>
                 ParseRange(declared.shell) # Malformed /\ declared.protocols # <<>>
  PROVE  AssembleSite(checkout, tags, treeAt, published) # Refused
<1> DEFINE products == DiscoverProducts(checkout)
           input == AssembleInput(products, ModuleTags(tags), treeAt, published)
           kept == {t \in ModuleTags(tags) : /\ DeclaredAtTag(products, t, treeAt) # NoDeclaration
                                             /\ published[t] # Unpublished}
           releases == [t \in kept |->
              LET declared == DeclaredAtTag(products, t, treeAt)
              IN  [shell |-> declared.shell, protocols |-> declared.protocols,
                   descriptor |-> declared.descriptor, artifacts |-> ArtifactsFor(published[t])]]
<1>1. input = [modules |-> products, published |-> releases]
  <2> HIDE DEF products
  <2> QED
    BY DEF AssembleInput, products
<1> HIDE DEF input
<1>2. input # Refused /\ input.modules = products /\ input.published = releases
  BY <1>1 DEF Refused
<1>3. \A t \in kept : Buildable(products, ParseTag(t).ns) /\ ReleaseValid(releases[t])
  <2> SUFFICES ASSUME NEW t \in kept
               PROVE  Buildable(products, ParseTag(t).ns) /\ ReleaseValid(releases[t])
    OBVIOUS
  <2> DEFINE declared == DeclaredAtTag(products, t, treeAt)
             artifacts == ArtifactsFor(published[t])
  <2>1. /\ t \in ModuleTags(tags) /\ declared # NoDeclaration
        /\ Buildable(products, ParseTag(t).ns) /\ ArtifactsComplete(published[t])
    BY DEF Assemblable
  <2>2. ParseRange(declared.shell) # Malformed /\ declared.protocols # <<>>
    BY <2>1
  <2>3. releases[t] = [shell |-> declared.shell, protocols |-> declared.protocols,
                       descriptor |-> declared.descriptor, artifacts |-> artifacts]
    OBVIOUS
  <2>4. DOMAIN artifacts = Platforms /\ \A p \in Platforms : artifacts[p].size = published[t].assets[p].size
    BY DEF ArtifactsFor
  <2>5. \A p \in DOMAIN artifacts : artifacts[p].size > 0
    BY <2>1, <2>4 DEF ArtifactsComplete, ValidAsset
  <2>6. Platforms # {}
    BY ReleaseAssumption
  <2> HIDE DEF releases, declared, artifacts, kept
  <2> QED
    BY <2>1, <2>2, <2>3, <2>4, <2>5, <2>6 DEF ReleaseValid
<1>4. DOMAIN releases = kept
  OBVIOUS
<1> HIDE DEF releases, kept
<1>5. Generate(input) # Refused
  <2> HIDE DEF products
  <2>1. DeclarationsValid(products)
    BY DEF products
  <2> QED
    BY <1>2, <1>3, <1>4, <2>1 DEF Generate, Refused
<1> QED
  BY <1>2, <1>5, AssembledIs, NoSiteIsRefused DEF input, products

\* Whoever knows all a tag's checkout knew knows as much later.
LEMMA KnowsMore ==
  ASSUME ModulesKept, NEW c \in DOMAIN Trees, NEW d \in DOMAIN Trees, c <= d, KnowsAll(c)
  PROVE  KnowsAll(d)
  BY DEF ModulesKept, KnowsAll

LEMMA ProductsValid ==
  ASSUME ModulesStay, ModulesKept, NEW c \in DOMAIN Trees
  PROVE  DeclarationsValid(DiscoverProducts(Trees[c]))
<1> SUFFICES ASSUME NEW d \in DiscoverProducts(Trees[c]), NEW e \in DiscoverProducts(Trees[c])
             PROVE  /\ d.schema = SchemaVersion /\ d.ns \in Namespaces /\ d.title
                    /\ d.ns = e.ns => d = e
  BY DEF DeclarationsValid
<1>1. PICK x \in DOMAIN Trees[c] : d = Trees[c][x] /\ d # NoDeclaration
  BY DEF DiscoverProducts
<1>2. PICK y \in DOMAIN Trees[c] : e = Trees[c][y] /\ e # NoDeclaration
  BY DEF DiscoverProducts
<1>3. d.directory = x /\ e.directory = y
  BY <1>1, <1>2 DEF ModulesKept
<1>4. d.ns = e.ns => x = y
  BY <1>1, <1>2, <1>3 DEF ModulesStay
<1> QED
  BY <1>1, <1>2, <1>4 DEF ModulesKept

\* A public tag is found in any checkout that knows its product, with the
\* declaration it was released with.
LEMMA PublicCarried ==
  ASSUME ModulesStay, ModulesKept, NEW c \in DOMAIN Trees, KnowsAll(c),
         NEW t \in Pushed, Product(t), Deliverable(t)
  PROVE  LET declared == DeclaredAtTag(DiscoverProducts(Trees[c]), t, TreeAt)
         IN  /\ Buildable(DiscoverProducts(Trees[c]), ParseTag(t).ns)
             /\ declared # NoDeclaration
             /\ ParseRange(declared.shell) # Malformed /\ declared.protocols # <<>>
<1> DEFINE ns == TagText[t].ns
           products == DiscoverProducts(Trees[c])
<1>0. t \in Tags /\ CommitOf[t] \in DOMAIN Trees /\ TreeAt[t] = Trees[CommitOf[t]]
  BY ReleaseAssumption DEF Pushed, TreeAt
<1>1. ParseTag(t).ns = ns
  BY DEF Deliverable, ParseTag
<1>2. PICK x \in DOMAIN Trees[c] : Trees[c][x] # NoDeclaration /\ Trees[c][x].ns = ns
  BY DEF KnowsAll
<1>3. Trees[c][x] \in products
  BY <1>2 DEF DiscoverProducts, Product
<1>4. Buildable(products, ns)
  BY <1>2, <1>3 DEF Buildable
<1>5. PICK z \in DOMAIN Trees[c] :
        /\ Trees[c][z] # NoDeclaration /\ Trees[c][z].ns = ns
        /\ Trees[c][z].directory = DirectoryOf(products, ns)
  BY <1>4, FoundWhereItIs
<1>6. PICK y \in DOMAIN TreeAt[t] :
        /\ TreeAt[t][y] # NoDeclaration /\ TreeAt[t][y].ns = ns
        /\ TreeAt[t][y].protocols # <<>> /\ ParseRange(TreeAt[t][y].shell) # Malformed
  BY DEF Deliverable
<1>7. TreeAt[t][y].directory = y
  BY <1>0, <1>6 DEF ModulesKept
<1>8. DirectoryOf(products, ns) = y
  BY <1>0, <1>5, <1>6, <1>7 DEF ModulesStay
<1>9. DeclaredAtTag(products, t, TreeAt) = TreeAt[t][y]
  BY <1>1, <1>6, <1>8 DEF DeclaredAtTag, DeclarationAt
<1> HIDE DEF products
<1> QED
  BY <1>1, <1>4, <1>6, <1>9 DEF products

LEMMA PublicPublished ==
  ASSUME NEW t \in Tags, release[t].state = "public"
  PROVE  PublishedAt(t) # Unpublished /\ ArtifactsComplete(PublishedAt(t))
<1> DEFINE digest == <<t, release[t].build>>
           assets == [p \in Platforms |-> [url |-> TRUE, size |-> 1, sha256 |-> digest]]
<1>1. PublishedAt(t) = [assets |-> assets, digests |-> Platforms]
  BY DEF PublishedAt
<1>2. \A p \in Platforms : p \in DOMAIN assets /\ assets[p].url /\ assets[p].size = 1
  OBVIOUS
<1> HIDE DEF assets
<1> QED
  BY <1>1, <1>2 DEF Unpublished, ArtifactsComplete, ValidAsset

LEMMA AllListed ==
  ASSUME ModulesStay, ModulesKept, Public, NEW c \in DOMAIN Trees, KnowsAll(c),
         \A u \in Pushed : Product(u) => release[u].state = "public",
         NEW tags \in SUBSET Pushed
  PROVE  /\ Site(c, tags) # Refused
         /\ \A t \in tags : Product(t) => Listed(Site(c, tags), t)
<1> DEFINE products == DiscoverProducts(Trees[c])
           published == [tag \in Tags |-> PublishedAt(tag)]
           site == AssembleSite(Trees[c], tags, TreeAt, published)
<1>1. Site(c, tags) = site
  BY DEF Site
<1>2. \A t \in tags : Product(t) =>
        /\ t \in Tags /\ t \in Pushed /\ release[t].state = "public" /\ Deliverable(t)
  BY DEF Public, Standing, Pushed
<1>3. ASSUME NEW t \in tags, Product(t)
      PROVE  LET declared == DeclaredAtTag(products, t, TreeAt)
             IN  /\ ParseTag(t) # Malformed /\ t \in ModuleTags(tags) /\ ParseTag(t).ns = TagText[t].ns
                 /\ Buildable(products, ParseTag(t).ns)
                 /\ declared # NoDeclaration
                 /\ ParseRange(declared.shell) # Malformed /\ declared.protocols # <<>>
                 /\ published[t] # Unpublished /\ ArtifactsComplete(published[t])
  <2>1. /\ Buildable(products, ParseTag(t).ns)
        /\ DeclaredAtTag(products, t, TreeAt) # NoDeclaration
        /\ ParseRange(DeclaredAtTag(products, t, TreeAt).shell) # Malformed
        /\ DeclaredAtTag(products, t, TreeAt).protocols # <<>>
    BY <1>2, <1>3, PublicCarried
  <2>2. published[t] # Unpublished /\ ArtifactsComplete(published[t])
    BY <1>2, <1>3, PublicPublished
  <2>3. ParseTag(t) # Malformed /\ ParseTag(t).ns = TagText[t].ns /\ TagText[t].slash /\ TagText[t].v
    BY <1>2, <1>3 DEF Deliverable, ParseTag
  <2>4. t \in ModuleTags(tags)
    BY <1>3, <2>3 DEF ModuleTags
  <2> HIDE DEF products, published
  <2> QED
    BY <2>1, <2>2, <2>3, <2>4
<1>4. \A t \in ModuleTags(tags) : t \in tags /\ Product(t)
  BY DEF ModuleTags
<1>5. DeclarationsValid(products)
  BY ProductsValid
<1> HIDE DEF published
<1>6. Assemblable(products, ModuleTags(tags), TreeAt, published)
  <2> HIDE DEF products
  <2> QED
    BY <1>3, <1>4 DEF Assemblable
<1>7. site # Refused
  BY <1>3, <1>4, <1>5, <1>6, Generated
<1>8. Full(site, tags)
  BY <1>7, CheckoutLists
<1>9. ASSUME NEW t \in tags, Product(t) PROVE Listed(site, t)
  <2>1. t \in ModuleTags(tags) /\ Released(t) /\ ParseTag(t).ns = TagText[t].ns
    BY <1>3, <1>9 DEF Released, Carries
  <2>2. Offers(site, t)
    BY <1>8, <2>1 DEF Full
  <2> HIDE DEF site
  <2> QED
    BY <2>1, <2>2 DEF Offers, EntryOf, Describes, Listed
<1> QED
  BY <1>1, <1>7, <1>9

-----------------------------------------------------------------------------
(* Whatever is public is coming to be listed.                               *)

LEMMA InitCatchUp ==
  ASSUME ModulesStay, ReleaseInit
  PROVE  CatchUpInv
<1>1. PICK from \in Scenes :
        /\ main = Newest(from.served)
        /\ release = [tag \in Tags |-> IF tag \in from.served THEN [state |-> "public", build |-> 1]
                                       ELSE [state |-> "none", build |-> 0]]
        /\ pipeline = [job \in Jobs |-> At(IF job \in from.served THEN "done" ELSE "none")]
        /\ deployed = <<SiteBefore(from.served)>>
  BY DEF ReleaseInit
<1>2. \A tag \in from.served :
        /\ CommitOf[tag] <= main /\ Deliverable(tag)
        /\ Product(tag) => Listed(Served, tag)
  BY <1>1, ReleaseAssumption DEF Served
<1>3. \A tag \in Tags :
        /\ pipeline[tag].phase = IF tag \in from.served THEN "done" ELSE "none"
        /\ release[tag] = [state |-> release[tag].state, build |-> release[tag].build]
        /\ release[tag].state = "public" <=> tag \in from.served
  BY <1>1, AtShape DEF Jobs
<1>4. Pushed \subseteq from.served
  BY <1>3 DEF Pushed
<1>5. Public
  BY <1>1, <1>2, <1>3, <1>4 DEF Public, Standing
<1>6. AllComing
  BY <1>2, <1>4 DEF AllComing, Coming
<1> QED
  BY <1>5, <1>6, InitSiteInv DEF CatchUpInv

\* One run moves; one that waited may be cancelled for it.
Moves(job) ==
  \A other \in Jobs : other # job =>
    \/ pipeline'[other] = pipeline[other]
    \/ pipeline[other].phase = "wait" /\ pipeline'[other] = At("cancelled")

LEMMA PublicKept ==
  ASSUME Public, NEW job \in Jobs, Moves(job),
         release' = [tag \in Tags |-> release'[tag]],
         \A tag \in Tags : tag # job => release'[tag] = release[tag],
         job \in Tags => Standing(job)',
         pipeline[job].phase # "none" \/ job \notin Tags \/ CommitOf[job] <= main,
         UNCHANGED main
  PROVE  Public'
<1>1. ASSUME NEW tag \in Tags PROVE Standing(tag)'
  <2>1. CASE tag = job
    BY <2>1
  <2>2. CASE tag # job
    <3>1. Standing(tag) /\ release'[tag] = release[tag]
      BY <2>2 DEF Public
    <3>2. CASE pipeline'[tag] = pipeline[tag]
      BY <3>1, <3>2 DEF Standing, Deliverable, TreeAt
    <3>3. CASE pipeline[tag].phase = "wait" /\ pipeline'[tag] = At("cancelled")
      BY <3>1, <3>3, AtShape DEF Standing, Deliverable, TreeAt
    <3> QED
      BY <2>2, <3>2, <3>3 DEF Moves, Jobs
  <2> QED
    BY <2>1, <2>2
<1>2. \A tag \in Pushed' : tag \in Pushed \/ tag = job
  BY AtShape DEF Moves, Pushed, Jobs
<1>3. \A tag \in Pushed' : CommitOf[tag] <= main
  BY <1>2 DEF Public, Pushed
<1> QED
  BY <1>1, <1>3 DEF Public

LEMMA KnownBefore ==
  ASSUME Pushed \subseteq Pushed', (\A tag \in Pushed : KnowsAll(CommitOf[tag]))'
  PROVE  \A tag \in Pushed : KnowsAll(CommitOf[tag])
<1>1. \A tag \in Pushed' : KnowsAll(CommitOf[tag])'
  OBVIOUS
<1>2. \A tag \in Pushed : KnowsAll(CommitOf[tag])'
  BY <1>1
<1>3. ASSUME NEW c, KnowsAll(c)' PROVE KnowsAll(c)
  BY <1>3 DEF KnowsAll, TreeAt
<1> QED
  BY <1>2, <1>3

\* A run keeps its checkout, unless the Pages workflow is triggered; what it
\* knows depends on what was pushed.
LEMMA CapableKept ==
  ASSUME \A t \in Pushed' : t \in Pushed \/ ~Product(t), UNCHANGED siteRuns,
         NEW job, Capable(job)
  PROVE  Capable(job)'
<1>1. CheckoutOf(job)' = CheckoutOf(job)
  BY DEF CheckoutOf
<1> QED
  BY <1>1 DEF Capable, KnowsAll, TreeAt

LEMMA Lost ==
  ASSUME NEW job \in Jobs, pipeline'[job].phase \in {"unassembled", "unserved"}
  PROVE  AllComing'
  BY DEF AllComing, Pending

\* A run that has not come to the group "pages" moves.
LEMMA BeforePages ==
  ASSUME AllComing, Deployments, NEW job \in Jobs, NEW phase, Become(job, phase),
         pipeline[job].phase \notin {"wait", "assemble", "deploy", "unassembled", "unserved"},
         \A tag \in Tags : release'[tag].state = "public" => release[tag].state = "public",
         Pushed \subseteq Pushed',
         \A t \in Pushed' : t \in Pushed \/ ~Product(t) \/ release'[t].state # "public",
         UNCHANGED <<deployed, siteRuns>>
  PROVE  AllComing'
<1> SUFFICES ASSUME (\A tag \in Pushed : KnowsAll(CommitOf[tag]))'
             PROVE  Pending' \/ \A t \in Pushed' : Product(t) => Coming(t)'
  BY DEF AllComing
<1>1. Pending \/ \A t \in Pushed : Product(t) => Coming(t)
  BY KnownBefore DEF AllComing
<1>2. \A other \in Jobs : other # job => pipeline'[other] = pipeline[other]
  BY BecomeShape
<1>n. (\E t \in Pushed' : Product(t) /\ release'[t].state # "public") => Pending'
  BY DEF Pending
<1> SUFFICES ASSUME \A t \in Pushed' : t \in Pushed \/ ~Product(t)
             PROVE  Pending' \/ \A t \in Pushed' : Product(t) => Coming(t)'
  BY <1>n
<1>c. \A j \in Jobs : Capable(j) => Capable(j)'
  BY CapableKept
<1>3. CASE Pending
  <2>1. CASE \E j \in Jobs : pipeline[j].phase \in {"unassembled", "unserved"}
    BY <1>2, <2>1 DEF Pending
  <2>2. CASE \E j \in Jobs : pipeline[j].phase = "wait" /\ Capable(j)
    BY <1>2, <1>c, <2>2 DEF Pending
  <2>3. CASE \E t \in Pushed : Product(t) /\ release[t].state # "public"
    BY <2>3 DEF Pending, Pushed
  <2> QED
    BY <1>3, <2>1, <2>2, <2>3 DEF Pending
<1>4. ASSUME NEW t \in Pushed, Coming(t) PROVE Coming(t)'
  BY <1>2, <1>4, <1>c DEF Coming, Served, Listed
<1>5. CASE \A t \in Pushed : Product(t) => Coming(t)
  <2>1. \A t \in Pushed' : Product(t) => Coming(t)' \/ release'[t].state # "public"
    BY <1>4, <1>5
  <2> QED
    BY <2>1 DEF Pending
<1> QED
  BY <1>1, <1>3, <1>5

\* A run that moves without a part in what was to come takes nothing from it.
LEMMA StillComing ==
  ASSUME AllComing, NEW job \in Jobs, ~Capable(job) \/ pipeline[job].phase \notin {"wait", "assemble"},
         pipeline[job].phase \notin {"deploy", "unassembled", "unserved"},
         \A other \in Jobs : other # job => pipeline'[other] = pipeline[other],
         Pushed' = Pushed, Served' = Served, UNCHANGED <<release, siteRuns>>
  PROVE  AllComing'
<1> SUFFICES ASSUME (\A tag \in Pushed : KnowsAll(CommitOf[tag]))'
             PROVE  Pending' \/ \A t \in Pushed' : Product(t) => Coming(t)'
  BY DEF AllComing
<1>1. Pending \/ \A t \in Pushed : Product(t) => Coming(t)
  BY KnownBefore DEF AllComing
<1>2. \A j \in Jobs : Capable(j) => Capable(j)'
  BY CapableKept
<1>3. CASE Pending
  BY <1>2, <1>3 DEF Pending
<1>4. ASSUME NEW t \in Pushed, Coming(t) PROVE Coming(t)'
  BY <1>2, <1>4 DEF Coming, Listed
<1> QED
  BY <1>1, <1>3, <1>4

LEMMA EnterComes ==
  ASSUME CatchUpInv, NEW job \in Jobs, EnterPages(job)
  PROVE  AllComing'
<1>0. SiteInv /\ AllComing /\ pipeline[job].phase = "wait" /\ UNCHANGED <<release, siteRuns>>
  BY DEF CatchUpInv, EnterPages
<1>1. /\ Pushed' = Pushed /\ Served' = Served
      /\ pipeline'[job].phase = "assemble" /\ pipeline'[job].tags = Pushed
      /\ \A other \in Jobs : other # job => pipeline'[other] = pipeline[other]
  BY <1>0, EnterSites
<1>2. CASE Capable(job)
  <2>1. Capable(job)'
    BY <1>0, <1>1, <1>2, CapableKept
  <2>2. \A t \in Pushed' : Coming(t)'
    BY <1>1, <2>1 DEF Coming
  <2> QED
    BY <2>2 DEF AllComing
<1>3. CASE ~Capable(job)
  BY <1>0, <1>1, <1>3, StillComing
<1> QED
  BY <1>2, <1>3

LEMMA AssembleComes ==
  ASSUME ModulesStay, ModulesKept, CatchUpInv, NEW job \in Jobs, Assemble(job)
  PROVE  AllComing'
<1>a. /\ SiteInv /\ AllComing /\ pipeline[job].phase = "assemble"
      /\ UNCHANGED <<release, siteRuns>>
  BY DEF CatchUpInv, Assemble
<1>b. /\ Pushed' = Pushed /\ Served' = Served
      /\ \A other \in Jobs : other # job => pipeline'[other] = pipeline[other]
  BY <1>a, AssembleSites
<1>c. ~Capable(job) => AllComing'
  BY <1>a, <1>b, StillComing
<1> SUFFICES ASSUME Capable(job), (\A tag \in Pushed : KnowsAll(CommitOf[tag]))', ~Pending',
                    NEW t \in Pushed', Product(t)
             PROVE  Coming(t)'
  BY <1>c DEF AllComing
<1>0. SiteInv /\ Public /\ AllComing /\ release' = release
  BY <1>a DEF CatchUpInv
<1>1. /\ Pushed' = Pushed /\ Served' = Served
      /\ \A other \in Jobs : other # job => pipeline'[other] = pipeline[other]
  BY <1>b
<1>k. \A other \in Jobs : Capable(other) => Capable(other)'
  BY <1>a, <1>1, CapableKept
<1>2. pipeline[job].phase = "assemble" /\ pipeline[job].tags \subseteq Pushed
  BY <1>0 DEF Assemble, SiteInv, NextIsMore
<1>3. \A tag \in Pushed : KnowsAll(CommitOf[tag])
  BY <1>1, KnownBefore
<1>4. \A u \in Pushed : Product(u) => release[u].state = "public"
  BY <1>0, <1>1 DEF Pending
<1>5. ~Pending
  BY <1>1, <1>2, <1>4, <1>k DEF Pending
<1>6. Coming(t)
  BY <1>0, <1>1, <1>3, <1>5 DEF AllComing
<1>7. CheckoutOf(job) \in DOMAIN Trees /\ KnowsAll(CheckoutOf(job))
  BY <1>a, CheckoutThere DEF SiteInv, Capable
<1> DEFINE site == Site(CheckoutOf(job), pipeline[job].tags)
<1>8. site # Refused /\ \A u \in pipeline[job].tags : Product(u) => Listed(site, u)
  BY <1>0, <1>2, <1>4, <1>7, AllListed
<1> HIDE DEF site
<1>9. job = PagesRun \/ Listed(site, job)
  <2>1. job \in Tags => Product(job) /\ job \in pipeline[job].tags
    BY <1>0, <1>2 DEF Public, Standing
  <2> QED
    BY <1>8, <2>1 DEF Jobs
<1>10. pipeline' = [pipeline EXCEPT ![job] = [At("deploy") EXCEPT !.site = site]]
  BY <1>8, <1>9 DEF Assemble, site
<1>11. pipeline'[job].phase = "deploy" /\ pipeline'[job].site = site
  <2> DEFINE new == [At("deploy") EXCEPT !.site = site]
  <2>1. new = [phase |-> "deploy", tags |-> {}, site |-> site]
    BY AtShape
  <2> HIDE DEF new
  <2>2. pipeline'[job] = new
    BY <1>0, <1>10 DEF SiteInv, Deployments, new
  <2> QED
    BY <2>1, <2>2
<1>12. CASE Listed(Served, t)
  BY <1>1, <1>12 DEF Coming, Listed
<1>13. ASSUME NEW other \in Jobs, pipeline[other].phase = "assemble", Capable(other), t \in pipeline[other].tags
       PROVE  Coming(t)'
  <2>1. CASE other = job
    <3>1. Listed(pipeline'[job].site, t)
      BY <1>8, <1>11, <1>13, <2>1
    <3> QED
      BY <1>11, <3>1 DEF Coming, Listed
  <2>2. CASE other # job
    BY <1>1, <1>13, <1>k, <2>2 DEF Coming
  <2> QED
    BY <2>1, <2>2
<1>14. ASSUME NEW other \in Jobs, pipeline[other].phase = "deploy", Listed(pipeline[other].site, t)
       PROVE  Coming(t)'
  BY <1>1, <1>2, <1>14 DEF Coming, Listed
<1> QED
  BY <1>6, <1>12, <1>13, <1>14 DEF Coming

LEMMA DeployComes ==
  ASSUME CatchUpInv, NEW job \in Jobs, Deploy(job)
  PROVE  AllComing'
<1>0. SiteInv /\ AllComing /\ pipeline[job].phase = "deploy"
      /\ UNCHANGED <<release, siteRuns>>
  BY DEF CatchUpInv, Deploy
<1>1. /\ Pushed' = Pushed
      /\ \A tag \in Tags : Offers(Served, tag) => Offers(Served', tag)
      /\ \/ Become(job, "unserved") /\ Served' = Served
         \/ Become(job, "done") /\ Served' = pipeline[job].site
  BY <1>0, DeploySites
<1>2. CASE Become(job, "unserved")
  <2>1. pipeline'[job].phase = "unserved"
    BY <1>0, <1>2, BecomeShape, AtShape DEF SiteInv
  <2> QED
    BY <2>1, Lost
<1>3. CASE Become(job, "done") /\ Served' = pipeline[job].site
  <2> SUFFICES ASSUME (\A tag \in Pushed : KnowsAll(CommitOf[tag]))'
               PROVE  Pending' \/ \A t \in Pushed' : Product(t) => Coming(t)'
    BY DEF AllComing
  <2>1. Pending \/ \A t \in Pushed : Product(t) => Coming(t)
    BY <1>0, <1>1, KnownBefore DEF AllComing
  <2>2. \A other \in Jobs : other # job => pipeline'[other] = pipeline[other]
    BY <1>0, <1>3, BecomeShape DEF SiteInv
  <2>k. \A other \in Jobs : Capable(other) => Capable(other)'
    BY <1>0, <1>1, CapableKept
  <2>3. Pending => Pending'
    BY <1>0, <1>1, <2>2, <2>k DEF Pending
  <2>4. ASSUME NEW t \in Pushed, Coming(t) PROVE Coming(t)'
    <3>1. CASE Listed(Served, t)
      <4>1. Backed(Served, Pushed) /\ Pushed \in SUBSET Tags
        BY <1>0 DEF SiteInv, NextIsMore, Pushed
      <4>2. Listed(Served', t)
        BY <1>1, <3>1, <4>1, ListedStays
      <4> QED
        BY <4>2 DEF Coming, Listed
    <3>2. ASSUME NEW other \in Jobs, pipeline[other].phase = "assemble", Capable(other), t \in pipeline[other].tags
          PROVE  Coming(t)'
      BY <1>0, <2>2, <2>k, <3>2 DEF Coming
    <3>3. ASSUME NEW other \in Jobs, pipeline[other].phase = "deploy", Listed(pipeline[other].site, t)
          PROVE  Coming(t)'
      <4>1. CASE other = job
        BY <1>3, <3>3, <4>1 DEF Coming, Listed
      <4>2. CASE other # job
        BY <2>2, <3>3, <4>2 DEF Coming, Listed
      <4> QED
        BY <4>1, <4>2
    <3> QED
      BY <2>4, <3>1, <3>2, <3>3 DEF Coming
  <2> QED
    BY <1>1, <2>1, <2>3, <2>4
<1> QED
  BY <1>1, <1>2, <1>3

LEMMA GateDelivers ==
  ASSUME NEW tag \in Tags, GateAllows(tag)
  PROVE  Deliverable(tag)
<1>1. ParseTag(tag) # Malformed /\ TreeAt[tag] = Trees[CommitOf[tag]]
  BY DEF GateAllows, TreeAt
<1>2. PICK directory \in DOMAIN Trees[CommitOf[tag]] :
        LET declared == Trees[CommitOf[tag]][directory]
        IN  /\ declared # NoDeclaration
            /\ declared.ns = TagText[tag].ns
            /\ Gate(declared, Shells[released].window)
  BY DEF GateAllows
<1>3. LET declared == TreeAt[tag][directory]
      IN  /\ declared # NoDeclaration /\ declared.ns = TagText[tag].ns
          /\ declared.protocols # <<>> /\ ParseRange(declared.shell) # Malformed
  BY <1>1, <1>2 DEF Gate
<1> QED
  BY <1>1, <1>2, <1>3 DEF Deliverable

\* A run that moves without having come to the group "pages".
LEMMA RunMoves ==
  ASSUME CatchUpInv, NEW job \in Jobs, NEW phase, Become(job, phase), phase # "none",
         Pushed \subseteq Pushed', UNCHANGED <<main, deployed, release, siteRuns>>,
         pipeline[job].phase \notin {"none", "wait", "assemble", "deploy", "unassembled", "unserved"},
         phase \notin {"verify", "wait", "cancelled", "assemble", "unassembled", "incomplete",
                       "deploy", "unserved"},
         phase = "done" \/ job \notin Tags \/ Product(job)
  PROVE  Public' /\ AllComing'
<1>1. Public /\ Deployments /\ AllComing
  BY DEF CatchUpInv, SiteInv
<1>2. /\ pipeline'[job] = At(phase)
      /\ \A other \in Jobs : other # job => pipeline'[other] = pipeline[other]
  BY <1>1, BecomeShape
<1>3. pipeline'[job].phase = phase
  BY <1>2, AtShape
<1>4. job \in Tags => Standing(job)'
  BY <1>1, <1>3 DEF Public, Standing, Deliverable, TreeAt
<1>5. Public'
  BY <1>1, <1>2, <1>4, PublicKept DEF Moves, Public
<1>6. Pushed' \subseteq Pushed
  BY <1>2 DEF Pushed, Jobs
<1> QED
  BY <1>1, <1>5, <1>6, BeforePages

LEMMA RunQueues ==
  ASSUME ModulesKept, CatchUpInv, NEW job \in Jobs, Queue(job), UNCHANGED main,
         pipeline[job].phase # "none" \/ job \notin Tags,
         \/ job \in Tags /\ UNCHANGED siteRuns
         \/ siteRuns' = Append(siteRuns, main) /\ job = PagesRun,
         release' = [tag \in Tags |-> release'[tag]],
         \A tag \in Tags : tag # job => release'[tag] = release[tag],
         job \in Tags => /\ release'[job].state = "public" /\ Deliverable(job) /\ Product(job)
                         /\ release'[job] = [state |-> release'[job].state, build |-> release'[job].build]
  PROVE  Public' /\ AllComing'
<1>1. Public
  BY DEF CatchUpInv
<1>2. /\ pipeline'[job] = At("wait")
      /\ Moves(job)
  BY QueueShape DEF Moves
<1>3. pipeline'[job].phase = "wait"
  BY <1>2, AtShape
<1>4. job \in Tags => Standing(job)'
  BY <1>3 DEF Standing, Deliverable, TreeAt
<1>5. Public'
  BY <1>1, <1>2, <1>4, PublicKept
<1> SUFFICES ASSUME (\A tag \in Pushed : KnowsAll(CommitOf[tag]))' PROVE Pending'
  BY <1>5 DEF AllComing
<1>k. \A tag \in Pushed' : KnowsAll(CommitOf[tag])'
  OBVIOUS
<1>6. Capable(job)'
  <2>1. CASE job \in Tags
    <3>1. job \in Pushed' /\ CheckoutOf(job)' = CommitOf[job]
      BY <1>3, <2>1, ReleaseAssumption DEF Pushed, CheckoutOf
    <3>2. KnowsAll(CommitOf[job])'
      BY <1>k, <3>1
    <3> QED
      BY <3>1, <3>2 DEF Capable
  <2>2. CASE siteRuns' = Append(siteRuns, main) /\ job = PagesRun
    <3>1. main \in DOMAIN Trees /\ siteRuns \in Seq(DOMAIN Trees)
      BY DEF CatchUpInv, SiteInv, Deployments, Sited
    <3>2. siteRuns'[Len(siteRuns')] = main
      BY <2>2, <3>1
    <3>3. CheckoutOf(job)' = main
      BY <2>2, <3>2 DEF CheckoutOf
    <3>4. PagesRun \notin Tags
      BY ReleaseAssumption
    <3>5. Pushed' = Pushed
      BY <1>2, <2>2, <3>4, AtShape DEF Moves, Pushed, Jobs
    <3>6. \A tag \in Pushed : KnowsAll(CommitOf[tag])
      BY <1>k, <3>5, KnownBefore
    <3>7. ASSUME NEW t \in Pushed PROVE KnowsAll(main)
      <4>1. t \in Tags /\ CommitOf[t] <= main /\ CommitOf[t] \in DOMAIN Trees
        BY <1>1, ReleaseAssumption DEF Public, Pushed
      <4> QED
        BY <3>1, <3>6, <4>1, KnowsMore
    <3>8. KnowsAll(main)
      BY <3>7 DEF KnowsAll
    <3> QED
      BY <3>3, <3>5, <3>8 DEF Capable, KnowsAll, TreeAt
  <2> QED
    BY <2>1, <2>2
<1> QED
  BY <1>3, <1>6 DEF Pending

LEMMA ReleaseCatchUp ==
  ASSUME ModulesStay, ModulesKept, CatchUpInv, ReleaseNext
  PROVE  CatchUpInv'
<1>0. /\ SiteInv /\ Deployments /\ OneDeploys /\ Public /\ AllComing
      /\ SiteInv' /\ Pushed \subseteq Pushed' /\ Tags \subseteq Jobs
  BY ReleaseSites DEF CatchUpInv, SiteInv, Jobs
<1> SUFFICES Public' /\ AllComing'
  BY <1>0 DEF CatchUpInv
<1>1. CASE AdvanceMain \/ ReleaseShell
  <2>1. /\ UNCHANGED <<deployed, pipeline, release, siteRuns>> /\ (main' = main \/ main' = main + 1)
    BY <1>1 DEF AdvanceMain, ReleaseShell
  <2>2. \A tag \in Pushed : CommitOf[tag] <= main'
    <3>1. main \in Nat
      BY <1>0, ReleaseAssumption DEF Deployments
    <3>2. \A tag \in Pushed : CommitOf[tag] \in Nat /\ CommitOf[tag] <= main
      BY <1>0, ReleaseAssumption DEF Public, Pushed
    <3>3. \A n \in Nat : n <= main => n <= main'
      BY <2>1, <3>1
    <3> QED
      BY <3>2, <3>3
  <2>3. Public'
    BY <1>0, <2>1, <2>2 DEF Public, Standing, Pushed, Deliverable, TreeAt
  <2>4. AllComing'
    BY <1>0, <2>1 DEF AllComing, Pending, Coming, Capable, CheckoutOf, KnowsAll, Pushed, Served, Listed, TreeAt
  <2> QED
    BY <2>3, <2>4
<1>2. CASE RunPages
  <2>1. /\ Queue(PagesRun) /\ UNCHANGED <<release, main>> /\ PagesRun \in Jobs /\ PagesRun \notin Tags
        /\ siteRuns' = Append(siteRuns, main)
    BY <1>2, ReleaseAssumption DEF RunPages, Jobs
  <2>2. release' = [tag \in Tags |-> release'[tag]]
    BY <1>0, <2>1 DEF Public
  <2> QED
    BY <2>1, <2>2, RunQueues
<1>4. ASSUME NEW tag \in Tags, PushTag(tag) PROVE Public' /\ AllComing'
  <2>1. /\ pipeline[tag].phase = "none" /\ CommitOf[tag] <= main
        /\ UNCHANGED <<main, deployed, release, siteRuns>> /\ tag \in Jobs
    BY <1>0, <1>4 DEF PushTag
  <2>2. PICK phase \in {"done", "gate"} : Become(tag, phase) /\ (phase = "gate" => Product(tag))
    BY <1>4 DEF PushTag
  <2>3. /\ pipeline'[tag] = At(phase)
        /\ \A other \in Jobs : other # tag => pipeline'[other] = pipeline[other]
    BY <1>0, <2>1, <2>2, BecomeShape
  <2>4. pipeline'[tag].phase = phase
    BY <2>3, AtShape
  <2>5. Standing(tag) /\ release[tag].state # "public"
    BY <1>0, <2>1 DEF Public, Standing
  <2>6. Standing(tag)'
    BY <2>1, <2>2, <2>4, <2>5 DEF Standing, Deliverable, TreeAt
  <2>7. Public'
    BY <1>0, <2>1, <2>3, <2>6, PublicKept DEF Moves, Public
  <2>8. \A t \in Pushed' : t \in Pushed \/ t = tag
    BY <1>0, <2>3 DEF Pushed
  <2>9. AllComing'
    BY <1>0, <2>1, <2>2, <2>5, <2>8, BeforePages
  <2> QED
    BY <2>7, <2>9
<1>5. ASSUME NEW tag \in Tags, DecideGate(tag) PROVE Public' /\ AllComing'
  <2>1. /\ pipeline[tag].phase = "gate" /\ UNCHANGED <<main, deployed, release, siteRuns>> /\ tag \in Jobs
    BY <1>0, <1>5 DEF DecideGate
  <2>2. PICK phase \in {"publish", "refused"} : Become(tag, phase)
    BY <1>5 DEF DecideGate
  <2>3. Product(tag)
    BY <1>0, <2>1 DEF Public, Standing
  <2> QED
    BY <1>0, <2>1, <2>2, <2>3, RunMoves
<1>6. ASSUME NEW tag \in Tags, UploadDraft(tag) PROVE Public' /\ AllComing'
  <2>1. /\ pipeline[tag].phase = "publish" /\ UNCHANGED <<main, deployed, siteRuns>> /\ tag \in Jobs
    BY <1>0, <1>6 DEF UploadDraft
  <2>2. Product(tag) /\ Standing(tag)
    BY <1>0, <2>1 DEF Public, Standing
  <2>3. CASE Become(tag, "refused") /\ UNCHANGED release
    BY <1>0, <2>1, <2>2, <2>3, RunMoves
  <2>4. CASE /\ GateAllows(tag) /\ release[tag].state # "public"
             /\ release' = [release EXCEPT ![tag] = [state |-> "draft", build |-> @.build + 1]]
             /\ Become(tag, "verify")
    <3>1. /\ pipeline'[tag] = At("verify")
          /\ \A other \in Jobs : other # tag => pipeline'[other] = pipeline[other]
      BY <1>0, <2>1, <2>4, BecomeShape
    <3>2. pipeline'[tag].phase = "verify"
      BY <3>1, AtShape
    <3> DEFINE new == [state |-> "draft", build |-> release[tag].build + 1]
    <3>3. release' = [release EXCEPT ![tag] = new]
      BY <2>4
    <3>4. new.state = "draft" /\ new = [state |-> new.state, build |-> new.build]
      OBVIOUS
    <3> HIDE DEF new
    <3>5. /\ release' = [t \in Tags |-> release'[t]] /\ release'[tag] = new
          /\ \A t \in Tags : t # tag => release'[t] = release[t]
      BY <1>0, <3>3 DEF Public
    <3>6. Deliverable(tag)
      BY <2>4, GateDelivers
    <3>7. Standing(tag)'
      BY <2>2, <3>2, <3>4, <3>5, <3>6 DEF Standing, Deliverable, TreeAt
    <3>8. Public'
      BY <1>0, <2>1, <3>1, <3>5, <3>7, PublicKept DEF Moves
    <3>9. Pushed' \subseteq Pushed
      BY <2>1, <3>1 DEF Pushed, Jobs
    <3>10. \A t \in Tags : release'[t].state = "public" => release[t].state = "public"
      BY <3>4, <3>5
    <3>11. AllComing'
      BY <1>0, <2>1, <2>4, <3>9, <3>10, BeforePages
    <3> QED
      BY <3>8, <3>11
  <2> QED
    BY <1>6, <2>3, <2>4 DEF UploadDraft
<1>7. ASSUME NEW tag \in Tags, MakePublic(tag) PROVE Public' /\ AllComing'
  <2>1. /\ pipeline[tag].phase = "verify" /\ UNCHANGED <<main, siteRuns>> /\ Queue(tag) /\ tag \in Jobs
        /\ release' = [release EXCEPT ![tag].state = "public"]
    BY <1>0, <1>7 DEF MakePublic
  <2>2. Standing(tag) /\ Deliverable(tag) /\ Product(tag)
    BY <1>0, <2>1 DEF Public, Standing
  <2> DEFINE old == release[tag]
             new == [old EXCEPT !.state = "public"]
  <2>3. release' = [release EXCEPT ![tag] = new]
    BY <2>1
  <2>4. new.state = "public" /\ new = [state |-> new.state, build |-> new.build]
    <3>1. old = [state |-> old.state, build |-> old.build]
      BY <2>2 DEF Standing
    <3>2. new = [old EXCEPT !.state = "public"]
      OBVIOUS
    <3> HIDE DEF old, new
    <3>3. new = [state |-> "public", build |-> old.build]
      BY <3>1, <3>2
    <3> QED
      BY <3>3
  <2> HIDE DEF new, old
  <2>5. /\ release' = [t \in Tags |-> release'[t]] /\ release'[tag] = new
        /\ \A t \in Tags : t # tag => release'[t] = release[t]
    BY <1>0, <2>3 DEF Public
  <2> QED
    BY <2>1, <2>2, <2>4, <2>5, RunQueues
<1>8. ASSUME NEW tag \in Tags, Rerun(tag) PROVE Public' /\ AllComing'
  <2>1. /\ UNCHANGED <<main, deployed, release, siteRuns>> /\ tag \in Jobs
        /\ \/ pipeline[tag].phase = "refused" /\ Become(tag, "gate")
           \/ pipeline[tag].phase = "unpublished" /\ Become(tag, "publish")
           \/ /\ pipeline[tag].phase \in {"cancelled", "unassembled", "incomplete", "unserved"}
              /\ Queue(tag)
    BY <1>0, <1>8 DEF Rerun
  <2>2. Standing(tag) /\ release' = [t \in Tags |-> release'[t]]
    BY <1>0, <2>1 DEF Public
  <2>3. CASE pipeline[tag].phase = "refused" /\ Become(tag, "gate")
    BY <1>0, <2>1, <2>2, <2>3, RunMoves DEF Standing
  <2>4. CASE pipeline[tag].phase = "unpublished" /\ Become(tag, "publish")
    BY <1>0, <2>1, <2>2, <2>4, RunMoves DEF Standing
  <2>5. CASE pipeline[tag].phase \in {"cancelled", "unassembled", "incomplete", "unserved"} /\ Queue(tag)
    <3>1. /\ release'[tag].state = "public" /\ Deliverable(tag) /\ Product(tag)
          /\ release'[tag] = [state |-> release'[tag].state, build |-> release'[tag].build]
      BY <2>1, <2>2, <2>5 DEF Standing
    <3> QED
      BY <2>1, <2>2, <2>5, <3>1, RunQueues
  <2> QED
    BY <2>1, <2>3, <2>4, <2>5
<1>m. ASSUME NEW job \in Jobs, Moves(job), UNCHANGED <<main, release>>, pipeline[job].phase # "none",
             job \in Tags => /\ release[job].state = "public" /\ Product(job)
                             /\ pipeline'[job].phase \notin {"none"}
                             /\ pipeline'[job].phase = "assemble" => job \in pipeline'[job].tags
      PROVE  Public'
  <2>1. job \in Tags => Standing(job)'
    BY <1>0, <1>m DEF Public, Standing, Deliverable, TreeAt
  <2>2. release' = [t \in Tags |-> release'[t]]
    BY <1>0, <1>m DEF Public
  <2> QED
    BY <1>0, <1>m, <2>1, <2>2, PublicKept
<1>s. ASSUME NEW job \in Jobs, pipeline[job].phase \in {"wait", "assemble", "deploy"}, job \in Tags
      PROVE  release[job].state = "public" /\ Product(job) /\ job \in Pushed
  BY <1>0, <1>s DEF Public, Standing, Pushed
<1>9. ASSUME NEW job \in Jobs, EnterPages(job) PROVE Public' /\ AllComing'
  <2>1. /\ pipeline'[job].phase = "assemble" /\ pipeline'[job].tags = Pushed
        /\ \A other \in Jobs : other # job => pipeline'[other] = pipeline[other]
        /\ AllComing'
    BY <1>0, <1>9, EnterSites, EnterComes
  <2>2. pipeline[job].phase = "wait" /\ UNCHANGED <<main, release>>
    BY <1>9 DEF EnterPages
  <2> QED
    BY <1>m, <1>s, <2>1, <2>2 DEF Moves
<1>10. ASSUME NEW job \in Jobs, Assemble(job) PROVE Public' /\ AllComing'
  <2>1. pipeline[job].phase = "assemble" /\ UNCHANGED <<main, release>>
    BY <1>10 DEF Assemble
  <2>2. /\ \A other \in Jobs : other # job => pipeline'[other] = pipeline[other]
        /\ Pushed' = Pushed /\ AllComing'
    BY <1>0, <1>10, AssembleSites, AssembleComes
  <2>3. job \in Tags => pipeline'[job].phase \notin {"none"}
    BY <1>s, <2>1, <2>2 DEF Pushed
  <2>4. pipeline'[job].phase # "assemble"
    <3> DEFINE site == Site(CheckoutOf(job), pipeline[job].tags)
               new == [At("deploy") EXCEPT !.site = site]
    <3>1. CASE Become(job, "incomplete")
      <4>1. pipeline'[job] = At("incomplete")
        BY <1>0, <3>1, BecomeShape
      <4> QED
        BY <4>1, AtShape
    <3>2. CASE pipeline' = [pipeline EXCEPT ![job] = new]
      <4>1. new.phase = "deploy"
        BY AtShape
      <4> HIDE DEF new
      <4> QED
        BY <1>0, <3>2, <4>1 DEF Deployments
    <3> QED
      BY <1>10, <3>1, <3>2 DEF Assemble
  <2> QED
    BY <1>m, <1>s, <2>1, <2>2, <2>3, <2>4 DEF Moves
<1>b. ASSUME NEW job \in Jobs, NEW phase, Become(job, phase), phase \notin {"none", "assemble"},
             pipeline[job].phase \in {"wait", "assemble", "deploy"}, UNCHANGED <<main, release>>
      PROVE  Public' /\ pipeline'[job].phase = phase
  <2>1. /\ pipeline'[job] = At(phase)
        /\ \A other \in Jobs : other # job => pipeline'[other] = pipeline[other]
    BY <1>0, <1>b, BecomeShape
  <2>2. pipeline'[job].phase = phase
    BY <2>1, AtShape
  <2> QED
    BY <1>b, <1>m, <1>s, <2>1, <2>2 DEF Moves
<1>11. ASSUME NEW job \in Jobs, Deploy(job) PROVE Public' /\ AllComing'
  <2>1. /\ pipeline[job].phase = "deploy" /\ UNCHANGED <<main, release>>
        /\ Become(job, "unserved") \/ Become(job, "done")
    BY <1>11 DEF Deploy
  <2> QED
    BY <1>b, <1>11, <2>1, DeployComes
<1>12. ASSUME NEW job \in Jobs, Outage(job) PROVE Public' /\ AllComing'
  <2>1. UNCHANGED <<main, deployed, release, siteRuns>>
    BY <1>12 DEF Outage
  <2>2. CASE pipeline[job].phase \in {"publish", "verify"} /\ Become(job, "unpublished")
    <3>1. job \in Tags => Product(job)
      BY <1>0, <2>2 DEF Public, Standing
    <3> QED
      BY <1>0, <2>1, <2>2, <3>1, RunMoves
  <2>3. CASE pipeline[job].phase \in {"assemble", "deploy"} /\ Become(job, "unassembled")
    BY <1>b, <2>1, <2>3, Lost
  <2> QED
    BY <1>12, <2>2, <2>3 DEF Outage
<1> QED
  BY <1>1, <1>2, <1>4, <1>5, <1>6, <1>7, <1>8, <1>9, <1>10, <1>11, <1>12 DEF ReleaseNext

LEMMA NextCatchUp ==
  ASSUME ModulesStay, ModulesKept, CatchUpInv, [Next]_updateVars
  PROVE  CatchUpInv'
<1>1. CASE ReleaseNext
  BY <1>1, ReleaseCatchUp
<1>2. CASE UNCHANGED releaseVars
  <2>1. UNCHANGED <<main, pipeline, release, deployed, siteRuns>>
    BY <1>2 DEF releaseVars
  <2>2. SiteInv'
    BY NextSiteInv DEF CatchUpInv
  <2>3. Public'
    BY <2>1 DEF CatchUpInv, Public, Standing, Pushed, Deliverable, TreeAt
  <2>4. AllComing'
    BY <2>1 DEF CatchUpInv, AllComing, Pending, Coming, Capable, CheckoutOf, KnowsAll, Pushed, Served, Listed, TreeAt
  <2> QED
    BY <2>2, <2>3, <2>4 DEF CatchUpInv
<1> QED
  BY <1>1, <1>2 DEF Next, updateVars

(* Once nothing is under way, everything that was pushed and became public  *)
(* is listed: whichever releases overlapped, however their runs waited for  *)
(* one another, were cancelled, failed or were repeated.  A run that waits  *)
(* is cancelled only for another one, and the last of them reads every tag. *)
THEOREM ReleasedIsListed ==
  ASSUME ModulesStay, ModulesKept
  PROVE  Spec => []CatalogCatchesUp
<1>1. Init => CatchUpInv
  BY InitCatchUp DEF Init
<1>2. CatchUpInv /\ [Next]_updateVars => CatchUpInv'
  BY NextCatchUp
<1>3. CatchUpInv => CatalogCatchesUp
  <2> SUFFICES ASSUME CatchUpInv, Settled, \A tag \in Pushed : KnowsAll(CommitOf[tag]),
                      NEW t \in Pushed, Product(t)
               PROVE  Listed(Served, t)
    BY DEF CatalogCatchesUp
  <2>1. ~Pending
    BY DEF Settled, Pending
  <2>2. Coming(t)
    BY <2>1 DEF CatchUpInv, AllComing
  <2> QED
    BY <2>2 DEF Settled, Coming
<1> QED
  BY <1>1, <1>2, <1>3, PTL DEF Spec

-----------------------------------------------------------------------------
(* Versions are ordered, and an update takes the newest there is.           *)

Identifiers == [numeric : BOOLEAN, rank : Int]
Readable == [major : Int, minor : Int, patch : Int, pre : Seq(Identifiers)]

\* Two lists of identifiers first differ at i, where the left one ends or has
\* the earlier identifier.
Precedes(left, right, i) ==
  /\ i \in 1 .. Len(right) /\ i - 1 <= Len(left)
  /\ \A j \in 1 .. (i - 1) : left[j] = right[j]
  /\ i <= Len(left) => compareIdentifier(left[i], right[i]) < 0

\* A prerelease is before the release, and before a later prerelease.
PreBefore(left, right) ==
  /\ left # <<>>
  /\ right # <<>> => \E i \in Nat : Precedes(left, right, i)

\* The histories as they were last read for a product, and that an entry of
\* some version and protocols is among them.
Reading(ns) == deployed[seen.files[ns]].files

StockedAt(d, ns, item) ==
  /\ ns \in DOMAIN deployed[d].files
  /\ \E entry \in deployed[d].files[ns] :
       entry.version = item.version /\ entry.protocols = item.protocols

ChannelOf(policy) == IF policy.channel = NoChannel THEN "stable" ELSE policy.channel

\* Every deployment offers what the ones before it offered.
Chronicle ==
  \A j \in 1 .. Len(deployed) :
    /\ Backed(deployed[j], Tags)
    /\ \A i \in 1 .. j : \A t \in Tags : Offers(deployed[i], t) => Offers(deployed[j], t)

Places ==
  /\ seen = [index |-> seen.index, files |-> seen.files]
  /\ seen.files = [ns \in Namespaces |-> seen.files[ns]]
  /\ \A ns \in Namespaces : seen.files[ns] \in 1 .. Len(deployed)

\* What is installed is published where its history was last read, on the
\* channel its product follows unless it was pinned.
Stock ==
  \A ns \in Namespaces : store[ns] # Absent =>
    /\ StockedAt(seen.files[ns], ns, store[ns].receipt)
    /\ ~store[ns].pinned => Channel(store[ns].receipt.version) = FollowedChannel(ns)

\* What an update may still move, and follows no other policy.
Movable(ns, channel) ==
  ns \in disturbed \/ (store[ns] # Absent /\ ~store[ns].pinned /\ channel = FollowedChannel(ns))

LeftToDo ==
  /\ \A s \in command.todo : s.ns \in Namespaces /\ Movable(s.ns, s.channel)
  /\ \A s, u \in command.todo : s.ns = u.ns => s = u

InHand ==
  /\ \A s \in command.todo : s.ns # command.ns
  /\ Movable(command.ns, command.policy.channel)
  /\ command.ns \notin disturbed => command.policy.version = NoVersion

Course ==
  /\ command.step = "index" /\ command.verb = "install" => command.names \subseteq Namespaces
  /\ command.step = "index" /\ command.verb = "update" =>
       \A ns \in DOMAIN command.inventory : ns \in Namespaces /\ (ns \in disturbed \/ store[ns] # Absent)
  /\ command.step \in {"history", "download"} => command.ns \in Namespaces
  /\ command.step = "next" => command.verb = "update"
  /\ command.step \in {"next", "history", "download"} /\ command.verb = "update" => LeftToDo
  /\ command.step \in {"history", "download"} /\ command.verb = "update" => InHand

\* The newest that an update could take when it read the history.
Newer(entries) ==
  /\ command.entry \in entries
  /\ \A other \in entries : Compare(command.entry.version, other.version) >= 0

Basket ==
  command.step = "download" =>
    /\ StockedAt(seen.files[command.ns], command.ns, command.entry)
    /\ command.policy.version = NoVersion =>
         Channel(command.entry.version) = ChannelOf(command.policy)
    /\ command.verb = "update" /\ command.ns \notin disturbed =>
         Newer(Selectable(Reading(command.ns)[command.ns], command.policy, Identity))

ClientInv == Places /\ Stock /\ Course /\ Basket

LEMMA LeastPosition ==
  ASSUME NEW S \in SUBSET Nat, S # {}
  PROVE  \E i \in S : \A j \in S : i <= j
<1> DEFINE less == OpToRel(<, Nat)
<1>1. \A i, j \in Nat : j < i => <<j, i>> \in less
  BY DEF OpToRel
<1>2. IsWellFoundedOn(less, Nat)
  BY NatLessThanWellFounded
<1> HIDE DEF less
<1>3. PICK i \in S : \A j \in S : ~ (<<j, i>> \in less)
  BY <1>2, WFMin
<1>4. ASSUME NEW j \in S PROVE i <= j
  <2>1. i \in Nat /\ j \in Nat /\ ~ j < i
    BY <1>1, <1>3
  <2> QED
    BY <2>1
<1> QED
  BY <1>4

LEMMA Identifier ==
  ASSUME NEW x \in Identifiers, NEW y \in Identifiers
  PROVE  /\ compareIdentifier(x, y) \in Int
         /\ compareIdentifier(x, y) = 0 <=> x = y
<1>1. x.numeric \in BOOLEAN /\ y.numeric \in BOOLEAN /\ x.rank \in Int /\ y.rank \in Int
  BY DEF Identifiers
<1>2. x = y <=> x.numeric = y.numeric /\ x.rank = y.rank
  BY DEF Identifiers
<1> QED
  BY <1>1, <1>2 DEF compareIdentifier, sign

LEMMA IdentifierOrder ==
  ASSUME NEW x \in Identifiers, NEW y \in Identifiers, NEW z \in Identifiers,
         compareIdentifier(x, y) < 0, compareIdentifier(y, z) < 0
  PROVE  compareIdentifier(x, z) < 0
<1>1. /\ x.numeric \in BOOLEAN /\ y.numeric \in BOOLEAN /\ z.numeric \in BOOLEAN
      /\ x.rank \in Int /\ y.rank \in Int /\ z.rank \in Int
  BY DEF Identifiers
<1> QED
  BY <1>1 DEF compareIdentifier, sign

LEMMA FirstDifferenceIs ==
  ASSUME NEW l \in Seq(Identifiers), NEW r \in Seq(Identifiers)
  PROVE  LET i == FirstDifference(l, r)
         IN  \/ /\ i = 0
                /\ \A j \in 1 .. Len(l) : j <= Len(r) => l[j] = r[j]
             \/ /\ i \in 1 .. Len(l) /\ i <= Len(r) /\ l[i] # r[i]
                /\ \A j \in 1 .. (i - 1) : l[j] = r[j]
<1> DEFINE places == {i \in 1 .. Len(l) : i <= Len(r) /\ compareIdentifier(l[i], r[i]) # 0}
           i == FirstDifference(l, r)
<1>1. i = IF places = {} THEN 0 ELSE CHOOSE k \in places : \A j \in places : k <= j
  BY DEF FirstDifference
<1>2. Len(l) \in Nat /\ Len(r) \in Nat
  OBVIOUS
<1>3. \A j \in 1 .. Len(l) : j <= Len(r) => (j \in places <=> l[j] # r[j])
  <2> SUFFICES ASSUME NEW j \in 1 .. Len(l), j <= Len(r)
               PROVE  compareIdentifier(l[j], r[j]) # 0 <=> l[j] # r[j]
    OBVIOUS
  <2>1. l[j] \in Identifiers /\ r[j] \in Identifiers
    BY <1>2
  <2> QED
    BY <2>1, Identifier
<1>4. \A j \in places : j \in Nat /\ j \in 1 .. Len(l) /\ j <= Len(r)
  BY <1>2
<1> HIDE DEF places, i
<1>5. CASE places = {}
  BY <1>1, <1>3, <1>5 DEF i
<1>6. CASE places # {}
  <2>1. \E k \in places : \A j \in places : k <= j
    <3>1. places \in SUBSET Nat
      BY <1>4
    <3> QED
      BY <1>6, <3>1, LeastPosition
  <2>2. i \in places /\ \A j \in places : i <= j
    BY <1>1, <1>6, <2>1
  <2>3. i \in 1 .. Len(l) /\ i <= Len(r) /\ l[i] # r[i]
    BY <1>3, <1>4, <2>2
  <2>4. ASSUME NEW j \in 1 .. (i - 1) PROVE l[j] = r[j]
    <3>1. j \in 1 .. Len(l) /\ j <= Len(r) /\ ~ i <= j
      BY <1>2, <2>3
    <3> QED
      BY <1>3, <2>2, <3>1
  <2> QED
    BY <2>3, <2>4 DEF i
<1> QED
  BY <1>5, <1>6

LEMMA PrereleaseIs ==
  ASSUME NEW l \in Seq(Identifiers), NEW r \in Seq(Identifiers)
  PROVE  /\ comparePrerelease(l, r) \in Int
         /\ comparePrerelease(l, r) < 0 <=> PreBefore(l, r)
<1> DEFINE i == FirstDifference(l, r)
<1>0. Len(l) \in Nat /\ Len(r) \in Nat /\ (l = <<>> <=> Len(l) = 0) /\ (r = <<>> <=> Len(r) = 0)
  OBVIOUS
<1>1. \/ /\ i = 0
         /\ \A j \in 1 .. Len(l) : j <= Len(r) => l[j] = r[j]
      \/ /\ i \in 1 .. Len(l) /\ i <= Len(r) /\ l[i] # r[i]
         /\ \A j \in 1 .. (i - 1) : l[j] = r[j]
  BY FirstDifferenceIs
<1>2. comparePrerelease(l, r) =
        CASE l = r -> 0
          [] l # r /\ l = <<>> -> 1
          [] l # r /\ l # <<>> /\ r = <<>> -> -1
          [] OTHER -> IF i # 0 THEN compareIdentifier(l[i], r[i])
                      ELSE sign(Len(l) - Len(r))
  BY DEF comparePrerelease
<1>3. \A j \in 1 .. Len(l) : j <= Len(r) => l[j] \in Identifiers /\ r[j] \in Identifiers
  BY <1>0
<1> HIDE DEF i
<1>4. CASE l = r
  <2>1. comparePrerelease(l, r) = 0
    BY <1>2, <1>4
  <2>2. ASSUME NEW k \in Nat, Precedes(l, r, k) PROVE FALSE
    <3>1. k \in 1 .. Len(l) /\ compareIdentifier(l[k], r[k]) < 0
      BY <1>0, <1>4, <2>2 DEF Precedes
    <3>2. compareIdentifier(l[k], r[k]) = 0
      BY <1>0, <1>3, <1>4, <3>1, Identifier
    <3> QED
      BY <3>1, <3>2
  <2>3. r # <<>> => ~PreBefore(l, r)
    BY <2>2 DEF PreBefore
  <2>4. r = <<>> => ~PreBefore(l, r)
    BY <1>4 DEF PreBefore
  <2> QED
    BY <2>1, <2>3, <2>4
<1>5. CASE l # r /\ (l = <<>> \/ r = <<>>)
  <2>1. CASE l = <<>>
    <3>1. comparePrerelease(l, r) = 1
      BY <1>2, <1>5, <2>1
    <3> QED
      BY <2>1, <3>1 DEF PreBefore
  <2>2. CASE l # <<>>
    <3>1. comparePrerelease(l, r) = -1 /\ r = <<>>
      BY <1>2, <1>5, <2>2
    <3> QED
      BY <2>2, <3>1 DEF PreBefore
  <2> QED
    BY <2>1, <2>2
<1>6. CASE l # r /\ l # <<>> /\ r # <<>> /\ i # 0
  <2>1. comparePrerelease(l, r) = compareIdentifier(l[i], r[i])
    BY <1>2, <1>6
  <2>2. /\ i \in 1 .. Len(l) /\ i \in 1 .. Len(r) /\ l[i] # r[i]
        /\ \A j \in 1 .. (i - 1) : l[j] = r[j]
    BY <1>0, <1>1, <1>6
  <2>3. compareIdentifier(l[i], r[i]) \in Int /\ compareIdentifier(l[i], r[i]) # 0
    <3>1. l[i] \in Identifiers /\ r[i] \in Identifiers
      BY <1>0, <1>3, <2>2
    <3> QED
      BY <2>2, <3>1, Identifier
  <2>4. ASSUME compareIdentifier(l[i], r[i]) < 0 PROVE PreBefore(l, r)
    <3>1. i \in Nat /\ i - 1 <= Len(l)
      BY <1>0, <2>2
    <3>2. Precedes(l, r, i)
      BY <2>2, <2>4, <3>1 DEF Precedes
    <3> QED
      BY <1>6, <3>1, <3>2 DEF PreBefore
  <2>5. ASSUME NEW k \in Nat, Precedes(l, r, k) PROVE compareIdentifier(l[i], r[i]) < 0
    <3>1. ~ i <= k - 1
      BY <1>0, <2>2, <2>5 DEF Precedes
    <3>2. k = i
      <4>1. ASSUME k < i PROVE FALSE
        <5>1. k \in 1 .. (i - 1) /\ k \in 1 .. Len(l) /\ k <= Len(r)
          BY <1>0, <2>2, <2>5, <4>1 DEF Precedes
        <5>2. l[k] = r[k] /\ compareIdentifier(l[k], r[k]) < 0
          BY <1>0, <2>2, <2>5, <5>1 DEF Precedes
        <5>3. compareIdentifier(l[k], r[k]) = 0
          BY <1>3, <5>1, <5>2, Identifier
        <5> QED
          BY <5>2, <5>3
      <4> QED
        BY <1>0, <2>2, <3>1, <4>1
    <3> QED
      BY <1>0, <2>2, <2>5, <3>2 DEF Precedes
  <2> QED
    BY <1>6, <2>1, <2>3, <2>4, <2>5 DEF PreBefore
<1>7. CASE l # r /\ l # <<>> /\ r # <<>> /\ i = 0
  <2>1. comparePrerelease(l, r) = sign(Len(l) - Len(r))
    BY <1>2, <1>7
  <2>2. \A j \in 1 .. Len(l) : j <= Len(r) => l[j] = r[j]
    BY <1>1, <1>7
  <2>3. ASSUME Len(l) < Len(r) PROVE PreBefore(l, r)
    <3>1. Len(l) + 1 \in Nat /\ Precedes(l, r, Len(l) + 1)
      BY <1>0, <2>2, <2>3 DEF Precedes
    <3> QED
      BY <1>7, <3>1 DEF PreBefore
  <2>4. ASSUME NEW k \in Nat, Precedes(l, r, k) PROVE Len(l) < Len(r)
    <3>1. k <= Len(r) /\ k >= 1
      BY <1>0, <2>4 DEF Precedes
    <3>2. ASSUME k <= Len(l) PROVE FALSE
      <4>1. k \in 1 .. Len(l) /\ l[k] = r[k] /\ compareIdentifier(l[k], r[k]) < 0
        BY <1>0, <2>2, <2>4, <3>1, <3>2 DEF Precedes
      <4>2. compareIdentifier(l[k], r[k]) = 0
        BY <1>3, <3>1, <4>1, Identifier
      <4> QED
        BY <4>1, <4>2
    <3> QED
      BY <1>0, <3>1, <3>2
  <2>5. sign(Len(l) - Len(r)) \in Int /\ (sign(Len(l) - Len(r)) < 0 <=> Len(l) < Len(r))
    BY <1>0 DEF sign
  <2> QED
    BY <1>7, <2>1, <2>3, <2>4, <2>5 DEF PreBefore
<1> QED
  BY <1>4, <1>5, <1>6, <1>7

LEMMA PrereleaseOrder ==
  ASSUME NEW l \in Seq(Identifiers), NEW m \in Seq(Identifiers), NEW r \in Seq(Identifiers),
         PreBefore(l, m), PreBefore(m, r)
  PROVE  PreBefore(l, r)
<1> SUFFICES ASSUME r # <<>> PROVE \E i \in Nat : Precedes(l, r, i)
  BY DEF PreBefore
<1>1. PICK a \in Nat : Precedes(l, m, a)
  BY DEF PreBefore
<1>2. PICK b \in Nat : Precedes(m, r, b)
  BY DEF PreBefore
<1>3. Len(l) \in Nat /\ Len(m) \in Nat /\ Len(r) \in Nat
  OBVIOUS
<1>4. /\ \A j \in 1 .. Len(l) : l[j] \in Identifiers
      /\ \A j \in 1 .. Len(m) : m[j] \in Identifiers
      /\ \A j \in 1 .. Len(r) : r[j] \in Identifiers
  OBVIOUS
<1>5. CASE a < b
  <2>1. Precedes(l, r, a)
    BY <1>1, <1>2, <1>3, <1>5 DEF Precedes
  <2> QED
    BY <2>1
<1>6. CASE b < a
  <2>1. Precedes(l, r, b)
    BY <1>1, <1>2, <1>3, <1>6 DEF Precedes
  <2> QED
    BY <2>1
<1>7. CASE a = b
  <2>1. a <= Len(l) => compareIdentifier(l[a], r[a]) < 0
    BY <1>1, <1>2, <1>3, <1>4, <1>7, IdentifierOrder DEF Precedes
  <2>2. Precedes(l, r, a)
    BY <1>1, <1>2, <1>3, <1>7, <2>1 DEF Precedes
  <2> QED
    BY <2>2
<1> QED
  BY <1>5, <1>6, <1>7

LEMMA VersionOrder ==
  ASSUME NEW a \in Readable, NEW b \in Readable
  PROVE  /\ Compare(a, b) \in Int
         /\ a = b => Compare(a, b) = 0
         /\ \A c \in Readable : Compare(a, b) < 0 /\ Compare(b, c) < 0 => Compare(a, c) < 0
<1>1. \A x \in Readable : /\ x.major \in Int /\ x.minor \in Int /\ x.patch \in Int
                          /\ x.pre \in Seq(Identifiers)
  BY DEF Readable
<1>2. \A x, y \in Readable :
        /\ Compare(x, y) \in Int
        /\ Compare(x, y) < 0 <=>
             \/ x.major < y.major
             \/ x.major = y.major /\ x.minor < y.minor
             \/ x.major = y.major /\ x.minor = y.minor /\ x.patch < y.patch
             \/ /\ x.major = y.major /\ x.minor = y.minor /\ x.patch = y.patch
                /\ PreBefore(x.pre, y.pre)
  <2> SUFFICES ASSUME NEW x \in Readable, NEW y \in Readable
               PROVE  /\ Compare(x, y) \in Int
                      /\ Compare(x, y) < 0 <=>
                           \/ x.major < y.major
                           \/ x.major = y.major /\ x.minor < y.minor
                           \/ x.major = y.major /\ x.minor = y.minor /\ x.patch < y.patch
                           \/ /\ x.major = y.major /\ x.minor = y.minor /\ x.patch = y.patch
                              /\ PreBefore(x.pre, y.pre)
    OBVIOUS
  <2>1. /\ comparePrerelease(x.pre, y.pre) \in Int
        /\ comparePrerelease(x.pre, y.pre) < 0 <=> PreBefore(x.pre, y.pre)
    BY <1>1, PrereleaseIs
  <2>2. /\ x.major \in Int /\ x.minor \in Int /\ x.patch \in Int
        /\ y.major \in Int /\ y.minor \in Int /\ y.patch \in Int
    BY <1>1
  <2>3. \A m, n \in Int : sign(m - n) \in Int /\ (m # n => (sign(m - n) < 0 <=> m < n))
    BY DEF sign
  <2>4. CASE x.major # y.major
    <3>1. Compare(x, y) = sign(x.major - y.major)
      BY <2>4 DEF Compare
    <3> QED
      BY <2>2, <2>3, <2>4, <3>1
  <2>5. CASE x.major = y.major /\ x.minor # y.minor
    <3>1. Compare(x, y) = sign(x.minor - y.minor)
      BY <2>5 DEF Compare
    <3> QED
      BY <2>2, <2>3, <2>5, <3>1
  <2>6. CASE x.major = y.major /\ x.minor = y.minor /\ x.patch # y.patch
    <3>1. Compare(x, y) = sign(x.patch - y.patch)
      BY <2>6 DEF Compare
    <3> QED
      BY <2>2, <2>3, <2>6, <3>1
  <2>7. CASE x.major = y.major /\ x.minor = y.minor /\ x.patch = y.patch
    <3>1. Compare(x, y) = comparePrerelease(x.pre, y.pre)
      BY <2>7 DEF Compare
    <3> QED
      BY <2>1, <2>2, <2>7, <3>1
  <2> QED
    BY <2>4, <2>5, <2>6, <2>7
<1>3. a = b => Compare(a, b) = 0
  BY <1>1 DEF Compare, comparePrerelease
<1>4. ASSUME NEW c \in Readable, Compare(a, b) < 0, Compare(b, c) < 0 PROVE Compare(a, c) < 0
  <2>1. PreBefore(a.pre, b.pre) /\ PreBefore(b.pre, c.pre) => PreBefore(a.pre, c.pre)
    BY <1>1, PrereleaseOrder
  <2>2. /\ a.major \in Int /\ a.minor \in Int /\ a.patch \in Int
        /\ b.major \in Int /\ b.minor \in Int /\ b.patch \in Int
        /\ c.major \in Int /\ c.minor \in Int /\ c.patch \in Int
    BY <1>1
  <2>3. \/ a.major < b.major
        \/ a.major = b.major /\ a.minor < b.minor
        \/ a.major = b.major /\ a.minor = b.minor /\ a.patch < b.patch
        \/ /\ a.major = b.major /\ a.minor = b.minor /\ a.patch = b.patch
           /\ PreBefore(a.pre, b.pre)
    BY <1>2, <1>4
  <2>4. \/ b.major < c.major
        \/ b.major = c.major /\ b.minor < c.minor
        \/ b.major = c.major /\ b.minor = c.minor /\ b.patch < c.patch
        \/ /\ b.major = c.major /\ b.minor = c.minor /\ b.patch = c.patch
           /\ PreBefore(b.pre, c.pre)
    BY <1>2, <1>4
  <2>5. \/ a.major < c.major
        \/ a.major = c.major /\ a.minor < c.minor
        \/ a.major = c.major /\ a.minor = c.minor /\ a.patch < c.patch
        \/ /\ a.major = c.major /\ a.minor = c.minor /\ a.patch = c.patch
           /\ PreBefore(a.pre, c.pre)
    BY <2>1, <2>2, <2>3, <2>4
  <2> QED
    BY <1>2, <2>5
<1> QED
  BY <1>2, <1>3, <1>4

\* Of finitely many versions one is the newest.
LEMMA SomeNewest ==
  ASSUME NEW S, IsFiniteSet(S), S # {}, NEW Read, Read \in [S -> Readable]
  PROVE  \E x \in S : \A y \in S : Compare(Read[x], Read[y]) >= 0
<1> DEFINE upTo[x \in S] == {y \in S : ~ (Compare(Read[x], Read[y]) < 0)}
           ranks == {Cardinality(S) - Cardinality(upTo[x]) : x \in S}
<1>1. \A x \in S : /\ upTo[x] \subseteq S /\ IsFiniteSet(upTo[x])
                   /\ Cardinality(upTo[x]) \in Nat /\ Cardinality(S) \in Nat
                   /\ Cardinality(upTo[x]) <= Cardinality(S)
  <2> SUFFICES ASSUME NEW x \in S PROVE
                   /\ upTo[x] \subseteq S /\ IsFiniteSet(upTo[x])
                   /\ Cardinality(upTo[x]) \in Nat /\ Cardinality(S) \in Nat
                   /\ Cardinality(upTo[x]) <= Cardinality(S)
    OBVIOUS
  <2>1. upTo[x] \in SUBSET S
    OBVIOUS
  <2> HIDE DEF upTo
  <2> QED
    BY <2>1, FS_Subset, FS_CardinalityType
<1>2. \A x, y \in S : y \in upTo[x] <=> ~ (Compare(Read[x], Read[y]) < 0)
  OBVIOUS
<1> HIDE DEF upTo
<1>3. PICK x \in S : \A z \in S : Cardinality(upTo[z]) <= Cardinality(upTo[x])
  <2>1. ranks \in SUBSET Nat /\ ranks # {}
    BY <1>1
  <2>2. PICK i \in ranks : \A j \in ranks : i <= j
    BY <2>1, LeastPosition
  <2>3. PICK x \in S : i = Cardinality(S) - Cardinality(upTo[x])
    BY <2>2
  <2>4. ASSUME NEW z \in S PROVE Cardinality(upTo[z]) <= Cardinality(upTo[x])
    <3>1. Cardinality(S) - Cardinality(upTo[x]) <= Cardinality(S) - Cardinality(upTo[z])
      BY <2>2, <2>3
    <3> QED
      BY <1>1, <3>1
  <2> QED
    BY <2>4
<1>4. ASSUME NEW z \in S, Compare(Read[x], Read[z]) < 0 PROVE FALSE
  <2>1. upTo[x] \subseteq upTo[z]
    <3> SUFFICES ASSUME NEW y \in S, y \in upTo[x], y \notin upTo[z] PROVE FALSE
      BY <1>1
    <3>1. Compare(Read[z], Read[y]) < 0 /\ ~ (Compare(Read[x], Read[y]) < 0)
      BY <1>2
    <3> QED
      BY <1>4, <3>1, VersionOrder
  <2>2. z \in upTo[z] /\ z \notin upTo[x]
    <3>1. Compare(Read[z], Read[z]) = 0
      BY VersionOrder
    <3> QED
      BY <1>2, <1>4, <3>1
  <2>3. upTo[x] \in SUBSET upTo[z] /\ upTo[x] # upTo[z]
    BY <2>1, <2>2
  <2>4. /\ Cardinality(upTo[x]) <= Cardinality(upTo[z])
        /\ Cardinality(upTo[x]) # Cardinality(upTo[z])
    BY <1>1, <2>3, FS_Subset
  <2> QED
    BY <1>1, <1>3, <2>4
<1>5. ASSUME NEW z \in S PROVE Compare(Read[x], Read[z]) >= 0
  <2>1. Compare(Read[x], Read[z]) \in Int
    BY VersionOrder
  <2> QED
    BY <1>4, <2>1
<1> QED
  BY <1>5

\* A tag that can be read is of a version that can be compared.
LEMMA TagReadable ==
  ASSUME NEW t \in Tags, ParseTag(t) # Malformed
  PROVE  ParseTag(t).version \in Readable
<1> DEFINE text == TagText[t].text
<1>1. text.core \in Seq(Int) /\ text.pre \in Seq(Identifiers)
  BY ReleaseAssumption DEF Identifiers
<1>2. Parse(text) # Malformed /\ ParseTag(t).version = Parse(text)
  BY DEF ParseTag
<1> HIDE DEF text
<1>3. Len(text.core) = 3
  BY <1>2 DEF Parse
<1>4. text.core[1] \in Int /\ text.core[2] \in Int /\ text.core[3] \in Int
  BY <1>1, <1>3
<1>5. Parse(text) = [major |-> text.core[1], minor |-> text.core[2], patch |-> text.core[3],
                     pre |-> IF text.dash THEN text.pre ELSE <<>>]
  BY <1>2 DEF Parse
<1>6. (IF text.dash THEN text.pre ELSE <<>>) \in Seq(Identifiers)
  BY <1>1
<1> QED
  BY <1>2, <1>4, <1>5, <1>6 DEF Readable

\* What a history is asked for the newest of is there, and none is newer.
LEMMA NewestIs ==
  ASSUME NEW site, Backed(site, Tags), NEW ns \in DOMAIN site.files,
         NEW S, S \subseteq site.files[ns], S # {}
  PROVE  /\ NewestOf(S) \in S
         /\ \A other \in S : Compare(NewestOf(S).version, other.version) >= 0
<1> DEFINE of == {t \in Tags : /\ ParseTag(t) # Malformed
                               /\ \E entry \in S : entry.version = ParseTag(t).version}
           Read == [t \in of |-> ParseTag(t).version]
<1>1. \A entry \in S : \E t \in of : entry.version = ParseTag(t).version
  <2> SUFFICES ASSUME NEW entry \in S PROVE \E t \in of : entry.version = ParseTag(t).version
    OBVIOUS
  <2>1. PICK t \in ModuleTags(Tags) : ParseTag(t) # Malformed /\ EntryOf(entry, t)
    BY DEF Backed
  <2>2. t \in Tags /\ entry.version = ParseTag(t).version
    BY <2>1 DEF ModuleTags, EntryOf, Describes
  <2> QED
    BY <2>1, <2>2
<1>2. of # {}
  BY <1>1
<1>3. IsFiniteSet(of)
  <2>1. of \in SUBSET Tags /\ IsFiniteSet(Tags)
    BY ReleaseAssumption
  <2> HIDE DEF of
  <2> QED
    BY <2>1, FS_Subset
<1>4. Read \in [of -> Readable]
  BY TagReadable
<1>5. \A t \in of : \E entry \in S : entry.version = Read[t]
  OBVIOUS
<1>6. \A entry \in S : \E t \in of : entry.version = Read[t]
  BY <1>1
<1> HIDE DEF of, Read
<1>7. PICK t \in of : \A u \in of : Compare(Read[t], Read[u]) >= 0
  BY <1>2, <1>3, <1>4, SomeNewest
<1>8. PICK entry \in S : entry.version = Read[t]
  BY <1>5
<1>9. \A other \in S : Compare(entry.version, other.version) >= 0
  BY <1>6, <1>7, <1>8
<1> QED
  BY <1>8, <1>9 DEF NewestOf

\* Whatever is selected from a published history is in it, is what was asked
\* for, and is the newest of that.
LEMMA SelectsNewest ==
  ASSUME NEW site, Backed(site, Tags), NEW ns \in DOMAIN site.files, NEW policy, NEW who,
         Selectable(site.files[ns], policy, who) # {}
  PROVE  LET entries == Selectable(site.files[ns], policy, who)
             entry == Select(site.files[ns], policy, who)
         IN  /\ entry \in entries /\ entry \in site.files[ns]
             /\ \A other \in entries : Compare(entry.version, other.version) >= 0
             /\ policy.version = NoVersion => Channel(entry.version) = ChannelOf(policy)
<1> DEFINE entries == Selectable(site.files[ns], policy, who)
           entry == Select(site.files[ns], policy, who)
<1>1. entries \subseteq site.files[ns]
  BY DEF Selectable, PermittedVersions
<1>2. entry = NewestOf(entries)
  BY DEF Select
<1>3. policy.version = NoVersion => \A e \in entries : e.channel = ChannelOf(policy)
  BY DEF Selectable, PermittedVersions, ChannelOf
<1> HIDE DEF entries, entry
<1>4. entry \in entries /\ \A other \in entries : Compare(entry.version, other.version) >= 0
  BY <1>1, <1>2, NewestIs DEF entries
<1>5. PICK t \in ModuleTags(Tags) : EntryOf(entry, t)
  BY <1>1, <1>4 DEF Backed
<1>6. entry.channel = Channel(entry.version)
  BY <1>5 DEF EntryOf, Describes
<1> QED
  BY <1>1, <1>3, <1>4, <1>6 DEF entries, entry

-----------------------------------------------------------------------------
(* Every site that is deployed offers what those before it offered.         *)

LEMMA DeployedGrows ==
  ASSUME [Next]_updateVars
  PROVE  deployed' = deployed \/ \E site : deployed' = Append(deployed, site)
<1>1. CASE UNCHANGED releaseVars
  BY <1>1 DEF releaseVars
<1>2. CASE ReleaseNext
  <2>1. CASE AdvanceMain \/ ReleaseShell \/ RunPages
    BY <2>1 DEF AdvanceMain, ReleaseShell, RunPages
  <2>2. ASSUME NEW tag \in Tags, \/ PushTag(tag) \/ DecideGate(tag) \/ UploadDraft(tag)
                                 \/ MakePublic(tag) \/ Rerun(tag)
        PROVE  deployed' = deployed
    BY <2>2 DEF PushTag, DecideGate, UploadDraft, MakePublic, Rerun
  <2>3. ASSUME NEW job \in Jobs, EnterPages(job) \/ Assemble(job) \/ Outage(job)
        PROVE  deployed' = deployed
    BY <2>3 DEF EnterPages, Assemble, Outage
  <2>4. ASSUME NEW job \in Jobs, Deploy(job)
        PROVE  deployed' = deployed \/ \E site : deployed' = Append(deployed, site)
    BY <2>4 DEF Deploy
  <2> QED
    BY <1>2, <2>1, <2>2, <2>3, <2>4 DEF ReleaseNext
<1> QED
  BY <1>1, <1>2 DEF Next, updateVars

LEMMA ChronicleThen ==
  ASSUME \A j \in 1 .. Len(deployed') :
           /\ Backed(deployed'[j], Tags)
           /\ \A i \in 1 .. j : \A t \in Tags : Offers(deployed'[i], t) => Offers(deployed'[j], t)
  PROVE  Chronicle'
  BY DEF Chronicle, Backed, Offers, EntryOf, DeclaredBy, Released, Carries, TreeAt

LEMMA ServedBacked ==
  ASSUME SiteInv
  PROVE  Backed(Served, Tags)
<1>1. Backed(Served, Pushed) /\ Pushed \subseteq Tags
  BY DEF SiteInv, NextIsMore, Pushed
<1> QED
  BY <1>1, BackedGrows

LEMMA ServedBackedThen ==
  ASSUME SiteInv'
  PROVE  Backed(Served', Tags)
<1>1. Backed(Served, Pushed)' /\ Pushed' \subseteq Tags
  BY DEF SiteInv, NextIsMore, Pushed
<1>2. Backed(Served', Pushed')
  BY <1>1 DEF Backed, EntryOf, DeclaredBy, Released, Carries, TreeAt
<1> QED
  BY <1>1, <1>2, BackedGrows

LEMMA InitChronicle ==
  ASSUME ModulesStay, ReleaseInit
  PROVE  Chronicle
<1>1. SiteInv
  BY InitSiteInv
<1>2. Len(deployed) = 1 /\ Served = deployed[1]
  BY DEF ReleaseInit, Served
<1> QED
  BY <1>1, <1>2, ServedBacked DEF Chronicle

\* A deployment is added to the others, and none of them changes.
LEMMA NextChronicle ==
  ASSUME ModulesStay, SiteInv, Chronicle, [Next]_updateVars
  PROVE  /\ Chronicle'
         /\ Len(deployed) \in Nat /\ Len(deployed') \in Nat /\ Len(deployed) <= Len(deployed')
         /\ \A i \in 1 .. Len(deployed) : deployed'[i] = deployed[i]
<1>1. /\ SiteInv'
      /\ \A t \in Tags : Offers(Served, t) => Offers(Served', t)
  BY NextSiteInv
<1>2. PICK sites : deployed \in Seq(sites)
  BY DEF SiteInv, Deployments
<1>3. CASE deployed' = deployed
  BY <1>2, <1>3, ChronicleThen DEF Chronicle
<1>4. ASSUME NEW site, deployed' = Append(deployed, site)
      PROVE  /\ Chronicle'
             /\ Len(deployed) \in Nat /\ Len(deployed') \in Nat /\ Len(deployed) <= Len(deployed')
             /\ \A i \in 1 .. Len(deployed) : deployed'[i] = deployed[i]
  <2> DEFINE n == Len(deployed)
             more == sites \cup {site}
  <2>1. deployed \in Seq(more) /\ site \in more
    BY <1>2
  <2> HIDE DEF more
  <2>2. /\ n \in Nat /\ Len(deployed') = n + 1 /\ deployed'[n + 1] = site
        /\ \A i \in 1 .. n : deployed'[i] = deployed[i]
    BY <1>4, <2>1
  <2>3. Served' = site /\ (n # 0 => Served = deployed[n])
    BY <2>2 DEF Served
  <2>4. deployed # <<>> /\ n # 0
    BY <1>2 DEF SiteInv, Deployments
  <2>5. Backed(site, Tags)
    <3>1. Backed(Served', Tags)
      BY <1>1, ServedBackedThen
    <3> QED
      BY <2>3, <3>1
  <2> HIDE DEF n
  <2>6. ASSUME NEW j \in 1 .. n
        PROVE  /\ Backed(deployed'[j], Tags)
               /\ \A i \in 1 .. j : \A t \in Tags : Offers(deployed'[i], t) => Offers(deployed'[j], t)
    <3>1. \A i \in 1 .. j : i \in 1 .. n /\ deployed'[i] = deployed[i]
      BY <2>2
    <3>2. deployed'[j] = deployed[j] /\ j \in 1 .. Len(deployed)
      BY <2>2 DEF n
    <3> QED
      BY <3>1, <3>2 DEF Chronicle
  <2>7. /\ Backed(deployed'[n + 1], Tags)
        /\ \A i \in 1 .. (n + 1) : \A t \in Tags :
             Offers(deployed'[i], t) => Offers(deployed'[n + 1], t)
    <3>1. n \in 1 .. n /\ n \in 1 .. Len(deployed)
      BY <2>2, <2>4 DEF n
    <3>2. \A i \in 1 .. n : \A t \in Tags : Offers(deployed[i], t) => Offers(deployed[n], t)
      BY <3>1 DEF Chronicle
    <3>3. \A t \in Tags : Offers(deployed[n], t) => Offers(site, t)
      BY <1>1, <2>3, <2>4
    <3>4. \A i \in 1 .. (n + 1) : i = n + 1 \/ i \in 1 .. n
      BY <2>2
    <3> QED
      BY <2>2, <2>5, <3>2, <3>3, <3>4
  <2>8. \A j \in 1 .. Len(deployed') : j = n + 1 \/ j \in 1 .. n
    BY <2>2
  <2>9. Chronicle'
    BY <2>6, <2>7, <2>8, ChronicleThen
  <2> QED
    BY <2>2, <2>9 DEF n
<1> QED
  BY <1>3, <1>4, DeployedGrows

\* What was published is published in every later deployment.
LEMMA StockedLater ==
  ASSUME Chronicle, NEW i, NEW j, NEW ns, NEW item, Len(deployed) \in Nat,
         i \in 1 .. Len(deployed), j \in i .. Len(deployed), StockedAt(i, ns, item)
  PROVE  StockedAt(j, ns, item)
<1>0. j \in 1 .. Len(deployed) /\ i \in 1 .. j
  OBVIOUS
<1>1. PICK entry \in deployed[i].files[ns] :
        ns \in DOMAIN deployed[i].files
        /\ entry.version = item.version /\ entry.protocols = item.protocols
  BY DEF StockedAt
<1>2. PICK t \in ModuleTags(Tags) : ParseTag(t).ns = ns /\ EntryOf(entry, t)
  BY <1>1 DEF Chronicle, Backed
<1>3. t \in Tags /\ Offers(deployed[i], t)
  BY <1>1, <1>2 DEF Offers, ModuleTags
<1>4. Offers(deployed[j], t)
  BY <1>0, <1>3 DEF Chronicle
<1>5. PICK other \in deployed[j].files[ns] : ns \in DOMAIN deployed[j].files /\ EntryOf(other, t)
  BY <1>2, <1>4 DEF Offers
<1> QED
  BY <1>1, <1>2, <1>5 DEF StockedAt, EntryOf, Describes

-----------------------------------------------------------------------------
(* What a client has seen only rises, and what it holds was published.      *)

LEMMA IndexSeen ==
  ASSUME Places, NEW d, FetchIndex(d), UNCHANGED deployed
  PROVE  Places' /\ seen'.files = seen.files
<1>1. seen' = [seen EXCEPT !.index = d]
  BY DEF FetchIndex
<1>2. seen' = [index |-> d, files |-> seen.files]
  BY <1>1 DEF Places
<1> QED
  BY <1>2 DEF Places

LEMMA HistorySeen ==
  ASSUME Places, NEW ns \in Namespaces, NEW d, d \in seen.files[ns] .. Len(deployed),
         NEW i, seen' = [index |-> i, files |-> [seen.files EXCEPT ![ns] = d]],
         UNCHANGED deployed, Len(deployed) \in Nat
  PROVE  /\ Places' /\ seen'.files[ns] = d
         /\ \A n \in Namespaces \ {ns} : seen'.files[n] = seen.files[n]
         /\ \A n \in Namespaces : seen'.files[n] \in seen.files[n] .. Len(deployed)
<1>1. seen'.files = [seen.files EXCEPT ![ns] = d]
  OBVIOUS
<1>2. seen'.files = [n \in Namespaces |-> seen'.files[n]]
  BY <1>1 DEF Places
<1>3. seen'.files[ns] = d /\ \A n \in Namespaces \ {ns} : seen'.files[n] = seen.files[n]
  BY <1>1 DEF Places
<1>4. \A n \in Namespaces : seen.files[n] \in 1 .. Len(deployed)
  BY DEF Places
<1>5. ASSUME NEW n \in Namespaces
      PROVE  seen'.files[n] \in 1 .. Len(deployed) /\ seen'.files[n] \in seen.files[n] .. Len(deployed)
  <2>1. CASE n = ns
    BY <1>3, <1>4, <2>1
  <2>2. CASE n # ns
    BY <1>3, <1>4, <2>2
  <2> QED
    BY <2>1, <2>2
<1>6. seen' = [index |-> seen'.index, files |-> seen'.files]
  OBVIOUS
<1> QED
  BY <1>2, <1>3, <1>5, <1>6 DEF Places

\* Whatever is read next, what is installed stays published.
LEMMA StockKeeps ==
  ASSUME Chronicle, Places, Stock, UNCHANGED deployed, Len(deployed) \in Nat,
         \A ns \in Namespaces : seen'.files[ns] \in seen.files[ns] .. Len(deployed),
         \A ns \in Namespaces :
           \/ store'[ns] = store[ns]
           \/ store'[ns] = Absent
           \/ /\ StockedAt(seen'.files[ns], ns, store'[ns].receipt)
              /\ ~store'[ns].pinned => Channel(store'[ns].receipt.version) = FollowedChannel(ns)'
  PROVE  Stock'
<1>1. ASSUME NEW ns \in Namespaces, store'[ns] # Absent
      PROVE  /\ StockedAt(seen'.files[ns], ns, store'[ns].receipt)
             /\ ~store'[ns].pinned => Channel(store'[ns].receipt.version) = FollowedChannel(ns)'
  <2>1. CASE store'[ns] = store[ns]
    <3>1. /\ StockedAt(seen.files[ns], ns, store[ns].receipt)
          /\ ~store[ns].pinned => Channel(store[ns].receipt.version) = FollowedChannel(ns)
      BY <1>1, <2>1 DEF Stock
    <3>2. seen.files[ns] \in 1 .. Len(deployed) /\ seen'.files[ns] \in seen.files[ns] .. Len(deployed)
      BY DEF Places
    <3>3. StockedAt(seen'.files[ns], ns, store[ns].receipt)
      BY <3>1, <3>2, StockedLater
    <3> QED
      BY <2>1, <3>1, <3>3 DEF FollowedChannel
  <2> QED
    BY <1>1, <2>1
<1> QED
  BY <1>1 DEF Stock, StockedAt

LEMMA StockSame ==
  ASSUME Stock, UNCHANGED <<deployed, store>>, seen'.files = seen.files
  PROVE  Stock'
  BY DEF Stock, StockedAt, FollowedChannel

\* What a command holds, while another terminal reads on.
LEMMA BasketKeeps ==
  ASSUME Chronicle, Places, Course, Basket, UNCHANGED <<deployed, command, shell>>,
         Len(deployed) \in Nat, disturbed \subseteq disturbed',
         \A ns \in Namespaces : seen'.files[ns] \in seen.files[ns] .. Len(deployed),
         \A ns \in Namespaces : ns \notin disturbed' => seen'.files[ns] = seen.files[ns]
  PROVE  Basket'
<1> SUFFICES ASSUME command.step = "download" PROVE Basket'
  BY DEF Basket
<1>1. command.ns \in Namespaces
  BY DEF Course
<1>2. StockedAt(seen'.files[command.ns], command.ns, command.entry)
  <2>1. /\ seen.files[command.ns] \in 1 .. Len(deployed)
        /\ seen'.files[command.ns] \in seen.files[command.ns] .. Len(deployed)
    BY <1>1 DEF Places
  <2> QED
    BY <2>1, StockedLater DEF Basket
<1>3. ASSUME command.verb = "update", command.ns \notin disturbed'
      PROVE  Newer(Selectable(deployed[seen'.files[command.ns]].files[command.ns],
                              command.policy, Identity))
  <2>1. command.ns \notin disturbed /\ seen'.files[command.ns] = seen.files[command.ns]
    BY <1>1, <1>3
  <2> QED
    BY <1>3, <2>1 DEF Basket, Reading
<1> QED
  BY <1>2, <1>3 DEF Basket, StockedAt, Newer, Reading, Identity

LEMMA OverKeeps ==
  ASSUME command' = Waiting
  PROVE  Course' /\ Basket'
  BY DEF Course, Basket, Waiting

LEMMA BegunKeeps ==
  ASSUME command'.step \in {"check", "index", "ask"},
         command'.step = "index" /\ command'.verb = "install" => command'.names \subseteq Namespaces,
         command'.step = "index" /\ command'.verb = "update" =>
           \A ns \in DOMAIN command'.inventory :
             ns \in Namespaces /\ (ns \in disturbed' \/ store'[ns] # Absent)
  PROVE  Course' /\ Basket'
  BY DEF Course, Basket

LEMMA AskingIs ==
  ASSUME NEW verb, NEW names, NEW step
  PROVE  /\ Asking(verb, names, step).verb = verb
         /\ Asking(verb, names, step).step = step
         /\ DOMAIN Asking(verb, names, step).inventory = Selected(names)
         /\ \A agreed : /\ [Asking(verb, names, step) EXCEPT !.agreed = agreed].verb = verb
                        /\ [Asking(verb, names, step) EXCEPT !.agreed = agreed].step = step
                        /\ DOMAIN [Asking(verb, names, step) EXCEPT !.agreed = agreed].inventory
                             = Selected(names)
<1> DEFINE inventory == [ns \in Selected(names) |-> Inventory[ns]]
<1>1. DOMAIN inventory = Selected(names)
  OBVIOUS
<1>2. Asking(verb, names, step) =
        [Waiting EXCEPT !.verb = verb, !.step = step, !.names = names, !.inventory = inventory]
  BY DEF Asking
<1> HIDE DEF inventory
<1> QED
  BY <1>1, <1>2 DEF Waiting

\* Another terminal changes a product, which this command then leaves alone.
LEMMA OtherCourse ==
  ASSUME Shaped, Course, NEW ns, NEW new, store' = [store EXCEPT ![ns] = new],
         disturbed' = disturbed \cup {ns}, UNCHANGED command
  PROVE  Course'
<1>1. \A n \in Namespaces : n # ns => store'[n] = store[n]
  BY DEF Shaped
<1>2. \A n \in Namespaces : \A channel : Movable(n, channel) => Movable(n, channel)'
  BY <1>1 DEF Movable, FollowedChannel
<1>3. LeftToDo => LeftToDo'
  BY <1>2 DEF LeftToDo
<1>4. command.ns \in Namespaces /\ InHand => InHand'
  BY <1>2 DEF InHand
<1>5. command.step = "index" /\ command.verb = "update" =>
        \A n \in DOMAIN command.inventory : n \in Namespaces /\ (n \in disturbed' \/ store'[n] # Absent)
  BY <1>1 DEF Course
<1> QED
  BY <1>3, <1>4, <1>5 DEF Course

LEMMA InitClientInv ==
  ASSUME ModulesStay, Init
  PROVE  ClientInv
<1>1. /\ Chronicle /\ scene \in Scenes
      /\ deployed = <<SiteBefore(scene.served)>> /\ Served = SiteBefore(scene.served)
  BY InitChronicle DEF Init, ReleaseInit, Served
<1>2. Len(deployed) = 1 /\ deployed[1] = SiteBefore(scene.served)
  BY <1>1
<1>3. command = Waiting /\ seen = [index |-> 1, files |-> [ns \in Namespaces |-> 1]] /\ shell = 1
  BY DEF Init, ClientInit
<1>4. Course /\ Basket
  BY <1>3 DEF Course, Basket, Waiting
<1>5. Places
  BY <1>2, <1>3 DEF Places
<1>6. ASSUME NEW ns \in Namespaces, store[ns] # Absent
      PROVE  /\ StockedAt(1, ns, store[ns].receipt)
             /\ ~store[ns].pinned => Channel(store[ns].receipt.version) = FollowedChannel(ns)
  <2> DEFINE policy == scene.installed[ns]
             entry == Select(Served.files[ns], policy, Identity)
  <2>1. ns \in DOMAIN scene.installed /\ store[ns] = Activated(ns, policy, entry, scene.trees[ns])
    BY <1>6 DEF Init, ClientInit
  <2>2. /\ ns \in DOMAIN Served.files
        /\ Selectable(Served.files[ns], policy, Identity) # {}
    BY <1>1, <1>3, <2>1, UpdateAssumption DEF Identity
  <2>3. Backed(Served, Tags)
    BY <1>1, <1>2 DEF Chronicle
  <2>4. /\ entry \in Served.files[ns]
        /\ policy.version = NoVersion => Channel(entry.version) = ChannelOf(policy)
    BY <2>2, <2>3, SelectsNewest
  <2> HIDE DEF policy, entry
  <2>5. /\ store[ns].receipt.version = entry.version
        /\ store[ns].receipt.protocols = entry.protocols
        /\ store[ns].channel = policy.channel /\ store[ns].pinned = (policy.version # NoVersion)
    BY <2>1 DEF Activated, Receipt
  <2>6. FollowedChannel(ns) = ChannelOf(policy)
    BY <2>5 DEF FollowedChannel, ChannelOf
  <2> QED
    BY <1>1, <1>2, <2>2, <2>4, <2>5, <2>6 DEF StockedAt
<1>7. Stock
  BY <1>3, <1>6 DEF Stock
<1> QED
  BY <1>4, <1>5, <1>7 DEF ClientInv

\* A release changes nothing that a client has read or holds.
LEMMA ReleaseKeepsClient ==
  ASSUME ClientInv, UNCHANGED clientVars,
         Len(deployed) \in Nat, Len(deployed') \in Nat, Len(deployed) <= Len(deployed'),
         \A i \in 1 .. Len(deployed) : deployed'[i] = deployed[i]
  PROVE  ClientInv'
<1>1. UNCHANGED <<shell, store, command, seen, disturbed>>
  BY DEF clientVars
<1>2. \A ns \in Namespaces : /\ seen.files[ns] \in 1 .. Len(deployed)
                             /\ deployed'[seen.files[ns]] = deployed[seen.files[ns]]
  BY DEF ClientInv, Places
<1>3. Places'
  <2>1. \A ns \in Namespaces : seen.files[ns] \in 1 .. Len(deployed')
    BY <1>2
  <2> QED
    BY <1>1, <2>1 DEF ClientInv, Places
<1>4. Stock'
  BY <1>1, <1>2 DEF ClientInv, Stock, StockedAt, FollowedChannel
<1>5. Course'
  BY <1>1 DEF ClientInv, Course, LeftToDo, InHand, Movable, FollowedChannel
<1>6. Basket'
  <2>1. command.step = "download" => command.ns \in Namespaces
    BY DEF ClientInv, Course
  <2> QED
    BY <1>1, <1>2, <2>1 DEF ClientInv, Basket, StockedAt, Newer, Reading, Identity
<1> QED
  BY <1>3, <1>4, <1>5, <1>6 DEF ClientInv

\* A command begins, or asks its question.
LEMMA StartsKeep ==
  ASSUME ClientInv, UNCHANGED <<deployed, store, seen>>, Course', Basket'
  PROVE  ClientInv'
BY StockSame DEF ClientInv, Places

LEMMA SelectedInstalled ==
  ASSUME NEW names, Selected(names) \subseteq Installed
  PROVE  \A ns \in Selected(names) : ns \in Namespaces /\ store[ns] # Absent
BY DEF Installed

LEMMA BeginKeepsClient ==
  ASSUME ClientInv, UNCHANGED deployed, NEW next, Begin(next),
         next.step \in {"check", "index"},
         next.verb = "install" => next.names \subseteq Namespaces,
         next.verb = "update" => \A ns \in DOMAIN next.inventory : ns \in Namespaces /\ store[ns] # Absent
  PROVE  ClientInv'
<1>1. command' = next /\ UNCHANGED <<store, seen>>
  BY DEF Begin
<1>2. Course' /\ Basket'
  BY <1>1, BegunKeeps
<1> QED
  BY <1>1, <1>2, StartsKeep

\* A command goes on with the next product, or is over.
LEMMA GiveUpKeepsClient ==
  ASSUME Shaped, Course, NEW problem, GiveUp(problem), command.step \in {"history", "download"},
         UNCHANGED store
  PROVE  Course' /\ Basket'
<1>1. CASE command.verb = "update"
  <2>1. Step([command EXCEPT !.step = "next", !.ns = NoChannel, !.entry = [absent |-> TRUE]])
    BY <1>1 DEF GiveUp
  <2>2. /\ command'.step = "next" /\ command'.verb = command.verb
        /\ command'.todo = command.todo /\ UNCHANGED disturbed
    BY <2>1 DEF Step, Shaped
  <2>3. LeftToDo'
    BY <1>1, <2>2 DEF Course, LeftToDo, Movable, FollowedChannel
  <2> QED
    BY <1>1, <2>2, <2>3 DEF Course, Basket
<1>2. CASE command.verb # "update"
  BY <1>2, OverKeeps DEF GiveUp, End
<1> QED
  BY <1>1, <1>2

LEMMA CheckAllKeepsClient ==
  ASSUME IInv, ClientInv, UNCHANGED deployed, NEW d, CheckAll(d)
  PROVE  ClientInv'
<1>1. FetchIndex(d) /\ UNCHANGED store /\ command.step = "check"
  BY DEF CheckAll
<1>2. Places' /\ Stock'
  BY <1>1, IndexSeen, StockSame DEF ClientInv
<1>3. CASE Step([command EXCEPT !.step = "ask"])
  <2>1. command'.step = "ask"
    BY <1>3 DEF Step, IInv, Shaped
  <2>2. Course' /\ Basket'
    BY <2>1, BegunKeeps
  <2> QED
    BY <1>2, <2>2 DEF ClientInv
<1>4. CASE \E rows : End(rows)
  BY <1>2, <1>4, OverKeeps DEF ClientInv, End
<1> QED
  BY <1>3, <1>4 DEF CheckAll

LEMMA ReadIndexKeepsClient ==
  ASSUME IInv, ClientInv, UNCHANGED deployed, NEW d, ReadIndex(d)
  PROVE  ClientInv'
<1> DEFINE index == deployed[d].index
           statuses == Statuses(index, command.inventory)
           left == {s \in statuses : s.update}
<1>1. FetchIndex(d) /\ UNCHANGED store /\ command.step = "index"
  BY DEF ReadIndex
<1>2. Places' /\ Stock'
  BY <1>1, IndexSeen, StockSame DEF ClientInv
<1>3. ASSUME NEW rows, End(rows) PROVE ClientInv'
  BY <1>2, <1>3, OverKeeps DEF ClientInv, End
<1>4. CASE command.verb = "install"
  <2>1. PICK ns \in command.names :
          IF ns \in DOMAIN index
          THEN Step([command EXCEPT !.step = "history", !.ns = ns])
          ELSE End({[ns |-> ns, state |-> "catalog.unknown_module"]})
    BY <1>4 DEF ReadIndex
  <2>2. CASE Step([command EXCEPT !.step = "history", !.ns = ns])
    <3>1. command'.step = "history" /\ command'.ns = ns /\ command'.verb = "install"
      BY <1>4, <2>2 DEF Step, IInv, Shaped
    <3>2. ns \in Namespaces
      BY <1>1, <1>4 DEF ClientInv, Course
    <3>3. Course' /\ Basket'
      BY <3>1, <3>2 DEF Course, Basket
    <3> QED
      BY <1>2, <3>3 DEF ClientInv
  <2> QED
    BY <1>3, <2>1, <2>2
<1>5. CASE command.verb = "update"
  <2>1. Step([command EXCEPT !.step = "next", !.todo = left])
    BY <1>5 DEF ReadIndex
  <2>2. \A s \in left : \E ns \in DOMAIN command.inventory :
          s = Status(index, ns, command.inventory[ns]) /\ s.update
    BY DEF Statuses
  <2>3. ASSUME NEW ns \in DOMAIN command.inventory,
               Status(index, ns, command.inventory[ns]).update
        PROVE  LET s == Status(index, ns, command.inventory[ns])
               IN  s.ns = ns /\ s.ns \in Namespaces /\ Movable(s.ns, s.channel)
    <3>1. ns \in Namespaces /\ (ns \in disturbed \/ store[ns] # Absent)
      BY <1>1, <1>5 DEF ClientInv, Course
    <3>2. /\ Status(index, ns, command.inventory[ns]).ns = ns
          /\ Status(index, ns, command.inventory[ns]).channel = FollowedChannel(ns)
          /\ ~store[ns].pinned
      BY <2>3 DEF Status
    <3> QED
      BY <3>1, <3>2 DEF Movable
  <2> HIDE DEF left
  <2>4. /\ \A s \in left : s.ns \in Namespaces /\ Movable(s.ns, s.channel)
        /\ \A s, u \in left : s.ns = u.ns => s = u
    BY <2>2, <2>3
  <2>5. /\ command'.step = "next" /\ command'.verb = "update" /\ command'.todo = left
        /\ UNCHANGED disturbed
    BY <1>5, <2>1 DEF Step, IInv, Shaped
  <2>6. LeftToDo'
    BY <1>1, <2>4, <2>5 DEF LeftToDo, Movable, FollowedChannel
  <2>7. Course' /\ Basket'
    BY <2>5, <2>6 DEF Course, Basket
  <2> QED
    BY <1>2, <2>7 DEF ClientInv
<1>6. CASE command.verb = "list"
  BY <1>3, <1>6 DEF ReadIndex
<1>7. CASE command.verb = "plan"
  BY <1>3, <1>7 DEF ReadIndex
<1> QED
  BY <1>1, <1>4, <1>5, <1>6, <1>7 DEF IInv, Shaped

LEMMA NextProductKeepsClient ==
  ASSUME IInv, ClientInv, UNCHANGED deployed, NextProduct
  PROVE  ClientInv'
<1>1. UNCHANGED <<store, seen>> /\ command.step = "next"
  BY DEF NextProduct
<1>2. CASE End({})
  BY <1>1, <1>2, OverKeeps, StartsKeep DEF End
<1>3. ASSUME NEW s \in command.todo,
             Step([command EXCEPT !.step = "history", !.ns = s.ns, !.todo = @ \ {s},
                                  !.policy = Policy(s.channel, NoVersion)])
      PROVE  ClientInv'
  <2> DEFINE left == command.todo \ {s}
             policy == Policy(s.channel, NoVersion)
  <2>1. command' = [command EXCEPT !.step = "history", !.ns = s.ns, !.todo = left, !.policy = policy]
        /\ UNCHANGED disturbed
    BY <1>3 DEF Step
  <2>2. policy.channel = s.channel /\ policy.version = NoVersion
    BY DEF Policy
  <2>3. \A u \in left : u \in command.todo /\ u # s
    OBVIOUS
  <2> HIDE DEF left, policy
  <2>4. /\ command'.step = "history" /\ command'.ns = s.ns /\ command'.todo = left
        /\ command'.policy = policy /\ command'.verb = command.verb
    BY <2>1 DEF IInv, Shaped
  <2>5. CASE command.verb = "update"
    <3>1. LeftToDo
      BY <1>1, <2>5 DEF ClientInv, Course
    <3>2. s.ns \in Namespaces /\ Movable(s.ns, s.channel)
      BY <3>1 DEF LeftToDo
    <3>3. LeftToDo'
      BY <1>1, <2>1, <2>3, <2>4, <3>1 DEF LeftToDo, Movable, FollowedChannel
    <3>4. \A u \in left : u.ns # s.ns
      BY <2>3, <3>1 DEF LeftToDo
    <3>5. InHand'
      BY <1>1, <2>1, <2>2, <2>4, <3>2, <3>4 DEF InHand, Movable, FollowedChannel
    <3>6. Course' /\ Basket'
      BY <2>4, <3>2, <3>3, <3>5 DEF Course, Basket
    <3> QED
      BY <1>1, <3>6, StartsKeep
  <2>6. CASE command.verb # "update"
    BY <1>1, <2>6 DEF ClientInv, Course
  <2> QED
    BY <2>5, <2>6
<1> QED
  BY <1>2, <1>3 DEF NextProduct

\* The history is read: what is taken from it is the newest it offers.
LEMMA ReadHistoryKeepsClient ==
  ASSUME IInv, Chronicle, ClientInv, UNCHANGED deployed, Len(deployed) \in Nat,
         NEW d, ReadHistory(d)
  PROVE  ClientInv'
<1> DEFINE ns == command.ns
           files == deployed[d].files
           selection == Select(files[ns], command.policy, Identity)
<1>1. /\ command.step = "history" /\ UNCHANGED <<store, shell>> /\ FetchHistory(ns, d)
      /\ ns \in Namespaces
  BY DEF ReadHistory, Others, ClientInv, Course
<1>2. /\ d \in seen.files[ns] .. Len(deployed)
      /\ seen' = [index |-> seen.index, files |-> [seen.files EXCEPT ![ns] = d]]
  BY <1>1 DEF FetchHistory, ClientInv, Places
<1> HIDE DEF ns
<1>3. /\ Places' /\ seen'.files[ns] = d
      /\ \A n \in Namespaces : seen'.files[n] \in seen.files[n] .. Len(deployed)
  BY <1>1, <1>2, HistorySeen DEF ClientInv
<1>4. Stock'
  BY <1>1, <1>3, StockKeeps DEF ClientInv
<1>5. CASE \E problem : GiveUp(problem)
  BY <1>1, <1>3, <1>4, <1>5, GiveUpKeepsClient DEF ClientInv, IInv
<1>6. CASE /\ ns \in DOMAIN files /\ "refused" \notin DOMAIN selection
           /\ Step([command EXCEPT !.step = "download", !.entry = selection])
  <2>1. Selectable(files[ns], command.policy, Identity) # {}
    BY <1>6 DEF Select
  <2>2. d \in 1 .. Len(deployed)
    BY <1>1, <1>2 DEF ClientInv, Places
  <2>3. /\ selection \in Selectable(files[ns], command.policy, Identity)
        /\ selection \in files[ns]
        /\ \A other \in Selectable(files[ns], command.policy, Identity) :
             Compare(selection.version, other.version) >= 0
        /\ command.policy.version = NoVersion =>
             Channel(selection.version) = ChannelOf(command.policy)
    BY <1>6, <2>1, <2>2, SelectsNewest DEF Chronicle
  <2>4. StockedAt(d, ns, selection)
    BY <1>6, <2>3 DEF StockedAt
  <2> HIDE DEF selection
  <2>5. /\ command'.step = "download" /\ command'.entry = selection
        /\ command'.ns = ns /\ command'.policy = command.policy
        /\ command'.todo = command.todo /\ command'.verb = command.verb
        /\ UNCHANGED disturbed
    BY <1>6 DEF Step, IInv, Shaped, ns
  <2>6. Course'
    <3>1. command.verb = "update" => LeftToDo /\ InHand
      BY <1>1 DEF ClientInv, Course
    <3>2. LeftToDo => LeftToDo'
      BY <1>1, <2>5 DEF LeftToDo, Movable, FollowedChannel
    <3>3. InHand => InHand'
      BY <1>1, <2>5 DEF InHand, Movable, FollowedChannel, ns
    <3> QED
      BY <1>1, <2>5, <3>1, <3>2, <3>3 DEF Course
  <2>7. Basket'
    <3>1. Identity' = Identity
      BY <1>1 DEF Identity
    <3>2. Reading(command.ns)'[command'.ns] = files[ns]
      BY <1>3, <2>5 DEF Reading
    <3> QED
      BY <1>1, <1>3, <2>3, <2>4, <2>5, <3>1, <3>2 DEF Basket, StockedAt, Newer
  <2> QED
    BY <1>3, <1>4, <2>6, <2>7 DEF ClientInv
<1> QED
  BY <1>5, <1>6 DEF ReadHistory, ns

\* What Activate leaves when it leaves anything.
LEMMA Activates ==
  ASSUME NEW tree, Activate(tree)
  PROVE  \/ UNCHANGED store /\ \E problem : GiveUp(problem)
         \/ /\ store' = [store EXCEPT ![command.ns] =
                           Activated(command.ns, command.policy, command.entry, tree)]
            /\ \/ /\ command.verb = "update"
                  /\ Step([command EXCEPT !.step = "next", !.ns = NoChannel,
                                          !.entry = [absent |-> TRUE]])
               \/ \E rows : End(rows)
BY DEF Activate

LEMMA ActivateKeepsClient ==
  ASSUME IInv, Chronicle, ClientInv, UNCHANGED deployed, Len(deployed) \in Nat,
         NEW tree, Activate(tree)
  PROVE  ClientInv'
<1> DEFINE new == Activated(command.ns, command.policy, command.entry, tree)
<1>1. command.step = "download" /\ UNCHANGED seen /\ command.ns \in Namespaces
  BY DEF Activate, ClientInv, Course
<1>2. Places'
  BY <1>1 DEF ClientInv, Places
<1>3. CASE UNCHANGED store /\ \E problem : GiveUp(problem)
  BY <1>1, <1>3, GiveUpKeepsClient, StartsKeep DEF ClientInv, IInv
<1>4. CASE store' = [store EXCEPT ![command.ns] = new]
  <2>1. /\ new.receipt.version = command.entry.version
        /\ new.receipt.protocols = command.entry.protocols
        /\ new.channel = command.policy.channel
        /\ new.pinned = (command.policy.version # NoVersion)
    BY DEF Activated, Receipt
  <2> HIDE DEF new
  <2>2. store'[command.ns] = new /\ \A n \in Namespaces \ {command.ns} : store'[n] = store[n]
    BY <1>1, <1>4 DEF IInv, Shaped
  <2>3. (IF store'[command.ns].channel = NoChannel THEN "stable" ELSE store'[command.ns].channel)
          = ChannelOf(command.policy)
    BY <2>1, <2>2 DEF ChannelOf
  <2>4. StockedAt(seen'.files[command.ns], command.ns, new.receipt)
    BY <1>1, <2>1 DEF ClientInv, Basket, StockedAt
  <2>5. ~new.pinned => Channel(new.receipt.version) = ChannelOf(command.policy)
    BY <1>1, <2>1 DEF ClientInv, Basket
  <2>6. Stock'
    <3>1. \A n \in Namespaces : seen'.files[n] \in seen.files[n] .. Len(deployed)
      BY <1>1 DEF ClientInv, Places
    <3>2. ASSUME NEW n \in Namespaces
          PROVE  \/ store'[n] = store[n]
                 \/ store'[n] = Absent
                 \/ /\ StockedAt(seen'.files[n], n, store'[n].receipt)
                    /\ ~store'[n].pinned =>
                         Channel(store'[n].receipt.version) = FollowedChannel(n)'
      <4>1. CASE n = command.ns
        BY <2>2, <2>3, <2>4, <2>5, <4>1 DEF FollowedChannel
      <4> QED
        BY <2>2, <4>1
    <3> QED
      BY <3>1, <3>2, StockKeeps DEF ClientInv
  <2>7. CASE \E rows : End(rows)
    BY <1>2, <2>6, <2>7, OverKeeps DEF ClientInv, End
  <2>8. CASE /\ command.verb = "update"
             /\ Step([command EXCEPT !.step = "next", !.ns = NoChannel,
                                     !.entry = [absent |-> TRUE]])
    <3>1. /\ command'.step = "next" /\ command'.verb = "update" /\ command'.todo = command.todo
          /\ UNCHANGED disturbed
      BY <2>8 DEF Step, IInv, Shaped
    <3>2. LeftToDo /\ \A s \in command.todo : s.ns # command.ns
      BY <1>1, <2>8 DEF ClientInv, Course, InHand
    <3>3. \A s \in command.todo : s.ns \in Namespaces \ {command.ns} /\ Movable(s.ns, s.channel)
      BY <3>2 DEF LeftToDo
    <3>4. \A n \in Namespaces \ {command.ns} : \A channel :
            Movable(n, channel) => Movable(n, channel)'
      BY <2>2, <3>1 DEF Movable, FollowedChannel
    <3>5. LeftToDo'
      BY <3>1, <3>2, <3>3, <3>4 DEF LeftToDo
    <3>6. Course' /\ Basket'
      BY <3>1, <3>5 DEF Course, Basket
    <3> QED
      BY <1>2, <2>6, <3>6 DEF ClientInv
  <2> QED
    BY <1>3, <2>7, <2>8, Activates
<1> QED
  BY <1>3, <1>4, Activates

LEMMA UnreachableKeepsClient ==
  ASSUME IInv, ClientInv, UNCHANGED deployed, Unreachable
  PROVE  ClientInv'
<1>1. UNCHANGED <<store, seen>>
  BY DEF Unreachable
<1>2. CASE Step([command EXCEPT !.step = "ask"])
  <2>1. command'.step = "ask"
    BY <1>2 DEF Step, IInv, Shaped
  <2> QED
    BY <1>1, <2>1, BegunKeeps, StartsKeep
<1>3. CASE \E rows : End(rows)
  BY <1>1, <1>3, OverKeeps, StartsKeep DEF End
<1>4. CASE command.step \in {"history", "download"} /\ GiveUp("catalog.origin_unreachable")
  BY <1>1, <1>4, GiveUpKeepsClient, StartsKeep DEF ClientInv, IInv
<1> QED
  BY <1>2, <1>3, <1>4 DEF Unreachable

LEMMA OtherRemoveKeepsClient ==
  ASSUME IInv, Chronicle, ClientInv, UNCHANGED deployed, Len(deployed) \in Nat,
         NEW ns \in Namespaces, OtherRemove(ns)
  PROVE  ClientInv'
<1>1. /\ store' = [store EXCEPT ![ns] = Absent] /\ disturbed' = disturbed \cup {ns}
      /\ UNCHANGED <<shell, command, seen>>
  BY DEF OtherRemove
<1>2. \A n \in Namespaces : store'[n] = store[n] \/ store'[n] = Absent
  BY <1>1 DEF IInv, Shaped
<1>3. \A n \in Namespaces : /\ seen'.files[n] = seen.files[n]
                            /\ seen'.files[n] \in seen.files[n] .. Len(deployed)
  BY <1>1 DEF ClientInv, Places
<1>4. Stock'
  BY <1>2, <1>3, StockKeeps DEF ClientInv
<1>5. Course'
  BY <1>1, OtherCourse DEF ClientInv, IInv
<1>6. Basket'
  BY <1>1, <1>3, BasketKeeps DEF ClientInv
<1>7. Places'
  BY <1>1 DEF ClientInv, Places
<1> QED
  BY <1>4, <1>5, <1>6, <1>7 DEF ClientInv

LEMMA OtherInstallKeepsClient ==
  ASSUME IInv, Chronicle, ClientInv, UNCHANGED deployed, deployed # <<>>, Len(deployed) \in Nat \ {0},
         NEW ns \in Namespaces, NEW policy, OtherInstall(ns, policy)
  PROVE  ClientInv'
<1> DEFINE selection == Select(Served.files[ns], policy, Identity)
           new == Activated(ns, policy, selection, "declared")
<1>1. /\ ns \in DOMAIN Served.index /\ "refused" \notin DOMAIN selection
      /\ store' = [store EXCEPT ![ns] = new] /\ disturbed' = disturbed \cup {ns}
      /\ seen' = [index |-> Len(deployed), files |-> [seen.files EXCEPT ![ns] = Len(deployed)]]
      /\ UNCHANGED <<shell, command>>
  BY DEF OtherInstall
<1>2. Backed(Served, Tags) /\ Len(deployed) \in 1 .. Len(deployed)
  BY DEF Chronicle, Served
<1>3. /\ ns \in DOMAIN Served.files
      /\ Selectable(Served.files[ns], policy, Identity) # {}
  BY <1>1, <1>2 DEF Backed, Select
<1>4. /\ selection \in Served.files[ns]
      /\ policy.version = NoVersion => Channel(selection.version) = ChannelOf(policy)
  BY <1>2, <1>3, SelectsNewest
<1>5. /\ new.receipt.version = selection.version
      /\ new.receipt.protocols = selection.protocols
      /\ new.channel = policy.channel /\ new.pinned = (policy.version # NoVersion)
  BY DEF Activated, Receipt
<1> HIDE DEF new, selection
<1>6. StockedAt(Len(deployed), ns, new.receipt)
  BY <1>3, <1>4, <1>5 DEF StockedAt, Served
<1>7. Len(deployed) \in seen.files[ns] .. Len(deployed)
  BY DEF ClientInv, Places
<1>8. /\ Places' /\ seen'.files[ns] = Len(deployed)
      /\ \A n \in Namespaces \ {ns} : seen'.files[n] = seen.files[n]
      /\ \A n \in Namespaces : seen'.files[n] \in seen.files[n] .. Len(deployed)
  BY <1>1, <1>7, HistorySeen DEF ClientInv
<1>9. store'[ns] = new /\ \A n \in Namespaces \ {ns} : store'[n] = store[n]
  BY <1>1 DEF IInv, Shaped
<1>10. Stock'
  <2>1. ASSUME NEW n \in Namespaces
        PROVE  \/ store'[n] = store[n]
               \/ store'[n] = Absent
               \/ /\ StockedAt(seen'.files[n], n, store'[n].receipt)
                  /\ ~store'[n].pinned =>
                       Channel(store'[n].receipt.version) = FollowedChannel(n)'
    <3>1. CASE n = ns
      <4>1. FollowedChannel(n)' = ChannelOf(policy)
        BY <1>5, <1>9, <3>1 DEF FollowedChannel, ChannelOf
      <4> QED
        BY <1>4, <1>5, <1>6, <1>8, <1>9, <3>1, <4>1
    <3> QED
      BY <1>9, <3>1
  <2> QED
    BY <1>8, <2>1, StockKeeps DEF ClientInv
<1>11. Course'
  BY <1>1, OtherCourse DEF ClientInv, IInv
<1>12. Basket'
  BY <1>1, <1>8, BasketKeeps DEF ClientInv
<1> QED
  BY <1>8, <1>10, <1>11, <1>12 DEF ClientInv

LEMMA ClientKeepsClient ==
  ASSUME IInv, Chronicle, ClientInv, UNCHANGED deployed, deployed # <<>>,
         Len(deployed) \in Nat \ {0}, ClientNext
  PROVE  ClientInv'
<1>1. CASE UpgradeShell
  <2>1. UNCHANGED <<store, command, seen, disturbed>> /\ command = Waiting
    BY <1>1 DEF UpgradeShell
  <2> QED
    BY <2>1, OverKeeps, StartsKeep
<1>2. CASE StartList
  BY <1>2, AskingIs, BeginKeepsClient DEF StartList
<1>3. ASSUME NEW ns \in Namespaces, NEW policy, StartInstall(ns, policy) PROVE ClientInv'
  <2> DEFINE next == [Waiting EXCEPT !.verb = "install", !.step = "index", !.names = {ns},
                                     !.policy = policy, !.agreed = TRUE]
  <2>1. next.verb = "install" /\ next.step = "index" /\ next.names = {ns}
    BY DEF Waiting
  <2>2. Begin(next)
    BY <1>3 DEF StartInstall
  <2> HIDE DEF next
  <2> QED
    BY <2>1, <2>2, BeginKeepsClient
<1>4. ASSUME NEW names, StartPlan(names) PROVE ClientInv'
  BY <1>4, AskingIs, BeginKeepsClient DEF StartPlan
<1>5. ASSUME NEW names, NEW yes, StartUpdate(names, yes) PROVE ClientInv'
  <2> DEFINE step == IF names # {} \/ yes \/ NothingWouldMove(Installed) THEN "index" ELSE "check"
             next == [Asking("update", names, step) EXCEPT !.agreed = yes \/ names # {}]
  <2>1. Begin(next) /\ Selected(names) \subseteq Installed
    BY <1>5 DEF StartUpdate
  <2>2. step \in {"check", "index"}
    OBVIOUS
  <2> HIDE DEF step
  <2>3. next.verb = "update" /\ next.step = step /\ DOMAIN next.inventory = Selected(names)
    BY AskingIs
  <2>4. \A ns \in DOMAIN next.inventory : ns \in Namespaces /\ store[ns] # Absent
    BY <2>1, <2>3, SelectedInstalled
  <2> HIDE DEF next
  <2> QED
    BY <2>1, <2>2, <2>3, <2>4, BeginKeepsClient
<1>6. ASSUME NEW d, CheckAll(d) \/ ReadIndex(d) \/ ReadHistory(d) PROVE ClientInv'
  BY <1>6, CheckAllKeepsClient, ReadIndexKeepsClient, ReadHistoryKeepsClient
<1>7. CASE Confirm
  <2> DEFINE next == [Asking("update", {}, "index") EXCEPT !.agreed = TRUE]
  <2>1. command' = next /\ UNCHANGED <<store, seen, disturbed>>
    BY <1>7 DEF Confirm, Step
  <2>2. next.verb = "update" /\ next.step = "index" /\ DOMAIN next.inventory = Installed
    BY AskingIs DEF Selected
  <2>3. \A ns \in Installed : ns \in Namespaces /\ store[ns] # Absent
    BY DEF Installed
  <2> HIDE DEF next
  <2>4. Course' /\ Basket'
    BY <2>1, <2>2, <2>3, BegunKeeps
  <2> QED
    BY <2>1, <2>4, StartsKeep
<1>8. CASE Decline
  <2>1. command' = Waiting /\ UNCHANGED <<store, seen>>
    BY <1>8 DEF Decline, End
  <2> QED
    BY <2>1, OverKeeps, StartsKeep
<1>9. CASE NextProduct
  BY <1>9, NextProductKeepsClient
<1>10. ASSUME NEW tree, Activate(tree) PROVE ClientInv'
  BY <1>10, ActivateKeepsClient
<1>11. CASE Unreachable
  BY <1>11, UnreachableKeepsClient
<1>12. ASSUME NEW ns \in Namespaces, OtherRemove(ns) PROVE ClientInv'
  BY <1>12, OtherRemoveKeepsClient
<1>13. ASSUME NEW ns \in Namespaces, NEW policy, OtherInstall(ns, policy) PROVE ClientInv'
  BY <1>13, OtherInstallKeepsClient
<1> QED
  BY <1>1, <1>2, <1>3, <1>4, <1>5, <1>6, <1>7, <1>8, <1>9, <1>10, <1>11, <1>12, <1>13
  DEF ClientNext

ReadingInv == IInv /\ SiteInv /\ Chronicle /\ ClientInv

LEMMA InitReading ==
  ASSUME ModulesStay, Init
  PROVE  ReadingInv
BY InitIInv, InitSiteInv, InitChronicle, InitClientInv DEF Init, ReadingInv

LEMMA NextReading ==
  ASSUME ModulesStay, ReadingInv, [Next]_updateVars
  PROVE  ReadingInv'
<1>1. IInv' /\ SiteInv'
  BY NextIInv, NextSiteInv DEF ReadingInv
<1>2. /\ Chronicle'
      /\ Len(deployed) \in Nat /\ Len(deployed') \in Nat /\ Len(deployed) <= Len(deployed')
      /\ \A i \in 1 .. Len(deployed) : deployed'[i] = deployed[i]
  BY NextChronicle DEF ReadingInv
<1>3. CASE UNCHANGED clientVars
  BY <1>1, <1>2, <1>3, ReleaseKeepsClient DEF ReadingInv
<1>4. CASE ClientNext /\ UNCHANGED releaseVars
  <2>1. UNCHANGED deployed
    BY <1>4 DEF releaseVars
  <2>2. deployed # <<>> /\ Len(deployed) \in Nat \ {0}
    BY DEF ReadingInv, SiteInv, Deployments
  <2> QED
    BY <1>1, <1>2, <1>4, <2>1, <2>2, ClientKeepsClient DEF ReadingInv
<1> QED
  BY <1>3, <1>4 DEF Next, updateVars

\* An update changes a product only as the last step of its own install.
LEMMA UpdateMoves ==
  ASSUME IInv, ClientNext, NEW ns \in Namespaces, MovedBy("update", ns)
  PROVE  ns = command.ns /\ store'[ns].receipt.version = command.entry.version
<1>1. ns = command.ns
  BY ClientStep
<1>2. ~UNCHANGED store /\ othersRun' = othersRun /\ othersRun \in Nat
  BY DEF MovedBy, IInv, Shaped
<1>3. PICK tree : Activate(tree)
  <2>1. ASSUME NEW next, Begin(next) PROVE UNCHANGED store
    BY <2>1 DEF Begin
  <2>2. UpgradeShell \/ Confirm \/ Decline \/ NextProduct \/ Unreachable => UNCHANGED store
    BY DEF UpgradeShell, Confirm, Decline, NextProduct, Unreachable
  <2>3. \A d : CheckAll(d) \/ ReadIndex(d) \/ ReadHistory(d) => UNCHANGED store
    BY DEF CheckAll, ReadIndex, ReadHistory
  <2>4. StartList => UNCHANGED store
    BY <2>1 DEF StartList
  <2>5. \A n, policy : StartInstall(n, policy) => UNCHANGED store
    BY <2>1 DEF StartInstall
  <2>6. \A names, yes : StartPlan(names) \/ StartUpdate(names, yes) => UNCHANGED store
    BY <2>1 DEF StartPlan, StartUpdate
  <2>7. \A n, policy : ~OtherRemove(n) /\ ~OtherInstall(n, policy)
    BY <1>2 DEF OtherRemove, OtherInstall
  <2> QED
    BY <1>2, <2>2, <2>3, <2>4, <2>5, <2>6, <2>7 DEF ClientNext
<1> DEFINE new == Activated(command.ns, command.policy, command.entry, tree)
<1>4. store' = [store EXCEPT ![command.ns] = new]
  BY <1>2, <1>3, Activates
<1>5. new.receipt.version = command.entry.version
  BY DEF Activated, Receipt
<1> HIDE DEF new
<1> QED
  BY <1>1, <1>4, <1>5 DEF IInv, Shaped

\* What is installed, and can be launched, is among what an update may take.
LEMMA InstalledIsSelectable ==
  ASSUME ReadingInv, NEW ns \in Namespaces, ns = command.ns, ns \notin disturbed,
         command.verb = "update", command.step = "download", Negotiates(store[ns].receipt, Identity)
  PROVE  \E entry \in Selectable(Reading(ns)[ns], command.policy, Identity) :
           entry.version = store[ns].receipt.version
<1> DEFINE policy == command.policy
           history == Reading(ns)[ns]
<1>1. /\ store[ns] # Absent /\ ~store[ns].pinned
      /\ policy.channel = FollowedChannel(ns) /\ policy.version = NoVersion
  BY DEF ReadingInv, ClientInv, Course, InHand, Movable
<1>2. /\ StockedAt(seen.files[ns], ns, store[ns].receipt)
      /\ Channel(store[ns].receipt.version) = policy.channel
  BY <1>1 DEF ReadingInv, ClientInv, Stock
<1>3. policy.channel # NoChannel
  BY <1>1 DEF FollowedChannel, NoChannel
<1>4. PICK entry \in history :
        /\ ns \in DOMAIN Reading(ns)
        /\ entry.version = store[ns].receipt.version
        /\ entry.protocols = store[ns].receipt.protocols
  BY <1>2 DEF StockedAt, Reading
<1>5. Backed(deployed[seen.files[ns]], Tags)
  BY DEF ReadingInv, ClientInv, Places, Chronicle
<1>6. \A e \in history : e.channel = Channel(e.version) /\ DOMAIN e.artifacts = Platforms
  BY <1>4, <1>5 DEF Backed, EntryOf, Describes, Reading
<1>7. command.entry \in Selectable(history, policy, Identity)
  BY DEF ReadingInv, ClientInv, Basket, Newer
<1>8. Identity.platform \in Platforms
  BY <1>1, <1>6, <1>7 DEF Selectable, PermittedVersions
<1>9. Intersects(entry.protocols, Identity.window)
  BY <1>4 DEF Negotiates, Intersects
<1>10. entry \in PermittedVersions(history, policy)
  BY <1>1, <1>2, <1>3, <1>4, <1>6 DEF PermittedVersions
<1> QED
  BY <1>4, <1>6, <1>8, <1>9, <1>10 DEF Selectable

(* An update moves a product forward: what it takes is never older than     *)
(* what is installed, unless another terminal changed that product since    *)
(* the command began or this shell can no longer launch what is installed.  *)
(* The index and the history it reads are of two moments, and neither is    *)
(* compared with what is installed again; but what is installed came from   *)
(* a history this machine has read, every later one still offers it, and    *)
(* the newest of what is offered is taken.                                  *)
THEOREM UpdateMovesForward ==
  ASSUME ModulesStay
  PROVE  Spec => UpdateNeverGoesBack
<1> DEFINE Forward ==
      \A ns \in Namespaces :
        (MovedBy("update", ns) /\ ns \notin disturbed /\ Negotiates(store[ns].receipt, Identity)) =>
          Compare(store'[ns].receipt.version, store[ns].receipt.version) >= 0
<1>1. Init => ReadingInv
  BY InitReading
<1>2. ReadingInv /\ [Next]_updateVars => ReadingInv' /\ [Forward]_store
  <2> SUFFICES ASSUME ReadingInv, [Next]_updateVars
               PROVE  ReadingInv' /\ (store' # store => Forward)
    OBVIOUS
  <2>1. ASSUME store' # store, NEW ns \in Namespaces, MovedBy("update", ns),
               ns \notin disturbed, Negotiates(store[ns].receipt, Identity)
        PROVE  Compare(store'[ns].receipt.version, store[ns].receipt.version) >= 0
    <3>1. ClientNext /\ IInv
      BY <2>1 DEF Next, updateVars, clientVars, ReadingInv
    <3>2. ns = command.ns /\ store'[ns].receipt.version = command.entry.version
      BY <2>1, <3>1, UpdateMoves
    <3>3. command.verb = "update" /\ command.step = "download"
      BY <2>1 DEF MovedBy
    <3>4. PICK entry \in Selectable(Reading(ns)[ns], command.policy, Identity) :
            entry.version = store[ns].receipt.version
      BY <2>1, <3>2, <3>3, InstalledIsSelectable
    <3>5. Newer(Selectable(Reading(ns)[ns], command.policy, Identity))
      BY <2>1, <3>2, <3>3 DEF ReadingInv, ClientInv, Basket
    <3> QED
      BY <3>2, <3>4, <3>5 DEF Newer
  <2> QED
    BY <2>1, NextReading
<1> QED
  BY <1>1, <1>2, PTL DEF Spec, UpdateNeverGoesBack
=============================================================================
