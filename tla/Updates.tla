------------------------------- MODULE Updates -------------------------------
(***************************************************************************)
(* The product commands against a catalog that is being published:         *)
(* product install, update and list read the index, then the history of a  *)
(* namespace, then its archive, each in a request of its own, and Releases *)
(* may deploy a new site between any two of them.  What an install does to *)
(* the files of the store is ModuleStore's; here it is one step.           *)
(*                                                                         *)
(* Each published document is cached on its own on the way, so a request   *)
(* may be answered from an earlier deployment, never from one earlier than *)
(* that document was already seen at.                                      *)
(***************************************************************************)
EXTENDS Releases

CONSTANT
  Choices        \* what an install asks for: a set of policies

(* A scene also says what is installed beforehand: the policy each product was
   installed with and whether its module declared its commands; how many
   commands are run; how many others run to their end inside one of them; and
   how many requests fail. *)

VARIABLES
  shell,         \* which of Shells this machine has
  store,         \* per namespace: its active receipt and its version policy
  command,       \* the product command that is running
  seen,          \* the oldest deployment each document may still come from
  disturbed,     \* namespaces another command changed while this one ran
  told,          \* what the last command said of each product
  commandsRun, othersRun, unreachable

clientVars == <<shell, store, command, seen, disturbed, told, commandsRun, othersRun, unreachable>>
updateVars == <<releaseVars, clientVars>>

Absent == [receipt |-> [absent |-> TRUE], channel |-> NoChannel, pinned |-> FALSE]
Waiting == [verb |-> "none", step |-> "idle", names |-> {}, policy |-> Policy(NoChannel, NoVersion),
            agreed |-> FALSE, inventory |-> <<>>, todo |-> {}, ns |-> NoChannel,
            entry |-> [absent |-> TRUE]]
Identity == Shells[shell]
Installed == {ns \in Namespaces : store[ns] # Absent}

(* Inventory: the installed versions, read before the index is asked for. *)
Inventory == [ns \in Installed |-> store[ns].receipt.version]

(* FollowedChannel and Pinned of a version policy; an absent document is the
   policy that says nothing. *)
FollowedChannel(ns) == IF store[ns].channel = NoChannel THEN "stable" ELSE store[ns].channel

-----------------------------------------------------------------------------
(* statuses: what the index says of one installed product. *)
LatestOnChannel(index, ns, channel) ==
  IF ns \in DOMAIN index /\ channel \in DOMAIN index[ns] THEN index[ns][channel] ELSE NoVersion

IsNewer(candidate, installed) == candidate # NoVersion /\ Compare(candidate, installed) > 0

Status(index, ns, installed) ==
  LET available == LatestOnChannel(index, ns, FollowedChannel(ns))
  IN  [ns |-> ns, installed |-> installed, channel |-> FollowedChannel(ns),
       pinned |-> store[ns].pinned, available |-> available,
       update |-> IsNewer(available, installed) /\ ~store[ns].pinned]

(* The policies are read once the index has answered, the versions before. *)
Statuses(index, inventory) == {Status(index, ns, inventory[ns]) : ns \in DOMAIN inventory}

(* What list, the plan and the outcome of an update call such a status. *)
StateOf(status) ==
  CASE status.pinned -> "pinned"
    [] ~status.pinned /\ status.update -> "updatable"
    [] ~status.pinned /\ ~status.update /\ status.available = NoVersion -> "unpublished"
    [] OTHER -> "current"

Rows(statuses) == {[ns |-> s.ns, state |-> StateOf(s)] : s \in statuses}

(* The products a list offers beside the installed ones: on the stable channel
   when there is one, on the first by name otherwise. *)
OfferedChannel(index, ns) ==
  IF "stable" \in DOMAIN index[ns] THEN "stable" ELSE "prerelease"

Offered(index, present) ==
  {[ns |-> ns, state |-> OfferedChannel(index, ns)] :
     ns \in {n \in DOMAIN index : n \notin present /\ DOMAIN index[n] # {}}}

(* An unbounded update has nothing to ask about when every product is pinned. *)
NothingWouldMove(names) == \A ns \in names : store[ns].pinned

(* selectInstalled: all of them, or the ones named, each of which must be. *)
Selected(names) == IF names = {} THEN Installed ELSE names

Asking(verb, names, step) ==
  [Waiting EXCEPT !.verb = verb, !.step = step, !.names = names,
                  !.inventory = [ns \in Selected(names) |-> Inventory[ns]]]

-----------------------------------------------------------------------------
(* What an install leaves: the receipt of the entry it selected, and what was
   asked for as the policy; a version that was not asked for clears the pin. *)
Activated(ns, policy, entry, tree) ==
  [receipt |-> Receipt(ns, entry, Identity.platform, tree),
   channel |-> policy.channel, pinned |-> policy.version # NoVersion]

\* What a scene has installed could be installed from the site it begins with.
ASSUME UpdateAssumption ==
  \A from \in Scenes : \A ns \in Namespaces \cap DOMAIN from.installed :
    /\ ns \in DOMAIN SiteBefore(from.served).files
    /\ Selectable(SiteBefore(from.served).files[ns], from.installed[ns], Shells[1]) # {}

ClientInit ==
  /\ shell = 1
  /\ store = [ns \in Namespaces |->
       IF ns \in DOMAIN scene.installed
       THEN Activated(ns, scene.installed[ns],
                      Select(Served.files[ns], scene.installed[ns], Identity), scene.trees[ns])
       ELSE Absent]
  /\ command = Waiting
  /\ seen = [index |-> 1, files |-> [ns \in Namespaces |-> 1]]
  /\ disturbed = {}
  /\ told = {}
  /\ commandsRun = 0 /\ othersRun = 0 /\ unreachable = 0

End(rows) ==
  /\ command' = Waiting
  /\ told' = rows
  /\ disturbed' = {}

Step(next) == command' = next /\ UNCHANGED <<told, disturbed>>

(* The person at the machine gets the newest released shell. *)
UpgradeShell ==
  /\ shell < released
  /\ shell' = released
  /\ command = Waiting
  /\ UNCHANGED <<store, command, seen, disturbed, told, commandsRun, othersRun, unreachable>>

Begin(next) ==
  /\ command = Waiting
  /\ commandsRun < scene.commands
  /\ commandsRun' = commandsRun + 1
  /\ command' = next
  /\ told' = {} /\ disturbed' = {}
  /\ UNCHANGED <<shell, store, seen, othersRun, unreachable>>

(* product install <ns>, with a channel, with a pinned version, or with
   neither: both together are refused before anything is read. *)
StartInstall(ns, policy) ==
  /\ policy.channel = NoChannel \/ policy.version = NoVersion
  /\ Begin([Waiting EXCEPT !.verb = "install", !.step = "index", !.names = {ns},
                           !.policy = policy, !.agreed = TRUE])

StartList == Begin(Asking("list", {}, "index"))

(* product update names one product or takes --all, which is no name at all:
   never both, and never several. *)
UpdateTargets == {{}} \cup {{ns} : ns \in Namespaces}

(* product update --dry-run. *)
StartPlan(names) ==
  /\ Selected(names) \subseteq Installed
  /\ Begin(Asking("plan", names, "index"))

(* product update.  One product, or --yes, is agreement enough; --all without
   --yes asks first, unless every product is pinned or the catalog says that
   nothing would move, and then the check's own answer is the report. *)
StartUpdate(names, yes) ==
  /\ Selected(names) \subseteq Installed
  /\ Begin([Asking("update", names, IF names # {} \/ yes \/ NothingWouldMove(Installed)
                                    THEN "index" ELSE "check") EXCEPT !.agreed = yes \/ names # {}])

-----------------------------------------------------------------------------
(* One request for the index, answered from some deployment. *)
FetchIndex(deployment) ==
  /\ deployment \in seen.index .. Len(deployed)
  /\ seen' = [seen EXCEPT !.index = deployment]

FetchHistory(ns, deployment) ==
  /\ deployment \in seen.files[ns] .. Len(deployed)
  /\ seen' = [seen EXCEPT !.files[ns] = deployment]

Others == UNCHANGED <<shell, commandsRun, othersRun>>

(* everythingCurrent: with nothing to update the statuses just read are the
   report; with something, or with no answer, the question is asked.
   Mutant: CheckAll, what is current is left to the update that follows. *)
CheckAll_UpdatesAnyway(deployment) ==
  /\ command.step = "check"
  /\ FetchIndex(deployment)
  /\ LET statuses == Statuses(deployed[deployment].index, command.inventory)
     IN  Step([Asking("update", {}, IF \E s \in statuses : s.update THEN "ask" ELSE "index")
                 EXCEPT !.agreed = command.agreed])
  /\ Others /\ UNCHANGED <<store, unreachable>>

CheckAll(deployment) ==
  /\ command.step = "check"
  /\ FetchIndex(deployment)
  /\ LET statuses == Statuses(deployed[deployment].index, command.inventory)
     IN  IF \E s \in statuses : s.update
         THEN Step([command EXCEPT !.step = "ask"])
         ELSE End(Rows(statuses))
  /\ Others /\ UNCHANGED <<store, unreachable>>

Confirm ==
  /\ command.step = "ask"
  /\ Step([Asking("update", {}, "index") EXCEPT !.agreed = TRUE])
  /\ Others /\ UNCHANGED <<store, seen, unreachable>>

(* Declined, or refused because nobody can be asked. *)
Decline ==
  /\ command.step = "ask"
  /\ End({})
  /\ Others /\ UNCHANGED <<store, seen, unreachable>>

(* The index of an install names the product or there is none; that of an
   update gives the statuses, read with the policies as they are now; that of
   a list or a plan is the answer. *)
ReadIndex(deployment) ==
  /\ command.step = "index"
  /\ FetchIndex(deployment)
  /\ LET index == deployed[deployment].index
         statuses == Statuses(index, command.inventory)
     IN  CASE command.verb = "install" ->
                \E ns \in command.names :
                  IF ns \in DOMAIN index
                  THEN Step([command EXCEPT !.step = "history", !.ns = ns])
                  ELSE End({[ns |-> ns, state |-> "catalog.unknown_module"]})
           [] command.verb = "list" -> End(Rows(statuses) \cup Offered(index, DOMAIN command.inventory))
           [] command.verb = "plan" -> End(Rows(statuses))
           [] command.verb = "update" ->
                Step([command EXCEPT !.step = "next", !.todo = {s \in statuses : s.update}])
  /\ Others /\ UNCHANGED <<store, unreachable>>

(* Mutant: NextProduct, without the channel the product follows. *)
NextProduct_NoChannel ==
  /\ command.step = "next"
  /\ IF command.todo = {} THEN End({})
     ELSE \E s \in command.todo :
            Step([command EXCEPT !.step = "history", !.ns = s.ns, !.todo = @ \ {s},
                                 !.policy = Policy(NoChannel, NoVersion)])
  /\ Others /\ UNCHANGED <<store, seen, unreachable>>

(* updateOne: the next product with something newer, in the update's own run
   of the install path; pinned, current and unpublished ones were answered. *)
NextProduct ==
  /\ command.step = "next"
  /\ IF command.todo = {} THEN End({})
     ELSE \E s \in command.todo :
            Step([command EXCEPT !.step = "history", !.ns = s.ns, !.todo = @ \ {s},
                                 !.policy = Policy(s.channel, NoVersion)])
  /\ Others /\ UNCHANGED <<store, seen, unreachable>>

(* Where a command that failed for one product goes on. *)
GiveUp(problem) ==
  IF command.verb = "update" THEN Step([command EXCEPT !.step = "next", !.ns = NoChannel, !.entry = [absent |-> TRUE]])
  ELSE End({[ns |-> command.ns, state |-> problem]})

(* The history of the product, and the version the policy selects from it. *)
ReadHistory(deployment) ==
  /\ command.step = "history"
  /\ FetchHistory(command.ns, deployment)
  /\ LET files == deployed[deployment].files
         selection == Select(files[command.ns], command.policy, Identity)
     IN  IF command.ns \notin DOMAIN files THEN GiveUp("catalog.origin_unreachable")
         ELSE IF "refused" \in DOMAIN selection THEN GiveUp(selection.refused)
         ELSE Step([command EXCEPT !.step = "download", !.entry = selection])
  /\ Others /\ UNCHANGED <<store, unreachable>>

(* The archive is the one the tag's release holds now, and is refused when it
   is not the one the entry describes. *)
ReleaseOf(ns, version) ==
  CHOOSE tag \in Tags : TagText[tag].ns = ns /\ ParseTag(tag).version = version

Verified(ns, entry) ==
  LET tag == ReleaseOf(ns, entry.version)
  IN  /\ release[tag].state = "public"
      /\ entry.artifacts[Identity.platform].sha256 = <<tag, release[tag].build>>

Activate(tree) ==
  /\ command.step = "download"
  /\ LET receipt == Receipt(command.ns, command.entry, Identity.platform, tree)
     IN  IF ~Verified(command.ns, command.entry)
         THEN GiveUp("modules.artifact_digest_mismatch") /\ UNCHANGED store
         ELSE IF ~ValidReceipt(receipt)
         THEN GiveUp("modules.receipt_malformed") /\ UNCHANGED store
         ELSE /\ store' = [store EXCEPT ![command.ns] =
                             Activated(command.ns, command.policy, command.entry, tree)]
              /\ IF command.verb = "update"
                 THEN Step([command EXCEPT !.step = "next", !.ns = NoChannel,
                                           !.entry = [absent |-> TRUE]])
                 ELSE End({[ns |-> command.ns, state |-> "installed"]})
  /\ Others /\ UNCHANGED <<seen, unreachable>>

(* A request that fails: the check asks its question then, a list falls back
   to what is installed, an update goes on with the next product, and
   everything else ends. *)
Unreachable ==
  /\ unreachable < scene.unreachable
  /\ unreachable' = unreachable + 1
  /\ command.step \in {"check", "index", "history", "download"}
  /\ CASE command.step = "check" -> Step([command EXCEPT !.step = "ask"])
       [] command.step = "index" ->
            End(IF command.verb = "list"
                THEN {[ns |-> ns, state |-> IF store[ns].pinned THEN "pinned" ELSE "unknown"] :
                        ns \in DOMAIN command.inventory}
                ELSE {})
       [] command.step \in {"history", "download"} -> GiveUp("catalog.origin_unreachable")
  /\ Others /\ UNCHANGED <<store, seen>>

-----------------------------------------------------------------------------
(* A second terminal runs a whole install, or a remove, while a command of the
   first one is between two of its steps. *)
OtherInstall(ns, policy) ==
  /\ command # Waiting /\ othersRun < scene.others
  /\ othersRun' = othersRun + 1
  /\ ns \in DOMAIN Served.index
  /\ LET selection == Select(Served.files[ns], policy, Identity)
     IN  /\ "refused" \notin DOMAIN selection
         /\ Verified(ns, selection)
         /\ ValidReceipt(Receipt(ns, selection, Identity.platform, "declared"))
         /\ store' = [store EXCEPT ![ns] = Activated(ns, policy, selection, "declared")]
  /\ seen' = [index |-> Len(deployed), files |-> [seen.files EXCEPT ![ns] = Len(deployed)]]
  /\ disturbed' = disturbed \cup {ns}
  /\ UNCHANGED <<shell, command, told, commandsRun, unreachable>>

OtherRemove(ns) ==
  /\ command # Waiting /\ othersRun < scene.others
  /\ othersRun' = othersRun + 1
  /\ ns \in Installed
  /\ store' = [store EXCEPT ![ns] = Absent]
  /\ disturbed' = disturbed \cup {ns}
  /\ UNCHANGED <<shell, command, seen, told, commandsRun, unreachable>>

ClientNext ==
  \/ UpgradeShell
  \/ StartList
  \/ \E ns \in Namespaces, policy \in Choices : StartInstall(ns, policy)
  \/ \E names \in UpdateTargets :
       \/ StartPlan(names)
       \/ \E yes \in BOOLEAN : StartUpdate(names, yes)
  \/ \E deployment \in 1 .. Len(deployed) :
       \/ CheckAll(deployment)
       \/ ReadIndex(deployment)
       \/ ReadHistory(deployment)
  \/ Confirm
  \/ Decline
  \/ NextProduct
  \/ \E tree \in {"declared", "empty"} : Activate(tree)
  \/ Unreachable
  \/ \E ns \in Namespaces : \/ OtherRemove(ns)
                            \/ \E policy \in Choices : OtherInstall(ns, policy)

Init == ReleaseInit /\ ClientInit

Next == \/ ReleaseNext /\ UNCHANGED clientVars
        \/ ClientNext /\ UNCHANGED releaseVars

Spec == Init /\ [][Next]_updateVars

-----------------------------------------------------------------------------

MovedBy(verb, ns) ==
  command.verb = verb /\ command.step = "download" /\ store'[ns] # store[ns] /\ othersRun' = othersRun

(* An update moves a product forward.  It decides that there is something
   newer from the index, and takes what the history offers a shell of this
   protocol: two documents of two moments, neither compared with what is
   installed again.  Only a version the shell can no longer launch may give
   way to an earlier one, and only a command in another terminal between the
   two readings can make the move a step back. *)
UpdateNeverGoesBack ==
  [][\A ns \in Namespaces :
       (MovedBy("update", ns) /\ ns \notin disturbed /\ Negotiates(store[ns].receipt, Identity)) =>
         Compare(store'[ns].receipt.version, store[ns].receipt.version) >= 0]_store

(* Nothing moves that nobody agreed to: an update of everything that was not
   confirmed changes no product, whatever was published since it decided that
   there was nothing to ask about, unless another command changed a policy
   under it. *)
NothingMovesUnasked ==
  [][\A ns \in Namespaces :
       (MovedBy("update", ns) /\ ns \notin disturbed) => command.agreed]_store

=============================================================================
