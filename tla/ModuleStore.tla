---------------------------- MODULE ModuleStore ----------------------------
(***************************************************************************)
(* The managed module store's directory for one product namespace, and the *)
(* invocations that install, update, remove and launch the product.        *)
(*                                                                         *)
(* The store takes no lock: what orders two invocations is only the        *)
(* filesystem. install.Installer.activate stages an archive, moves the     *)
(* version it replaces aside, renames the staged directory into place,     *)
(* writes the receipt, the version policy and, last, the active-version    *)
(* pointer; a deferred function sweeps up or puts back. Store.Resolve      *)
(* follows the pointer to the receipt and the receipt to the executable,   *)
(* checking a digest at each hop; the process is then started by the       *)
(* executable's path, whatever has come to be there.                       *)
(*                                                                         *)
(* A directory entry is None or its contents. A build stands for the bytes *)
(* of an executable and, since a receipt is computed from them, for the    *)
(* receipt that records them. Any filesystem call may be refused, at most  *)
(* MaxFaults times per invocation, and an invocation may be killed between *)
(* two steps.                                                              *)
(***************************************************************************)
EXTENDS Naturals, FiniteSets

CONSTANTS Procs,       \* invocations that may run at the same time
          Catalogs,    \* the sets of <<version, build>> pairs it may be that
                       \* the catalog offers
          Ops,         \* bound: what is run, of "install", "pin" (install
                       \* --version), "update", "remove", "launch", "kill"
          MaxFaults,   \* bound: filesystem refusals in one invocation
          None,        \* no such file or directory
          Torn,        \* a file cut short, which has no build's digest
          Following,   \* a version policy that pins nothing
          Unread       \* a policy document that could not be read

Published == UNION Catalogs
Versions == {o[1] : o \in Published}
Builds == {o[2] : o \in Published}

ASSUME StoreAssumption ==
  /\ MaxFaults \in Nat
  /\ None \notin {Torn, Following, Unread} /\ Unread \notin {Torn, Following}
  /\ {None, Torn, Following, Unread} \cap (Versions \cup Builds) = {}
  /\ "policy" \notin Versions

VARIABLES offered,   \* what the catalog offers to these invocations
          here,      \* does the namespace directory exist
          staged,    \* the invocations whose staging directory exists
          dirs,      \* version -> its directory
          aside,     \* version -> <version>.replaced
          policy,    \* policy.json: None, Following or the pinned version
          active,    \* active.json
          job,       \* what each invocation is doing
          activated, \* history: every pair the pointer has ever named
          spoilt     \* history: versions, and the policy, that an install cut
                     \* short or shared with another may have left unfinished

disk == <<here, staged, dirs, aside, policy, active>>
vars == <<offered, disk, job, activated, spoilt>>

Contents == [exe : Builds \cup {None}, receipt : Builds \cup {None, Torn}]
Pointers == [version : Versions, receipt : Builds]
Policies == Versions \cup {None, Following}

ASSUME EntryAssumption == None \notin Contents \cup Pointers

Working == {"stat", "stage", "snapshot", "extract", "clear", "aside", "place",
            "digest", "receipt", "policy", "activate"}
Cleaning == {"sweep", "restore", "discard", "putback"}
Ending == {"done", "failed", "launched", "refused"}

\* From placing the version to the pointer that names it, or to the cleanup's end.
Unpointed == {"digest", "receipt", "policy", "activate",
              "restore", "discard", "putback"}

(* What an invocation holds in its own memory. before and shared are history:
   what its install found, and whether another invocation has been installing
   the same version or removed the namespace under it, or, for a launch,
   whether the version was unsettled when its process was started. *)
Jobs == [at : Working \cup Cleaning \cup Ending
              \cup {"idle", "status", "remove", "verify", "check", "resolved"},
         version : Versions \cup {None}, build : Builds \cup {None},
         pins : BOOLEAN, fresh : BOOLEAN, saved : Policies \cup {Unread},
         moved : BOOLEAN, receipt : Builds \cup {None},
         faults : SUBSET (Working \cup Cleaning \cup {"remove"}),
         shared : BOOLEAN,
         before : [dir : Contents \cup {None}, policy : Policies,
                   active : Pointers \cup {None}] \cup {None}]

NoJob == [at |-> "idle", version |-> None, build |-> None, pins |-> FALSE,
          fresh |-> FALSE, saved |-> None, moved |-> FALSE, receipt |-> None,
          faults |-> {}, shared |-> FALSE, before |-> None]

Nowhere == [v \in Versions |-> None]

Init ==
  /\ offered \in Catalogs
  /\ here = FALSE /\ staged = {} /\ dirs = Nowhere /\ aside = Nowhere
  /\ policy = None /\ active = None
  /\ job = [p \in Procs |-> NoJob]
  /\ activated = {} /\ spoilt = {}

------------------------------------------------------------------------------
(* Steps shared by the handlers. *)

At(p, place) == job[p].at = place

Becomes(p, record) == job' = [job EXCEPT ![p] = record]
Go(p, place) == Becomes(p, [job[p] EXCEPT !.at = place])

(* A refused filesystem call: the handler goes on at place. *)
MayFault(p) == Cardinality(job[p].faults) < MaxFaults
Refused(p, place) == [job[p] EXCEPT !.at = place, !.faults = @ \cup {job[p].at}]
Faulted(p, place) == Becomes(p, Refused(p, place))

(* Installing this version: from its first step to the last of its cleanup. *)
InstallsVersion(p, v) == job[p].version = v /\ job[p].at \in Working \cup Cleaning

(* What a refused RemoveAll leaves of a directory: all of it, or a husk that
   stands for every part of it that is not the whole. *)
Husk == [exe |-> None, receipt |-> None]
Remains(d) == IF d = None THEN {None} ELSE {d, Husk}

(* The namespace directory goes under whatever other invocations are doing in
   it: p goes on as after, every install under way is shared from now
   on, and lost is what the removal itself may have left unfinished. *)
Uproot(p, after, lost) ==
  LET others == {q \in Procs \ {p} : job[q].at \in Working \cup Cleaning} IN
  /\ job' = [q \in Procs |-> IF q = p THEN after
                             ELSE IF q \in others THEN [job[q] EXCEPT !.shared = TRUE]
                             ELSE job[q]]
  /\ spoilt' = spoilt \cup lost \cup {job[q].version : q \in others}

(* RemoveAll of the namespace directory, in the middle of which another
   invocation sees nothing it could not see before or after. *)
RemoveNamespace(p, after) ==
  /\ here' = FALSE /\ staged' = {} /\ dirs' = Nowhere /\ aside' = Nowhere
  /\ policy' = None /\ active' = None
  /\ Uproot(p, after, {})

(* The same, refused or killed on the way: any part of it may be gone. *)
RemoveSomeOfNamespace(p, after) ==
  /\ \E gone \in SUBSET Versions :
       dirs' = [v \in Versions |-> IF v \in gone THEN None ELSE dirs[v]]
  /\ policy' \in {policy, None} /\ active' \in {active, None}
  /\ Uproot(p, after, Versions \cup {"policy"})
  /\ UNCHANGED <<here, staged, aside>>

------------------------------------------------------------------------------
(* install.Installer: what is asked for, and what the catalog offers. *)

(* An install of a selected version, its archive downloaded and verified. The
   installs of one version that overlap are shared, and may spoil it. *)
Request(p, v, b, pins) ==
  LET others == {q \in Procs \ {p} : InstallsVersion(q, v)} IN
  /\ job' = [q \in Procs |->
        IF q = p THEN [NoJob EXCEPT !.at = "stat", !.version = v, !.build = b,
                                    !.pins = pins, !.shared = others # {}]
        ELSE IF q \in others THEN [job[q] EXCEPT !.shared = TRUE]
        ELSE job[q]]
  /\ spoilt' = IF others # {} THEN spoilt \cup {v} ELSE spoilt

StartInstall(p) ==
  /\ At(p, "idle")
  /\ \E o \in offered, op \in Ops \cap {"install", "pin"} :
       Request(p, o[1], o[2], op = "pin")
  /\ UNCHANGED <<disk, activated>>

(* The receipt the pointer names, byte for byte. *)
ReceiptVerified ==
  /\ active # None /\ dirs[active.version] # None
  /\ dirs[active.version].receipt = active.receipt

(* An update reads the inventory and each module's policy, then the catalog's
   index; a pinned module is passed over. *)
StartUpdate(p) ==
  /\ At(p, "idle") /\ "update" \in Ops /\ ReceiptVerified
  /\ Go(p, IF policy \in Versions THEN "done" ELSE "status")
  /\ UNCHANGED <<disk, activated, spoilt>>

(* The newest version of its channel this machine can launch, which may be the
   one installed already; the request follows the channel and pins nothing. *)
UpdateOne(p) ==
  /\ At(p, "status")
  /\ \/ \E o \in offered : Request(p, o[1], o[2], FALSE)
     \/ Go(p, "done") /\ UNCHANGED spoilt
  /\ UNCHANGED <<disk, activated>>

------------------------------------------------------------------------------
(* install.Installer.activate, one action per filesystem step. *)

(* History: what an install of v found, kept where nothing else can change it
   while the install runs. *)
Found(v) ==
  IF Cardinality(Procs) > 1 THEN None
  ELSE [dir |-> dirs[v], policy |-> policy, active |-> active]

(* A namespace directory that cannot be inspected counts as one this install
   will have created. *)
StatNamespace(p) ==
  /\ At(p, "stat")
  /\ LET seen(fresh, faults) ==
           Becomes(p, [job[p] EXCEPT !.at = "stage", !.fresh = fresh,
                         !.faults = faults, !.before = Found(job[p].version)])
     IN \/ seen(~here, {})
        \/ MayFault(p) /\ seen(TRUE, {"stat"})
  /\ UNCHANGED <<disk, activated, spoilt>>

(* MkdirAll and MkdirTemp. A refusal comes before the cleanup is deferred. *)
MakeStaging(p) ==
  /\ At(p, "stage")
  /\ \/ here' = TRUE /\ staged' = staged \cup {p} /\ Go(p, "snapshot")
     \/ /\ MayFault(p) /\ Faulted(p, "failed")
        /\ here' \in {here, TRUE} /\ UNCHANGED staged
  /\ UNCHANGED <<dirs, aside, policy, active, activated, spoilt>>

(* readPolicyDocument: absent, unreadable and present are three answers. *)
SnapshotPolicy(p) ==
  /\ At(p, "snapshot")
  /\ \/ Becomes(p, [job[p] EXCEPT !.at = "extract", !.saved = policy])
     \/ /\ MayFault(p) /\ policy # None
        /\ Becomes(p, [Refused(p, "extract") EXCEPT !.saved = Unread])
  /\ UNCHANGED <<disk, activated, spoilt>>

(* A malformed archive, or a disk that will not take it, fails here. *)
Extract(p) ==
  /\ At(p, "extract")
  /\ \/ p \in staged /\ Go(p, "clear")
     \/ p \notin staged /\ Go(p, "restore")
     \/ MayFault(p) /\ Faulted(p, "restore")
  /\ UNCHANGED <<disk, activated, spoilt>>

(* Mutant: ClearDisplaced, without clearing what an earlier install displaced. *)
ClearDisplaced_Kept(p) ==
  LET v == job[p].version IN
  /\ At(p, "clear")
  /\ here' = TRUE
  /\ Becomes(p, [job[p] EXCEPT !.at = IF dirs[v] = None THEN "place" ELSE "aside",
                               !.moved = dirs[v] # None])
  /\ UNCHANGED <<staged, dirs, aside, policy, active, activated, spoilt>>

(* The versions directory is made again if need be; a version already there
   will be displaced, once whatever an earlier install displaced is cleared.
   The name of the displaced directory is set before it is cleared. *)
ClearDisplaced(p) ==
  LET v == job[p].version IN
  /\ At(p, "clear")
  /\ here' = TRUE
  /\ IF dirs[v] = None THEN Go(p, "place") /\ UNCHANGED aside
     ELSE \/ /\ aside' = [aside EXCEPT ![v] = None]
             /\ Becomes(p, [job[p] EXCEPT !.at = "aside", !.moved = TRUE])
          \/ /\ MayFault(p) /\ aside[v] # None
             /\ \E left \in Remains(aside[v]) : aside' = [aside EXCEPT ![v] = left]
             /\ Becomes(p, [Refused(p, "restore") EXCEPT !.moved = TRUE])
  /\ UNCHANGED <<staged, dirs, policy, active, activated, spoilt>>

(* A refused rename leaves nothing to put back. *)
SetAside(p) ==
  LET v == job[p].version
      able == dirs[v] # None /\ aside[v] = None
  IN
  /\ At(p, "aside")
  /\ \/ /\ able
        /\ aside' = [aside EXCEPT ![v] = dirs[v]]
        /\ dirs' = [dirs EXCEPT ![v] = None]
        /\ Go(p, "place")
     \/ /\ ~able /\ UNCHANGED <<aside, dirs>>
        /\ Becomes(p, [job[p] EXCEPT !.at = "restore", !.moved = FALSE])
     \/ /\ MayFault(p) /\ UNCHANGED <<aside, dirs>>
        /\ Becomes(p, [Refused(p, "restore") EXCEPT !.moved = FALSE])
  /\ UNCHANGED <<here, staged, policy, active, activated, spoilt>>

Place(p) ==
  LET v == job[p].version
      able == p \in staged /\ dirs[v] = None
  IN
  /\ At(p, "place")
  /\ \/ /\ able
        /\ dirs' = [dirs EXCEPT ![v] = [exe |-> job[p].build, receipt |-> None]]
        /\ staged' = staged \ {p}
        /\ Go(p, "digest")
     \/ ~able /\ Go(p, "restore") /\ UNCHANGED <<dirs, staged>>
     \/ MayFault(p) /\ Faulted(p, "restore") /\ UNCHANGED <<dirs, staged>>
  /\ UNCHANGED <<here, aside, policy, active, activated, spoilt>>

(* The receipt records the executable that is in the version directory now. *)
DigestExecutable(p) ==
  LET d == dirs[job[p].version]
      able == d # None /\ d.exe # None
  IN
  /\ At(p, "digest")
  /\ \/ able /\ Becomes(p, [job[p] EXCEPT !.at = "receipt", !.receipt = d.exe])
     \/ ~able /\ Go(p, "restore")
     \/ MayFault(p) /\ Faulted(p, "restore")
  /\ UNCHANGED <<disk, activated, spoilt>>

(* Mutant: WriteReceipt, with the error of the write ignored. *)
WriteReceipt_Unchecked(p) ==
  LET v == job[p].version IN
  /\ At(p, "receipt") /\ dirs[v] # None
  /\ \E r \in {job[p].receipt} \cup (IF MayFault(p) THEN {Torn} ELSE {}) :
       dirs' = [dirs EXCEPT ![v].receipt = r]
  /\ Go(p, "policy")
  /\ UNCHANGED <<here, staged, aside, policy, active, activated, spoilt>>

(* os.WriteFile, which is not atomic: a refusal may leave the file cut short. *)
WriteReceipt(p) ==
  LET v == job[p].version
      Put(r) == dirs' = [dirs EXCEPT ![v].receipt = r]
  IN
  /\ At(p, "receipt")
  /\ \/ dirs[v] # None /\ Put(job[p].receipt) /\ Go(p, "policy")
     \/ dirs[v] = None /\ Go(p, "restore") /\ UNCHANGED dirs
     \/ /\ MayFault(p) /\ Faulted(p, "restore")
        /\ UNCHANGED dirs \/ (dirs[v] # None /\ Put(Torn))
  /\ UNCHANGED <<here, staged, aside, policy, active, activated, spoilt>>

(* Mutant: RecordPolicy, with a plain install leaving the pin that was there. *)
RecordPolicy_KeepsPin(p) ==
  /\ At(p, "policy") /\ here /\ Go(p, "activate")
  /\ policy' = IF job[p].pins THEN job[p].version
               ELSE IF policy \in Versions THEN policy ELSE Following
  /\ UNCHANGED <<here, staged, dirs, aside, active, activated, spoilt>>

(* atomicfile.Write: all of it or none of it, and only into a directory. *)
RecordPolicy(p) ==
  /\ At(p, "policy")
  /\ \/ /\ here /\ Go(p, "activate")
        /\ policy' = IF job[p].pins THEN job[p].version ELSE Following
     \/ ~here /\ Go(p, "restore") /\ UNCHANGED policy
     \/ MayFault(p) /\ Faulted(p, "restore") /\ UNCHANGED policy
  /\ UNCHANGED <<here, staged, dirs, aside, active, activated, spoilt>>

Activate(p) ==
  LET v == job[p].version
      b == job[p].receipt
  IN
  /\ At(p, "activate")
  /\ \/ /\ here /\ Go(p, "sweep")
        /\ active' = [version |-> v, receipt |-> b]
        /\ activated' = activated \cup {<<v, b>>}
        /\ spoilt' = IF job[p].shared THEN spoilt ELSE spoilt \ {v, "policy"}
     \/ ~here /\ Go(p, "restore") /\ UNCHANGED <<active, activated, spoilt>>
     \/ /\ MayFault(p) /\ Faulted(p, "restore")
        /\ UNCHANGED <<active, activated, spoilt>>
  /\ UNCHANGED <<here, staged, dirs, aside, policy>>

------------------------------------------------------------------------------
(* activate's deferred function. Every step of it is best effort. *)

(* After a success: the displaced version goes. *)
Sweep(p) ==
  LET v == job[p].version IN
  /\ At(p, "sweep")
  /\ \/ /\ aside' = IF job[p].moved THEN [aside EXCEPT ![v] = None] ELSE aside
        /\ Go(p, "done")
     \/ /\ MayFault(p) /\ job[p].moved
        /\ \E left \in Remains(aside[v]) : aside' = [aside EXCEPT ![v] = left]
        /\ Faulted(p, "done")
  /\ UNCHANGED <<here, staged, dirs, policy, active, activated, spoilt>>

(* Mutant: RestorePolicy, without removing a policy the install found absent. *)
RestorePolicy_OnlyPresent(p) ==
  LET saved == job[p].saved IN
  /\ At(p, "restore") /\ Go(p, "discard")
  /\ staged' = staged \ {p}
  /\ policy' = IF saved \in {Unread, None} \/ ~here THEN policy ELSE saved
  /\ UNCHANGED <<here, dirs, aside, active, activated, spoilt>>

(* After a failure: the staging directory goes and the policy the install found
   is written back, or removed if there was none. *)
RestorePolicy(p) ==
  LET saved == job[p].saved IN
  /\ At(p, "restore")
  /\ staged' = staged \ {p}
  /\ \/ /\ Go(p, "discard")
        /\ policy' = IF saved = Unread \/ ~here THEN policy ELSE saved
        /\ spoilt' = IF saved = Unread THEN spoilt \cup {"policy"} ELSE spoilt
     \/ /\ MayFault(p) /\ Faulted(p, "discard")
        /\ UNCHANGED policy /\ spoilt' = spoilt \cup {"policy"}
  /\ UNCHANGED <<here, dirs, aside, active, activated>>

(* Mutant: DiscardVersion, with every version of the namespace going. *)
DiscardVersion_All(p) ==
  /\ At(p, "discard") /\ Go(p, "putback")
  /\ dirs' = Nowhere
  /\ spoilt' = spoilt \cup {job[p].version}
  /\ UNCHANGED <<here, staged, aside, policy, active, activated>>

(* The version directory goes, whatever is in it. *)
DiscardVersion(p) ==
  LET v == job[p].version IN
  /\ At(p, "discard")
  /\ \/ dirs' = [dirs EXCEPT ![v] = None] /\ Go(p, "putback")
     \/ /\ MayFault(p) /\ Faulted(p, "putback")
        /\ \E left \in Remains(dirs[v]) : dirs' = [dirs EXCEPT ![v] = left]
  /\ spoilt' = spoilt \cup {v}
  /\ UNCHANGED <<here, staged, aside, policy, active, activated>>

(* What was displaced comes back; with nothing displaced, a namespace this
   install created goes. *)
PutBack(p) ==
  LET v == job[p].version IN
  /\ At(p, "putback")
  /\ \/ /\ job[p].moved /\ Go(p, "failed") /\ UNCHANGED <<here, staged, policy, active, spoilt>>
        /\ IF aside[v] # None /\ dirs[v] = None
           THEN /\ dirs' = [dirs EXCEPT ![v] = aside[v]]
                /\ aside' = [aside EXCEPT ![v] = None]
           ELSE UNCHANGED <<dirs, aside>>
     \/ ~job[p].moved /\ ~job[p].fresh /\ Go(p, "failed") /\ UNCHANGED <<disk, spoilt>>
     \/ /\ ~job[p].moved /\ job[p].fresh
        /\ RemoveNamespace(p, [job[p] EXCEPT !.at = "failed"])
     \/ MayFault(p) /\ job[p].moved /\ Faulted(p, "failed") /\ UNCHANGED <<disk, spoilt>>
     \/ /\ MayFault(p) /\ ~job[p].moved /\ job[p].fresh
        /\ RemoveSomeOfNamespace(p, Refused(p, "failed"))
  /\ UNCHANGED activated

------------------------------------------------------------------------------
(* Store.Remove, reached once Store.Installed found the namespace there. *)

StartRemove(p) ==
  /\ At(p, "idle") /\ "remove" \in Ops /\ here
  /\ Go(p, "remove")
  /\ UNCHANGED <<disk, activated, spoilt>>

Remove(p) ==
  /\ At(p, "remove")
  /\ \/ here /\ RemoveNamespace(p, [job[p] EXCEPT !.at = "done"])
     \/ ~here /\ Go(p, "failed") /\ UNCHANGED <<disk, spoilt>>
     \/ MayFault(p) /\ here /\ RemoveSomeOfNamespace(p, Refused(p, "failed"))
  /\ UNCHANGED activated

------------------------------------------------------------------------------
(* Store.Resolve: the pointer, the receipt it names, the executable that
   records. The files may change between the three reads. *)

ReadActive(p) ==
  /\ At(p, "idle") /\ "launch" \in Ops /\ active # None
  /\ Becomes(p, [job[p] EXCEPT !.at = "verify", !.version = active.version,
                               !.receipt = active.receipt])
  /\ UNCHANGED <<disk, activated, spoilt>>

(* Mutant: ReceiptMatches, with any receipt that is there believed. *)
ReceiptMatches_Any(p) ==
  LET d == dirs[job[p].version] IN d # None /\ d.receipt \in Builds

(* The receipt's bytes have the digest the pointer records. *)
ReceiptMatches(p) ==
  LET d == dirs[job[p].version] IN d # None /\ d.receipt = job[p].receipt

ReadVerifiedReceipt(p) ==
  /\ At(p, "verify")
  /\ LET d == dirs[job[p].version] IN
     IF ReceiptMatches(p)
     THEN Becomes(p, [job[p] EXCEPT !.at = "check", !.receipt = d.receipt])
     ELSE Go(p, "refused")
  /\ UNCHANGED <<disk, activated, spoilt>>

(* The executable has the digest the receipt records. *)
ExecutableMatches(p) ==
  LET d == dirs[job[p].version] IN d # None /\ d.exe = job[p].receipt

CheckExecutable(p) ==
  /\ At(p, "check")
  /\ LET d == dirs[job[p].version] IN
     IF ExecutableMatches(p)
     THEN Becomes(p, [job[p] EXCEPT !.at = "resolved", !.build = d.exe])
     ELSE Go(p, "refused")
  /\ UNCHANGED <<disk, activated, spoilt>>

(* History: an install of v is between placing its files and pointing at them,
   or one that shared it or was cut short there has been the last of v. *)
Unsettled(v) ==
  \/ v \in spoilt
  \/ \E q \in Procs : InstallsVersion(q, v) /\ job[q].at \in Unpointed

(* The process is started by the path that was resolved: what runs is whatever
   executable is there by then, and nothing is compared again. *)
Execute(p) ==
  /\ At(p, "resolved")
  /\ LET v == job[p].version
         d == dirs[v]
     IN IF d # None /\ d.exe # None
        THEN Becomes(p, [job[p] EXCEPT !.at = "launched", !.build = d.exe,
                                       !.shared = Unsettled(v)])
        ELSE Go(p, "refused")
  /\ UNCHANGED <<disk, activated, spoilt>>

------------------------------------------------------------------------------

End(p) ==
  /\ job[p].at \in Ending
  /\ Becomes(p, NoJob)
  /\ UNCHANGED <<disk, activated, spoilt>>

(* Killed between two steps. A receipt being written may be cut short; a
   staging directory nobody will look for again is forgotten. *)
Crash(p) ==
  LET v == job[p].version IN
  /\ "kill" \in Ops /\ job[p].at \in Working \cup Cleaning
  /\ Becomes(p, NoJob)
  /\ staged' = staged \ {p}
  /\ \/ UNCHANGED dirs
     \/ /\ At(p, "receipt") /\ dirs[v] # None
        /\ dirs' = [dirs EXCEPT ![v].receipt = Torn]
  /\ spoilt' = spoilt
       \cup (IF job[p].at \in {"stat", "stage", "snapshot", "extract", "clear", "sweep"}
             THEN {} ELSE {v})
       \cup (IF job[p].at \in {"activate", "restore"} THEN {"policy"} ELSE {})
  /\ UNCHANGED <<here, aside, policy, active, activated>>

(* Killed inside a removal of the namespace directory. *)
CrashRemoving(p) ==
  /\ At(p, "remove") \/ (At(p, "putback") /\ job[p].fresh /\ ~job[p].moved)
  /\ "kill" \in Ops /\ here /\ RemoveSomeOfNamespace(p, NoJob)
  /\ UNCHANGED activated

Install(p) ==
  \/ StatNamespace(p) \/ MakeStaging(p) \/ SnapshotPolicy(p) \/ Extract(p)
  \/ ClearDisplaced(p) \/ SetAside(p) \/ Place(p) \/ DigestExecutable(p)
  \/ WriteReceipt(p) \/ RecordPolicy(p) \/ Activate(p)
  \/ Sweep(p) \/ RestorePolicy(p) \/ DiscardVersion(p) \/ PutBack(p)

Resolve(p) == ReadActive(p) \/ ReadVerifiedReceipt(p) \/ CheckExecutable(p)

Launch(p) == Resolve(p) \/ Execute(p)

Next ==
  /\ \E p \in Procs :
       \/ StartInstall(p) \/ StartUpdate(p) \/ UpdateOne(p) \/ Install(p)
       \/ StartRemove(p) \/ Remove(p) \/ Launch(p) \/ End(p)
       \/ Crash(p) \/ CrashRemoving(p)
  /\ UNCHANGED offered

Spec == Init /\ [][Next]_vars

------------------------------------------------------------------------------
(* What the store promises. *)

(* Every variable keeps the shape the on-disk documents and activate's locals
   have. *)
TypeOK ==
  /\ offered \in Catalogs
  /\ here \in BOOLEAN /\ staged \in SUBSET Procs
  /\ dirs \in [Versions -> Contents \cup {None}]
  /\ aside \in [Versions -> Contents \cup {None}]
  /\ policy \in Policies /\ active \in Pointers \cup {None}
  /\ job \in [Procs -> Jobs]
  /\ activated \in SUBSET (Versions \X Builds)
  /\ spoilt \in SUBSET (Versions \cup {"policy"})

(* What Resolve accepts: the pointer's receipt and, beside it, the executable
   that receipt records. *)
Whole(d, b) == d = [exe |-> b, receipt |-> b]
Resolvable == active # None /\ Whole(dirs[active.version], active.receipt)

Busy(v) == \E p \in Procs : InstallsVersion(p, v)

(* The version the pointer names can be launched, whatever other versions are
   being installed or removed around it: only an install of that very version,
   while it runs or once cut short, can leave a pointer to less than the whole.
   activate writes the pointer after everything it points to. *)
ActivatedIsLaunchable ==
  (active # None /\ ~Busy(active.version) /\ active.version \notin spoilt)
    => Resolvable

(* Resolve lets through only an executable some install has activated, however
   the directory was rewritten between its three reads: never one that was
   placed and not yet, or never, pointed at. And what then runs, which nothing
   checks again, is activated too, unless an install of that version had placed
   its files and not yet pointed at them when the process was started, or one
   that shared the version or was cut short had been the last to touch it. *)
LaunchesOnlyActivated ==
  \A p \in Procs :
    (At(p, "resolved") \/ (At(p, "launched") /\ ~job[p].shared))
      => <<job[p].version, job[p].build>> \in activated

(* An install whose version no other invocation installs at the same time, and
   under which none removes the namespace, fails only when the filesystem
   refuses it something: no state an earlier failure or crash left behind,
   stale staging or displaced directories, torn receipts, half-removed
   namespaces, is in its way, nor are the installs of other versions. *)
RefusedOnlyByFault ==
  \A p \in Procs :
    (job[p].at \in {"restore", "failed"} /\ job[p].version \in Versions /\ ~job[p].shared)
      => job[p].faults # {}

(* The faults after which activate's cleanup still has all it needs: the
   directory was inspected, the policy read, what was displaced is whole, and
   no step of the cleanup was refused. *)
Recoverable(p) ==
  job[p].faults \cap ({"stat", "stage", "snapshot", "clear", "remove"} \cup Cleaning) = {}

(* "A refused install is indistinguishable from one that never ran", of an
   install alone in the store: policy and pointer are as it found them, a
   namespace it created is gone, and the version directory is as it found it
   if that version was not there or had been moved aside before the failure.
   (One that was there and not yet moved aside goes: PreviousVersionStaysUsable.) *)
FailedInstallChangesNothing ==
  \A p \in Procs :
    LET was == job[p].before
        v == job[p].version
    IN (At(p, "failed") /\ was # None /\ Recoverable(p)) =>
         /\ policy = was.policy /\ active = was.active
         /\ (was.dir = None \/ job[p].moved) => dirs[v] = was.dir
         /\ job[p].fresh => ~here

(* A pin holds: with no install running, a policy that pins a version pins the
   one the pointer names, unless an install was killed between writing the two,
   or before it had put back the policy of one that failed, or was refused that. *)
PinIsActive ==
  (policy \in Versions /\ "policy" \notin spoilt
     /\ \A p \in Procs : job[p].at \notin Working \cup Cleaning)
    => (active # None /\ active.version = policy)

(* docs/architecture.md: "A failed install or update never changes the active
   version"; docs/reference/module-catalog.md: "An update that fails partway
   leaves the previous version active and usable". A reinstall of the active
   version that fails before that version was moved aside removes it. *)
PreviousVersionStaysUsable ==
  \A p \in Procs :
    LET was == job[p].before
        v == job[p].version
    IN (/\ At(p, "failed") /\ was # None /\ Recoverable(p)
        /\ was.active # None /\ was.active.version = v /\ Whole(was.dir, was.active.receipt))
         => active = was.active /\ Resolvable

=============================================================================
