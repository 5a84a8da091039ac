------------------------- MODULE ModuleStoreProofs -------------------------
(***************************************************************************)
(* Proofs about the module store, for every catalog, every number of       *)
(* concurrent invocations and every bound on faults.                       *)
(***************************************************************************)
EXTENDS ModuleStore, TLAPS

(* What an invocation's record holds by the time it is at each place: the
   version from the start, the build to place, and a receipt once there is one
   to write or to verify. *)
Carry(j) ==
  /\ j.at \in Working \cup Cleaning \cup {"verify", "check", "resolved"} => j.version \in Versions
  /\ j.at \in Working => j.build \in Builds
  /\ j.at \in {"receipt", "policy", "activate", "verify", "check", "resolved"} =>
       j.receipt \in Builds

Typed == TypeOK /\ \A p \in Procs : Carry(job[p])

(* The pointer, and what a launch has read of it so far, name pairs some
   install has activated. *)
PointerActivated ==
  active # None => <<active.version, active.receipt>> \in activated

ReadersHoldActivated ==
  \A p \in Procs :
    job[p].at \in {"verify", "check", "resolved"} =>
      <<job[p].version, job[p].receipt>> \in activated

Activated == PointerActivated /\ ReadersHoldActivated /\ LaunchesOnlyActivated

------------------------------------------------------------------------------
(* Facts about the records and the directories. *)

Places == Working \cup Cleaning \cup Ending
            \cup {"idle", "status", "remove", "verify", "check", "resolved"}

LEMMA NoJobType == NoJob \in Jobs /\ NoJob.at = "idle"
  BY DEF NoJob, Jobs, Policies

(* A step of one invocation that leaves a well-formed record. *)
LEMMA OneJob ==
  ASSUME Typed, NEW p \in Procs, NEW r \in Jobs, Carry(r), Becomes(p, r)
  PROVE  job' \in [Procs -> Jobs] /\ \A q \in Procs : Carry(job'[q])
  BY DEF Typed, TypeOK, Becomes

(* Moving on keeps the rest of the record. *)
LEMMA MoveType ==
  ASSUME NEW j \in Jobs, NEW place \in Places
  PROVE  /\ [j EXCEPT !.at = place] \in Jobs
         /\ [j EXCEPT !.at = place].at = place
         /\ [j EXCEPT !.at = place].version = j.version
         /\ [j EXCEPT !.at = place].build = j.build
         /\ [j EXCEPT !.at = place].receipt = j.receipt
  BY DEF Jobs, Places

Founds == [dir : Contents \cup {None}, policy : Policies,
           active : Pointers \cup {None}] \cup {None}

(* One field at a time, the others kept. *)
LEMMA SetVersion ==
  ASSUME NEW j \in Jobs, NEW x \in Versions
  PROVE  /\ [j EXCEPT !.version = x] \in Jobs
         /\ [j EXCEPT !.version = x].at = j.at
         /\ [j EXCEPT !.version = x].version = x
         /\ [j EXCEPT !.version = x].build = j.build
         /\ [j EXCEPT !.version = x].receipt = j.receipt
  BY DEF Jobs

LEMMA SetBuild ==
  ASSUME NEW j \in Jobs, NEW x \in Builds
  PROVE  /\ [j EXCEPT !.build = x] \in Jobs
         /\ [j EXCEPT !.build = x].at = j.at
         /\ [j EXCEPT !.build = x].version = j.version
         /\ [j EXCEPT !.build = x].build = x
         /\ [j EXCEPT !.build = x].receipt = j.receipt
  BY DEF Jobs

LEMMA SetPins ==
  ASSUME NEW j \in Jobs, NEW x \in BOOLEAN
  PROVE  /\ [j EXCEPT !.pins = x] \in Jobs
         /\ [j EXCEPT !.pins = x].at = j.at
         /\ [j EXCEPT !.pins = x].version = j.version
         /\ [j EXCEPT !.pins = x].build = j.build
         /\ [j EXCEPT !.pins = x].receipt = j.receipt
  BY DEF Jobs

LEMMA SetFresh ==
  ASSUME NEW j \in Jobs, NEW x \in BOOLEAN
  PROVE  /\ [j EXCEPT !.fresh = x] \in Jobs
         /\ [j EXCEPT !.fresh = x].at = j.at
         /\ [j EXCEPT !.fresh = x].version = j.version
         /\ [j EXCEPT !.fresh = x].build = j.build
         /\ [j EXCEPT !.fresh = x].receipt = j.receipt
  BY DEF Jobs

LEMMA SetShared ==
  ASSUME NEW j \in Jobs, NEW x \in BOOLEAN
  PROVE  /\ [j EXCEPT !.shared = x] \in Jobs
         /\ [j EXCEPT !.shared = x].at = j.at
         /\ [j EXCEPT !.shared = x].version = j.version
         /\ [j EXCEPT !.shared = x].build = j.build
         /\ [j EXCEPT !.shared = x].receipt = j.receipt
  BY DEF Jobs

LEMMA SetFaults ==
  ASSUME NEW j \in Jobs, NEW x \in SUBSET (Working \cup Cleaning \cup {"remove"})
  PROVE  /\ [j EXCEPT !.faults = x] \in Jobs
         /\ [j EXCEPT !.faults = x].at = j.at
         /\ [j EXCEPT !.faults = x].version = j.version
         /\ [j EXCEPT !.faults = x].build = j.build
         /\ [j EXCEPT !.faults = x].receipt = j.receipt
  BY DEF Jobs

LEMMA SetBefore ==
  ASSUME NEW j \in Jobs, NEW x \in Founds
  PROVE  /\ [j EXCEPT !.before = x] \in Jobs
         /\ [j EXCEPT !.before = x].at = j.at
         /\ [j EXCEPT !.before = x].version = j.version
         /\ [j EXCEPT !.before = x].build = j.build
         /\ [j EXCEPT !.before = x].receipt = j.receipt
  BY DEF Jobs, Founds

LEMMA RefusedType ==
  ASSUME Typed, NEW p \in Procs, NEW place \in Places,
         job[p].at \in Working \cup Cleaning \cup {"remove"}
  PROVE  /\ Refused(p, place) \in Jobs
         /\ Refused(p, place).at = place
         /\ Refused(p, place).version = job[p].version
         /\ Refused(p, place).build = job[p].build
         /\ Refused(p, place).receipt = job[p].receipt
  <1> DEFINE k == [job[p] EXCEPT !.at = place]
             f == job[p].faults \cup {job[p].at}
  <1>1. job[p] \in Jobs
    BY DEF Typed, TypeOK
  <1>2. /\ k \in Jobs /\ k.at = place /\ k.version = job[p].version
        /\ k.build = job[p].build /\ k.receipt = job[p].receipt
    BY <1>1, MoveType
  <1>3. f \in SUBSET (Working \cup Cleaning \cup {"remove"})
    BY <1>1 DEF Jobs
  <1>4. Refused(p, place) = [k EXCEPT !.faults = f]
    BY <1>1 DEF Refused, Jobs
  <1> HIDE DEF k, f
  <1> QED
    BY <1>2, <1>3, <1>4 DEF Jobs

(* Sharing is history: nothing else of the record changes. *)
LEMMA SharedType ==
  ASSUME NEW j \in Jobs, Carry(j)
  PROVE  [j EXCEPT !.shared = TRUE] \in Jobs /\ Carry([j EXCEPT !.shared = TRUE])
  BY DEF Jobs, Carry

(* One directory of each kind may be replaced by contents or nothing. *)
LEMMA DirType ==
  ASSUME NEW d \in [Versions -> Contents \cup {None}], NEW v,
         NEW c \in Contents \cup {None}
  PROVE  [d EXCEPT ![v] = c] \in [Versions -> Contents \cup {None}]
  OBVIOUS

LEMMA RemainsType ==
  ASSUME NEW d \in Contents \cup {None}
  PROVE  Remains(d) \subseteq Contents \cup {None}
  BY DEF Remains, Husk, Contents

LEMMA NowhereType == Nowhere \in [Versions -> Contents \cup {None}]
  BY DEF Nowhere

(* Going on at a place that needs nothing the record does not already hold. *)
LEMMA GoTyped ==
  ASSUME Typed, NEW p \in Procs, NEW place \in Places, Go(p, place),
         place \in Working => job[p].at \in Working,
         place \in Cleaning => job[p].at \in Working \cup Cleaning,
         place \notin {"verify", "check", "resolved"},
         place \in {"receipt", "policy", "activate"} =>
           job[p].at \in {"receipt", "policy", "activate"}
  PROVE  job' \in [Procs -> Jobs] /\ \A q \in Procs : Carry(job'[q])
  <1> DEFINE r == [job[p] EXCEPT !.at = place]
  <1>1. job[p] \in Jobs /\ Carry(job[p])
    BY DEF Typed, TypeOK
  <1>2. /\ r \in Jobs /\ r.at = place /\ r.version = job[p].version
        /\ r.build = job[p].build /\ r.receipt = job[p].receipt
    BY <1>1, MoveType
  <1>3. Becomes(p, r)
    BY DEF Go
  <1> HIDE DEF r
  <1>4. Carry(r)
    BY <1>1, <1>2 DEF Carry
  <1> QED
    BY <1>2, <1>3, <1>4, OneJob

(* A refusal leads to the cleanup, or to an end. *)
LEMMA FaultedTyped ==
  ASSUME Typed, NEW p \in Procs, NEW place \in Cleaning \cup Ending,
         Faulted(p, place),
         job[p].at \in Working \cup Cleaning \cup {"remove"},
         place \in Cleaning => job[p].at \in Working \cup Cleaning
  PROVE  job' \in [Procs -> Jobs] /\ \A q \in Procs : Carry(job'[q])
  <1>1. Carry(job[p])
    BY DEF Typed
  <1>2. /\ Refused(p, place) \in Jobs
        /\ Refused(p, place).at = place
        /\ Refused(p, place).version = job[p].version
    BY RefusedType DEF Places
  <1>3. Carry(Refused(p, place))
    BY <1>1, <1>2 DEF Carry, Cleaning, Ending, Working
  <1> QED
    BY <1>2, <1>3, OneJob DEF Faulted

(* Ending, or being killed, forgets the record. *)
LEMMA ForgetTyped ==
  ASSUME Typed, NEW p \in Procs, Becomes(p, NoJob)
  PROVE  job' \in [Procs -> Jobs] /\ \A q \in Procs : Carry(job'[q])
  <1>1. Carry(NoJob)
    BY NoJobType DEF Carry, Working, Cleaning
  <1> QED
    BY <1>1, NoJobType, OneJob

(* The namespace going under other invocations. *)
LEMMA UprootTyped ==
  ASSUME Typed, NEW p \in Procs, NEW after \in Jobs, Carry(after),
         NEW lost \in SUBSET (Versions \cup {"policy"}), Uproot(p, after, lost)
  PROVE  /\ job' \in [Procs -> Jobs] /\ \A q \in Procs : Carry(job'[q])
         /\ spoilt' \in SUBSET (Versions \cup {"policy"})
  <1>1. \A q \in Procs : /\ job[q] \in Jobs /\ Carry(job[q])
                         /\ [job[q] EXCEPT !.shared = TRUE] \in Jobs
                         /\ Carry([job[q] EXCEPT !.shared = TRUE])
    BY SharedType DEF Typed, TypeOK
  <1>2. \A q \in Procs : job[q].at \in Working \cup Cleaning => job[q].version \in Versions
    BY <1>1 DEF Carry
  <1> QED
    BY <1>1, <1>2 DEF Uproot, Typed, TypeOK

------------------------------------------------------------------------------
(* Type correctness, one lemma per action that does more than move on. *)

LEMMA RequestTyped ==
  ASSUME Typed, NEW p \in Procs, NEW v \in Versions, NEW b \in Builds,
         NEW pins \in BOOLEAN, Request(p, v, b, pins)
  PROVE  /\ job' \in [Procs -> Jobs] /\ \A q \in Procs : Carry(job'[q])
         /\ spoilt' \in SUBSET (Versions \cup {"policy"})
  <1> DEFINE others == {q \in Procs \ {p} : InstallsVersion(q, v)}
             late == others # {}
             r1 == [NoJob EXCEPT !.at = "stat"]
             r2 == [r1 EXCEPT !.version = v]
             r3 == [r2 EXCEPT !.build = b]
             r4 == [r3 EXCEPT !.pins = pins]
             r == [r4 EXCEPT !.shared = late]
  <1>1. /\ job' = [q \in Procs |->
              IF q = p THEN r
              ELSE IF q \in others THEN [job[q] EXCEPT !.shared = TRUE]
              ELSE job[q]]
        /\ spoilt' = IF late THEN spoilt \cup {v} ELSE spoilt
    BY DEF Request
  <1>2. late \in BOOLEAN
    OBVIOUS
  <1>3. r1 \in Jobs /\ r1.at = "stat"
    BY NoJobType, MoveType DEF Places, Working
  <1> HIDE DEF others, late, r1
  <1>4. r2 \in Jobs /\ r2.at = "stat" /\ r2.version = v
    BY <1>3, SetVersion
  <1> HIDE DEF r2
  <1>5. r3 \in Jobs /\ r3.at = "stat" /\ r3.version = v /\ r3.build = b
    BY <1>4, SetBuild
  <1> HIDE DEF r3
  <1>6. r4 \in Jobs /\ r4.at = "stat" /\ r4.version = v /\ r4.build = b
    BY <1>5, SetPins
  <1> HIDE DEF r4
  <1>7. r \in Jobs /\ r.at = "stat" /\ r.version = v /\ r.build = b
    BY <1>2, <1>6, SetShared
  <1> HIDE DEF r
  <1>8. r \in Jobs /\ Carry(r)
    BY <1>7 DEF Carry, Working
  <1>9. \A q \in Procs : /\ job[q] \in Jobs /\ Carry(job[q])
                         /\ [job[q] EXCEPT !.shared = TRUE] \in Jobs
                         /\ Carry([job[q] EXCEPT !.shared = TRUE])
    BY SharedType DEF Typed, TypeOK
  <1>10. spoilt' \in SUBSET (Versions \cup {"policy"})
    BY <1>1 DEF Typed, TypeOK
  <1> QED
    BY <1>1, <1>8, <1>9, <1>10

LEMMA StatTyped ==
  ASSUME Typed, NEW p \in Procs, StatNamespace(p)
  PROVE  job' \in [Procs -> Jobs] /\ \A q \in Procs : Carry(job'[q])
  <1>1. PICK fresh \in BOOLEAN, faults \in {{}, {"stat"}} :
          Becomes(p, [job[p] EXCEPT !.at = "stage", !.fresh = fresh,
                        !.faults = faults, !.before = Found(job[p].version)])
    BY DEF StatNamespace, Typed, TypeOK
  <1> DEFINE found == Found(job[p].version)
             r1 == [job[p] EXCEPT !.at = "stage"]
             r2 == [r1 EXCEPT !.fresh = fresh]
             r3 == [r2 EXCEPT !.faults = faults]
             r == [r3 EXCEPT !.before = found]
  <1>2. job[p] \in Jobs /\ Carry(job[p]) /\ job[p].at = "stat"
    BY DEF Typed, TypeOK, StatNamespace, At
  <1>3. job[p].version \in Versions /\ job[p].build \in Builds
    BY <1>2 DEF Carry, Working
  <1>4. found \in Founds
    BY <1>3 DEF Found, Founds, Typed, TypeOK
  <1>5. faults \in SUBSET (Working \cup Cleaning \cup {"remove"})
    BY DEF Working
  <1>6. Becomes(p, r)
    BY <1>1
  <1>7. /\ r1 \in Jobs /\ r1.at = "stage" /\ r1.version = job[p].version
        /\ r1.build = job[p].build
    BY <1>2, MoveType DEF Places, Working
  <1> HIDE DEF found, r1
  <1>8. /\ r2 \in Jobs /\ r2.at = "stage" /\ r2.version = job[p].version
        /\ r2.build = job[p].build
    BY <1>7, SetFresh
  <1> HIDE DEF r2
  <1>9. /\ r3 \in Jobs /\ r3.at = "stage" /\ r3.version = job[p].version
        /\ r3.build = job[p].build
    BY <1>5, <1>8, SetFaults
  <1> HIDE DEF r3
  <1>10. /\ r \in Jobs /\ r.at = "stage" /\ r.version = job[p].version
         /\ r.build = job[p].build
    BY <1>4, <1>9, SetBefore
  <1> HIDE DEF r
  <1>11. Carry(r)
    BY <1>3, <1>10 DEF Carry
  <1> QED
    BY <1>6, <1>10, <1>11, OneJob

LEMMA SnapshotTyped ==
  ASSUME Typed, NEW p \in Procs, SnapshotPolicy(p)
  PROVE  job' \in [Procs -> Jobs] /\ \A q \in Procs : Carry(job'[q])
  <1>1. /\ job[p] \in Jobs /\ Carry(job[p]) /\ job[p].at = "snapshot"
        /\ policy \in Policies
    BY DEF Typed, TypeOK, SnapshotPolicy, At
  <1>2. CASE Becomes(p, [job[p] EXCEPT !.at = "extract", !.saved = policy])
    <2> DEFINE r == [job[p] EXCEPT !.at = "extract", !.saved = policy]
    <2>1. r \in Jobs
      BY <1>1 DEF Jobs, Working
    <2>2. Carry(r)
      BY <1>1 DEF Carry, Jobs, Working
    <2> QED
      BY <1>2, <2>1, <2>2, OneJob
  <1>3. CASE Becomes(p, [Refused(p, "extract") EXCEPT !.saved = Unread])
    <2> DEFINE k == Refused(p, "extract")
               r == [k EXCEPT !.saved = Unread]
    <2>1. /\ k \in Jobs /\ k.at = "extract" /\ k.version = job[p].version
          /\ k.build = job[p].build
      BY <1>1, RefusedType DEF Working, Places
    <2> HIDE DEF k
    <2>2. r \in Jobs
      BY <2>1 DEF Jobs
    <2>3. Carry(r)
      BY <1>1, <2>1 DEF Carry, Jobs, Working
    <2> QED
      BY <1>3, <2>2, <2>3, OneJob DEF k
  <1> QED
    BY <1>2, <1>3 DEF SnapshotPolicy

(* The two steps that decide whether something was moved aside. *)
LEMMA MovedTyped ==
  ASSUME Typed, NEW p \in Procs, job[p].at \in {"clear", "aside"},
         NEW m \in BOOLEAN, NEW place \in {"aside", "restore"},
         \/ Becomes(p, [job[p] EXCEPT !.at = place, !.moved = m])
         \/ place = "restore" /\ Becomes(p, [Refused(p, place) EXCEPT !.moved = m])
  PROVE  job' \in [Procs -> Jobs] /\ \A q \in Procs : Carry(job'[q])
  <1>1. job[p] \in Jobs /\ Carry(job[p])
    BY DEF Typed, TypeOK
  <1>2. CASE Becomes(p, [job[p] EXCEPT !.at = place, !.moved = m])
    <2> DEFINE r == [job[p] EXCEPT !.at = place, !.moved = m]
    <2>1. r \in Jobs
      BY <1>1 DEF Jobs, Working, Cleaning
    <2>2. Carry(r)
      BY <1>1 DEF Carry, Jobs, Working, Cleaning
    <2> QED
      BY <1>2, <2>1, <2>2, OneJob
  <1>3. CASE place = "restore" /\ Becomes(p, [Refused(p, place) EXCEPT !.moved = m])
    <2> DEFINE k == Refused(p, "restore")
               r == [k EXCEPT !.moved = m]
    <2>1. k \in Jobs /\ k.at = "restore" /\ k.version = job[p].version
      BY <1>1, RefusedType DEF Working, Cleaning, Places
    <2> HIDE DEF k
    <2>2. r \in Jobs
      BY <2>1 DEF Jobs
    <2>3. Carry(r)
      BY <1>1, <2>1 DEF Carry, Jobs, Working, Cleaning
    <2> QED
      BY <1>3, <2>2, <2>3, OneJob DEF k
  <1> QED
    BY <1>2, <1>3

LEMMA DigestTyped ==
  ASSUME Typed, NEW p \in Procs, job[p].at = "digest", NEW x \in Builds,
         Becomes(p, [job[p] EXCEPT !.at = "receipt", !.receipt = x])
  PROVE  job' \in [Procs -> Jobs] /\ \A q \in Procs : Carry(job'[q])
  <1> DEFINE r == [job[p] EXCEPT !.at = "receipt", !.receipt = x]
  <1>1. job[p] \in Jobs /\ Carry(job[p])
    BY DEF Typed, TypeOK
  <1>2. r \in Jobs
    BY <1>1 DEF Jobs, Working
  <1>3. Carry(r)
    BY <1>1 DEF Carry, Jobs, Working
  <1> QED
    BY <1>2, <1>3, OneJob

LEMMA LaunchTyped ==
  ASSUME Typed, NEW p \in Procs, Launch(p)
  PROVE  job' \in [Procs -> Jobs] /\ \A q \in Procs : Carry(job'[q])
  <1>1. job[p] \in Jobs /\ Carry(job[p])
    BY DEF Typed, TypeOK
  <1>2. CASE ReadActive(p)
    <2> DEFINE r == [job[p] EXCEPT !.at = "verify", !.version = active.version,
                                   !.receipt = active.receipt]
    <2>1. active.version \in Versions /\ active.receipt \in Builds
      BY <1>2 DEF ReadActive, Typed, TypeOK, Pointers
    <2>2. r \in Jobs
      BY <1>1, <2>1 DEF Jobs
    <2>3. Carry(r)
      BY <1>1, <2>1 DEF Carry, Jobs, Working, Cleaning
    <2> QED
      BY <1>2, <2>2, <2>3, OneJob DEF ReadActive
  <1>3. CASE ReadVerifiedReceipt(p) /\ ~Go(p, "refused")
    <2> DEFINE r == [job[p] EXCEPT !.at = "check", !.receipt = job[p].receipt]
    <2>1. /\ job[p].version \in Versions /\ job[p].receipt \in Builds
          /\ dirs[job[p].version].receipt = job[p].receipt
      BY <1>1, <1>3 DEF ReadVerifiedReceipt, ReceiptMatches, At, Carry
    <2>2. r \in Jobs
      BY <1>1, <2>1 DEF Jobs
    <2>3. Carry(r)
      BY <1>1, <2>1 DEF Carry, Jobs, Working, Cleaning
    <2> QED
      BY <1>3, <2>1, <2>2, <2>3, OneJob DEF ReadVerifiedReceipt
  <1>4. CASE CheckExecutable(p) /\ ~Go(p, "refused")
    <2> DEFINE r == [job[p] EXCEPT !.at = "resolved", !.build = job[p].receipt]
    <2>1. /\ job[p].receipt \in Builds
          /\ dirs[job[p].version].exe = job[p].receipt
      BY <1>1, <1>4 DEF CheckExecutable, ExecutableMatches, At, Carry
    <2>2. r \in Jobs
      BY <1>1, <2>1 DEF Jobs
    <2>3. Carry(r)
      BY <1>1, <1>4, <2>1 DEF CheckExecutable, At, Carry, Jobs, Working, Cleaning
    <2> QED
      BY <1>4, <2>1, <2>2, <2>3, OneJob DEF CheckExecutable
  <1>5. CASE Execute(p) /\ ~Go(p, "refused")
    <2> DEFINE d == dirs[job[p].version]
               u == Unsettled(job[p].version)
               r == [job[p] EXCEPT !.at = "launched", !.build = d.exe, !.shared = u]
    <2>1. Becomes(p, r) /\ d # None /\ d.exe # None
      BY <1>5 DEF Execute
    <2>2. job[p].version \in Versions
      BY <1>1, <1>5 DEF Execute, At, Carry
    <2>3. d.exe \in Builds
      BY <2>1, <2>2 DEF Typed, TypeOK, Contents
    <2>4. u \in BOOLEAN
      BY DEF Unsettled
    <2> HIDE DEF d, u
    <2>5. r \in Jobs
      BY <1>1, <2>3, <2>4 DEF Jobs, Ending
    <2>6. Carry(r)
      BY <1>1 DEF Carry, Jobs, Working, Cleaning
    <2> QED
      BY <2>1, <2>5, <2>6, OneJob
  <1>6. CASE Go(p, "refused")
    BY <1>6, GoTyped DEF Places, Working, Cleaning, Ending
  <1> QED
    BY <1>2, <1>3, <1>4, <1>5, <1>6 DEF Launch, Resolve

LEMMA TypedInit == Init => Typed
  BY NoJobType, NowhereType DEF Init, Typed, TypeOK, Carry, Policies, Working, Cleaning

LEMMA TypedStep == Typed /\ [Next]_vars => Typed'
<1> SUFFICES ASSUME Typed, [Next]_vars PROVE Typed'
  OBVIOUS
<1>1. offered' \in Catalogs
  BY DEF Next, vars, Typed, TypeOK
<1> USE StoreAssumption, <1>1
<1>2. \A p \in Procs : job[p] \in Jobs /\ Carry(job[p])
  BY DEF Typed, TypeOK
<1>3. CASE UNCHANGED vars
  BY <1>3 DEF Typed, TypeOK, vars, disk
<1>4. ASSUME NEW p \in Procs, StartInstall(p) PROVE Typed'
  <2>1. PICK o \in offered, op \in Ops \cap {"install", "pin"} :
          Request(p, o[1], o[2], op = "pin")
    BY <1>4 DEF StartInstall
  <2>2. o[1] \in Versions /\ o[2] \in Builds /\ (op = "pin") \in BOOLEAN
    BY DEF Versions, Builds, Published, Typed, TypeOK
  <2> QED
    BY <1>4, <2>1, <2>2, RequestTyped DEF StartInstall, Typed, TypeOK, disk
<1>5. ASSUME NEW p \in Procs, StartUpdate(p) PROVE Typed'
  <2>1. PICK place \in {"done", "status"} : Go(p, place)
    BY <1>5 DEF StartUpdate
  <2>2. job' \in [Procs -> Jobs] /\ \A q \in Procs : Carry(job'[q])
    BY <2>1, GoTyped DEF Places, Working, Cleaning, Ending
  <2> QED
    BY <1>5, <2>2 DEF StartUpdate, Typed, TypeOK, disk
<1>6. ASSUME NEW p \in Procs, UpdateOne(p) PROVE Typed'
  <2>1. CASE Go(p, "done") /\ UNCHANGED spoilt
    <3>1. job' \in [Procs -> Jobs] /\ \A q \in Procs : Carry(job'[q])
      BY <2>1, GoTyped DEF Places, Working, Cleaning, Ending
    <3> QED
      BY <1>6, <2>1, <3>1 DEF UpdateOne, Typed, TypeOK, disk
  <2>2. ASSUME NEW o \in offered, Request(p, o[1], o[2], FALSE) PROVE Typed'
    <3>1. o[1] \in Versions /\ o[2] \in Builds
      BY DEF Versions, Builds, Published, Typed, TypeOK
    <3> QED
      BY <1>6, <2>2, <3>1, RequestTyped DEF UpdateOne, Typed, TypeOK, disk
  <2> QED
    BY <1>6, <2>1, <2>2 DEF UpdateOne
<1>7. ASSUME NEW p \in Procs, StatNamespace(p) PROVE Typed'
  BY <1>7, StatTyped DEF StatNamespace, Typed, TypeOK, disk
<1>8. ASSUME NEW p \in Procs, MakeStaging(p) PROVE Typed'
  <2>1. job' \in [Procs -> Jobs] /\ \A q \in Procs : Carry(job'[q])
    BY <1>8, GoTyped, FaultedTyped DEF MakeStaging, At, Places, Working, Cleaning, Ending
  <2> QED
    BY <1>8, <2>1 DEF MakeStaging, Typed, TypeOK
<1>9. ASSUME NEW p \in Procs, SnapshotPolicy(p) PROVE Typed'
  BY <1>9, SnapshotTyped DEF SnapshotPolicy, Typed, TypeOK, disk
<1>10. ASSUME NEW p \in Procs, Extract(p) PROVE Typed'
  <2>1. job' \in [Procs -> Jobs] /\ \A q \in Procs : Carry(job'[q])
    BY <1>10, GoTyped, FaultedTyped DEF Extract, At, Places, Working, Cleaning, Ending
  <2> QED
    BY <1>10, <2>1 DEF Extract, Typed, TypeOK, disk
<1>11. ASSUME NEW p \in Procs, ClearDisplaced(p) PROVE Typed'
  <2>1. job[p].at = "clear" /\ job[p].version \in Versions
    BY <1>11, <1>2 DEF ClearDisplaced, At, Carry, Working
  <2>2. job' \in [Procs -> Jobs] /\ \A q \in Procs : Carry(job'[q])
    <3>1. CASE Go(p, "place")
      BY <2>1, <3>1, GoTyped DEF Places, Working, Cleaning
    <3>2. CASE ~Go(p, "place")
      BY <1>11, <2>1, <3>2, MovedTyped DEF ClearDisplaced
    <3> QED
      BY <3>1, <3>2
  <2>3. aside' \in [Versions -> Contents \cup {None}]
    BY <1>11, <2>1, RemainsType DEF ClearDisplaced, Typed, TypeOK
  <2> QED
    BY <1>11, <2>2, <2>3 DEF ClearDisplaced, Typed, TypeOK
<1>12. ASSUME NEW p \in Procs, SetAside(p) PROVE Typed'
  <2>1. job[p].at = "aside" /\ job[p].version \in Versions
    BY <1>12, <1>2 DEF SetAside, At, Carry, Working
  <2>2. job' \in [Procs -> Jobs] /\ \A q \in Procs : Carry(job'[q])
    <3>1. CASE Go(p, "place")
      BY <2>1, <3>1, GoTyped DEF Places, Working, Cleaning
    <3>2. CASE ~Go(p, "place")
      BY <1>12, <2>1, <3>2, MovedTyped DEF SetAside
    <3> QED
      BY <3>1, <3>2
  <2>3. /\ aside' \in [Versions -> Contents \cup {None}]
        /\ dirs' \in [Versions -> Contents \cup {None}]
    BY <1>12, <2>1 DEF SetAside, Typed, TypeOK
  <2> QED
    BY <1>12, <2>2, <2>3 DEF SetAside, Typed, TypeOK
<1>13. ASSUME NEW p \in Procs, Place(p) PROVE Typed'
  <2>1. job[p].at = "place" /\ job[p].version \in Versions /\ job[p].build \in Builds
    BY <1>13, <1>2 DEF Place, At, Carry, Working
  <2>2. job' \in [Procs -> Jobs] /\ \A q \in Procs : Carry(job'[q])
    BY <1>13, <2>1, GoTyped, FaultedTyped DEF Place, Places, Working, Cleaning, Ending
  <2>3. [exe |-> job[p].build, receipt |-> None] \in Contents
    BY <2>1 DEF Contents
  <2>4. /\ dirs' \in [Versions -> Contents \cup {None}]
        /\ staged' \in SUBSET Procs
    BY <1>13, <2>1, <2>3 DEF Place, Typed, TypeOK
  <2> QED
    BY <1>13, <2>2, <2>4 DEF Place, Typed, TypeOK
<1>14. ASSUME NEW p \in Procs, DigestExecutable(p) PROVE Typed'
  <2>1. job[p].at = "digest" /\ job[p].version \in Versions
    BY <1>14, <1>2 DEF DigestExecutable, At, Carry, Working
  <2>2. CASE Go(p, "restore") \/ Faulted(p, "restore")
    <3>1. job' \in [Procs -> Jobs] /\ \A q \in Procs : Carry(job'[q])
      BY <2>1, <2>2, GoTyped, FaultedTyped DEF Places, Working, Cleaning, Ending
    <3> QED
      BY <1>14, <3>1 DEF DigestExecutable, Typed, TypeOK, disk
  <2>3. CASE ~(Go(p, "restore") \/ Faulted(p, "restore"))
    <3> DEFINE x == dirs[job[p].version].exe
    <3>1. x \in Builds /\ Becomes(p, [job[p] EXCEPT !.at = "receipt", !.receipt = x])
      BY <1>14, <2>1, <2>3 DEF DigestExecutable, Typed, TypeOK, Contents
    <3> HIDE DEF x
    <3>2. job' \in [Procs -> Jobs] /\ \A q \in Procs : Carry(job'[q])
      BY <2>1, <3>1, DigestTyped
    <3> QED
      BY <1>14, <3>2 DEF DigestExecutable, Typed, TypeOK, disk
  <2> QED
    BY <2>2, <2>3
<1>15. ASSUME NEW p \in Procs, WriteReceipt(p) PROVE Typed'
  <2>1. /\ job[p].at = "receipt" /\ job[p].version \in Versions
        /\ job[p].receipt \in Builds
    BY <1>15, <1>2 DEF WriteReceipt, At, Carry, Working
  <2>2. job' \in [Procs -> Jobs] /\ \A q \in Procs : Carry(job'[q])
    BY <1>15, <2>1, GoTyped, FaultedTyped DEF WriteReceipt, Places, Working, Cleaning, Ending
  <2>3. dirs' \in [Versions -> Contents \cup {None}]
    BY <1>15, <2>1 DEF WriteReceipt, Typed, TypeOK, Contents
  <2> QED
    BY <1>15, <2>2, <2>3 DEF WriteReceipt, Typed, TypeOK
<1>16. ASSUME NEW p \in Procs, RecordPolicy(p) PROVE Typed'
  <2>1. job[p].at = "policy" /\ job[p].version \in Versions
    BY <1>16, <1>2 DEF RecordPolicy, At, Carry, Working
  <2>2. job' \in [Procs -> Jobs] /\ \A q \in Procs : Carry(job'[q])
    BY <1>16, <2>1, GoTyped, FaultedTyped DEF RecordPolicy, Places, Working, Cleaning, Ending
  <2> QED
    BY <1>16, <2>1, <2>2 DEF RecordPolicy, Typed, TypeOK, Policies
<1>17. ASSUME NEW p \in Procs, Activate(p) PROVE Typed'
  <2>1. /\ job[p].at = "activate" /\ job[p].version \in Versions
        /\ job[p].receipt \in Builds
    BY <1>17, <1>2 DEF Activate, At, Carry, Working
  <2>2. job' \in [Procs -> Jobs] /\ \A q \in Procs : Carry(job'[q])
    BY <1>17, <2>1, GoTyped, FaultedTyped DEF Activate, Places, Working, Cleaning, Ending
  <2>3. /\ active' \in Pointers \cup {None}
        /\ activated' \in SUBSET (Versions \X Builds)
        /\ spoilt' \in SUBSET (Versions \cup {"policy"})
    BY <1>17, <2>1 DEF Activate, Typed, TypeOK, Pointers
  <2> QED
    BY <1>17, <2>2, <2>3 DEF Activate, Typed, TypeOK
<1>18. ASSUME NEW p \in Procs, Sweep(p) PROVE Typed'
  <2>1. job[p].at = "sweep" /\ job[p].version \in Versions
    BY <1>18, <1>2 DEF Sweep, At, Carry, Cleaning
  <2>2. job' \in [Procs -> Jobs] /\ \A q \in Procs : Carry(job'[q])
    BY <1>18, <2>1, GoTyped, FaultedTyped DEF Sweep, Places, Working, Cleaning, Ending
  <2>3. aside' \in [Versions -> Contents \cup {None}]
    BY <1>18, <2>1, RemainsType DEF Sweep, Typed, TypeOK
  <2> QED
    BY <1>18, <2>2, <2>3 DEF Sweep, Typed, TypeOK
<1>19. ASSUME NEW p \in Procs, RestorePolicy(p) PROVE Typed'
  <2>1. job[p].at = "restore" /\ job[p].saved \in Policies \cup {Unread}
    BY <1>19, <1>2 DEF RestorePolicy, At, Jobs
  <2>2. job' \in [Procs -> Jobs] /\ \A q \in Procs : Carry(job'[q])
    BY <1>19, <2>1, GoTyped, FaultedTyped DEF RestorePolicy, Places, Working, Cleaning, Ending
  <2> QED
    BY <1>19, <2>1, <2>2 DEF RestorePolicy, Typed, TypeOK
<1>20. ASSUME NEW p \in Procs, DiscardVersion(p) PROVE Typed'
  <2>1. job[p].at = "discard" /\ job[p].version \in Versions
    BY <1>20, <1>2 DEF DiscardVersion, At, Carry, Cleaning
  <2>2. job' \in [Procs -> Jobs] /\ \A q \in Procs : Carry(job'[q])
    BY <1>20, <2>1, GoTyped, FaultedTyped DEF DiscardVersion, Places, Working, Cleaning, Ending
  <2>3. dirs' \in [Versions -> Contents \cup {None}]
    BY <1>20, <2>1, RemainsType DEF DiscardVersion, Typed, TypeOK
  <2> QED
    BY <1>20, <2>1, <2>2, <2>3 DEF DiscardVersion, Typed, TypeOK
<1>21. ASSUME NEW p \in Procs, PutBack(p) PROVE Typed'
  <2>1. job[p].at = "putback" /\ job[p].version \in Versions
    BY <1>21, <1>2 DEF PutBack, At, Carry, Cleaning
  <2>2. CASE Go(p, "failed") \/ Faulted(p, "failed")
    <3>1. job' \in [Procs -> Jobs] /\ \A q \in Procs : Carry(job'[q])
      BY <2>1, <2>2, GoTyped, FaultedTyped DEF Places, Working, Cleaning, Ending
    <3>2. CASE spoilt' = spoilt /\ UNCHANGED disk
      BY <1>21, <3>1, <3>2 DEF PutBack, Typed, TypeOK, disk
    <3>3. CASE /\ job[p].moved /\ UNCHANGED <<here, staged, policy, active, spoilt>>
               /\ aside[job[p].version] # None
               /\ dirs' = [dirs EXCEPT ![job[p].version] = aside[job[p].version]]
               /\ aside' = [aside EXCEPT ![job[p].version] = None]
      BY <1>21, <2>1, <3>1, <3>3 DEF PutBack, Typed, TypeOK
    <3>4. CASE RemoveNamespace(p, [job[p] EXCEPT !.at = "failed"])
                 \/ RemoveSomeOfNamespace(p, Refused(p, "failed"))
      <4>1. spoilt' \in SUBSET (Versions \cup {"policy"})
        <5>1. \A q \in Procs : job[q].at \in Working \cup Cleaning => job[q].version \in Versions
          BY <1>2 DEF Carry
        <5> QED
          BY <3>4, <5>1 DEF RemoveNamespace, RemoveSomeOfNamespace, Uproot, Typed, TypeOK
      <4> QED
        BY <1>21, <3>1, <3>4, <4>1, NowhereType
        DEF PutBack, RemoveNamespace, RemoveSomeOfNamespace, Typed, TypeOK, Policies
    <3> QED
      BY <1>21, <3>2, <3>3, <3>4 DEF PutBack, disk
  <2>3. CASE RemoveNamespace(p, [job[p] EXCEPT !.at = "failed"])
               \/ RemoveSomeOfNamespace(p, Refused(p, "failed"))
    <3> DEFINE r == [job[p] EXCEPT !.at = "failed"]
               f == Refused(p, "failed")
    <3>1. r \in Jobs /\ r.at = "failed" /\ f \in Jobs /\ f.at = "failed"
      BY <1>2, <2>1, MoveType, RefusedType DEF Places, Ending, Cleaning
    <3>2. \/ RemoveNamespace(p, r)
          \/ RemoveSomeOfNamespace(p, f)
      BY <2>3
    <3>3. activated' = activated
      BY <1>21 DEF PutBack
    <3> HIDE DEF r, f
    <3>4. Carry(r) /\ Carry(f)
      BY <3>1 DEF Carry, Working, Cleaning
    <3>5. /\ job' \in [Procs -> Jobs] /\ \A q \in Procs : Carry(job'[q])
          /\ spoilt' \in SUBSET (Versions \cup {"policy"})
      BY <3>1, <3>2, <3>4, UprootTyped DEF RemoveNamespace, RemoveSomeOfNamespace
    <3> QED
      BY <3>2, <3>3, <3>5, NowhereType
      DEF RemoveNamespace, RemoveSomeOfNamespace, Typed, TypeOK, Policies
  <2> QED
    BY <1>21, <2>2, <2>3 DEF PutBack
<1>22. ASSUME NEW p \in Procs, StartRemove(p) PROVE Typed'
  <2>1. job' \in [Procs -> Jobs] /\ \A q \in Procs : Carry(job'[q])
    BY <1>22, GoTyped DEF StartRemove, Places, Working, Cleaning
  <2> QED
    BY <1>22, <2>1 DEF StartRemove, Typed, TypeOK, disk
<1>23. ASSUME NEW p \in Procs, Remove(p) PROVE Typed'
  <2> DEFINE r == [job[p] EXCEPT !.at = "done"]
             f == Refused(p, "failed")
  <2>1. /\ job[p].at = "remove" /\ activated' = activated
        /\ \/ RemoveNamespace(p, r)
           \/ Go(p, "failed") /\ UNCHANGED <<disk, spoilt>>
           \/ RemoveSomeOfNamespace(p, f)
    BY <1>23 DEF Remove, At
  <2>2. r \in Jobs /\ r.at = "done" /\ f \in Jobs /\ f.at = "failed"
    BY <1>2, <2>1, MoveType, RefusedType DEF Places, Ending, Cleaning
  <2> HIDE DEF r, f
  <2>3. Carry(r) /\ Carry(f)
    BY <2>2 DEF Carry, Working, Cleaning
  <2>4. CASE Go(p, "failed") /\ UNCHANGED <<disk, spoilt>>
    <3>1. job' \in [Procs -> Jobs] /\ \A q \in Procs : Carry(job'[q])
      BY <2>4, GoTyped DEF Places, Working, Cleaning, Ending
    <3> QED
      BY <2>1, <2>4, <3>1 DEF Typed, TypeOK, disk
  <2>5. CASE RemoveNamespace(p, r) \/ RemoveSomeOfNamespace(p, f)
    <3>1. /\ job' \in [Procs -> Jobs] /\ \A q \in Procs : Carry(job'[q])
          /\ spoilt' \in SUBSET (Versions \cup {"policy"})
      BY <2>2, <2>3, <2>5, UprootTyped DEF RemoveNamespace, RemoveSomeOfNamespace
    <3> QED
      BY <2>1, <2>5, <3>1, NowhereType
      DEF RemoveNamespace, RemoveSomeOfNamespace, Typed, TypeOK, Policies
  <2> QED
    BY <2>1, <2>4, <2>5
<1>24. ASSUME NEW p \in Procs, Launch(p) PROVE Typed'
  BY <1>24, LaunchTyped
  DEF Launch, Execute, Resolve, ReadActive, ReadVerifiedReceipt, CheckExecutable, Typed, TypeOK, disk
<1>25. ASSUME NEW p \in Procs, End(p) PROVE Typed'
  BY <1>25, ForgetTyped DEF End, Typed, TypeOK, disk
<1>26. ASSUME NEW p \in Procs, Crash(p) PROVE Typed'
  <2>1. job[p].version \in Versions
    BY <1>26, <1>2 DEF Crash, Carry
  <2>2. dirs' \in [Versions -> Contents \cup {None}]
    BY <1>26, <2>1 DEF Crash, Typed, TypeOK, Contents
  <2>3. spoilt' \in SUBSET (Versions \cup {"policy"})
    BY <1>26, <2>1 DEF Crash, Typed, TypeOK
  <2> QED
    BY <1>26, <2>2, <2>3, ForgetTyped DEF Crash, Typed, TypeOK
<1>27. ASSUME NEW p \in Procs, CrashRemoving(p) PROVE Typed'
  <2>1. Carry(NoJob)
    BY NoJobType DEF Carry, Working, Cleaning
  <2>2. RemoveSomeOfNamespace(p, NoJob)
    BY <1>27 DEF CrashRemoving
  <2>3. /\ job' \in [Procs -> Jobs] /\ \A q \in Procs : Carry(job'[q])
        /\ spoilt' \in SUBSET (Versions \cup {"policy"})
    BY <2>1, <2>2, NoJobType, UprootTyped DEF RemoveSomeOfNamespace
  <2> QED
    BY <1>27, <2>2, <2>3 DEF CrashRemoving, RemoveSomeOfNamespace, Typed, TypeOK, Policies
<1> QED
  BY <1>3, <1>4, <1>5, <1>6, <1>7, <1>8, <1>9, <1>10, <1>11, <1>12, <1>13, <1>14, <1>15,
     <1>16, <1>17, <1>18, <1>19, <1>20, <1>21, <1>22, <1>23, <1>24, <1>25, <1>26, <1>27
  DEF Next, Install

(* Every variable keeps its shape in every reachable state, whatever is
   published and however many invocations share the store. *)
THEOREM TypeCorrect == Spec => []TypeOK
<1>1. Typed => TypeOK
  BY DEF Typed
<1> QED
  BY <1>1, TypedInit, TypedStep, PTL DEF Spec

------------------------------------------------------------------------------
(* What each kind of step leaves in the record of the invocation that takes it,
   and in the others'. *)

Onward(p, place) ==
  /\ \A q \in Procs \ {p} : job'[q] = job[q]
  /\ job'[p].at = place
  /\ job'[p].version = job[p].version /\ job'[p].shared = job[p].shared

Kept(p) ==
  /\ job'[p].fresh = job[p].fresh /\ job'[p].saved = job[p].saved
  /\ job'[p].receipt = job[p].receipt /\ job'[p].before = job[p].before

(* One more refusal, or none. *)
Spent(p) == job'[p].faults = job[p].faults \cup {job[p].at}
Spared(p) == job'[p].faults = job[p].faults

LEMMA GoShape ==
  ASSUME Typed, NEW p \in Procs, NEW place, Go(p, place)
  PROVE  Onward(p, place) /\ Kept(p) /\ Spared(p) /\ job'[p].moved = job[p].moved
  BY DEF Typed, TypeOK, Jobs, Go, Becomes, Onward, Kept, Spared

LEMMA FaultedShape ==
  ASSUME Typed, NEW p \in Procs, NEW place, Faulted(p, place)
  PROVE  Onward(p, place) /\ Kept(p) /\ Spent(p) /\ job'[p].moved = job[p].moved
  BY DEF Typed, TypeOK, Jobs, Faulted, Refused, Becomes, Onward, Kept, Spent

LEMMA StatShape ==
  ASSUME Typed, NEW p \in Procs, StatNamespace(p)
  PROVE  /\ Onward(p, "stage") /\ job'[p].moved = job[p].moved
         /\ job'[p].before = Found(job[p].version)
         /\ \/ job'[p].fresh = ~here /\ job'[p].faults = {}
            \/ job'[p].faults = {"stat"}
  <1>1. PICK fresh \in BOOLEAN, faults \in {{}, {"stat"}} :
          /\ Becomes(p, [job[p] EXCEPT !.at = "stage", !.fresh = fresh,
                           !.faults = faults, !.before = Found(job[p].version)])
          /\ faults = {} => fresh = ~here
    BY DEF StatNamespace, Typed, TypeOK
  <1> HIDE DEF Found
  <1> QED
    BY <1>1 DEF Typed, TypeOK, Jobs, Becomes, Onward

LEMMA SnapshotShape ==
  ASSUME Typed, NEW p \in Procs, SnapshotPolicy(p)
  PROVE  /\ Onward(p, "extract") /\ job'[p].moved = job[p].moved
         /\ job'[p].fresh = job[p].fresh /\ job'[p].before = job[p].before
         /\ \/ Spared(p) /\ job'[p].saved = policy
            \/ Spent(p) /\ job'[p].saved = Unread
  <1> DEFINE k == Refused(p, "extract")
  <1>1. job \in [Procs -> Jobs] /\ job[p] \in Jobs /\ job[p].at = "snapshot"
    BY DEF Typed, TypeOK, SnapshotPolicy, At
  <1>2. /\ k \in Jobs /\ k.at = "extract" /\ k.version = job[p].version
        /\ k.shared = job[p].shared /\ k.moved = job[p].moved /\ k.fresh = job[p].fresh
        /\ k.before = job[p].before /\ k.faults = job[p].faults \cup {job[p].at}
    <2>1. k \in Jobs
      BY <1>1, RefusedType DEF Working, Places
    <2> QED
      BY <1>1, <2>1 DEF Refused, Jobs
  <1>3. CASE Becomes(p, [job[p] EXCEPT !.at = "extract", !.saved = policy])
    BY <1>1, <1>3 DEF Jobs, Becomes, Onward, Spared
  <1>4. CASE Becomes(p, [k EXCEPT !.saved = Unread])
    <2> HIDE DEF k
    <2> QED
      BY <1>1, <1>2, <1>4 DEF Jobs, Becomes, Onward, Spent
  <1> QED
    BY <1>3, <1>4 DEF SnapshotPolicy

LEMMA MovedShape ==
  ASSUME Typed, NEW p \in Procs, NEW place, NEW m
  PROVE  /\ Becomes(p, [job[p] EXCEPT !.at = place, !.moved = m]) =>
              Onward(p, place) /\ Kept(p) /\ Spared(p) /\ job'[p].moved = m
         /\ Becomes(p, [Refused(p, place) EXCEPT !.moved = m]) =>
              Onward(p, place) /\ Kept(p) /\ Spent(p) /\ job'[p].moved = m
  <1> DEFINE r == [job[p] EXCEPT !.at = place, !.moved = m]
             f == [Refused(p, place) EXCEPT !.moved = m]
  <1>1. job \in [Procs -> Jobs] /\ job[p] \in Jobs
    BY DEF Typed, TypeOK
  <1>2. /\ r.at = place /\ r.moved = m /\ r.version = job[p].version
        /\ r.shared = job[p].shared /\ r.fresh = job[p].fresh /\ r.saved = job[p].saved
        /\ r.receipt = job[p].receipt /\ r.before = job[p].before
        /\ r.faults = job[p].faults
    BY <1>1 DEF Jobs
  <1>3. /\ f.at = place /\ f.moved = m /\ f.version = job[p].version
        /\ f.shared = job[p].shared /\ f.fresh = job[p].fresh /\ f.saved = job[p].saved
        /\ f.receipt = job[p].receipt /\ f.before = job[p].before
        /\ f.faults = job[p].faults \cup {job[p].at}
    BY <1>1 DEF Jobs, Refused
  <1> HIDE DEF r, f
  <1>4. /\ Becomes(p, r) => Onward(p, place) /\ Kept(p) /\ Spared(p) /\ job'[p].moved = m
        /\ Becomes(p, f) => Onward(p, place) /\ Kept(p) /\ Spent(p) /\ job'[p].moved = m
    BY <1>1, <1>2, <1>3 DEF Becomes, Onward, Kept, Spared, Spent
  <1> QED
    BY <1>4 DEF r, f

LEMMA DigestShape ==
  ASSUME Typed, NEW p \in Procs, NEW x,
         Becomes(p, [job[p] EXCEPT !.at = "receipt", !.receipt = x])
  PROVE  /\ Onward(p, "receipt") /\ Spared(p) /\ job'[p].moved = job[p].moved
         /\ job'[p].fresh = job[p].fresh /\ job'[p].saved = job[p].saved
         /\ job'[p].before = job[p].before /\ job'[p].receipt = x
  BY DEF Typed, TypeOK, Jobs, Becomes, Onward, Spared

LEMMA ForgetShape ==
  ASSUME Typed, NEW p \in Procs, Becomes(p, NoJob)
  PROVE  /\ \A q \in Procs \ {p} : job'[q] = job[q]
         /\ job'[p].at = "idle" /\ job'[p].before = None /\ job'[p].version = None
  BY DEF Typed, TypeOK, Becomes, NoJob

LEMMA LaunchShape ==
  ASSUME Typed, NEW p \in Procs, Launch(p)
  PROVE  /\ \A q \in Procs \ {p} : job'[q] = job[q]
         /\ job[p].at \in {"idle", "verify", "check", "resolved"}
         /\ job'[p].at \in {"verify", "check", "resolved", "launched", "refused"}
         /\ UNCHANGED <<disk, activated, spoilt>>
  <1>1. job \in [Procs -> Jobs] /\ job[p] \in Jobs
    BY DEF Typed, TypeOK
  <1>2. ASSUME NEW r, Becomes(p, r),
               r.at \in {"verify", "check", "resolved", "launched", "refused"}
        PROVE  /\ \A q \in Procs \ {p} : job'[q] = job[q]
               /\ job'[p].at \in {"verify", "check", "resolved", "launched", "refused"}
    BY <1>1, <1>2 DEF Becomes
  <1>3. CASE ReadActive(p)
    <2> DEFINE r == [job[p] EXCEPT !.at = "verify", !.version = active.version,
                                   !.receipt = active.receipt]
    <2>1. r.at = "verify" /\ Becomes(p, r) /\ job[p].at = "idle" /\ UNCHANGED <<disk, activated, spoilt>>
      BY <1>1, <1>3 DEF ReadActive, At, Jobs
    <2> HIDE DEF r
    <2> QED
      BY <1>2, <2>1
  <1>4. CASE ReadVerifiedReceipt(p)
    <2> DEFINE x == dirs[job[p].version].receipt
               r == [job[p] EXCEPT !.at = "check", !.receipt = x]
               n == [job[p] EXCEPT !.at = "refused"]
    <2>1. /\ job[p].at = "verify" /\ UNCHANGED <<disk, activated, spoilt>>
          /\ Becomes(p, r) \/ Becomes(p, n)
      BY <1>4 DEF ReadVerifiedReceipt, Go, At
    <2>2. r.at = "check" /\ n.at = "refused"
      BY <1>1 DEF Jobs
    <2> HIDE DEF r, n
    <2> QED
      BY <1>2, <2>1, <2>2
  <1>5. CASE CheckExecutable(p)
    <2> DEFINE x == dirs[job[p].version].exe
               r == [job[p] EXCEPT !.at = "resolved", !.build = x]
               n == [job[p] EXCEPT !.at = "refused"]
    <2>1. /\ job[p].at = "check" /\ UNCHANGED <<disk, activated, spoilt>>
          /\ Becomes(p, r) \/ Becomes(p, n)
      BY <1>5 DEF CheckExecutable, Go, At
    <2>2. r.at = "resolved" /\ n.at = "refused"
      BY <1>1 DEF Jobs
    <2> HIDE DEF r, n
    <2> QED
      BY <1>2, <2>1, <2>2
  <1>6. CASE Execute(p)
    <2> DEFINE x == dirs[job[p].version].exe
               u == Unsettled(job[p].version)
               r == [job[p] EXCEPT !.at = "launched", !.build = x, !.shared = u]
               n == [job[p] EXCEPT !.at = "refused"]
    <2>1. /\ job[p].at = "resolved" /\ UNCHANGED <<disk, activated, spoilt>>
          /\ Becomes(p, r) \/ Becomes(p, n)
      BY <1>6 DEF Execute, Go, At
    <2> HIDE DEF u
    <2>2. r.at = "launched" /\ n.at = "refused"
      BY <1>1 DEF Jobs
    <2> HIDE DEF r, n
    <2> QED
      BY <1>2, <2>1, <2>2
  <1> QED
    BY <1>3, <1>4, <1>5, <1>6 DEF Launch, Resolve

(* The others keep all but their being shared. *)
Beside(p) ==
  \A q \in Procs \ {p} :
    /\ job'[q].at = job[q].at /\ job'[q].version = job[q].version
    /\ job'[q].receipt = job[q].receipt
    /\ job'[q].shared \in {job[q].shared, TRUE}

LEMMA SharedShape ==
  ASSUME NEW j \in Jobs
  PROVE  /\ [j EXCEPT !.shared = TRUE].at = j.at
         /\ [j EXCEPT !.shared = TRUE].version = j.version
         /\ [j EXCEPT !.shared = TRUE].receipt = j.receipt
         /\ [j EXCEPT !.shared = TRUE].shared = TRUE
  BY DEF Jobs

LEMMA RequestShape ==
  ASSUME Typed, NEW p \in Procs, NEW v, NEW b, NEW pins, Request(p, v, b, pins)
  PROVE  /\ Beside(p)
         /\ job'[p].at = "stat" /\ job'[p].version = v /\ job'[p].moved = FALSE
         /\ job'[p].before = None /\ job'[p].faults = {}
         /\ \A q \in Procs \ {p} :
              InstallsVersion(q, v) => job'[q].shared /\ job'[p].shared /\ v \in spoilt'
         /\ spoilt' \in {spoilt, spoilt \cup {v}}
         /\ job'[p].shared => v \in spoilt'
         /\ \A q \in Procs \ {p} : ~InstallsVersion(q, v) => job'[q] = job[q]
  <1> DEFINE others == {q \in Procs \ {p} : InstallsVersion(q, v)}
             late == others # {}
             r == [NoJob EXCEPT !.at = "stat", !.version = v, !.build = b,
                                !.pins = pins, !.shared = late]
  <1>1. /\ job' = [q \in Procs |->
              IF q = p THEN r
              ELSE IF q \in others THEN [job[q] EXCEPT !.shared = TRUE]
              ELSE job[q]]
        /\ spoilt' = IF late THEN spoilt \cup {v} ELSE spoilt
    BY DEF Request
  <1>2. /\ r.at = "stat" /\ r.version = v /\ r.moved = FALSE /\ r.before = None
        /\ r.faults = {} /\ r.shared = late
    BY DEF NoJob
  <1>3. \A q \in Procs : job[q] \in Jobs
    BY DEF Typed, TypeOK
  <1>4. \A q \in Procs \ {p} : q \in others <=> InstallsVersion(q, v)
    OBVIOUS
  <1>5. \A q \in others : late
    OBVIOUS
  <1> HIDE DEF others, r, late
  <1>6. Beside(p)
    BY <1>1, <1>3, SharedShape DEF Beside
  <1> QED
    BY <1>1, <1>2, <1>3, <1>4, <1>5, <1>6, SharedShape

LEMMA UprootShape ==
  ASSUME Typed, NEW p \in Procs, NEW after, NEW lost, Uproot(p, after, lost)
  PROVE  /\ job'[p] = after /\ Beside(p)
         /\ \A q \in Procs \ {p} : job[q].at \in Working \cup Cleaning =>
              job'[q].shared /\ job[q].version \in spoilt'
         /\ spoilt \cup lost \subseteq spoilt'
         /\ Procs = {p} => spoilt' = spoilt \cup lost
         /\ \A q \in Procs \ {p} : job[q].at \notin Working \cup Cleaning => job'[q] = job[q]
  <1> DEFINE others == {q \in Procs \ {p} : job[q].at \in Working \cup Cleaning}
  <1>1. /\ job' = [q \in Procs |-> IF q = p THEN after
                             ELSE IF q \in others THEN [job[q] EXCEPT !.shared = TRUE]
                             ELSE job[q]]
        /\ spoilt' = spoilt \cup lost \cup {job[q].version : q \in others}
    BY DEF Uproot
  <1>2. \A q \in Procs : job[q] \in Jobs
    BY DEF Typed, TypeOK
  <1>3. /\ \A q \in Procs \ {p} : q \in others <=> job[q].at \in Working \cup Cleaning
        /\ Procs = {p} => others = {}
    OBVIOUS
  <1> HIDE DEF others
  <1>4. Beside(p)
    BY <1>1, <1>2, SharedShape DEF Beside
  <1> QED
    BY <1>1, <1>2, <1>3, <1>4, SharedShape

(* What the end of a removal leaves in the record of the one who removes. *)
LEMMA AfterShape ==
  ASSUME Typed, NEW p \in Procs
  PROVE  /\ \A place : RemoveNamespace(p, [job[p] EXCEPT !.at = place]) =>
              job'[p].at = place /\ job'[p].version = job[p].version
         /\ \A place : RemoveSomeOfNamespace(p, Refused(p, place)) =>
              /\ job'[p].at = place /\ job'[p].version = job[p].version
              /\ Versions \cup {"policy"} \subseteq spoilt'
  <1>1. job[p] \in Jobs
    BY DEF Typed, TypeOK
  <1>2. ASSUME NEW place, RemoveNamespace(p, [job[p] EXCEPT !.at = place])
        PROVE  job'[p].at = place /\ job'[p].version = job[p].version
    <2>1. job'[p] = [job[p] EXCEPT !.at = place]
      BY <1>2, UprootShape DEF RemoveNamespace
    <2> QED
      BY <1>1, <2>1 DEF Jobs
  <1>3. ASSUME NEW place, RemoveSomeOfNamespace(p, Refused(p, place))
        PROVE  /\ job'[p].at = place /\ job'[p].version = job[p].version
               /\ Versions \cup {"policy"} \subseteq spoilt'
    <2>1. job'[p] = Refused(p, place) /\ Versions \cup {"policy"} \subseteq spoilt'
      BY <1>3, UprootShape DEF RemoveSomeOfNamespace
    <2> QED
      BY <1>1, <2>1 DEF Jobs, Refused
  <1> QED
    BY <1>2, <1>3

------------------------------------------------------------------------------
(* ActivatedIsLaunchable. An install of a version has its directory in hand
   from the step that displaces it to the end of a failed install's cleanup;
   what it cannot put back, or leaves to another install, it has spoilt. *)

Touching == {"aside", "place", "digest", "receipt", "policy", "activate",
             "restore", "discard", "putback"}

(* Two installs of one version that overlap are shared. *)
OverlapShared ==
  \A p, q \in Procs :
    (p # q /\ InstallsVersion(p, job[q].version) /\ InstallsVersion(q, job[q].version))
      => job[p].shared

SharedSpoilt ==
  \A p \in Procs :
    (job[p].at \in Working \cup Cleaning /\ job[p].shared) => job[p].version \in spoilt

DiscardedSpoilt == \A p \in Procs : At(p, "putback") => job[p].version \in spoilt

(* What an install that shares its version with no other has placed is what it
   writes the receipt of, and then points at. *)
OwnPlaced ==
  \A p \in Procs :
    LET d == dirs[job[p].version] IN
    ~job[p].shared =>
      /\ At(p, "receipt") => d # None /\ d.exe = job[p].receipt
      /\ job[p].at \in {"policy", "activate"} => Whole(d, job[p].receipt)

(* The pointer's version is whole unless it is spoilt or in hand. *)
Settled ==
  (/\ active # None /\ active.version \notin spoilt
   /\ \A p \in Procs : ~(job[p].version = active.version /\ job[p].at \in Touching))
    => Whole(dirs[active.version], active.receipt)

Launchable ==
  OverlapShared /\ SharedSpoilt /\ DiscardedSpoilt /\ OwnPlaced /\ Settled

LEMMA TouchingInstalls == Touching \subseteq Working \cup Cleaning
  BY DEF Touching, Working, Cleaning

LEMMA OwnTouching == {"receipt", "policy", "activate", "putback"} \subseteq Touching
  BY DEF Touching

(* A step of one invocation that leaves other versions alone, and its own
   version too until it has it in hand. *)
LEMMA OwnStep ==
  ASSUME Typed, Launchable, NEW p \in Procs,
         \A q \in Procs \ {p} : job'[q] = job[q],
         job'[p].at \in Working \cup Cleaning =>
           /\ job[p].at \in Working \cup Cleaning
           /\ job'[p].version = job[p].version /\ job'[p].shared = job[p].shared,
         spoilt \subseteq spoilt', active' = active,
         \A v \in Versions : dirs'[v] = dirs[v]
                               \/ (v = job[p].version /\ job[p].at \in Touching),
         job[p].at \in Touching => (job'[p].at \in Touching \/ job[p].version \in spoilt'),
         job'[p].at = "putback" => job'[p].version \in spoilt',
         (job'[p].at = "receipt" /\ ~job'[p].shared) =>
           /\ dirs'[job'[p].version] # None
           /\ dirs'[job'[p].version].exe = job'[p].receipt,
         (job'[p].at \in {"policy", "activate"} /\ ~job'[p].shared) =>
           Whole(dirs'[job'[p].version], job'[p].receipt)
  PROVE  Launchable'
<1>1. OverlapShared'
  BY DEF Launchable, OverlapShared, InstallsVersion
<1>2. SharedSpoilt'
  BY DEF Launchable, SharedSpoilt
<1>3. DiscardedSpoilt'
  BY DEF Launchable, DiscardedSpoilt, At
<1>4. OwnPlaced'
  <2>1. SUFFICES ASSUME NEW q \in Procs, ~job'[q].shared,
                        job'[q].at \in {"receipt", "policy", "activate"}
                 PROVE  /\ job'[q].at = "receipt" =>
                             /\ dirs'[job'[q].version] # None
                             /\ dirs'[job'[q].version].exe = job'[q].receipt
                        /\ job'[q].at \in {"policy", "activate"} =>
                             Whole(dirs'[job'[q].version], job'[q].receipt)
    BY DEF OwnPlaced, At, Whole
  <2>2. CASE q = p
    BY <2>1, <2>2
  <2>3. CASE q # p
    <3>1. job'[q] = job[q] /\ job[q].version \in Versions
      BY <2>1, <2>3 DEF Typed, Carry, Working
    <3>2. InstallsVersion(q, job[q].version)
      BY <2>1, <3>1 DEF InstallsVersion, Working
    <3>3. ~(job[p].version = job[q].version /\ job[p].at \in Touching)
      BY <2>1, <2>3, <3>1, <3>2, TouchingInstalls
      DEF Launchable, OverlapShared, InstallsVersion
    <3>4. dirs'[job[q].version] = dirs[job[q].version]
      BY <3>1, <3>3
    <3> QED
      BY <2>1, <3>1, <3>4 DEF Launchable, OwnPlaced, At
  <2> QED
    BY <2>2, <2>3
<1>5. Settled'
  <2>1. SUFFICES ASSUME active # None, active.version \notin spoilt',
                        \A q \in Procs : ~(job'[q].version = active.version
                                             /\ job'[q].at \in Touching)
                 PROVE  Whole(dirs'[active.version], active.receipt)
    BY DEF Settled, Whole
  <2>2. active.version \in Versions
    BY <2>1 DEF Typed, TypeOK, Pointers
  <2>3. ~(job[p].version = active.version /\ job[p].at \in Touching)
    BY <2>1, TouchingInstalls
  <2>4. \A q \in Procs : ~(job[q].version = active.version /\ job[q].at \in Touching)
    BY <2>1, <2>3
  <2>5. Whole(dirs[active.version], active.receipt)
    BY <2>1, <2>4 DEF Launchable, Settled
  <2> QED
    BY <2>2, <2>3, <2>5
<1> QED
  BY <1>1, <1>2, <1>3, <1>4, <1>5 DEF Launchable

(* The namespace goes: every install under way has its version spoilt. *)
LEMMA UprootLaunchable ==
  ASSUME Typed, Launchable, NEW p \in Procs, NEW after,
         after.at \notin Working \cup Cleaning,
         RemoveNamespace(p, after) \/ RemoveSomeOfNamespace(p, after)
  PROVE  Launchable'
<1>1. PICK lost : Uproot(p, after, lost)
  BY DEF RemoveNamespace, RemoveSomeOfNamespace
<1>2. /\ job'[p].at \notin Working \cup Cleaning /\ Beside(p)
      /\ \A q \in Procs \ {p} : job[q].at \in Working \cup Cleaning =>
           job'[q].shared /\ job[q].version \in spoilt'
      /\ spoilt \subseteq spoilt'
  BY <1>1, UprootShape
<1>3. \A q \in Procs : job'[q].at \in Working \cup Cleaning =>
        job'[q].shared /\ job'[q].version \in spoilt'
  BY <1>2 DEF Beside
<1>4. OverlapShared' /\ SharedSpoilt' /\ DiscardedSpoilt' /\ OwnPlaced'
  BY <1>3 DEF OverlapShared, SharedSpoilt, DiscardedSpoilt, OwnPlaced, InstallsVersion, At,
              Working, Cleaning
<1>5. active' = None \/ (active' = active /\ Versions \subseteq spoilt')
  <2>1. CASE RemoveNamespace(p, after)
    BY <2>1 DEF RemoveNamespace
  <2>2. CASE RemoveSomeOfNamespace(p, after)
    <3>1. Versions \subseteq spoilt'
      BY <2>2, UprootShape DEF RemoveSomeOfNamespace
    <3> QED
      BY <2>2, <3>1 DEF RemoveSomeOfNamespace
  <2> QED
    BY <2>1, <2>2
<1>6. Settled'
  BY <1>5 DEF Settled, Typed, TypeOK, Pointers
<1> QED
  BY <1>4, <1>6 DEF Launchable

(* A new install: those of the same version that it overlaps become shared. *)
LEMMA RequestLaunchable ==
  ASSUME Typed, Launchable, NEW p \in Procs, job[p].at \notin Working \cup Cleaning,
         NEW v \in Versions, NEW b, NEW pins, Request(p, v, b, pins),
         UNCHANGED <<dirs, active>>
  PROVE  Launchable'
<1>1. /\ Beside(p)
      /\ job'[p].at = "stat" /\ job'[p].version = v
      /\ \A q \in Procs \ {p} :
           InstallsVersion(q, v) => job'[q].shared /\ job'[p].shared /\ v \in spoilt'
      /\ spoilt \subseteq spoilt'
      /\ job'[p].shared => v \in spoilt'
      /\ \A q \in Procs \ {p} : ~InstallsVersion(q, v) => job'[q] = job[q]
  BY RequestShape
<1>2. OverlapShared'
  <2>1. SUFFICES ASSUME NEW q \in Procs, NEW r \in Procs, q # r,
                        job'[q].version = job'[r].version,
                        job'[q].at \in Working \cup Cleaning,
                        job'[r].at \in Working \cup Cleaning
                 PROVE  job'[q].shared
    BY DEF OverlapShared, InstallsVersion
  <2>2. CASE q = p
    <3>1. InstallsVersion(r, v)
      BY <1>1, <2>1, <2>2 DEF Beside, InstallsVersion
    <3> QED
      BY <1>1, <2>1, <2>2, <3>1
  <2>3. CASE r = p
    <3>1. InstallsVersion(q, v)
      BY <1>1, <2>1, <2>3 DEF Beside, InstallsVersion
    <3> QED
      BY <1>1, <2>1, <2>3, <3>1
  <2>4. CASE q # p /\ r # p
    <3>1. job[q].shared
      BY <1>1, <2>1, <2>4 DEF Beside, Launchable, OverlapShared, InstallsVersion
    <3> QED
      BY <1>1, <2>4, <3>1 DEF Beside
  <2> QED
    BY <2>2, <2>3, <2>4
<1>3. SharedSpoilt'
  <2>1. SUFFICES ASSUME NEW q \in Procs, job'[q].at \in Working \cup Cleaning, job'[q].shared
                 PROVE  job'[q].version \in spoilt'
    BY DEF SharedSpoilt
  <2>2. CASE q = p
    BY <1>1, <2>1, <2>2
  <2>3. CASE q # p /\ InstallsVersion(q, v)
    BY <1>1, <2>3 DEF Beside, InstallsVersion
  <2>4. CASE q # p /\ ~InstallsVersion(q, v)
    BY <1>1, <2>1, <2>4 DEF Launchable, SharedSpoilt
  <2> QED
    BY <2>2, <2>3, <2>4
<1>4. DiscardedSpoilt'
  BY <1>1 DEF Launchable, DiscardedSpoilt, At, Beside
<1>5. OwnPlaced'
  <2>1. \A q \in Procs : ~job'[q].shared =>
          q = p \/ (job'[q].at = job[q].at /\ job'[q].version = job[q].version
                      /\ job'[q].receipt = job[q].receipt /\ ~job[q].shared)
    BY <1>1 DEF Beside, Typed, TypeOK, Jobs
  <2> QED
    BY <1>1, <2>1 DEF Launchable, OwnPlaced, At
<1>6. Settled'
  <2>1. ASSUME active # None, active.version \notin spoilt',
               \A q \in Procs : ~(job'[q].version = active.version /\ job'[q].at \in Touching)
        PROVE  Whole(dirs[active.version], active.receipt)
    <3>1. \A q \in Procs : ~(job[q].version = active.version /\ job[q].at \in Touching)
      BY <1>1, <2>1, TouchingInstalls DEF Beside
    <3> QED
      BY <1>1, <2>1, <3>1 DEF Launchable, Settled
  <2> QED
    BY <2>1 DEF Settled
<1> QED
  BY <1>2, <1>3, <1>4, <1>5, <1>6 DEF Launchable

LEMMA InstallLaunchable ==
  ASSUME Typed, Typed', Launchable, NEW p \in Procs, Install(p)
  PROVE  Launchable'
<1> USE DEF At
<1> DEFINE v == job[p].version
<1>1. job[p].at \in Working \cup Cleaning /\ v \in Versions
  BY DEF Install, StatNamespace, MakeStaging, SnapshotPolicy, Extract, ClearDisplaced,
         SetAside, Place, DigestExecutable, WriteReceipt, RecordPolicy, Activate, Sweep,
         RestorePolicy, DiscardVersion, PutBack, Working, Cleaning, Typed, Carry
<1>2. CASE StatNamespace(p) \/ SnapshotPolicy(p)
  <2>1. /\ \E place \in {"stage", "extract"} : Onward(p, place)
        /\ UNCHANGED <<disk, spoilt>> /\ job[p].at \in {"stat", "snapshot"}
    BY <1>2, StatShape, SnapshotShape DEF StatNamespace, SnapshotPolicy
  <2> QED
    BY <1>1, <2>1, OwnStep DEF Onward, disk, Touching
<1>3. CASE MakeStaging(p)
  <2>1. /\ \E place \in {"snapshot", "failed"} : Onward(p, place)
        /\ UNCHANGED <<dirs, active, spoilt>> /\ job[p].at = "stage"
    BY <1>3, GoShape, FaultedShape DEF MakeStaging
  <2> QED
    BY <1>1, <2>1, OwnStep DEF Onward, Touching
<1>4. CASE Extract(p)
  <2>1. /\ \E place \in {"clear", "restore"} : Onward(p, place)
        /\ UNCHANGED <<dirs, active, spoilt>> /\ job[p].at = "extract"
    BY <1>4, GoShape, FaultedShape DEF Extract, disk
  <2> QED
    BY <1>1, <2>1, OwnStep DEF Onward, Touching
<1>5. CASE ClearDisplaced(p)
  <2>1. /\ \E place \in {"place", "aside", "restore"} : Onward(p, place)
        /\ UNCHANGED <<dirs, active, spoilt>> /\ job[p].at = "clear"
    BY <1>5, GoShape, MovedShape DEF ClearDisplaced
  <2> QED
    BY <1>1, <2>1, OwnStep DEF Onward, Touching
<1>6. CASE SetAside(p)
  <2>1. /\ \E place \in {"place", "restore"} : Onward(p, place)
        /\ UNCHANGED <<active, spoilt>> /\ job[p].at = "aside"
        /\ \A u \in Versions : u # v => dirs'[u] = dirs[u]
    BY <1>6, GoShape, MovedShape DEF SetAside, Typed, TypeOK
  <2> QED
    BY <1>1, <2>1, OwnStep DEF Onward, Touching
<1>7. CASE Place(p)
  <2>1. /\ \E place \in {"digest", "restore"} : Onward(p, place)
        /\ UNCHANGED <<active, spoilt>> /\ job[p].at = "place"
        /\ \A u \in Versions : u # v => dirs'[u] = dirs[u]
    BY <1>7, GoShape, FaultedShape DEF Place, Typed, TypeOK
  <2> QED
    BY <1>1, <2>1, OwnStep DEF Onward, Touching
<1>8. CASE DigestExecutable(p)
  <2>1. UNCHANGED <<disk, spoilt>> /\ job[p].at = "digest"
    BY <1>8 DEF DigestExecutable
  <2>2. CASE Go(p, "restore") \/ Faulted(p, "restore")
    <3>1. Onward(p, "restore")
      BY <2>2, GoShape, FaultedShape
    <3> QED
      BY <1>1, <2>1, <3>1, OwnStep DEF Onward, disk, Touching
  <2>3. CASE /\ dirs[v] # None
             /\ Becomes(p, [job[p] EXCEPT !.at = "receipt", !.receipt = dirs[v].exe])
    <3>1. Onward(p, "receipt") /\ job'[p].receipt = dirs[v].exe
      BY <2>3, DigestShape
    <3> QED
      BY <1>1, <2>1, <2>3, <3>1, OwnStep DEF Onward, disk, Touching
  <2> QED
    BY <1>8, <2>2, <2>3 DEF DigestExecutable
<1>9. CASE WriteReceipt(p)
  <2>1. /\ UNCHANGED <<active, spoilt>> /\ job[p].at = "receipt"
        /\ \A u \in Versions : u # v => dirs'[u] = dirs[u]
    BY <1>9 DEF WriteReceipt, Typed, TypeOK
  <2>2. CASE Go(p, "restore") \/ Faulted(p, "restore")
    <3>1. Onward(p, "restore")
      BY <2>2, GoShape, FaultedShape
    <3> QED
      BY <1>1, <2>1, <3>1, OwnStep DEF Onward, Touching
  <2>3. CASE /\ dirs[v] # None /\ Go(p, "policy")
             /\ dirs' = [dirs EXCEPT ![v].receipt = job[p].receipt]
    <3>1. Onward(p, "policy") /\ job'[p].receipt = job[p].receipt
      BY <2>3, GoShape DEF Kept
    <3>2. ~job[p].shared => dirs[v].exe = job[p].receipt
      BY <2>1 DEF Launchable, OwnPlaced
    <3>3. dirs[v] \in Contents
      BY <1>1, <2>3 DEF Typed, TypeOK
    <3>4. dirs'[v] = [exe |-> dirs[v].exe, receipt |-> job[p].receipt]
      BY <1>1, <2>3, <3>3 DEF Typed, TypeOK, Contents
    <3> QED
      BY <1>1, <2>1, <3>1, <3>2, <3>4, OwnStep DEF Onward, Touching, Whole
  <2> QED
    BY <1>9, <2>2, <2>3 DEF WriteReceipt
<1>10. CASE RecordPolicy(p)
  <2>1. UNCHANGED <<dirs, active, spoilt>> /\ job[p].at = "policy"
    BY <1>10 DEF RecordPolicy
  <2>2. CASE Go(p, "restore") \/ Faulted(p, "restore")
    <3>1. Onward(p, "restore")
      BY <2>2, GoShape, FaultedShape
    <3> QED
      BY <1>1, <2>1, <3>1, OwnStep DEF Onward, Touching
  <2>3. CASE Go(p, "activate")
    <3>1. Onward(p, "activate") /\ job'[p].receipt = job[p].receipt
      BY <2>3, GoShape DEF Kept
    <3>2. ~job[p].shared => Whole(dirs[v], job[p].receipt)
      BY <2>1 DEF Launchable, OwnPlaced
    <3> QED
      BY <1>1, <2>1, <3>1, <3>2, OwnStep DEF Onward, Touching
  <2> QED
    BY <1>10, <2>2, <2>3 DEF RecordPolicy
<1>11. CASE Activate(p)
  <2>1. dirs' = dirs /\ job[p].at = "activate"
    BY <1>11 DEF Activate
  <2>2. CASE (Go(p, "restore") \/ Faulted(p, "restore")) /\ UNCHANGED <<active, spoilt>>
    <3>1. Onward(p, "restore")
      BY <2>2, GoShape, FaultedShape
    <3> QED
      BY <1>1, <2>1, <2>2, <3>1, OwnStep DEF Onward, Touching
  <2>3. CASE /\ Go(p, "sweep")
             /\ active' = [version |-> v, receipt |-> job[p].receipt]
             /\ spoilt' = IF job[p].shared THEN spoilt ELSE spoilt \ {v, "policy"}
    <3>1. Onward(p, "sweep")
      BY <2>3, GoShape
    <3>2. OverlapShared'
      BY <1>1, <3>1 DEF Launchable, OverlapShared, InstallsVersion, Onward
    <3>3. ASSUME NEW q \in Procs, InstallsVersion(q, job[q].version), job[q].shared
          PROVE  job[q].version \in spoilt'
      <4>1. job[q].version \in spoilt /\ job[q].version # "policy"
        BY <3>3, StoreAssumption
        DEF Launchable, SharedSpoilt, InstallsVersion, Typed, Carry
      <4>2. CASE job[p].shared
        BY <2>3, <4>1, <4>2
      <4>3. CASE ~job[p].shared
        <5>1. q # p
          BY <3>3, <4>3
        <5>2. job[q].version # v
          BY <1>1, <3>3, <4>3, <5>1 DEF Launchable, OverlapShared, InstallsVersion
        <5> QED
          BY <2>3, <4>1, <4>3, <5>2
      <4> QED
        BY <4>2, <4>3
    <3>4. SharedSpoilt'
      BY <1>1, <3>1, <3>3 DEF SharedSpoilt, InstallsVersion, Onward
    <3>5. DiscardedSpoilt'
      <4>1. SUFFICES ASSUME NEW q \in Procs, job'[q].at = "putback"
                     PROVE  job'[q].version \in spoilt'
        BY DEF DiscardedSpoilt
      <4>2. q # p /\ job'[q] = job[q] /\ job[q].at = "putback"
        BY <3>1, <4>1 DEF Onward
      <4>3. job[q].version \in spoilt /\ job[q].version # "policy"
        BY <4>2, StoreAssumption DEF Launchable, DiscardedSpoilt, Typed, Carry, Cleaning
      <4>4. ~job[p].shared => job[q].version # v
        BY <1>1, <4>2 DEF Launchable, OverlapShared, InstallsVersion, Cleaning
      <4> QED
        BY <2>3, <4>2, <4>3, <4>4
    <3>6. OwnPlaced'
      BY <2>1, <3>1 DEF Launchable, OwnPlaced, Onward, Whole
    <3>7. Settled'
      <4>1. CASE ~job[p].shared
        <5>1. Whole(dirs[v], job[p].receipt)
          BY <2>1, <4>1 DEF Launchable, OwnPlaced
        <5> QED
          BY <2>1, <2>3, <5>1 DEF Settled, Whole
      <4>2. CASE job[p].shared
        <5>1. v \in spoilt'
          BY <1>1, <2>3, <4>2 DEF Launchable, SharedSpoilt
        <5> QED
          BY <2>3, <5>1 DEF Settled
      <4> QED
        BY <4>1, <4>2
    <3> QED
      BY <3>2, <3>4, <3>5, <3>6, <3>7 DEF Launchable
  <2> QED
    BY <1>11, <2>2, <2>3 DEF Activate
<1>12. CASE Sweep(p)
  <2>1. /\ Onward(p, "done") /\ UNCHANGED <<dirs, active, spoilt>> /\ job[p].at = "sweep"
    BY <1>12, GoShape, FaultedShape DEF Sweep
  <2> QED
    BY <1>1, <2>1, OwnStep DEF Onward, Touching, Working, Cleaning
<1>13. CASE RestorePolicy(p)
  <2>1. /\ Onward(p, "discard") /\ UNCHANGED <<dirs, active>> /\ spoilt \subseteq spoilt'
        /\ job[p].at = "restore"
    BY <1>13, GoShape, FaultedShape DEF RestorePolicy
  <2> QED
    BY <1>1, <2>1, OwnStep DEF Onward, Touching
<1>14. CASE DiscardVersion(p)
  <2>1. /\ Onward(p, "putback") /\ UNCHANGED active /\ spoilt' = spoilt \cup {v}
        /\ job[p].at = "discard"
        /\ \A u \in Versions : u # v => dirs'[u] = dirs[u]
    BY <1>14, GoShape, FaultedShape DEF DiscardVersion, Typed, TypeOK
  <2> QED
    BY <1>1, <2>1, OwnStep DEF Onward, Touching
<1>15. CASE PutBack(p)
  <2>1. job[p].at = "putback" /\ v \in spoilt
    BY <1>15 DEF PutBack, Launchable, DiscardedSpoilt
  <2>2. CASE /\ Go(p, "failed") \/ Faulted(p, "failed")
             /\ UNCHANGED <<active, spoilt>>
             /\ \A u \in Versions : u # v => dirs'[u] = dirs[u]
    <3>1. Onward(p, "failed")
      BY <2>2, GoShape, FaultedShape
    <3> QED
      BY <1>1, <2>1, <2>2, <3>1, OwnStep DEF Onward, Touching, Working, Cleaning
  <2>3. CASE RemoveNamespace(p, [job[p] EXCEPT !.at = "failed"])
    <3>1. [job[p] EXCEPT !.at = "failed"].at \notin Working \cup Cleaning
      BY DEF Typed, TypeOK, Jobs, Working, Cleaning
    <3> QED
      BY <2>3, <3>1, UprootLaunchable
  <2>4. CASE RemoveSomeOfNamespace(p, Refused(p, "failed"))
    <3>1. Refused(p, "failed").at \notin Working \cup Cleaning
      BY <1>1, RefusedType DEF Places, Ending, Working, Cleaning
    <3> QED
      BY <2>4, <3>1, UprootLaunchable
  <2> QED
    BY <1>15, <2>2, <2>3, <2>4 DEF PutBack, Typed, TypeOK, disk
<1> QED
  BY <1>2, <1>3, <1>4, <1>5, <1>6, <1>7, <1>8, <1>9, <1>10, <1>11, <1>12, <1>13, <1>14, <1>15
  DEF Install

LEMMA LaunchableInit == Init => Launchable
  BY DEF Init, Launchable, OverlapShared, SharedSpoilt, DiscardedSpoilt, OwnPlaced, Settled,
         InstallsVersion, At, NoJob, Working, Cleaning

LEMMA LaunchableStep == Typed /\ Typed' /\ Launchable /\ [Next]_vars => Launchable'
<1> SUFFICES ASSUME Typed, Typed', Launchable, [Next]_vars PROVE Launchable'
  OBVIOUS
<1> USE DEF At
<1>1. CASE UNCHANGED vars
  BY <1>1 DEF Launchable, OverlapShared, SharedSpoilt, DiscardedSpoilt, OwnPlaced, Settled,
              InstallsVersion, Whole, vars, disk
<1>2. ASSUME NEW p \in Procs, StartInstall(p) \/ UpdateOne(p) PROVE Launchable'
  <2>1. UNCHANGED <<dirs, active>> /\ job[p].at \notin Working \cup Cleaning
    BY <1>2 DEF StartInstall, UpdateOne, disk, Working, Cleaning
  <2>2. ASSUME NEW o \in offered, NEW pins, Request(p, o[1], o[2], pins) PROVE Launchable'
    <3>1. o[1] \in Versions
      BY DEF Versions, Published, Typed, TypeOK
    <3> QED
      BY <2>1, <2>2, <3>1, RequestLaunchable
  <2>3. CASE Go(p, "done") /\ UNCHANGED spoilt
    <3>1. Onward(p, "done")
      BY <2>3, GoShape
    <3> QED
      BY <2>1, <2>3, <3>1, TouchingInstalls, OwnStep DEF Onward, Working, Cleaning
  <2> QED
    BY <1>2, <2>2, <2>3 DEF StartInstall, UpdateOne
<1>3. ASSUME NEW p \in Procs, StartUpdate(p) \/ StartRemove(p) PROVE Launchable'
  <2>1. /\ UNCHANGED <<dirs, active, spoilt>> /\ job[p].at = "idle"
        /\ \E place \in {"done", "status", "remove"} : Onward(p, place)
    BY <1>3, GoShape DEF StartUpdate, StartRemove, disk
  <2> QED
    BY <2>1, OwnStep DEF Onward, Touching, Working, Cleaning
<1>4. ASSUME NEW p \in Procs, Install(p) PROVE Launchable'
  BY <1>4, InstallLaunchable
<1>5. ASSUME NEW p \in Procs, Remove(p) PROVE Launchable'
  <2>1. /\ [job[p] EXCEPT !.at = "done"].at \notin Working \cup Cleaning
        /\ Refused(p, "failed").at \notin Working \cup Cleaning
        /\ job[p].at = "remove"
    BY <1>5, RefusedType DEF Remove, Typed, TypeOK, Jobs, Places, Ending, Working, Cleaning
  <2>2. CASE Go(p, "failed") /\ UNCHANGED <<disk, spoilt>>
    <3>1. Onward(p, "failed")
      BY <2>2, GoShape
    <3> QED
      BY <2>1, <2>2, <3>1, OwnStep DEF Onward, disk, Touching, Working, Cleaning
  <2> QED
    BY <1>5, <2>1, <2>2, UprootLaunchable DEF Remove
<1>6. ASSUME NEW p \in Procs, Launch(p) PROVE Launchable'
  <2>1. /\ UNCHANGED <<dirs, active, spoilt>> /\ job[p].at \in {"idle", "verify", "check", "resolved"}
        /\ \A q \in Procs \ {p} : job'[q] = job[q]
        /\ job'[p].at \in {"verify", "check", "resolved", "launched", "refused"}
    BY <1>6, LaunchShape DEF disk
  <2> QED
    BY <2>1, OwnStep DEF Touching, Working, Cleaning
<1>7. ASSUME NEW p \in Procs, End(p) PROVE Launchable'
  <2>1. /\ UNCHANGED <<dirs, active, spoilt>> /\ job[p].at \in Ending /\ job'[p].at = "idle"
        /\ \A q \in Procs \ {p} : job'[q] = job[q]
    BY <1>7, ForgetShape DEF End, disk
  <2> QED
    BY <2>1, OwnStep DEF Touching, Working, Cleaning, Ending
<1>8. ASSUME NEW p \in Procs, Crash(p) PROVE Launchable'
  <2> DEFINE v == job[p].version
  <2>1. /\ active' = active /\ job[p].at \in Working \cup Cleaning /\ job'[p].at = "idle"
        /\ \A q \in Procs \ {p} : job'[q] = job[q]
        /\ spoilt \subseteq spoilt'
        /\ job[p].at \in Touching => v \in spoilt'
    BY <1>8, ForgetShape DEF Crash, Touching
  <2>2. \A u \in Versions : dirs'[u] = dirs[u] \/ (u = v /\ job[p].at \in Touching)
    BY <1>8 DEF Crash, Touching, Typed, TypeOK
  <2> QED
    BY <2>1, <2>2, OwnStep DEF Working, Cleaning
<1>9. ASSUME NEW p \in Procs, CrashRemoving(p) PROVE Launchable'
  <2>1. NoJob.at \notin Working \cup Cleaning
    BY NoJobType DEF Working, Cleaning
  <2> QED
    BY <1>9, <2>1, UprootLaunchable DEF CrashRemoving
<1> QED
  BY <1>1, <1>2, <1>3, <1>4, <1>5, <1>6, <1>7, <1>8, <1>9 DEF Next

(* The version the pointer names can be launched unless an install of that very
   version is under way, or was cut short, or shared: whatever else is being
   installed, removed, refused or killed around it. *)
THEOREM ActivatedVersionLaunches == Spec => []ActivatedIsLaunchable
<1>1. Launchable => ActivatedIsLaunchable
  BY TouchingInstalls
  DEF Launchable, Settled, ActivatedIsLaunchable, Resolvable, Busy, InstallsVersion
<1> QED
  BY <1>1, TypedInit, TypedStep, LaunchableInit, LaunchableStep, PTL DEF Spec

------------------------------------------------------------------------------
(* What is in a version's directory. An executable nothing has pointed at is
   there only while the install that placed it is about to point at it or to
   clean up, or where installs that overlapped or were cut short have been. *)

Provenance ==
  \A v \in Versions :
    (dirs[v] # None /\ dirs[v].exe # None)
      => (<<v, dirs[v].exe>> \in activated \/ Unsettled(v))

(* A step that neither ends an install after placing its files nor brings an
   executable to a directory without leaving its version unsettled. *)
LEMMA ProvenanceStays ==
  ASSUME Typed, Provenance, NEW p \in Procs, Beside(p),
         spoilt \subseteq spoilt', activated \subseteq activated',
         job[p].at \in Unpointed =>
           \/ job[p].version \in spoilt'
           \/ job'[p].version = job[p].version /\ job'[p].at \in Unpointed,
         \A v \in Versions : (dirs'[v] # None /\ dirs'[v].exe # None) =>
           \/ dirs[v] # None /\ dirs'[v].exe = dirs[v].exe
           \/ v \in spoilt'
           \/ job'[p].version = v /\ job'[p].at \in Unpointed
  PROVE  Provenance'
<1>1. Unpointed \subseteq Working \cup Cleaning
  BY DEF Unpointed, Working, Cleaning
<1>2. SUFFICES ASSUME NEW v \in Versions, dirs'[v] # None, dirs'[v].exe # None
               PROVE  <<v, dirs'[v].exe>> \in activated' \/ Unsettled(v)'
  BY DEF Provenance
<1>3. CASE v \in spoilt' \/ (job'[p].version = v /\ job'[p].at \in Unpointed)
  BY <1>1, <1>3 DEF Unsettled, InstallsVersion
<1>4. CASE <<v, dirs[v].exe>> \in activated /\ dirs'[v].exe = dirs[v].exe
  BY <1>4
<1>5. CASE v \in spoilt
  BY <1>5 DEF Unsettled
<1>6. ASSUME NEW q \in Procs, InstallsVersion(q, v), job[q].at \in Unpointed
      PROVE  Unsettled(v)'
  <2>1. CASE q = p
    BY <1>1, <1>6, <2>1 DEF Unsettled, InstallsVersion
  <2>2. CASE q # p
    BY <1>1, <1>6, <2>2 DEF Beside, Unsettled, InstallsVersion
  <2> QED
    BY <2>1, <2>2
<1> QED
  BY <1>2, <1>3, <1>4, <1>5, <1>6 DEF Provenance, Unsettled

(* The namespace directory goes, or some of it. *)
LEMMA ProvenanceUproot ==
  ASSUME Typed, Provenance, NEW p \in Procs, NEW after,
         job[p].at \in Unpointed => job[p].version \in spoilt, activated' = activated,
         RemoveNamespace(p, after) \/ RemoveSomeOfNamespace(p, after)
  PROVE  Provenance'
<1>1. PICK lost : Uproot(p, after, lost)
  BY DEF RemoveNamespace, RemoveSomeOfNamespace
<1>2. Beside(p) /\ spoilt \subseteq spoilt'
  BY <1>1, UprootShape
<1>3. \A v \in Versions : dirs'[v] \in {dirs[v], None}
  BY DEF RemoveNamespace, RemoveSomeOfNamespace, Nowhere
<1> QED
  BY <1>2, <1>3, ProvenanceStays

LEMMA ProvenanceInstall ==
  ASSUME Typed, Launchable, Provenance, NEW p \in Procs, Install(p)
  PROVE  Provenance'
<1> USE DEF At
<1> DEFINE v == job[p].version
<1>1. v \in Versions /\ job[p].at \in Working \cup Cleaning
  BY DEF Install, StatNamespace, MakeStaging, SnapshotPolicy, Extract, ClearDisplaced,
         SetAside, Place, DigestExecutable, WriteReceipt, RecordPolicy, Activate, Sweep,
         RestorePolicy, DiscardVersion, PutBack, Working, Cleaning, Typed, Carry
<1>2. ASSUME NEW place, Onward(p, place) PROVE Beside(p)
  BY <1>2 DEF Onward, Beside
<1>3. CASE StatNamespace(p) \/ MakeStaging(p) \/ SnapshotPolicy(p) \/ Extract(p)
           \/ ClearDisplaced(p) \/ Sweep(p)
  <2>1. /\ UNCHANGED <<dirs, activated, spoilt>> /\ job[p].at \notin Unpointed
        /\ \E place : Onward(p, place)
    BY <1>3, StatShape, GoShape, FaultedShape, SnapshotShape, MovedShape
    DEF StatNamespace, MakeStaging, SnapshotPolicy, Extract, ClearDisplaced, Sweep,
        disk, Unpointed
  <2> QED
    BY <1>2, <2>1, ProvenanceStays
<1>4. CASE SetAside(p)
  <2>1. /\ UNCHANGED <<activated, spoilt>> /\ job[p].at \notin Unpointed
        /\ dirs' \in {dirs, [dirs EXCEPT ![v] = None]}
        /\ \E place : Onward(p, place)
    BY <1>4, GoShape, MovedShape DEF SetAside, Unpointed
  <2>2. \A u \in Versions : dirs'[u] \in {dirs[u], None}
    BY <2>1 DEF Typed, TypeOK
  <2> QED
    BY <1>2, <2>1, <2>2, ProvenanceStays
<1>5. CASE Place(p)
  <2>1. UNCHANGED <<activated, spoilt>> /\ job[p].at \notin Unpointed
    BY <1>5 DEF Place, Unpointed
  <2>2. \A u \in Versions : u # v => dirs'[u] = dirs[u]
    BY <1>5 DEF Place, Typed, TypeOK
  <2>3. CASE Go(p, "digest")
    <3>1. Onward(p, "digest") /\ "digest" \in Unpointed
      BY <2>3, GoShape DEF Unpointed
    <3> QED
      BY <1>2, <2>1, <2>2, <3>1, ProvenanceStays DEF Onward
  <2>4. CASE (Go(p, "restore") \/ Faulted(p, "restore")) /\ UNCHANGED dirs
    BY <1>2, <2>1, <2>4, GoShape, FaultedShape, ProvenanceStays
  <2> QED
    BY <1>5, <2>3, <2>4 DEF Place
<1>6. CASE DigestExecutable(p) \/ WriteReceipt(p) \/ RecordPolicy(p) \/ RestorePolicy(p)
  <2>1. /\ activated' = activated /\ spoilt \subseteq spoilt'
        /\ \E place \in Unpointed : Onward(p, place)
    BY <1>6, GoShape, FaultedShape, DigestShape
    DEF DigestExecutable, WriteReceipt, RecordPolicy, RestorePolicy, Unpointed
  <2>2. \A u \in Versions : dirs'[u] # None => dirs[u] # None /\ dirs'[u].exe = dirs[u].exe
    BY <1>6
    DEF DigestExecutable, WriteReceipt, RecordPolicy, RestorePolicy, disk, Typed, TypeOK,
        Contents
  <2> QED
    BY <1>2, <2>1, <2>2, ProvenanceStays DEF Onward
<1>7. CASE Activate(p)
  <2>1. UNCHANGED dirs /\ job[p].at = "activate"
    BY <1>7 DEF Activate
  <2>2. CASE (Go(p, "restore") \/ Faulted(p, "restore")) /\ UNCHANGED <<activated, spoilt>>
    <3>1. Onward(p, "restore") /\ "restore" \in Unpointed
      BY <2>2, GoShape, FaultedShape DEF Unpointed
    <3> QED
      BY <1>2, <2>1, <2>2, <3>1, ProvenanceStays DEF Onward
  <2>3. CASE /\ Go(p, "sweep") /\ activated' = activated \cup {<<v, job[p].receipt>>}
             /\ spoilt' = IF job[p].shared THEN spoilt ELSE spoilt \ {v, "policy"}
    <3>1. Onward(p, "sweep")
      BY <2>3, GoShape
    <3>2. SUFFICES ASSUME NEW u \in Versions, dirs[u] # None, dirs[u].exe # None
                   PROVE  <<u, dirs[u].exe>> \in activated' \/ Unsettled(u)'
      BY <2>1 DEF Provenance
    <3>3. CASE <<u, dirs[u].exe>> \in activated
      BY <2>3, <3>3
    <3>4. CASE u = v /\ ~job[p].shared
      <4>1. Whole(dirs[v], job[p].receipt)
        BY <2>1, <3>4 DEF Launchable, OwnPlaced
      <4> QED
        BY <2>3, <3>4, <4>1 DEF Whole
    <3>5. CASE u = v /\ job[p].shared
      BY <1>1, <2>3, <3>5 DEF Launchable, SharedSpoilt, Unsettled
    <3>6. CASE u # v /\ u \in spoilt
      <4>1. u \in spoilt'
        BY <2>3, <3>6, StoreAssumption
      <4> QED
        BY <4>1 DEF Unsettled
    <3>7. ASSUME u # v, NEW q \in Procs, InstallsVersion(q, u), job[q].at \in Unpointed
          PROVE  Unsettled(u)'
      <4>1. job'[q] = job[q]
        BY <3>1, <3>7 DEF Onward, InstallsVersion
      <4> QED
        BY <3>7, <4>1 DEF Unsettled, InstallsVersion
    <3> QED
      BY <3>2, <3>3, <3>4, <3>5, <3>6, <3>7 DEF Provenance, Unsettled
  <2> QED
    BY <1>7, <2>2, <2>3 DEF Activate
<1>8. CASE DiscardVersion(p)
  <2>1. activated' = activated /\ spoilt' = spoilt \cup {v}
    BY <1>8 DEF DiscardVersion
  <2>2. \E place : Onward(p, place)
    BY <1>8, GoShape, FaultedShape DEF DiscardVersion
  <2>3. \A u \in Versions : u # v => dirs'[u] = dirs[u]
    BY <1>8 DEF DiscardVersion, Typed, TypeOK
  <2> QED
    BY <1>2, <2>1, <2>2, <2>3, ProvenanceStays
<1>9. CASE PutBack(p)
  <2>1. v \in spoilt /\ activated' = activated
    BY <1>9 DEF PutBack, Launchable, DiscardedSpoilt
  <2>2. CASE /\ Go(p, "failed") \/ Faulted(p, "failed")
             /\ UNCHANGED spoilt
             /\ \A u \in Versions : u # v => dirs'[u] = dirs[u]
    <3>1. Onward(p, "failed")
      BY <2>2, GoShape, FaultedShape
    <3> QED
      BY <1>2, <2>1, <2>2, <3>1, ProvenanceStays
  <2>3. CASE \E after : RemoveNamespace(p, after) \/ RemoveSomeOfNamespace(p, after)
    BY <2>1, <2>3, ProvenanceUproot
  <2> QED
    BY <1>9, <2>2, <2>3 DEF PutBack, Typed, TypeOK, disk
<1> QED
  BY <1>3, <1>4, <1>5, <1>6, <1>7, <1>8, <1>9 DEF Install

LEMMA ProvenanceStep == Typed /\ Launchable /\ Provenance /\ [Next]_vars => Provenance'
<1> SUFFICES ASSUME Typed, Launchable, Provenance, [Next]_vars PROVE Provenance'
  OBVIOUS
<1> USE DEF At
<1>1. CASE UNCHANGED vars
  BY <1>1 DEF Provenance, Unsettled, InstallsVersion, vars, disk
<1>2. ASSUME NEW p \in Procs, \A q \in Procs \ {p} : job'[q] = job[q] PROVE Beside(p)
  BY <1>2 DEF Beside
<1>3. ASSUME NEW p \in Procs, StartInstall(p) \/ UpdateOne(p) PROVE Provenance'
  <2>1. UNCHANGED <<dirs, activated>> /\ job[p].at \notin Unpointed
    BY <1>3 DEF StartInstall, UpdateOne, disk, Unpointed
  <2>2. ASSUME NEW o \in offered, NEW pins, Request(p, o[1], o[2], pins)
        PROVE  Beside(p) /\ spoilt \subseteq spoilt'
    BY <2>2, RequestShape
  <2>3. Go(p, "done") => Beside(p)
    BY <1>2, GoShape DEF Onward
  <2>4. Beside(p) /\ spoilt \subseteq spoilt'
    BY <1>3, <2>2, <2>3 DEF StartInstall, UpdateOne
  <2> QED
    BY <2>1, <2>4, ProvenanceStays
<1>4. ASSUME NEW p \in Procs, StartUpdate(p) \/ StartRemove(p) PROVE Provenance'
  <2>1. /\ UNCHANGED <<dirs, activated, spoilt>> /\ job[p].at \notin Unpointed
        /\ \A q \in Procs \ {p} : job'[q] = job[q]
    BY <1>4, GoShape DEF StartUpdate, StartRemove, disk, Unpointed, Onward
  <2> QED
    BY <1>2, <2>1, ProvenanceStays
<1>5. ASSUME NEW p \in Procs, Install(p) PROVE Provenance'
  BY <1>5, ProvenanceInstall
<1>6. ASSUME NEW p \in Procs, Remove(p) PROVE Provenance'
  <2>1. job[p].at \notin Unpointed /\ activated' = activated
    BY <1>6 DEF Remove, Unpointed
  <2>2. CASE Go(p, "failed") /\ UNCHANGED <<disk, spoilt>>
    <3>1. \A q \in Procs \ {p} : job'[q] = job[q]
      BY <2>2, GoShape DEF Onward
    <3> QED
      BY <1>2, <2>1, <2>2, <3>1, ProvenanceStays DEF disk
  <2> QED
    BY <1>6, <2>1, <2>2, ProvenanceUproot DEF Remove
<1>7. ASSUME NEW p \in Procs, Launch(p) PROVE Provenance'
  <2>1. job[p].at \notin Unpointed /\ UNCHANGED <<dirs, activated, spoilt>>
    BY <1>7, LaunchShape DEF disk, Unpointed
  <2> QED
    BY <1>7, <1>2, <2>1, LaunchShape, ProvenanceStays
<1>8. ASSUME NEW p \in Procs, End(p) PROVE Provenance'
  <2>1. job[p].at \notin Unpointed /\ UNCHANGED <<dirs, activated, spoilt>>
    BY <1>8 DEF End, Ending, disk, Unpointed
  <2> QED
    BY <1>8, <1>2, <2>1, ForgetShape, ProvenanceStays DEF End
<1>9. ASSUME NEW p \in Procs, Crash(p) PROVE Provenance'
  <2>1. /\ activated' = activated /\ spoilt \subseteq spoilt'
        /\ job[p].at \in Unpointed => job[p].version \in spoilt'
    BY <1>9 DEF Crash, Unpointed
  <2>2. \A u \in Versions : dirs'[u] # None => dirs[u] # None /\ dirs'[u].exe = dirs[u].exe
    BY <1>9 DEF Crash, Typed, TypeOK, Contents
  <2> QED
    BY <1>9, <1>2, <2>1, <2>2, ForgetShape, ProvenanceStays DEF Crash
<1>10. ASSUME NEW p \in Procs, CrashRemoving(p) PROVE Provenance'
  <2>1. activated' = activated /\ (job[p].at \in Unpointed => job[p].version \in spoilt)
    BY <1>10 DEF CrashRemoving, Launchable, DiscardedSpoilt, Unpointed
  <2> QED
    BY <1>10, <2>1, ProvenanceUproot DEF CrashRemoving
<1> QED
  BY <1>1, <1>3, <1>4, <1>5, <1>6, <1>7, <1>8, <1>9, <1>10 DEF Next

------------------------------------------------------------------------------
(* Launches: no step but Resolve's own changes what a launch has read. *)

Reading == {"verify", "check", "resolved", "launched"}

(* Whoever is reading after the step was reading the same before it. *)
Still ==
  \A q \in Procs : job'[q].at \in Reading =>
    /\ job'[q].at = job[q].at /\ job'[q].version = job[q].version
    /\ job'[q].build = job[q].build /\ job'[q].receipt = job[q].receipt
    /\ job'[q].shared = job[q].shared

LEMMA BecomesStill ==
  ASSUME Typed, NEW p \in Procs, NEW r, Becomes(p, r), r.at \notin Reading
  PROVE  Still
  BY DEF Typed, TypeOK, Becomes, Still

LEMMA GoStill ==
  ASSUME Typed, NEW p \in Procs, NEW place \in Places \ Reading, Go(p, place)
  PROVE  Still
  <1> DEFINE r == [job[p] EXCEPT !.at = place]
  <1>1. job[p] \in Jobs
    BY DEF Typed, TypeOK
  <1>2. r.at = place /\ Becomes(p, r)
    BY <1>1, MoveType DEF Go
  <1> HIDE DEF r
  <1> QED
    BY <1>2, BecomesStill

LEMMA FaultedStill ==
  ASSUME Typed, NEW p \in Procs, NEW place \in Places \ Reading, Faulted(p, place),
         job[p].at \in Working \cup Cleaning \cup {"remove"}
  PROVE  Still
  <1>1. Refused(p, place).at = place
    BY RefusedType
  <1> QED
    BY <1>1, BecomesStill DEF Faulted

LEMMA UprootStill ==
  ASSUME Typed, NEW p \in Procs, NEW after \in Jobs, after.at \notin Reading,
         NEW lost, Uproot(p, after, lost)
  PROVE  Still
  <1>1. \A q \in Procs :
          /\ [job[q] EXCEPT !.shared = TRUE].at = job[q].at
          /\ [job[q] EXCEPT !.shared = TRUE].version = job[q].version
          /\ [job[q] EXCEPT !.shared = TRUE].build = job[q].build
          /\ [job[q] EXCEPT !.shared = TRUE].receipt = job[q].receipt
    BY SetShared DEF Typed, TypeOK
  <1> QED
    BY <1>1 DEF Uproot, Still, Reading, Working, Cleaning

LEMMA RequestStill ==
  ASSUME Typed, NEW p \in Procs, NEW v, NEW b, NEW pins, Request(p, v, b, pins)
  PROVE  Still
  <1> DEFINE others == {q \in Procs \ {p} : InstallsVersion(q, v)}
             r == [NoJob EXCEPT !.at = "stat", !.version = v, !.build = b,
                                !.pins = pins, !.shared = others # {}]
  <1>1. job' = [q \in Procs |-> IF q = p THEN r
                                ELSE IF q \in others THEN [job[q] EXCEPT !.shared = TRUE]
                                ELSE job[q]]
    BY DEF Request
  <1>2. r.at = "stat"
    BY DEF NoJob
  <1>3. \A q \in Procs :
          /\ [job[q] EXCEPT !.shared = TRUE].at = job[q].at
          /\ [job[q] EXCEPT !.shared = TRUE].version = job[q].version
          /\ [job[q] EXCEPT !.shared = TRUE].build = job[q].build
          /\ [job[q] EXCEPT !.shared = TRUE].receipt = job[q].receipt
    BY SetShared DEF Typed, TypeOK
  <1>4. \A q \in others : job[q].at \notin Reading
    BY DEF InstallsVersion, Reading, Working, Cleaning
  <1> HIDE DEF others, r
  <1> QED
    BY <1>1, <1>2, <1>3, <1>4 DEF Still, Reading

LEMMA QuietStep ==
  ASSUME Activated, Still, activated \subseteq activated',
         active' # None => <<active'.version, active'.receipt>> \in activated'
  PROVE  Activated'
  BY DEF Activated, PointerActivated, ReadersHoldActivated, LaunchesOnlyActivated,
         At, Still, Reading

LEMMA InstallStill ==
  ASSUME Typed, NEW p \in Procs, Install(p)
  PROVE  Still
<1> USE DEF At, Places, Reading, Working, Cleaning, Ending
<1>1. job[p] \in Jobs
  BY DEF Typed, TypeOK
<1>2. CASE StatNamespace(p)
  <2>1. PICK fresh, faults :
          Becomes(p, [job[p] EXCEPT !.at = "stage", !.fresh = fresh,
                        !.faults = faults, !.before = Found(job[p].version)])
    BY <1>2 DEF StatNamespace
  <2>2. [job[p] EXCEPT !.at = "stage", !.fresh = fresh, !.faults = faults,
                       !.before = Found(job[p].version)].at = "stage"
    BY <1>1 DEF Jobs
  <2> QED
    BY <2>1, <2>2, BecomesStill
<1>3. CASE MakeStaging(p)
  BY <1>3, GoStill, FaultedStill DEF MakeStaging
<1>4. CASE SnapshotPolicy(p)
  <2> DEFINE k == Refused(p, "extract")
  <2>1. job[p].at = "snapshot"
    BY <1>4 DEF SnapshotPolicy
  <2>2. k.at = "extract" /\ k \in Jobs
    BY <2>1, RefusedType
  <2>3. \/ Becomes(p, [job[p] EXCEPT !.at = "extract", !.saved = policy])
        \/ Becomes(p, [k EXCEPT !.saved = Unread])
    BY <1>4 DEF SnapshotPolicy
  <2> HIDE DEF k
  <2>4. /\ [job[p] EXCEPT !.at = "extract", !.saved = policy].at = "extract"
        /\ [k EXCEPT !.saved = Unread].at = "extract"
    BY <1>1, <2>2 DEF Jobs
  <2> QED
    BY <2>3, <2>4, BecomesStill
<1>5. CASE Extract(p)
  BY <1>5, GoStill, FaultedStill DEF Extract
<1>6. CASE ClearDisplaced(p) \/ SetAside(p)
  <2> DEFINE k == Refused(p, "restore")
  <2>1. job[p].at \in {"clear", "aside"}
    BY <1>6 DEF ClearDisplaced, SetAside
  <2>2. k.at = "restore" /\ k \in Jobs
    BY <2>1, RefusedType
  <2>3. \/ Go(p, "place")
        \/ \E place \in {"aside", "restore"}, m \in BOOLEAN :
             Becomes(p, [job[p] EXCEPT !.at = place, !.moved = m])
        \/ \E m \in BOOLEAN : Becomes(p, [k EXCEPT !.moved = m])
    BY <1>6 DEF ClearDisplaced, SetAside
  <2> HIDE DEF k
  <2>4. ASSUME NEW m \in BOOLEAN, NEW place \in {"aside", "restore"}
        PROVE  /\ [job[p] EXCEPT !.at = place, !.moved = m].at = place
               /\ [k EXCEPT !.moved = m].at = "restore"
    BY <1>1, <2>2 DEF Jobs
  <2>5. CASE Go(p, "place")
    BY <2>5, GoStill
  <2>6. ASSUME NEW m \in BOOLEAN, NEW place \in {"aside", "restore"},
               Becomes(p, [job[p] EXCEPT !.at = place, !.moved = m])
        PROVE  Still
    BY <2>4, <2>6, BecomesStill
  <2>7. ASSUME NEW m \in BOOLEAN, Becomes(p, [k EXCEPT !.moved = m])
        PROVE  Still
    BY <2>4, <2>7, BecomesStill
  <2> QED
    BY <2>3, <2>5, <2>6, <2>7
<1>7. CASE Place(p)
  BY <1>7, GoStill, FaultedStill DEF Place
<1>8. CASE DigestExecutable(p)
  <2> DEFINE r == [job[p] EXCEPT !.at = "receipt", !.receipt = dirs[job[p].version].exe]
  <2>1. r.at = "receipt"
    BY <1>1 DEF Jobs
  <2>2. CASE Becomes(p, r)
    BY <2>1, <2>2, BecomesStill
  <2> QED
    BY <1>8, <2>2, GoStill, FaultedStill DEF DigestExecutable
<1>9. CASE WriteReceipt(p) \/ RecordPolicy(p) \/ Activate(p)
  BY <1>9, GoStill, FaultedStill DEF WriteReceipt, RecordPolicy, Activate
<1>10. CASE Sweep(p) \/ RestorePolicy(p) \/ DiscardVersion(p)
  BY <1>10, GoStill, FaultedStill DEF Sweep, RestorePolicy, DiscardVersion
<1>11. CASE PutBack(p)
  <2> DEFINE r == [job[p] EXCEPT !.at = "failed"]
             f == Refused(p, "failed")
  <2>1. job[p].at = "putback"
    BY <1>11 DEF PutBack
  <2>2. /\ r \in Jobs /\ r.at = "failed"
        /\ f \in Jobs /\ f.at = "failed"
    <3>1. r \in Jobs /\ r.at = "failed"
      BY <1>1, MoveType
    <3>2. f \in Jobs /\ f.at = "failed"
      BY <2>1, RefusedType
    <3> QED
      BY <3>1, <3>2
  <2>3. \/ Go(p, "failed") \/ Faulted(p, "failed")
        \/ \E lost : Uproot(p, r, lost) \/ Uproot(p, f, lost)
    BY <1>11 DEF PutBack, RemoveNamespace, RemoveSomeOfNamespace
  <2> HIDE DEF r, f
  <2> QED
    BY <2>1, <2>2, <2>3, GoStill, FaultedStill, UprootStill
<1> QED
  BY <1>2, <1>3, <1>4, <1>5, <1>6, <1>7, <1>8, <1>9, <1>10, <1>11 DEF Install

LEMMA RemoveStill ==
  ASSUME Typed, NEW p \in Procs, Remove(p)
  PROVE  Still
<1> USE DEF At, Places, Reading, Working, Cleaning, Ending
<1> DEFINE r == [job[p] EXCEPT !.at = "done"]
           f == Refused(p, "failed")
<1>1. job[p] \in Jobs /\ job[p].at = "remove"
  BY DEF Remove, Typed, TypeOK
<1>2. r \in Jobs /\ r.at = "done"
  BY <1>1, MoveType
<1>3. f \in Jobs /\ f.at = "failed"
  BY <1>1, RefusedType
<1>4. \/ Go(p, "failed")
      \/ \E lost : Uproot(p, r, lost) \/ Uproot(p, f, lost)
  BY DEF Remove, RemoveNamespace, RemoveSomeOfNamespace
<1> HIDE DEF r, f
<1> QED
  BY <1>1, <1>2, <1>3, <1>4, GoStill, UprootStill

(* The three reads of Resolve: each hop keeps the pair the pointer named. What
   is then started by its path is what Provenance says of the directory. *)
LEMMA LaunchActivated ==
  ASSUME Typed, Activated, Provenance, NEW p \in Procs, Launch(p)
  PROVE  Activated'
<1> USE DEF At, Activated, PointerActivated, ReadersHoldActivated, LaunchesOnlyActivated
<1>1. job \in [Procs -> Jobs] /\ job[p] \in Jobs /\ UNCHANGED <<active, activated>>
  BY DEF Typed, TypeOK, Launch, Execute, Resolve, ReadActive, ReadVerifiedReceipt,
         CheckExecutable, disk
<1>2. CASE ReadActive(p)
  <2> DEFINE r == [job[p] EXCEPT !.at = "verify", !.version = active.version,
                                 !.receipt = active.receipt]
  <2>1. /\ r.at = "verify" /\ r.version = active.version /\ r.receipt = active.receipt
        /\ active # None /\ job' = [job EXCEPT ![p] = r]
    BY <1>1, <1>2 DEF ReadActive, Becomes, Jobs
  <2> HIDE DEF r
  <2> QED
    BY <1>1, <2>1
<1>3. CASE ReadVerifiedReceipt(p) /\ ~Go(p, "refused")
  <2> DEFINE d == dirs[job[p].version]
             r == [job[p] EXCEPT !.at = "check", !.receipt = d.receipt]
  <2>1. /\ job[p].at = "verify" /\ d.receipt = job[p].receipt
        /\ job' = [job EXCEPT ![p] = r]
    BY <1>3 DEF ReadVerifiedReceipt, ReceiptMatches, Becomes
  <2>2. /\ r.at = "check" /\ r.version = job[p].version /\ r.receipt = job[p].receipt
    BY <1>1, <2>1 DEF Jobs
  <2> HIDE DEF r, d
  <2> QED
    BY <1>1, <2>1, <2>2
<1>4. CASE CheckExecutable(p) /\ ~Go(p, "refused")
  <2> DEFINE d == dirs[job[p].version]
             r == [job[p] EXCEPT !.at = "resolved", !.build = d.exe]
  <2>1. /\ job[p].at = "check" /\ d.exe = job[p].receipt
        /\ job' = [job EXCEPT ![p] = r]
    BY <1>4 DEF CheckExecutable, ExecutableMatches, Becomes
  <2>2. /\ r.at = "resolved" /\ r.version = job[p].version /\ r.build = job[p].receipt
        /\ r.receipt = job[p].receipt
    BY <1>1, <2>1 DEF Jobs
  <2> HIDE DEF r, d
  <2> QED
    BY <1>1, <2>1, <2>2
<1>5. CASE Execute(p) /\ ~Go(p, "refused")
  <2> DEFINE v == job[p].version
             d == dirs[v]
             u == Unsettled(v)
             r == [job[p] EXCEPT !.at = "launched", !.build = d.exe, !.shared = u]
  <2>1. /\ job[p].at = "resolved" /\ d # None /\ d.exe # None
        /\ job' = [job EXCEPT ![p] = r]
    BY <1>5 DEF Execute, Becomes
  <2>2. v \in Versions
    BY <2>1 DEF Typed, Carry
  <2>3. <<v, d.exe>> \in activated \/ u
    BY <2>1, <2>2 DEF Provenance
  <2> HIDE DEF u
  <2>4. r.at = "launched" /\ r.version = v /\ r.build = d.exe /\ r.shared = u
    BY <1>1 DEF Jobs
  <2> HIDE DEF r, d
  <2> QED
    BY <1>1, <2>1, <2>3, <2>4
<1>6. CASE Go(p, "refused")
  <2>1. Still
    BY <1>6, GoStill DEF Places, Reading, Ending
  <2> QED
    BY <1>1, <2>1, QuietStep
<1> QED
  BY <1>2, <1>3, <1>4, <1>5, <1>6 DEF Launch, Resolve

LEMMA ActivatedStep == Typed /\ Activated /\ Provenance /\ [Next]_vars => Activated'
<1> SUFFICES ASSUME Typed, Activated, Provenance, [Next]_vars PROVE Activated'
  OBVIOUS
<1>1. active # None => <<active.version, active.receipt>> \in activated
  BY DEF Activated, PointerActivated
<1>2. CASE UNCHANGED vars
  BY <1>2 DEF Activated, PointerActivated, ReadersHoldActivated, LaunchesOnlyActivated,
              At, vars, disk
<1>3. ASSUME NEW p \in Procs, StartInstall(p) \/ UpdateOne(p) PROVE Activated'
  <2>1. Still /\ UNCHANGED <<active, activated>>
    BY <1>3, RequestStill, GoStill
    DEF StartInstall, UpdateOne, disk, Places, Reading, Ending
  <2> QED
    BY <1>1, <2>1, QuietStep
<1>4. ASSUME NEW p \in Procs, StartUpdate(p) \/ StartRemove(p) PROVE Activated'
  <2>1. UNCHANGED <<active, activated>> /\ \E place \in Places \ Reading : Go(p, place)
    BY <1>4 DEF StartUpdate, StartRemove, disk, Places, Reading, Ending
  <2> QED
    BY <1>1, <2>1, GoStill, QuietStep
<1>5. ASSUME NEW p \in Procs, Install(p) PROVE Activated'
  <2>1. Still
    BY <1>5, InstallStill
  <2>2. CASE Activate(p)
    <3>1. /\ activated \subseteq activated'
          /\ active' # None => <<active'.version, active'.receipt>> \in activated'
      BY <1>1, <2>2 DEF Activate
    <3> QED
      BY <2>1, <3>1, QuietStep
  <2>3. CASE ~Activate(p)
    <3>1. activated' = activated /\ active' \in {active, None}
      BY <1>5, <2>3
      DEF Install, StatNamespace, MakeStaging, SnapshotPolicy, Extract, ClearDisplaced,
          SetAside, Place, DigestExecutable, WriteReceipt, RecordPolicy, Sweep,
          RestorePolicy, DiscardVersion, PutBack, RemoveNamespace,
          RemoveSomeOfNamespace, disk
    <3> QED
      BY <1>1, <2>1, <3>1, QuietStep
  <2> QED
    BY <2>2, <2>3
<1>6. ASSUME NEW p \in Procs, Remove(p) PROVE Activated'
  <2>1. activated' = activated /\ active' \in {active, None}
    BY <1>6 DEF Remove, RemoveNamespace, RemoveSomeOfNamespace, disk
  <2> QED
    BY <1>6, <1>1, <2>1, RemoveStill, QuietStep
<1>7. ASSUME NEW p \in Procs, Launch(p) PROVE Activated'
  BY <1>7, LaunchActivated
<1>8. ASSUME NEW p \in Procs, End(p) \/ Crash(p) PROVE Activated'
  <2>1. Becomes(p, NoJob) /\ UNCHANGED <<active, activated>>
    BY <1>8 DEF End, Crash, disk
  <2>2. Still
    BY <2>1, NoJobType, BecomesStill DEF Reading
  <2> QED
    BY <1>1, <2>1, <2>2, QuietStep
<1>9. ASSUME NEW p \in Procs, CrashRemoving(p) PROVE Activated'
  <2>1. /\ activated' = activated /\ active' \in {active, None}
        /\ \E lost : Uproot(p, NoJob, lost)
    BY <1>9 DEF CrashRemoving, RemoveSomeOfNamespace
  <2>2. Still
    BY <2>1, NoJobType, UprootStill DEF Reading
  <2> QED
    BY <1>1, <2>1, <2>2, QuietStep
<1> QED
  BY <1>2, <1>3, <1>4, <1>5, <1>6, <1>7, <1>8, <1>9 DEF Next

(* Resolve never lets through an executable that no install has activated,
   however many invocations rewrite the store between its three reads; and what
   is then run is activated too, unless its version was unsettled by an install
   when the process was started. *)
THEOREM OnlyActivatedLaunch == Spec => []LaunchesOnlyActivated
<1>1. Init => Activated /\ Provenance
  BY DEF Init, Activated, PointerActivated, ReadersHoldActivated, LaunchesOnlyActivated,
         Provenance, Nowhere, At, NoJob
<1>2. Activated => LaunchesOnlyActivated
  BY DEF Activated
<1> QED
  BY <1>1, <1>2, TypedInit, TypedStep, LaunchableInit, LaunchableStep, ProvenanceStep,
     ActivatedStep, PTL DEF Spec

------------------------------------------------------------------------------
(* RefusedOnlyByFault. An install whose version is its own and whose namespace
   stays finds it and its staging where it made them, and has been refused
   something by the time it cleans up, whatever an earlier failure or kill left
   behind and whatever other versions are being installed. *)

Undisturbed(p) ==
  LET j == job[p]
      v == job[p].version
  IN
  /\ j.at \in {"idle", "status", "remove"} => v = None
  /\ ~j.shared =>
       /\ j.at \in (Working \cup Cleaning) \ {"stat", "stage"} => here
       /\ j.at \in {"snapshot", "extract", "clear", "aside", "place"} => p \in staged
       /\ j.at = "aside" => dirs[v] # None /\ aside[v] = None
       /\ j.at = "place" => dirs[v] = None
       /\ j.at = "digest" => dirs[v] # None /\ dirs[v].exe # None
       /\ j.at = "receipt" => dirs[v] # None
       /\ j.at \in {"restore", "discard", "putback"} => j.faults # {}
       /\ j.at = "failed" /\ v \in Versions => j.faults # {}

LEMMA BuildsNamed == None \notin Builds /\ Torn \notin Builds /\ None \notin Versions
  BY StoreAssumption

LEMMA InstallShared ==
  ASSUME Typed, NEW p \in Procs, Install(p)
  PROVE  job'[p].shared = job[p].shared /\ job'[p].at \notin {"idle", "status", "remove"}
<1>1. CASE \E place \in Working \cup Cleaning \cup {"done", "failed"} : Onward(p, place)
  BY <1>1 DEF Onward, Working, Cleaning
<1>2. CASE RemoveNamespace(p, [job[p] EXCEPT !.at = "failed"])
  <2>1. job'[p] = [job[p] EXCEPT !.at = "failed"]
    BY <1>2, UprootShape DEF RemoveNamespace
  <2> QED
    BY <2>1 DEF Typed, TypeOK, Jobs
<1>3. CASE RemoveSomeOfNamespace(p, Refused(p, "failed"))
  <2>1. job'[p] = Refused(p, "failed")
    BY <1>3, UprootShape DEF RemoveSomeOfNamespace
  <2> QED
    BY <2>1 DEF Typed, TypeOK, Jobs, Refused
<1>4. CASE ~RemoveNamespace(p, [job[p] EXCEPT !.at = "failed"])
             /\ ~RemoveSomeOfNamespace(p, Refused(p, "failed"))
  <2>1. /\ {"stage", "snapshot", "extract", "clear", "aside", "place", "digest", "receipt",
            "policy", "activate"} \subseteq Working
        /\ Cleaning = {"sweep", "restore", "discard", "putback"}
    BY DEF Working, Cleaning
  <2> QED
    BY <1>1, <1>4, <2>1, StatShape, GoShape, FaultedShape, SnapshotShape, MovedShape, DigestShape
    DEF Install, StatNamespace, MakeStaging, SnapshotPolicy, Extract, ClearDisplaced,
        SetAside, Place, DigestExecutable, WriteReceipt, RecordPolicy, Activate, Sweep,
        RestorePolicy, DiscardVersion, PutBack
<1> QED
  BY <1>2, <1>3, <1>4

LEMMA UndisturbedInstall ==
  ASSUME Typed, NEW p \in Procs, Undisturbed(p), Install(p)
  PROVE  Undisturbed(p)'
<1> USE DEF At
<1>1. SUFFICES ASSUME ~job[p].shared PROVE Undisturbed(p)'
  BY InstallShared DEF Undisturbed
<1> DEFINE v == job[p].version
<1>2. v \in Versions /\ job[p].at \in Working \cup Cleaning
  BY DEF Install, StatNamespace, MakeStaging, SnapshotPolicy, Extract, ClearDisplaced,
         SetAside, Place, DigestExecutable, WriteReceipt, RecordPolicy, Activate, Sweep,
         RestorePolicy, DiscardVersion, PutBack, Working, Cleaning, Typed, Carry
<1>3. CASE StatNamespace(p)
  <2>1. Onward(p, "stage") /\ UNCHANGED disk
    BY <1>3, StatShape DEF StatNamespace
  <2> QED
    BY <2>1 DEF Undisturbed, Onward, disk
<1>4. CASE MakeStaging(p)
  <2>1. UNCHANGED <<dirs, aside, policy, active>> /\ job[p].at = "stage"
    BY <1>4 DEF MakeStaging
  <2>2. CASE here' = TRUE /\ staged' = staged \cup {p} /\ Go(p, "snapshot")
    BY <2>1, <2>2, GoShape DEF Undisturbed, Onward
  <2>3. CASE Faulted(p, "failed") /\ here' \in {here, TRUE}
    <3>1. Onward(p, "failed") /\ Spent(p)
      BY <2>3, FaultedShape
    <3>2. here => here'
      BY <2>3
    <3> QED
      BY <2>1, <3>1, <3>2 DEF Undisturbed, Onward, Spent, Working, Cleaning
  <2> QED
    BY <1>4, <2>2, <2>3 DEF MakeStaging
<1>5. CASE SnapshotPolicy(p)
  <2>1. Onward(p, "extract") /\ UNCHANGED disk /\ job[p].at = "snapshot"
    BY <1>5, SnapshotShape DEF SnapshotPolicy
  <2> QED
    BY <2>1 DEF Undisturbed, Onward, disk, Working
<1>6. CASE Extract(p)
  <2>1. UNCHANGED disk /\ job[p].at = "extract" /\ p \in staged
    BY <1>1, <1>6 DEF Extract, Undisturbed
  <2>2. CASE Go(p, "clear")
    BY <2>1, <2>2, GoShape DEF Undisturbed, Onward, disk, Working
  <2>3. CASE Faulted(p, "restore")
    BY <2>1, <2>3, FaultedShape DEF Undisturbed, Onward, Spent, disk, Working
  <2> QED
    BY <1>6, <2>1, <2>2, <2>3 DEF Extract
<1>7. CASE ClearDisplaced(p)
  <2>1. /\ UNCHANGED <<staged, dirs, policy, active>> /\ here' = TRUE
        /\ job[p].at = "clear" /\ p \in staged
    BY <1>1, <1>7 DEF ClearDisplaced, Undisturbed
  <2>2. CASE dirs[v] = None /\ Go(p, "place")
    BY <2>1, <2>2, GoShape DEF Undisturbed, Onward
  <2>3. CASE /\ dirs[v] # None /\ aside' = [aside EXCEPT ![v] = None]
             /\ Becomes(p, [job[p] EXCEPT !.at = "aside", !.moved = TRUE])
    <3>1. Onward(p, "aside") /\ aside'[v] = None
      BY <1>2, <2>3, MovedShape DEF Typed, TypeOK
    <3> QED
      BY <2>1, <2>3, <3>1 DEF Undisturbed, Onward
  <2>4. CASE Becomes(p, [Refused(p, "restore") EXCEPT !.moved = TRUE])
    <3>1. Onward(p, "restore") /\ Spent(p)
      BY <2>4, MovedShape
    <3> QED
      BY <2>1, <3>1 DEF Undisturbed, Onward, Spent
  <2> QED
    BY <1>7, <2>2, <2>3, <2>4 DEF ClearDisplaced
<1>8. CASE SetAside(p)
  <2>1. /\ UNCHANGED <<here, staged, policy, active>> /\ job[p].at = "aside"
        /\ dirs[v] # None /\ aside[v] = None /\ here /\ p \in staged
    BY <1>1, <1>8 DEF SetAside, Undisturbed, Working
  <2>2. CASE dirs' = [dirs EXCEPT ![v] = None] /\ Go(p, "place")
    <3>1. Onward(p, "place") /\ dirs'[v] = None
      BY <1>2, <2>2, GoShape DEF Typed, TypeOK
    <3> QED
      BY <2>1, <3>1 DEF Undisturbed, Onward
  <2>3. CASE Becomes(p, [Refused(p, "restore") EXCEPT !.moved = FALSE])
    <3>1. Onward(p, "restore") /\ Spent(p)
      BY <2>3, MovedShape
    <3> QED
      BY <2>1, <3>1 DEF Undisturbed, Onward, Spent
  <2> QED
    BY <1>8, <2>1, <2>2, <2>3 DEF SetAside
<1>9. CASE Place(p)
  <2>1. /\ UNCHANGED <<here, aside, policy, active>> /\ job[p].at = "place"
        /\ dirs[v] = None /\ here /\ p \in staged
    BY <1>1, <1>9 DEF Place, Undisturbed, Working
  <2>2. CASE /\ dirs' = [dirs EXCEPT ![v] = [exe |-> job[p].build, receipt |-> None]]
             /\ Go(p, "digest")
    <3>1. job[p].build \in Builds
      BY <2>1 DEF Typed, Carry, Working
    <3>2. Onward(p, "digest") /\ dirs'[v] = [exe |-> job[p].build, receipt |-> None]
      BY <1>2, <2>2, GoShape DEF Typed, TypeOK
    <3>3. dirs'[v] # None /\ dirs'[v].exe # None
      <4>1. [exe |-> job[p].build, receipt |-> None] \in Contents
        BY <3>1 DEF Contents
      <4> QED
        BY <3>1, <3>2, <4>1, BuildsNamed, EntryAssumption
    <3> QED
      BY <2>1, <3>2, <3>3 DEF Undisturbed, Onward
  <2>3. CASE Faulted(p, "restore") /\ UNCHANGED <<dirs, staged>>
    BY <2>1, <2>3, FaultedShape DEF Undisturbed, Onward, Spent
  <2> QED
    BY <1>9, <2>1, <2>2, <2>3 DEF Place
<1>10. CASE DigestExecutable(p)
  <2>1. /\ UNCHANGED disk /\ job[p].at = "digest" /\ here
        /\ dirs[v] # None /\ dirs[v].exe # None
    BY <1>1, <1>10 DEF DigestExecutable, Undisturbed, Working
  <2>2. CASE Becomes(p, [job[p] EXCEPT !.at = "receipt", !.receipt = dirs[v].exe])
    <3>1. Onward(p, "receipt")
      BY <2>2, DigestShape
    <3> QED
      BY <2>1, <3>1 DEF Undisturbed, Onward, disk
  <2>3. CASE Faulted(p, "restore")
    BY <2>1, <2>3, FaultedShape DEF Undisturbed, Onward, Spent, disk
  <2> QED
    BY <1>10, <2>1, <2>2, <2>3 DEF DigestExecutable
<1>11. CASE WriteReceipt(p)
  <2>1. /\ UNCHANGED <<here, staged, aside, policy, active>> /\ job[p].at = "receipt" /\ here
        /\ dirs[v] # None
    BY <1>1, <1>11 DEF WriteReceipt, Undisturbed, Working
  <2>2. CASE Go(p, "policy")
    BY <2>1, <2>2, GoShape DEF Undisturbed, Onward
  <2>3. CASE Faulted(p, "restore")
    BY <2>1, <2>3, FaultedShape DEF Undisturbed, Onward, Spent
  <2> QED
    BY <1>11, <2>1, <2>2, <2>3 DEF WriteReceipt
<1>12. CASE RecordPolicy(p) \/ Activate(p)
  <2>1. /\ UNCHANGED <<here, staged, dirs, aside>> /\ here
    BY <1>1, <1>12 DEF RecordPolicy, Activate, Undisturbed, Working
  <2>2. CASE Go(p, "activate") \/ Go(p, "sweep")
    BY <2>1, <2>2, GoShape DEF Undisturbed, Onward
  <2>3. CASE Faulted(p, "restore")
    BY <2>1, <2>3, FaultedShape DEF Undisturbed, Onward, Spent
  <2> QED
    BY <1>12, <2>1, <2>2, <2>3 DEF RecordPolicy, Activate
<1>13. CASE Sweep(p)
  <2>1. /\ UNCHANGED <<here, staged, dirs, policy, active>> /\ Onward(p, "done")
    BY <1>13, GoShape, FaultedShape DEF Sweep
  <2> QED
    BY <2>1 DEF Undisturbed, Onward, Working, Cleaning
<1>14. CASE RestorePolicy(p) \/ DiscardVersion(p)
  <2>1. /\ UNCHANGED <<here, aside, active>> /\ here /\ job[p].faults # {}
    BY <1>1, <1>14 DEF RestorePolicy, DiscardVersion, Undisturbed, Cleaning
  <2>2. PICK place \in {"discard", "putback"} : Go(p, place) \/ Faulted(p, place)
    BY <1>14 DEF RestorePolicy, DiscardVersion
  <2>3. Onward(p, place) /\ (Spent(p) \/ Spared(p))
    BY <2>2, GoShape, FaultedShape
  <2> QED
    BY <2>1, <2>3 DEF Undisturbed, Onward, Spent, Spared
<1>15. CASE PutBack(p)
  <2>1. job[p].at = "putback" /\ here /\ job[p].faults # {}
    BY <1>1, <1>15 DEF PutBack, Undisturbed, Cleaning
  <2>2. CASE (Go(p, "failed") \/ Faulted(p, "failed")) /\ here' = here
    <3>1. Onward(p, "failed") /\ (Spent(p) \/ Spared(p))
      BY <2>2, GoShape, FaultedShape
    <3> QED
      BY <2>1, <2>2, <3>1 DEF Undisturbed, Onward, Spent, Spared, Working, Cleaning
  <2>3. CASE RemoveNamespace(p, [job[p] EXCEPT !.at = "failed"])
    <3>1. job'[p] = [job[p] EXCEPT !.at = "failed"]
      BY <2>3, UprootShape DEF RemoveNamespace
    <3>2. job'[p].at = "failed" /\ job'[p].faults # {}
      BY <2>1, <3>1 DEF Typed, TypeOK, Jobs
    <3> QED
      BY <2>3, <3>2 DEF RemoveNamespace, Undisturbed, Working, Cleaning
  <2>4. CASE RemoveSomeOfNamespace(p, Refused(p, "failed"))
    <3>1. job'[p] = Refused(p, "failed")
      BY <2>4, UprootShape DEF RemoveSomeOfNamespace
    <3>2. job'[p].at = "failed" /\ job'[p].faults # {}
      BY <2>1, <3>1 DEF Typed, TypeOK, Jobs, Refused
    <3> QED
      BY <2>1, <2>4, <3>2 DEF RemoveSomeOfNamespace, Undisturbed, Working, Cleaning
  <2> QED
    BY <1>15, <2>2, <2>3, <2>4 DEF PutBack, disk
<1> QED
  BY <1>3, <1>4, <1>5, <1>6, <1>7, <1>8, <1>9, <1>10, <1>11, <1>12, <1>13, <1>14, <1>15
  DEF Install

(* What a step of one invocation leaves alone of the others and their versions. *)
Aloof(q) ==
  /\ \A r \in Procs \ {q} : job'[r] = job[r]
  /\ here => here'
  /\ \A r \in Procs \ {q} : r \in staged => r \in staged'
  /\ \A u \in Versions : u # job[q].version => dirs'[u] = dirs[u] /\ aside'[u] = aside[u]

LEMMA InstallAloof ==
  ASSUME Typed, NEW q \in Procs, Install(q)
  PROVE  Aloof(q) \/ \E after, lost : Uproot(q, after, lost)
<1> SUFFICES ASSUME \A after, lost : ~Uproot(q, after, lost) PROVE Aloof(q)
  OBVIOUS
<1>1. \E place : Onward(q, place)
  BY StatShape, GoShape, FaultedShape, SnapshotShape, MovedShape, DigestShape
  DEF Install, StatNamespace, MakeStaging, SnapshotPolicy, Extract, ClearDisplaced,
      SetAside, Place, DigestExecutable, WriteReceipt, RecordPolicy, Activate, Sweep,
      RestorePolicy, DiscardVersion, PutBack, RemoveNamespace, RemoveSomeOfNamespace
<1>2. \A r \in Procs \ {q} : job'[r] = job[r]
  BY <1>1 DEF Onward
<1>3. (here => here') /\ \A r \in Procs \ {q} : r \in staged => r \in staged'
  <2>1. CASE PutBack(q)
    BY <2>1 DEF PutBack, RemoveNamespace, RemoveSomeOfNamespace, disk
  <2>2. CASE ~PutBack(q)
    <3>1. here' \in {here, TRUE} /\ staged' \in {staged, staged \ {q}, staged \cup {q}}
      BY <2>2
      DEF Install, StatNamespace, MakeStaging, SnapshotPolicy, Extract, ClearDisplaced,
          SetAside, Place, DigestExecutable, WriteReceipt, RecordPolicy, Activate, Sweep,
          RestorePolicy, DiscardVersion, disk
    <3>2. here => here'
      BY <3>1 DEF Typed, TypeOK
    <3>3. \A r \in Procs \ {q} : r \in staged => r \in staged'
      BY <3>1
    <3> QED
      BY <3>2, <3>3
  <2> QED
    BY <2>1, <2>2
<1>4. \A u \in Versions : u # job[q].version => dirs'[u] = dirs[u] /\ aside'[u] = aside[u]
  BY DEF Install, StatNamespace, MakeStaging, SnapshotPolicy, Extract, ClearDisplaced,
      SetAside, Place, DigestExecutable, WriteReceipt, RecordPolicy, Activate, Sweep,
      RestorePolicy, DiscardVersion, PutBack, RemoveNamespace, RemoveSomeOfNamespace, disk,
      Typed, TypeOK
<1> QED
  BY <1>2, <1>3, <1>4 DEF Aloof

(* A step of another invocation. *)
LEMMA UndisturbedBeside ==
  ASSUME Typed, OverlapShared, NEW p \in Procs, NEW q \in Procs \ {p}, Undisturbed(p),
         \/ Aloof(q) /\ (job[q].at \in Working \cup Cleaning \/ UNCHANGED disk)
         \/ \E after, lost : Uproot(q, after, lost)
  PROVE  Undisturbed(p)'
<1>1. CASE Aloof(q) /\ (job[q].at \in Working \cup Cleaning \/ UNCHANGED disk)
  <2>1. job'[p] = job[p]
    BY <1>1 DEF Aloof
  <2>2. CASE job[p].at \in Working \cup Cleaning /\ ~job[p].shared
    <3>1. job[p].version \in Versions
      BY <2>2 DEF Typed, Carry
    <3>2. UNCHANGED disk \/ job[q].version # job[p].version
      BY <1>1, <2>2 DEF OverlapShared, InstallsVersion
    <3> QED
      BY <1>1, <2>1, <2>2, <3>1, <3>2 DEF Aloof, Undisturbed, disk
  <2> QED
    BY <2>1, <2>2 DEF Undisturbed, Working, Cleaning
<1>2. ASSUME NEW after, NEW lost, Uproot(q, after, lost) PROVE Undisturbed(p)'
  <2>1. /\ job'[p].at = job[p].at /\ job'[p].version = job[p].version
        /\ job[p].at \in Working \cup Cleaning => job'[p].shared
        /\ job[p].at \notin Working \cup Cleaning => job'[p] = job[p]
    BY <1>2, UprootShape DEF Beside
  <2> QED
    BY <2>1 DEF Undisturbed, Working, Cleaning
<1> QED
  BY <1>1, <1>2

LEMMA UndisturbedStep ==
  ASSUME Typed, OverlapShared, NEW p \in Procs, Undisturbed(p), [Next]_vars
  PROVE  Undisturbed(p)'
<1> USE DEF At
<1>1. CASE UNCHANGED vars
  BY <1>1 DEF Undisturbed, vars, disk
<1>2. ASSUME NEW q \in Procs, q # p, \A r \in Procs \ {q} : job'[r] = job[r],
                  UNCHANGED disk
           PROVE  Undisturbed(p)'
  BY <1>2, UndisturbedBeside DEF Aloof, disk
<1>3. ASSUME NEW q \in Procs, q # p, NEW after, NEW lost, Uproot(q, after, lost)
           PROVE  Undisturbed(p)'
  BY <1>3, UndisturbedBeside
<1>4. ASSUME NEW q \in Procs, StartInstall(q) \/ UpdateOne(q) PROVE Undisturbed(p)'
  <2>1. UNCHANGED disk
    BY <1>4 DEF StartInstall, UpdateOne
  <2>2. ASSUME NEW o \in offered, NEW pins, Request(q, o[1], o[2], pins)
        PROVE  Undisturbed(p)'
    <3> DEFINE v == o[1]
    <3>1. /\ job'[q].at = "stat" /\ Beside(q)
          /\ \A r \in Procs \ {q} : InstallsVersion(r, v) => job'[r].shared
          /\ \A r \in Procs \ {q} : ~InstallsVersion(r, v) => job'[r] = job[r]
      BY <2>2, RequestShape
    <3> HIDE DEF v
    <3>2. CASE q = p
      <4>1. job'[p].at = "stat"
        BY <3>1, <3>2
      <4> QED
        BY <4>1 DEF Undisturbed, Working, Cleaning
    <3>3. CASE q # p /\ InstallsVersion(p, v)
      <4>1. job'[p].shared /\ job'[p].at = job[p].at
        BY <3>1, <3>3 DEF Beside
      <4> QED
        BY <3>3, <4>1 DEF Undisturbed, InstallsVersion, Working, Cleaning
    <3>4. CASE q # p /\ ~InstallsVersion(p, v)
      <4>1. job'[p] = job[p]
        BY <3>1, <3>4
      <4> QED
        BY <2>1, <4>1 DEF Undisturbed, disk
    <3> QED
      BY <3>2, <3>3, <3>4
  <2>3. CASE Go(q, "done")
    <3>1. Onward(q, "done")
      BY <2>3, GoShape
    <3>2. CASE q = p
      BY <3>1, <3>2 DEF Onward, Undisturbed, Working, Cleaning
    <3> QED
      BY <1>2, <2>1, <3>1, <3>2 DEF Onward
  <2> QED
    BY <1>4, <2>2, <2>3 DEF StartInstall, UpdateOne
<1>5. ASSUME NEW q \in Procs, StartUpdate(q) \/ StartRemove(q) PROVE Undisturbed(p)'
  <2>1. /\ UNCHANGED disk /\ job[q].at = "idle"
        /\ \E place \in {"done", "status", "remove"} : Onward(q, place)
    BY <1>5, GoShape DEF StartUpdate, StartRemove
  <2>2. CASE q = p
    BY <2>1, <2>2 DEF Onward, Undisturbed, Working, Cleaning
  <2> QED
    BY <1>2, <2>1, <2>2 DEF Onward
<1>6. ASSUME NEW q \in Procs, Install(q) PROVE Undisturbed(p)'
  <2>1. CASE q = p
    BY <1>6, <2>1, UndisturbedInstall
  <2>2. CASE q # p
    <3>1. job[q].at \in Working \cup Cleaning
      BY <1>6
      DEF Install, StatNamespace, MakeStaging, SnapshotPolicy, Extract, ClearDisplaced,
          SetAside, Place, DigestExecutable, WriteReceipt, RecordPolicy, Activate, Sweep,
          RestorePolicy, DiscardVersion, PutBack, Working, Cleaning
    <3> QED
      BY <1>6, <2>2, <3>1, InstallAloof, UndisturbedBeside
  <2> QED
    BY <2>1, <2>2
<1>7. ASSUME NEW q \in Procs, Remove(q) PROVE Undisturbed(p)'
  <2>1. /\ job[q].at = "remove"
        /\ \/ Go(q, "failed") /\ UNCHANGED disk
           \/ RemoveNamespace(q, [job[q] EXCEPT !.at = "done"])
           \/ RemoveSomeOfNamespace(q, Refused(q, "failed"))
    BY <1>7 DEF Remove
  <2>2. CASE q # p
    BY <1>2, <1>3, <2>1, <2>2, GoShape
    DEF Onward, RemoveNamespace, RemoveSomeOfNamespace
  <2>3. CASE q = p
    <3>1. job'[p].at \in {"done", "failed"} /\ job'[p].version = job[p].version
      BY <2>1, <2>3, GoShape, AfterShape DEF Onward
    <3>2. job[p].version = None
      BY <2>1, <2>3 DEF Undisturbed
    <3> QED
      BY <3>1, <3>2, BuildsNamed DEF Undisturbed, Working, Cleaning
  <2> QED
    BY <2>2, <2>3
<1>8. ASSUME NEW q \in Procs, Launch(q) PROVE Undisturbed(p)'
  <2>1. CASE q = p
    <3>1. job'[p].at \in {"verify", "check", "resolved", "launched", "refused"}
      BY <1>8, <2>1, LaunchShape
    <3> QED
      BY <3>1 DEF Undisturbed, Working, Cleaning
  <2> QED
    BY <1>8, <1>2, <2>1, LaunchShape
<1>9. ASSUME NEW q \in Procs, End(q) PROVE Undisturbed(p)'
  <2>1. UNCHANGED disk /\ Becomes(q, NoJob)
    BY <1>9 DEF End
  <2>2. CASE q = p
    BY <2>1, <2>2, ForgetShape DEF Undisturbed, Working, Cleaning
  <2> QED
    BY <1>2, <2>1, <2>2, ForgetShape
<1>10. ASSUME NEW q \in Procs, Crash(q) PROVE Undisturbed(p)'
  <2>1. Becomes(q, NoJob) /\ job[q].at \in Working \cup Cleaning
    BY <1>10 DEF Crash
  <2>2. CASE q = p
    BY <2>1, <2>2, ForgetShape DEF Undisturbed, Working, Cleaning
  <2>3. CASE q # p
    <3>1. \A r \in Procs \ {q} : job'[r] = job[r]
      BY <2>1, ForgetShape
    <3>2. /\ here' = here /\ aside' = aside /\ staged' = staged \ {q}
          /\ \A u \in Versions : u # job[q].version => dirs'[u] = dirs[u]
      BY <1>10 DEF Crash, Typed, TypeOK
    <3>3. Aloof(q)
      BY <3>1, <3>2 DEF Aloof
    <3> QED
      BY <2>1, <2>3, <3>3, UndisturbedBeside
  <2> QED
    BY <2>2, <2>3
<1>11. ASSUME NEW q \in Procs, CrashRemoving(q) PROVE Undisturbed(p)'
  <2>1. RemoveSomeOfNamespace(q, NoJob)
    BY <1>11 DEF CrashRemoving
  <2>2. CASE q = p
    <3>1. job'[p] = NoJob
      BY <2>1, <2>2, UprootShape DEF RemoveSomeOfNamespace
    <3> QED
      BY <3>1 DEF NoJob, Undisturbed, Working, Cleaning
  <2> QED
    BY <1>3, <2>1, <2>2 DEF RemoveSomeOfNamespace
<1> QED
  BY <1>1, <1>4, <1>5, <1>6, <1>7, <1>8, <1>9, <1>10, <1>11 DEF Next

LEMMA UndisturbedInit == ASSUME NEW p \in Procs, Init PROVE Undisturbed(p)
  BY DEF Init, Undisturbed, NoJob, Working, Cleaning

(* However many invocations use the store, an install whose version no other
   installs meanwhile, and under which the namespace is not removed, fails only
   when the filesystem refuses it something: no earlier failure, kill or
   half-removed namespace is in its way, nor is the install of another version. *)
THEOREM AloneFailsOnlyByFault == Spec => []RefusedOnlyByFault
<1> DEFINE Inv == \A p \in Procs : Undisturbed(p)
<1>1. Init => Inv
  BY UndisturbedInit
<1>2. Typed /\ Launchable /\ Inv /\ [Next]_vars => Inv'
  BY UndisturbedStep DEF Launchable
<1>3. Inv => RefusedOnlyByFault
  BY DEF Undisturbed, RefusedOnlyByFault
<1> QED
  BY <1>1, <1>2, <1>3, TypedInit, TypedStep, LaunchableInit, LaunchableStep, PTL DEF Spec

------------------------------------------------------------------------------
(* One invocation alone in the store: p, in every lemma from here on. Nobody
   shares its versions or takes the namespace from under it. *)

Empty ==
  ~here => /\ staged = {} /\ dirs = Nowhere /\ aside = Nowhere
           /\ policy = None /\ active = None

Lone(p) ==
  /\ job[p].at \in Working \cup Cleaning => ~job[p].shared
  /\ job[p].at = "remove" => here

Unhindered(p) == Empty /\ Undisturbed(p) /\ Lone(p)

LEMMA UnhinderedFinds ==
  ASSUME NEW p \in Procs, Unhindered(p)
  PROVE  /\ ~here => dirs = Nowhere /\ policy = None /\ active = None
         /\ job[p].at \in (Working \cup Cleaning \cup {"remove"}) \ {"stat", "stage"} => here
         /\ job[p].at = "aside" => dirs[job[p].version] # None
  BY DEF Unhindered, Empty, Undisturbed, Lone, Working

LEMMA EmptyStep == Typed /\ Empty /\ [Next]_vars => Empty'
<1> SUFFICES ASSUME Typed, Empty, [Next]_vars, ~here' PROVE Empty'
  BY DEF Empty
<1> USE DEF At
<1>1. CASE UNCHANGED disk
  BY <1>1 DEF Empty, disk
<1>2. CASE \E p \in Procs : \E after : RemoveNamespace(p, after)
  BY <1>2 DEF RemoveNamespace, Empty
<1>3. CASE here /\ ~UNCHANGED disk /\ ~\E p \in Procs : \E after : RemoveNamespace(p, after)
  BY <1>3
  DEF Next, StartInstall, UpdateOne, StartUpdate, StartRemove, Remove, Launch, Resolve,
      ReadActive, ReadVerifiedReceipt, CheckExecutable, Execute, End, Crash, CrashRemoving,
      Install, StatNamespace, MakeStaging, SnapshotPolicy, Extract, ClearDisplaced,
      SetAside, Place, DigestExecutable, WriteReceipt, RecordPolicy, Activate, Sweep,
      RestorePolicy, DiscardVersion, PutBack, RemoveSomeOfNamespace, vars
<1>4. CASE ~here /\ ~UNCHANGED disk /\ ~\E p \in Procs : \E after : RemoveNamespace(p, after)
  <2>1. /\ staged = {} /\ policy = None /\ active = None
        /\ \A v \in Versions : dirs[v] = None /\ aside[v] = None
    BY <1>4 DEF Empty, Nowhere
  <2>2. SUFFICES /\ staged' = {} /\ policy' = None /\ active' = None
                 /\ dirs' = Nowhere /\ aside' = Nowhere
    BY DEF Empty
  <2>3. SUFFICES ASSUME NEW p \in Procs, Install(p) \/ Crash(p)
                 PROVE  /\ staged' = {} /\ policy' = None /\ active' = None
                        /\ dirs' = Nowhere /\ aside' = Nowhere
    BY <1>4
    DEF Next, StartInstall, UpdateOne, StartUpdate, StartRemove, Remove, Launch, Resolve,
        ReadActive, ReadVerifiedReceipt, CheckExecutable, Execute, End, CrashRemoving, vars,
        disk
  <2>4. job[p].version \in Versions
    BY <2>3
    DEF Install, Crash, StatNamespace, MakeStaging, SnapshotPolicy, Extract, ClearDisplaced,
        SetAside, Place, DigestExecutable, WriteReceipt, RecordPolicy, Activate, Sweep,
        RestorePolicy, DiscardVersion, PutBack, Working, Cleaning, Typed, Carry
  <2>5. Remains(None) = {None}
    BY DEF Remains
  <2>6. staged' = {} /\ policy' = None
    BY <1>4, <2>1, <2>3
    DEF Install, Crash, StatNamespace, MakeStaging, SnapshotPolicy, Extract, ClearDisplaced,
        SetAside, Place, DigestExecutable, WriteReceipt, RecordPolicy, Activate, Sweep,
        RestorePolicy, DiscardVersion, PutBack, RemoveSomeOfNamespace, disk
  <2>7. active' = None
    BY <1>4, <2>1, <2>3
    DEF Install, Crash, StatNamespace, MakeStaging, SnapshotPolicy, Extract, ClearDisplaced,
        SetAside, Place, DigestExecutable, WriteReceipt, RecordPolicy, Activate, Sweep,
        RestorePolicy, DiscardVersion, PutBack, RemoveSomeOfNamespace, disk
  <2>8. dirs' = Nowhere
    <3>1. dirs = Nowhere
      BY <1>4 DEF Empty
    <3>2. \A v \in Versions : [Nowhere EXCEPT ![v] = None] = Nowhere
      BY DEF Nowhere
    <3>3. [v \in Versions |-> None] = Nowhere
      BY DEF Nowhere
    <3>4. CASE PutBack(p)
      <4>1. dirs' = dirs \/ RemoveSomeOfNamespace(p, Refused(p, "failed"))
        BY <1>4, <2>1, <2>4, <3>4 DEF PutBack, disk
      <4>2. RemoveSomeOfNamespace(p, Refused(p, "failed")) => dirs' = Nowhere
        BY <2>1 DEF RemoveSomeOfNamespace, Nowhere
      <4> QED
        BY <3>1, <4>1, <4>2
    <3>5. CASE DiscardVersion(p)
      <4>1. dirs' = [dirs EXCEPT ![job[p].version] = None]
        BY <2>1, <2>4, <2>5, <3>5 DEF DiscardVersion
      <4> QED
        BY <2>4, <3>1, <3>2, <4>1
    <3>6. CASE ~PutBack(p) /\ ~DiscardVersion(p)
      BY <1>4, <2>1, <2>3, <2>4, <3>1, <3>6
      DEF Install, Crash, StatNamespace, MakeStaging, SnapshotPolicy, Extract,
          ClearDisplaced, SetAside, Place, DigestExecutable, WriteReceipt, RecordPolicy,
          Activate, Sweep, RestorePolicy, disk
    <3> QED
      BY <3>4, <3>5, <3>6
  <2>9. aside' = Nowhere
    <3>1. aside = Nowhere
      BY <1>4 DEF Empty
    <3>2. [aside EXCEPT ![job[p].version] = None] = Nowhere
      BY <2>4, <3>1 DEF Nowhere
    <3>3. CASE Sweep(p)
      <4>1. aside' \in {aside, [aside EXCEPT ![job[p].version] = None]}
        BY <2>1, <2>4, <2>5, <3>3 DEF Sweep
      <4> QED
        BY <3>1, <3>2, <4>1
    <3>4. CASE ~Sweep(p)
      BY <1>4, <2>1, <2>3, <2>4, <3>1, <3>4
      DEF Install, Crash, StatNamespace, MakeStaging, SnapshotPolicy, Extract,
          ClearDisplaced, SetAside, Place, DigestExecutable, WriteReceipt, RecordPolicy,
          Activate, RestorePolicy, DiscardVersion, PutBack, RemoveSomeOfNamespace,
          disk
    <3> QED
      BY <3>3, <3>4
  <2> QED
    BY <2>6, <2>7, <2>8, <2>9
<1> QED
  BY <1>1, <1>2, <1>3, <1>4

LEMMA LoneStep ==
  ASSUME Typed, NEW p \in Procs, Procs = {p}, Empty, Undisturbed(p), Lone(p), [Next]_vars
  PROVE  Lone(p)'
<1> USE DEF At
<1>1. CASE UNCHANGED vars
  BY <1>1 DEF Lone, vars, disk
<1>2. CASE StartInstall(p) \/ UpdateOne(p)
  <2>1. ASSUME NEW o \in offered, NEW pins, Request(p, o[1], o[2], pins)
        PROVE  Lone(p)'
    <3> DEFINE r == [NoJob EXCEPT !.at = "stat", !.version = o[1], !.build = o[2],
                                  !.pins = pins, !.shared = FALSE]
    <3>1. job'[p] = r
      BY <2>1 DEF Request
    <3>2. r.at = "stat" /\ r.shared = FALSE
      BY DEF NoJob
    <3> HIDE DEF r
    <3> QED
      BY <3>1, <3>2 DEF Lone
  <2>2. CASE Go(p, "done")
    BY <2>2, GoShape DEF Lone, Onward, Working, Cleaning
  <2> QED
    BY <1>2, <2>1, <2>2 DEF StartInstall, UpdateOne
<1>3. CASE StartUpdate(p) \/ StartRemove(p)
  <2>1. /\ job'[p].at = "remove" => here'
        /\ job'[p].at \in {"done", "status", "remove"}
    BY <1>3, GoShape DEF StartUpdate, StartRemove, Onward, disk
  <2> QED
    BY <2>1 DEF Lone, Working, Cleaning
<1>4. CASE Install(p)
  <2>1. job'[p].shared = job[p].shared /\ job'[p].at # "remove"
    BY <1>4, InstallShared
  <2>2. job[p].at \in Working \cup Cleaning
    BY <1>4
    DEF Install, StatNamespace, MakeStaging, SnapshotPolicy, Extract, ClearDisplaced,
        SetAside, Place, DigestExecutable, WriteReceipt, RecordPolicy, Activate, Sweep,
        RestorePolicy, DiscardVersion, PutBack, Working, Cleaning
  <2> QED
    BY <2>1, <2>2 DEF Lone
<1>5. CASE Remove(p)
  <2>1. job'[p].at \in {"done", "failed"}
    BY <1>5, GoShape, AfterShape DEF Remove, Onward
  <2> QED
    BY <2>1 DEF Lone, Working, Cleaning
<1>6. CASE Launch(p)
  BY <1>6, LaunchShape DEF Lone, Working, Cleaning
<1>7. CASE End(p) \/ Crash(p)
  BY <1>7, ForgetShape DEF End, Crash, Lone, Working, Cleaning
<1>8. CASE CrashRemoving(p)
  <2>1. job'[p] = NoJob
    BY <1>8, UprootShape DEF CrashRemoving, RemoveSomeOfNamespace
  <2> QED
    BY <2>1, NoJobType DEF Lone, Working, Cleaning
<1> QED
  BY <1>1, <1>2, <1>3, <1>4, <1>5, <1>6, <1>7, <1>8 DEF Next

LEMMA UnhinderedStep ==
  ASSUME Typed, Launchable, NEW p \in Procs, Procs = {p}, Unhindered(p), [Next]_vars
  PROVE  Unhindered(p)'
  BY EmptyStep, UndisturbedStep, LoneStep DEF Unhindered, Launchable

LEMMA UnhinderedInit == ASSUME NEW p \in Procs, Init PROVE Unhindered(p)
  BY UndisturbedInit DEF Init, Unhindered, Empty, Lone, NoJob, Working, Cleaning

------------------------------------------------------------------------------
(* PinIsActive. What a policy pins is what the pointer names, in the file and
   in what an install remembers of it, unless the install is between writing
   the one and the other, or was cut short there. *)

PinGood(pinned) ==
  (pinned \in Versions /\ "policy" \notin spoilt) => (active # None /\ active.version = pinned)

Remembering == {"extract", "clear", "aside", "place", "digest", "receipt", "policy",
                "activate", "restore"}

PinKept(p) ==
  /\ job[p].at \notin {"activate", "restore"} => PinGood(policy)
  /\ job[p].at \in Remembering => PinGood(job[p].saved)
  /\ job[p].at = "activate" => policy \in {job[p].version, Following}

LEMMA NamesNoVersion == None \notin Versions /\ Following \notin Versions /\ Unread \notin Versions
  BY StoreAssumption

(* A step that leaves policy and pointer alone. *)
LEMMA PinStays ==
  ASSUME NEW p \in Procs, PinKept(p), UNCHANGED <<policy, active>>, spoilt \subseteq spoilt',
         job[p].at \in {"activate", "restore"} => job'[p].at = "restore",
         job'[p].at # "activate",
         job'[p].at \in Remembering =>
           job[p].at \in Remembering /\ job'[p].saved = job[p].saved
  PROVE  PinKept(p)'
  BY DEF PinKept, PinGood

LEMMA PinInstall ==
  ASSUME Typed, NEW p \in Procs, Procs = {p}, Unhindered(p), PinKept(p), Install(p)
  PROVE  PinKept(p)'
<1> USE DEF At
<1>1. CASE StatNamespace(p) \/ MakeStaging(p)
  <2>1. /\ UNCHANGED <<policy, active, spoilt>> /\ job[p].at \in {"stat", "stage"}
        /\ job'[p].at \in {"stage", "snapshot", "failed"}
    BY <1>1, StatShape, GoShape, FaultedShape DEF StatNamespace, MakeStaging, Onward, disk
  <2> QED
    BY <2>1, PinStays DEF Remembering
<1>2. CASE SnapshotPolicy(p)
  <2>1. /\ UNCHANGED <<policy, active, spoilt>> /\ job[p].at = "snapshot"
        /\ job'[p].at = "extract" /\ job'[p].saved \in {policy, Unread}
    BY <1>2, SnapshotShape DEF SnapshotPolicy, Onward, disk
  <2> QED
    BY <2>1, NamesNoVersion DEF PinKept, PinGood
<1>3. CASE Extract(p) \/ ClearDisplaced(p) \/ SetAside(p) \/ Place(p) \/ DigestExecutable(p)
            \/ WriteReceipt(p)
  <2>1. /\ UNCHANGED <<policy, active, spoilt>>
        /\ job[p].at \in {"extract", "clear", "aside", "place", "digest", "receipt"}
    BY <1>3 DEF Extract, ClearDisplaced, SetAside, Place, DigestExecutable, WriteReceipt, disk
  <2>2. PICK place \in {"clear", "aside", "place", "digest", "receipt", "policy", "restore"} :
          Onward(p, place) /\ job'[p].saved = job[p].saved
    BY <1>3, GoShape, FaultedShape, MovedShape, DigestShape
    DEF Extract, ClearDisplaced, SetAside, Place, DigestExecutable, WriteReceipt, Kept
  <2> QED
    BY <2>1, <2>2, PinStays DEF Remembering, Onward
<1>4. CASE RecordPolicy(p)
  <2>1. UNCHANGED <<active, spoilt>> /\ job[p].at = "policy"
    BY <1>4 DEF RecordPolicy
  <2>2. PICK place \in {"activate", "restore"} :
          /\ Onward(p, place) /\ job'[p].saved = job[p].saved
          /\ place = "activate" => policy' \in {job[p].version, Following}
    BY <1>4, GoShape, FaultedShape DEF RecordPolicy, Kept
  <2> QED
    BY <2>1, <2>2 DEF PinKept, PinGood, Remembering, Onward
<1>5. CASE Activate(p)
  <2>1. policy' = policy /\ job[p].at = "activate"
    BY <1>5 DEF Activate
  <2>2. CASE (Go(p, "restore") \/ Faulted(p, "restore")) /\ UNCHANGED <<active, spoilt>>
    <3>1. Onward(p, "restore") /\ job'[p].saved = job[p].saved
      BY <2>2, GoShape, FaultedShape DEF Kept
    <3> QED
      BY <2>1, <2>2, <3>1, PinStays DEF Remembering, Onward
  <2>3. CASE /\ Go(p, "sweep")
             /\ active' = [version |-> job[p].version, receipt |-> job[p].receipt]
    <3>1. job'[p].at = "sweep"
      BY <2>3, GoShape DEF Onward
    <3>2. job[p].version \in Versions /\ job[p].receipt \in Builds
      BY <2>1 DEF Typed, Carry, Working
    <3>3. active' \in Pointers /\ active'.version = job[p].version
      BY <2>3, <3>2 DEF Pointers
    <3>4. active' # None
      BY <3>3, EntryAssumption
    <3> QED
      BY <2>1, <3>1, <3>3, <3>4, NamesNoVersion DEF PinKept, PinGood, Remembering
  <2> QED
    BY <1>5, <2>2, <2>3 DEF Activate
<1>6. CASE Sweep(p) \/ DiscardVersion(p)
  <2>1. /\ UNCHANGED <<policy, active>> /\ spoilt \subseteq spoilt'
        /\ job[p].at \in {"sweep", "discard"} /\ job'[p].at \in {"done", "putback"}
    BY <1>6, GoShape, FaultedShape DEF Sweep, DiscardVersion, Onward
  <2> QED
    BY <2>1, PinStays DEF Remembering
<1>7. CASE RestorePolicy(p)
  <2>1. /\ active' = active /\ job[p].at = "restore" /\ here /\ job'[p].at = "discard"
        /\ \/ policy' = job[p].saved /\ spoilt \subseteq spoilt'
           \/ "policy" \in spoilt'
    BY <1>7, UnhinderedFinds, GoShape, FaultedShape DEF RestorePolicy, Cleaning, Onward
  <2> QED
    BY <2>1 DEF PinKept, PinGood, Remembering
<1>8. CASE PutBack(p)
  <2>1. /\ job[p].at = "putback"
        /\ \/ Go(p, "failed") /\ UNCHANGED <<policy, active, spoilt>>
           \/ Faulted(p, "failed") /\ UNCHANGED <<policy, active, spoilt>>
           \/ RemoveNamespace(p, [job[p] EXCEPT !.at = "failed"])
           \/ RemoveSomeOfNamespace(p, Refused(p, "failed"))
    BY <1>8 DEF PutBack, disk
  <2>2. job'[p].at = "failed"
    BY <2>1, GoShape, FaultedShape, AfterShape DEF Onward
  <2>3. CASE UNCHANGED <<policy, active, spoilt>>
    BY <2>1, <2>2, <2>3, PinStays DEF Remembering
  <2>4. CASE policy' = None \/ "policy" \in spoilt'
    BY <2>2, <2>4, NamesNoVersion DEF PinKept, PinGood, Remembering
  <2>5. RemoveSomeOfNamespace(p, Refused(p, "failed")) => "policy" \in spoilt'
    BY AfterShape
  <2> QED
    BY <2>1, <2>3, <2>4, <2>5 DEF RemoveNamespace
<1> QED
  BY <1>1, <1>2, <1>3, <1>4, <1>5, <1>6, <1>7, <1>8 DEF Install

LEMMA PinStep ==
  ASSUME Typed, NEW p \in Procs, Procs = {p}, Unhindered(p), PinKept(p), [Next]_vars
  PROVE  PinKept(p)'
<1> USE DEF At
<1>1. CASE UNCHANGED vars
  BY <1>1 DEF PinKept, PinGood, vars, disk
<1>2. CASE StartInstall(p) \/ UpdateOne(p)
  <2>1. UNCHANGED <<policy, active>> /\ job[p].at \in {"idle", "status"}
    BY <1>2 DEF StartInstall, UpdateOne, disk
  <2>2. ASSUME NEW o \in offered, NEW pins, Request(p, o[1], o[2], pins)
        PROVE  job'[p].at = "stat" /\ spoilt \subseteq spoilt'
    BY <2>2, RequestShape
  <2>3. Go(p, "done") => job'[p].at = "done"
    BY GoShape DEF Onward
  <2>4. job'[p].at \in {"stat", "done"} /\ spoilt \subseteq spoilt'
    BY <1>2, <2>2, <2>3 DEF StartInstall, UpdateOne
  <2> QED
    BY <2>1, <2>4, PinStays DEF Remembering
<1>3. CASE StartUpdate(p) \/ StartRemove(p)
  <2>1. /\ UNCHANGED <<policy, active, spoilt>> /\ job[p].at = "idle"
        /\ job'[p].at \in {"done", "status", "remove"}
    BY <1>3, GoShape DEF StartUpdate, StartRemove, Onward, disk
  <2> QED
    BY <2>1, PinStays DEF Remembering
<1>4. CASE Install(p)
  BY <1>4, PinInstall
<1>5. CASE Remove(p)
  <2>1. /\ here /\ job[p].at = "remove"
        /\ \/ RemoveNamespace(p, [job[p] EXCEPT !.at = "done"])
           \/ RemoveSomeOfNamespace(p, Refused(p, "failed"))
    BY <1>5, UnhinderedFinds DEF Remove
  <2>2. job'[p].at \in {"done", "failed"}
    BY <2>1, AfterShape
  <2>3. policy' = None \/ "policy" \in spoilt'
    BY <2>1, AfterShape DEF RemoveNamespace
  <2> QED
    BY <2>2, <2>3, NamesNoVersion DEF PinKept, PinGood, Remembering
<1>6. CASE Launch(p)
  <2>1. /\ UNCHANGED <<policy, active, spoilt>> /\ job[p].at \in {"idle", "verify", "check", "resolved"}
        /\ job'[p].at \in {"verify", "check", "resolved", "launched", "refused"}
    BY <1>6, LaunchShape DEF disk
  <2> QED
    BY <2>1, PinStays DEF Remembering
<1>7. CASE End(p)
  <2>1. UNCHANGED <<policy, active, spoilt>> /\ job[p].at \in Ending /\ job'[p].at = "idle"
    BY <1>7, ForgetShape DEF End, disk
  <2> QED
    BY <2>1, PinStays DEF Remembering, Ending
<1>8. CASE Crash(p)
  <2>1. /\ UNCHANGED <<policy, active>> /\ job'[p].at = "idle" /\ spoilt \subseteq spoilt'
        /\ job[p].at \in {"activate", "restore"} => "policy" \in spoilt'
    BY <1>8, ForgetShape DEF Crash
  <2> QED
    BY <2>1 DEF PinKept, PinGood, Remembering
<1>9. CASE CrashRemoving(p)
  <2>1. job'[p] = NoJob /\ "policy" \in spoilt'
    BY <1>9, UprootShape DEF CrashRemoving, RemoveSomeOfNamespace
  <2> QED
    BY <2>1, NoJobType DEF PinKept, PinGood, Remembering
<1> QED
  BY <1>1, <1>2, <1>3, <1>4, <1>5, <1>6, <1>7, <1>8, <1>9 DEF Next

(* With the store to itself, a pin names the active version whenever no install
   is running, unless one was killed between writing the two, or was killed or
   refused while it put back the policy of one that failed. *)
THEOREM PinNamesTheActive ==
  ASSUME NEW one, Procs = {one}
  PROVE  Spec => []PinIsActive
<1>1. Init => Unhindered(one) /\ PinKept(one)
  <2>1. SUFFICES ASSUME Init PROVE PinKept(one)
    BY UnhinderedInit
  <2>2. job[one].at = "idle" /\ policy = None
    BY <2>1 DEF Init, NoJob
  <2> QED
    BY <2>2, NamesNoVersion DEF PinKept, PinGood, Remembering
<1>2. Typed /\ Launchable /\ Unhindered(one) /\ PinKept(one) /\ [Next]_vars
        => Unhindered(one)' /\ PinKept(one)'
  BY UnhinderedStep, PinStep
<1>3. PinKept(one) => PinIsActive
  BY DEF PinKept, PinGood, PinIsActive, Working, Cleaning
<1> QED
  BY <1>1, <1>2, <1>3, TypedInit, TypedStep, LaunchableInit, LaunchableStep, PTL DEF Spec

------------------------------------------------------------------------------
(* FailedInstallChangesNothing. As long as no refusal has taken what the
   cleanup will need, the install can still give back what it found: it is in
   place, set aside, or remembered. *)

Untouched == {"stage", "snapshot", "extract", "clear", "aside"}
Displaced == {"place", "digest", "receipt", "policy", "activate"}

GivesBack(p) ==
  LET j == job[p]
      v == job[p].version
      was == job[p].before
  IN (was # None /\ Recoverable(p)) =>
     /\ j.at \in Untouched \cup Displaced \cup {"restore", "discard", "putback"} =>
          /\ active = was.active
          /\ j.fresh => was.policy = None /\ was.active = None /\ was.dir = None
     /\ j.at = "stage" => j.fresh = ~here
     /\ j.at \in Untouched => dirs[v] = was.dir
     /\ j.at \in (Untouched \cup Displaced \cup {"discard", "putback"}) \ {"activate"} =>
          policy = was.policy
     /\ j.at \in Remembering => j.saved = was.policy
     /\ j.at \in Displaced => (j.moved \/ was.dir = None)
     /\ j.at \in Displaced \cup {"restore", "discard", "putback"} =>
          (j.moved => was.dir # None /\ aside[v] = was.dir)
     /\ j.at = "putback" => dirs[v] = None
     /\ j.at = "failed" =>
          /\ policy = was.policy /\ active = was.active
          /\ (was.dir = None \/ j.moved) => dirs[v] = was.dir
          /\ j.fresh => ~here

(* Whether something is displaced is decided just before it is. *)
MovedInOrder(p) ==
  /\ job[p].at \in {"stat", "stage", "snapshot", "extract", "clear"} => ~job[p].moved
  /\ job[p].at = "aside" => job[p].moved

Returnable(p) == MovedInOrder(p) /\ GivesBack(p)

(* The refusals so far are among those after the step. *)
LEMMA StillRecoverable ==
  ASSUME NEW p \in Procs, Spared(p) \/ Spent(p), Recoverable(p)'
  PROVE  Recoverable(p)
  BY DEF Recoverable, Spared, Spent

(* A refusal the cleanup cannot make up for. *)
LEMMA SpentFatal ==
  ASSUME NEW p \in Procs, Spent(p),
         job[p].at \in {"stat", "stage", "snapshot", "clear", "remove"} \cup Cleaning
  PROVE  ~Recoverable(p)'
  BY DEF Recoverable, Spent

LEMMA ReturnableInstall ==
  ASSUME Typed, NEW p \in Procs, Procs = {p}, Unhindered(p), Returnable(p), Install(p)
  PROVE  Returnable(p)'
<1> USE DEF At, Returnable, MovedInOrder
<1> DEFINE v == job[p].version
           was == job[p].before
<1>1. v \in Versions
  BY DEF Install, StatNamespace, MakeStaging, SnapshotPolicy, Extract, ClearDisplaced,
         SetAside, Place, DigestExecutable, WriteReceipt, RecordPolicy, Activate, Sweep,
         RestorePolicy, DiscardVersion, PutBack, Working, Cleaning, Typed, Carry
<1> USE DEF Untouched, Displaced, Remembering
<1>2. CASE StatNamespace(p)
  <2>1. /\ Onward(p, "stage") /\ UNCHANGED disk /\ job'[p].before = Found(v)
        /\ ~job'[p].moved
        /\ \/ job'[p].fresh = ~here /\ job'[p].faults = {}
           \/ job'[p].faults = {"stat"}
    BY <1>2, StatShape DEF StatNamespace
  <2>2. Found(v) # None =>
          Found(v).dir = dirs[v] /\ Found(v).policy = policy /\ Found(v).active = active
    BY DEF Found
  <2>3. ~here => dirs[v] = None /\ policy = None /\ active = None
    BY <1>1, UnhinderedFinds DEF Nowhere
  <2>4. job'[p].faults = {"stat"} => ~Recoverable(p)'
    BY DEF Recoverable
  <2> QED
    BY <2>1, <2>2, <2>3, <2>4 DEF GivesBack, Onward, disk
<1>3. CASE MakeStaging(p)
  <2>1. UNCHANGED <<dirs, aside, policy, active>> /\ job[p].at = "stage"
    BY <1>3 DEF MakeStaging
  <2>2. CASE Go(p, "snapshot")
    <3>1. Onward(p, "snapshot") /\ Kept(p) /\ Spared(p) /\ job'[p].moved = job[p].moved
      BY <2>2, GoShape
    <3> QED
      BY <2>1, <3>1, StillRecoverable DEF GivesBack, Onward, Kept
  <2>3. CASE Faulted(p, "failed")
    <3>1. Onward(p, "failed") /\ Spent(p)
      BY <2>3, FaultedShape
    <3> QED
      BY <2>1, <3>1, SpentFatal DEF GivesBack, Onward
  <2> QED
    BY <1>3, <2>2, <2>3 DEF MakeStaging
<1>4. CASE SnapshotPolicy(p)
  <2>1. /\ Onward(p, "extract") /\ UNCHANGED disk /\ job[p].at = "snapshot"
        /\ job'[p].moved = job[p].moved /\ job'[p].fresh = job[p].fresh
        /\ job'[p].before = job[p].before
        /\ \/ Spared(p) /\ job'[p].saved = policy
           \/ Spent(p)
    BY <1>4, SnapshotShape DEF SnapshotPolicy
  <2> QED
    BY <2>1, StillRecoverable, SpentFatal DEF GivesBack, Onward, disk
<1>5. CASE Extract(p)
  <2>1. UNCHANGED disk /\ job[p].at = "extract"
    BY <1>5 DEF Extract
  <2>2. PICK place \in {"clear", "restore"} : Onward(p, place) /\ Kept(p)
          /\ (Spared(p) \/ Spent(p)) /\ job'[p].moved = job[p].moved
    BY <1>5, GoShape, FaultedShape DEF Extract
  <2> QED
    BY <2>1, <2>2, StillRecoverable DEF GivesBack, Onward, Kept, disk
<1>6. CASE ClearDisplaced(p)
  <2>1. UNCHANGED <<dirs, policy, active>> /\ job[p].at = "clear" /\ here' = TRUE
    BY <1>6 DEF ClearDisplaced
  <2>2. CASE dirs[v] = None /\ Go(p, "place") /\ UNCHANGED aside
    <3>1. Onward(p, "place") /\ Kept(p) /\ Spared(p) /\ job'[p].moved = job[p].moved
      BY <2>2, GoShape
    <3> QED
      BY <2>1, <2>2, <3>1, StillRecoverable DEF GivesBack, Onward, Kept
  <2>3. CASE Becomes(p, [job[p] EXCEPT !.at = "aside", !.moved = TRUE])
    <3>1. Onward(p, "aside") /\ Kept(p) /\ Spared(p) /\ job'[p].moved
      BY <2>3, MovedShape
    <3> QED
      BY <2>1, <3>1, StillRecoverable DEF GivesBack, Onward, Kept
  <2>4. CASE Becomes(p, [Refused(p, "restore") EXCEPT !.moved = TRUE])
    <3>1. Onward(p, "restore") /\ Spent(p)
      BY <2>4, MovedShape
    <3> QED
      BY <2>1, <3>1, SpentFatal DEF GivesBack, Onward
  <2> QED
    BY <1>6, <2>2, <2>3, <2>4 DEF ClearDisplaced
<1>7. CASE SetAside(p)
  <2>1. /\ UNCHANGED <<here, policy, active>> /\ job[p].at = "aside" /\ dirs[v] # None
    BY <1>7, UnhinderedFinds DEF SetAside
  <2>2. CASE /\ aside' = [aside EXCEPT ![v] = dirs[v]] /\ Go(p, "place")
    <3>1. Onward(p, "place") /\ Kept(p) /\ Spared(p) /\ job'[p].moved = job[p].moved
      BY <2>2, GoShape
    <3>2. aside'[v] = dirs[v]
      BY <1>1, <2>2 DEF Typed, TypeOK
    <3>3. job[p].moved
      BY <2>1
    <3> QED
      BY <2>1, <3>1, <3>2, <3>3, StillRecoverable DEF GivesBack, Onward, Kept
  <2>3. CASE \/ Becomes(p, [job[p] EXCEPT !.at = "restore", !.moved = FALSE])
             \/ Becomes(p, [Refused(p, "restore") EXCEPT !.moved = FALSE])
    <3>1. Onward(p, "restore") /\ Kept(p) /\ (Spared(p) \/ Spent(p)) /\ ~job'[p].moved
      BY <2>3, MovedShape
    <3> QED
      BY <2>1, <3>1, StillRecoverable DEF GivesBack, Onward, Kept
  <2> QED
    BY <1>7, <2>2, <2>3 DEF SetAside
<1>8. CASE Place(p) \/ DigestExecutable(p) \/ WriteReceipt(p)
  <2>1. /\ UNCHANGED <<here, aside, policy, active>>
        /\ job[p].at \in {"place", "digest", "receipt"}
    BY <1>8 DEF Place, DigestExecutable, WriteReceipt, disk
  <2>2. PICK place \in {"digest", "receipt", "policy", "restore"} :
          /\ Onward(p, place) /\ (Spared(p) \/ Spent(p)) /\ job'[p].moved = job[p].moved
          /\ job'[p].fresh = job[p].fresh /\ job'[p].saved = job[p].saved
          /\ job'[p].before = job[p].before
    BY <1>8, GoShape, FaultedShape, DigestShape
    DEF Place, DigestExecutable, WriteReceipt, Kept
  <2> QED
    BY <2>1, <2>2, StillRecoverable DEF GivesBack, Onward
<1>9. CASE RecordPolicy(p)
  <2>1. UNCHANGED <<here, aside, active>> /\ job[p].at = "policy"
    BY <1>9 DEF RecordPolicy
  <2>2. PICK place \in {"activate", "restore"} : Onward(p, place) /\ Kept(p)
          /\ (Spared(p) \/ Spent(p)) /\ job'[p].moved = job[p].moved
    BY <1>9, GoShape, FaultedShape DEF RecordPolicy
  <2> QED
    BY <2>1, <2>2, StillRecoverable DEF GivesBack, Onward, Kept
<1>10. CASE Activate(p)
  <2>1. UNCHANGED <<here, aside>> /\ job[p].at = "activate"
    BY <1>10 DEF Activate
  <2>2. CASE Go(p, "sweep")
    <3>1. Onward(p, "sweep")
      BY <2>2, GoShape
    <3> QED
      BY <3>1 DEF GivesBack, Onward
  <2>3. CASE (Go(p, "restore") \/ Faulted(p, "restore")) /\ UNCHANGED active
    <3>1. Onward(p, "restore") /\ Kept(p) /\ (Spared(p) \/ Spent(p))
            /\ job'[p].moved = job[p].moved
      BY <2>3, GoShape, FaultedShape
    <3> QED
      BY <2>1, <2>3, <3>1, StillRecoverable DEF GivesBack, Onward, Kept
  <2> QED
    BY <1>10, <2>2, <2>3 DEF Activate
<1>11. CASE Sweep(p)
  <2>1. Onward(p, "done")
    BY <1>11, GoShape, FaultedShape DEF Sweep
  <2> QED
    BY <2>1 DEF GivesBack, Onward
<1>12. CASE RestorePolicy(p)
  <2>1. UNCHANGED <<aside, active>> /\ job[p].at = "restore" /\ here
    BY <1>12, UnhinderedFinds DEF RestorePolicy, Cleaning
  <2>2. CASE Faulted(p, "discard")
    <3>1. Onward(p, "discard") /\ Spent(p)
      BY <2>2, FaultedShape
    <3> QED
      BY <2>1, <3>1, SpentFatal DEF GivesBack, Onward, Cleaning
  <2>3. CASE /\ Go(p, "discard")
             /\ policy' = IF job[p].saved = Unread \/ ~here THEN policy ELSE job[p].saved
    <3>1. Onward(p, "discard") /\ Kept(p) /\ Spared(p) /\ job'[p].moved = job[p].moved
      BY <2>3, GoShape
    <3>2. ASSUME was # None, Recoverable(p) PROVE policy' = was.policy
      <4>1. job[p].saved = was.policy
        BY <2>1, <3>2 DEF GivesBack
      <4>2. was \in Founds
        BY DEF Typed, TypeOK, Jobs, Founds
      <4>3. was.policy # Unread
        BY <3>2, <4>2, StoreAssumption DEF Founds, Policies
      <4> QED
        BY <2>1, <2>3, <4>1, <4>3
    <3> QED
      BY <2>1, <3>1, <3>2, StillRecoverable DEF GivesBack, Onward, Kept
  <2> QED
    BY <1>12, <2>2, <2>3 DEF RestorePolicy
<1>13. CASE DiscardVersion(p)
  <2>1. UNCHANGED <<aside, active, policy>> /\ job[p].at = "discard"
    BY <1>13 DEF DiscardVersion
  <2>2. CASE Faulted(p, "putback")
    <3>1. Onward(p, "putback") /\ Spent(p)
      BY <2>2, FaultedShape
    <3> QED
      BY <2>1, <3>1, SpentFatal DEF GivesBack, Onward, Cleaning
  <2>3. CASE dirs' = [dirs EXCEPT ![v] = None] /\ Go(p, "putback")
    <3>1. Onward(p, "putback") /\ Kept(p) /\ Spared(p) /\ job'[p].moved = job[p].moved
      BY <2>3, GoShape
    <3>2. dirs'[v] = None
      BY <1>1, <2>3 DEF Typed, TypeOK
    <3> QED
      BY <2>1, <3>1, <3>2, StillRecoverable DEF GivesBack, Onward, Kept
  <2> QED
    BY <1>13, <2>2, <2>3 DEF DiscardVersion
<1>14. CASE PutBack(p)
  <2>1. job[p].at = "putback"
    BY <1>14 DEF PutBack
  <2>2. CASE Faulted(p, "failed")
    <3>1. Onward(p, "failed") /\ Spent(p)
      BY <2>2, FaultedShape
    <3> QED
      BY <2>1, <3>1, SpentFatal DEF GivesBack, Onward, Cleaning
  <2>3. CASE /\ job[p].moved /\ Go(p, "failed") /\ UNCHANGED <<here, policy, active>>
             /\ IF aside[v] # None /\ dirs[v] = None
                THEN dirs' = [dirs EXCEPT ![v] = aside[v]]
                ELSE UNCHANGED dirs
    <3>1. Onward(p, "failed") /\ Kept(p) /\ Spared(p) /\ job'[p].moved = job[p].moved
      BY <2>3, GoShape
    <3>2. ASSUME was # None, Recoverable(p) PROVE dirs'[v] = was.dir /\ ~job[p].fresh
      <4>1. /\ was.dir # None /\ aside[v] = was.dir /\ dirs[v] = None
            /\ job[p].fresh => was.dir = None
        BY <2>1, <2>3, <3>2 DEF GivesBack
      <4> QED
        BY <1>1, <2>3, <4>1 DEF Typed, TypeOK
    <3> QED
      BY <2>1, <2>3, <3>1, <3>2, StillRecoverable DEF GivesBack, Onward, Kept
  <2>4. CASE ~job[p].moved /\ ~job[p].fresh /\ Go(p, "failed") /\ UNCHANGED disk
    <3>1. Onward(p, "failed") /\ Kept(p) /\ Spared(p) /\ job'[p].moved = job[p].moved
      BY <2>4, GoShape
    <3> QED
      BY <2>1, <2>4, <3>1, StillRecoverable DEF GivesBack, Onward, Kept, disk
  <2>5. CASE job[p].fresh /\ RemoveNamespace(p, [job[p] EXCEPT !.at = "failed"])
    <3>1. job'[p] = [job[p] EXCEPT !.at = "failed"]
      BY <2>5, UprootShape DEF RemoveNamespace
    <3>2. /\ job'[p].at = "failed" /\ Spared(p) /\ job'[p].before = was
          /\ job'[p].version = v
      BY <3>1 DEF Typed, TypeOK, Jobs, Spared
    <3>3. ~here' /\ policy' = None /\ active' = None /\ dirs'[v] = None
      BY <1>1, <2>5 DEF RemoveNamespace, Nowhere
    <3>4. (was # None /\ Recoverable(p)) =>
            was.policy = None /\ was.active = None /\ was.dir = None
      BY <2>1, <2>5 DEF GivesBack
    <3> QED
      BY <3>2, <3>3, <3>4, StillRecoverable DEF GivesBack
  <2>6. CASE RemoveSomeOfNamespace(p, Refused(p, "failed"))
    <3>1. job'[p] = Refused(p, "failed")
      BY <2>6, UprootShape DEF RemoveSomeOfNamespace
    <3>2. job'[p].at = "failed" /\ Spent(p)
      BY <3>1 DEF Typed, TypeOK, Jobs, Refused, Spent
    <3> QED
      BY <2>1, <3>2, SpentFatal DEF GivesBack, Cleaning
  <2> QED
    BY <1>14, <2>2, <2>3, <2>4, <2>5, <2>6 DEF PutBack, disk
<1> QED
  BY <1>2, <1>3, <1>4, <1>5, <1>6, <1>7, <1>8, <1>9, <1>10, <1>11, <1>12, <1>13, <1>14
  DEF Install

LEMMA ReturnableStep ==
  ASSUME Typed, NEW p \in Procs, Procs = {p}, Unhindered(p), Returnable(p), [Next]_vars
  PROVE  Returnable(p)'
<1> USE DEF At, Returnable, MovedInOrder
<1>1. CASE UNCHANGED vars
  BY <1>1 DEF GivesBack, Recoverable, vars, disk
<1>2. CASE Install(p)
  BY <1>2, ReturnableInstall
<1>3. ASSUME job'[p].at \in {"idle", "done", "status", "remove", "verify", "check",
                             "resolved", "launched", "refused"}
      PROVE  Returnable(p)'
  BY <1>3 DEF GivesBack, Untouched, Displaced, Remembering
<1>4. ASSUME job'[p].before = None, job'[p].moved = FALSE, job'[p].at # "aside"
      PROVE  Returnable(p)'
  BY <1>4 DEF GivesBack
<1>5. CASE StartInstall(p) \/ UpdateOne(p)
  <2>1. ASSUME NEW o \in offered, NEW pins, Request(p, o[1], o[2], pins)
        PROVE  Returnable(p)'
    BY <1>4, <2>1, RequestShape
  <2>2. CASE Go(p, "done")
    BY <1>3, <2>2, GoShape DEF Onward
  <2> QED
    BY <1>5, <2>1, <2>2 DEF StartInstall, UpdateOne
<1>6. CASE StartUpdate(p) \/ StartRemove(p)
  BY <1>3, <1>6, GoShape DEF StartUpdate, StartRemove, Onward
<1>7. CASE Remove(p)
  <2>1. /\ job[p].at = "remove"
        /\ \/ RemoveNamespace(p, [job[p] EXCEPT !.at = "done"])
           \/ RemoveSomeOfNamespace(p, Refused(p, "failed"))
    BY <1>7, UnhinderedFinds DEF Remove
  <2>2. CASE RemoveNamespace(p, [job[p] EXCEPT !.at = "done"])
    <3>1. job'[p] = [job[p] EXCEPT !.at = "done"]
      BY <2>2, UprootShape DEF RemoveNamespace
    <3>2. job'[p].at = "done"
      BY <3>1 DEF Typed, TypeOK, Jobs
    <3> QED
      BY <1>3, <3>2
  <2>3. CASE RemoveSomeOfNamespace(p, Refused(p, "failed"))
    <3>1. job'[p] = Refused(p, "failed")
      BY <2>3, UprootShape DEF RemoveSomeOfNamespace
    <3>2. job'[p].at = "failed" /\ Spent(p)
      BY <3>1 DEF Typed, TypeOK, Jobs, Refused, Spent
    <3> QED
      BY <2>1, <3>2, SpentFatal DEF GivesBack
  <2> QED
    BY <2>1, <2>2, <2>3
<1>8. CASE Launch(p)
  BY <1>3, <1>8, LaunchShape
<1>9. CASE End(p) \/ Crash(p)
  BY <1>3, <1>9, ForgetShape DEF End, Crash
<1>10. CASE CrashRemoving(p)
  <2>1. job'[p] = NoJob
    BY <1>10, UprootShape DEF CrashRemoving, RemoveSomeOfNamespace
  <2> QED
    BY <1>3, <2>1, NoJobType
<1> QED
  BY <1>1, <1>2, <1>5, <1>6, <1>7, <1>8, <1>9, <1>10 DEF Next

(* With the store to itself, a failed install leaves the policy and the pointer
   as it found them, and takes away a namespace it created; and the version's
   directory, if there was none or it had been moved aside by the time of the
   failure: one not yet moved aside is not spoken of. So whatever was refused on
   the way, but for what the cleanup needs. *)
THEOREM FailureLeavesNoTrace ==
  ASSUME NEW one, Procs = {one}
  PROVE  Spec => []FailedInstallChangesNothing
<1>1. Init => Unhindered(one) /\ Returnable(one)
  <2>1. SUFFICES ASSUME Init PROVE Returnable(one)
    BY UnhinderedInit
  <2>2. job[one].before = None /\ job[one].moved = FALSE /\ job[one].at # "aside"
    BY <2>1 DEF Init, NoJob
  <2> QED
    BY <2>2 DEF Returnable, MovedInOrder, GivesBack
<1>2. Typed /\ Launchable /\ Unhindered(one) /\ Returnable(one) /\ [Next]_vars
        => Unhindered(one)' /\ Returnable(one)'
  BY UnhinderedStep, ReturnableStep
<1>3. Returnable(one) => FailedInstallChangesNothing
  BY DEF Returnable, GivesBack, FailedInstallChangesNothing, At
<1> QED
  BY <1>1, <1>2, <1>3, TypedInit, TypedStep, LaunchableInit, LaunchableStep, PTL DEF Spec

=============================================================================
