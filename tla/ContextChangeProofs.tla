------------------------- MODULE ContextChangeProofs -------------------------
(***************************************************************************)
(* Proofs about ContextChange, for any number of invocations, contexts,    *)
(* product sessions and bindings; and about LockFile, the lock its updates *)
(* are made under, for any number of calls and any deadline longer than    *)
(* the longest work.                                                       *)
(***************************************************************************)
EXTENDS ContextChange, LockFile, TLAPS

----------------------------------------------------------------------------
(* The lock file. *)

(***************************************************************************)
(* Every descriptor leads to the one file that is ever at the path, and    *)
(* only a call that runs its work owns a lock.                             *)
(***************************************************************************)
OneFile ==
  /\ \A c \in Calls : pc[c] # "idle" => path # Nothing /\ fd[c] = path
  /\ \A c \in Calls : pc[c] = "running" <=> \E f \in Files : owner[f] = c
  /\ \A f \in Files : owner[f] # Nothing => f = path

\* Who waits for a lockOwner it has seen from the start waits no longer than the
\* lockOwner has held.
Patience ==
  /\ \A c \in Calls : pc[c] = "idle" => waited[c] = 0
  /\ \A c, d \in Calls :
       pc[c] = "waiting" /\ pc[d] = "running" /\ ~overtaken[c] => waited[c] <= held[d]

LockFileInv == LockFileTypes /\ OneFile /\ Patience

LEMMA LockFileInvInit == LockFileInit => LockFileInv
  BY NothingAssumption, DeadlineAssumption DEF LockFileInit, LockFileInv, LockFileTypes, OneFile, Patience

\* What a call leaves behind when it returns.
LEMMA CloseKeeps ==
  ASSUME LockFileInv, NEW c \in Calls, NEW r \in BOOLEAN, Close(c, r), UNCHANGED path
  PROVE  LockFileInv'
<1>1. LockFileTypes'
  BY NothingAssumption, DeadlineAssumption DEF LockFileInv, LockFileTypes, Close
<1>2. OneFile'
  <2>1. \A d \in Calls : /\ d # c => pc'[d] = pc[d] /\ fd'[d] = fd[d]
                         /\ d = c => pc'[d] = "idle"
    BY DEF LockFileInv, LockFileTypes, Close
  <2>2. \A f \in Files : owner'[f] = IF owner[f] = c THEN Nothing ELSE owner[f]
    BY DEF Close
  <2>3. c # Nothing
    BY NothingAssumption
  <2> QED
    BY <2>1, <2>2, <2>3, NothingAssumption DEF LockFileInv, OneFile
<1>3. Patience'
  BY DEF LockFileInv, LockFileTypes, Close, Patience
<1> QED
  BY <1>1, <1>2, <1>3 DEF LockFileInv

LEMMA LockFileInvNext == LockFileInv /\ [LockFileNext]_lockFileVars => LockFileInv'
<1> SUFFICES ASSUME LockFileInv, [LockFileNext]_lockFileVars PROVE LockFileInv'
  OBVIOUS
<1> USE DEF files, clocks
<1>1. ASSUME NEW c \in Calls, Open(c) PROVE LockFileInv'
  <2>1. LockFileTypes'
    BY <1>1 DEF LockFileInv, LockFileTypes, Open
  <2>2. OneFile'
    BY <1>1, NothingAssumption DEF LockFileInv, LockFileTypes, OneFile, Open
  <2>3. Patience'
    <3>1. \A d \in Calls : d # c => pc'[d] = pc[d]
      BY <1>1 DEF LockFileInv, LockFileTypes, Open
    <3>2. pc[c] = "idle" /\ pc'[c] = "waiting" /\ UNCHANGED <<waited, held, overtaken>>
      BY <1>1 DEF LockFileInv, LockFileTypes, Open
    <3>3. \A d \in Calls : held[d] >= 0
      BY DeadlineAssumption DEF LockFileInv, LockFileTypes
    <3> QED
      BY <3>1, <3>2, <3>3 DEF LockFileInv, Patience
  <2> QED
    BY <2>1, <2>2, <2>3 DEF LockFileInv
<1>2. ASSUME NEW c \in Calls, OpenFails(c) PROVE LockFileInv'
  BY <1>2 DEF OpenFails, LockFileInv, LockFileTypes, OneFile, Patience
<1>3. ASSUME NEW c \in Calls, Take(c) PROVE LockFileInv'
  <2>1. pc[c] = "waiting" /\ fd[c] = path /\ path \in Files /\ owner[path] = Nothing
    BY <1>3 DEF LockFileInv, LockFileTypes, OneFile, Take
  <2>2. LockFileTypes'
    BY <1>3, <2>1 DEF LockFileInv, LockFileTypes, Take
  <2>3. OneFile'
    <3>1. \A d \in Calls : pc'[d] = IF d = c THEN "running" ELSE pc[d]
      BY <1>3 DEF LockFileInv, LockFileTypes, Take
    <3>2. \A f \in Files : owner'[f] = IF f = path THEN c ELSE owner[f]
      BY <1>3, <2>1 DEF LockFileInv, LockFileTypes, Take
    <3>3. UNCHANGED <<path, fd>>
      BY <1>3 DEF Take
    <3> QED
      BY <2>1, <3>1, <3>2, <3>3, NothingAssumption DEF LockFileInv, LockFileTypes, OneFile
  <2>4. Patience'
    BY <1>3 DEF LockFileInv, LockFileTypes, Patience, Take
  <2> QED
    BY <2>2, <2>3, <2>4 DEF LockFileInv
<1>4. ASSUME NEW c \in Calls, GiveUp(c) PROVE LockFileInv'
  BY <1>4, CloseKeeps DEF GiveUp
<1>5. ASSUME NEW c \in Calls, LockFails(c) \/ Return(c) \/ Die(c) PROVE LockFileInv'
  BY <1>5, CloseKeeps DEF LockFails, Return, Die
<1>6. ASSUME Tick PROVE LockFileInv'
  <2>1. LockFileTypes'
    BY <1>6, DeadlineAssumption DEF LockFileInv, LockFileTypes, Tick
  <2>2. OneFile'
    BY <1>6 DEF LockFileInv, OneFile, Tick
  <2>3. Patience'
    BY <1>6, DeadlineAssumption DEF LockFileInv, LockFileTypes, Patience, Tick
  <2> QED
    BY <2>1, <2>2, <2>3 DEF LockFileInv
<1>7. CASE UNCHANGED lockFileVars
  BY <1>7 DEF lockFileVars, LockFileInv, LockFileTypes, OneFile, Patience
<1> QED
  BY <1>1, <1>2, <1>3, <1>4, <1>5, <1>6, <1>7 DEF LockFileNext, Proceed

LEMMA LockFileInvHolds == LockFileSpec => []LockFileInv
  BY LockFileInvInit, LockFileInvNext, PTL DEF LockFileSpec

(* Every reachable state has the declared type; a clock never runs past its *)
(* bound.                                                                   *)
THEOREM LockFileTypesHold == LockFileSpec => []LockFileTypes
<1>1. LockFileInv => LockFileTypes
  BY DEF LockFileInv
<1> QED
  BY <1>1, LockFileInvHolds, PTL

LEMMA OneRunnerFollows == LockFileInv => OneRunner
  BY NothingAssumption DEF LockFileInv, OneFile, OneRunner

(* At most one call runs its work under the lock, however many files the    *)
(* kernel could tell apart.                                                 *)
THEOREM MutualExclusion == LockFileSpec => []OneRunner
  BY OneRunnerFollows, LockFileInvHolds, PTL

(* No call gives up on a lockOwner that was there when it began to wait: the   *)
(* work is bounded below the deadline.                                      *)
THEOREM SlowHolderIsWaitedFor == LockFileSpec => BusyMeansOvertaken
<1>1. ASSUME LockFileInv, NEW c \in Calls, GiveUp(c) PROVE RefusalStep
  <2>1. PICK d \in Calls : pc[d] = "running"
    BY <1>1 DEF GiveUp, LockFileInv, LockFileTypes, OneFile
  <2>2. waited[c] > MaxHold /\ held[d] <= MaxHold
    BY <1>1, DeadlineAssumption DEF GiveUp, LockFileInv, LockFileTypes
  <2>3. overtaken[c]
    BY <1>1, <2>1, <2>2, DeadlineAssumption DEF GiveUp, LockFileInv, LockFileTypes, Patience
  <2> QED
    BY <1>1, <2>3 DEF GiveUp, Close, LockFileInv, LockFileTypes, RefusalStep
<1>2. ASSUME LockFileInv, NEW c \in Calls,
             \/ Open(c) \/ OpenFails(c) \/ Take(c) \/ Return(c) \/ LockFails(c)
             \/ Die(c) \/ Tick
      PROVE  RefusalStep
  BY <1>2 DEF Open, OpenFails, Take, Return, LockFails, Die, Tick, Close,
              LockFileInv, LockFileTypes, RefusalStep
<1>3. ASSUME Tick PROVE RefusalStep
  BY <1>3 DEF Tick, RefusalStep
<1>4. LockFileInv /\ [LockFileNext]_lockFileVars => [RefusalStep]_lockFileVars
  BY <1>1, <1>2, <1>3 DEF LockFileNext, Proceed
<1> QED
  BY <1>4, LockFileInvHolds, PTL DEF LockFileSpec, BusyMeansOvertaken

-----------------------------------------------------------------------------
(* The lock file implements the advisory lock. *)

\* The lock the callers see is the one call that runs its work.
LEMMA HolderIs ==
  ASSUME OneRunner
  PROVE  /\ \A c \in Calls : pc[c] = "running" => lockOwner = c
         /\ (\A c \in Calls : pc[c] # "running") => lockOwner = Nothing
         /\ lockOwner = Nothing \/ lockOwner \in Holding
<1>1. CASE Holding = {}
  BY <1>1 DEF lockOwner, Holding
<1>2. CASE Holding # {}
  <2>1. \E c \in Calls : c \in Holding
    BY <1>2 DEF Holding
  <2>2. lockOwner \in Holding
    BY <1>2, <2>1 DEF lockOwner
  <2> QED
    BY <2>2 DEF Holding, OneRunner
<1> QED
  BY <1>1, <1>2

LEMMA LockInitFollows == LockFileInit => Advisory!LockInit
  BY DEF LockFileInit, Advisory!LockInit, lockOwner, Holding, waiters

\* A call that closes its descriptor leaves the queue or the lock.
LEMMA CloseReleases ==
  ASSUME LockFileInv, OneRunner, OneRunner', NEW c \in Calls, NEW r \in BOOLEAN, Close(c, r),
         pc[c] # "idle"
  PROVE  Advisory!Refuse(c) \/ Advisory!Release(c)
<1>1. \A d \in Calls : pc'[d] = IF d = c THEN "idle" ELSE pc[d]
  BY DEF LockFileInv, LockFileTypes, Close
<1>2. CASE pc[c] = "waiting"
  <2>1. Holding' = Holding /\ waiters' = waiters \ {c} /\ c \in waiters
    BY <1>1, <1>2 DEF Holding, waiters
  <2> QED
    BY <2>1 DEF lockOwner, Advisory!Refuse
<1>3. CASE pc[c] = "running"
  <2>1. lockOwner = c /\ waiters' = waiters
    BY <1>1, <1>3, HolderIs DEF waiters
  <2>2. Holding' = {}
    BY <1>1, <1>3 DEF Holding, OneRunner
  <2> QED
    BY <2>1, <2>2 DEF lockOwner, Advisory!Release
<1> QED
  BY <1>2, <1>3 DEF LockFileInv, LockFileTypes

LEMMA LockStepFollows ==
  LockFileInv /\ LockFileInv' /\ [LockFileNext]_lockFileVars => [Advisory!LockNext]_(Advisory!lockVars)
<1> SUFFICES ASSUME LockFileInv, LockFileInv', [LockFileNext]_lockFileVars
             PROVE  Advisory!LockNext \/ UNCHANGED Advisory!lockVars
  OBVIOUS
<1>1. OneRunner /\ OneRunner'
  BY OneRunnerFollows, NothingAssumption DEF LockFileInv, OneFile, OneRunner
<1>2. ASSUME UNCHANGED pc PROVE UNCHANGED Advisory!lockVars
  BY <1>2 DEF Advisory!lockVars, lockOwner, Holding, waiters
<1>3. ASSUME NEW c \in Calls, Open(c) PROVE Advisory!Ask(c)
  <2>1. \A d \in Calls : pc'[d] = IF d = c THEN "waiting" ELSE pc[d]
    BY <1>3 DEF Open, LockFileInv, LockFileTypes
  <2>2. pc[c] = "idle"
    BY <1>3 DEF Open
  <2>3. Holding' = Holding /\ waiters' = waiters \cup {c} /\ c \notin waiters
    BY <2>1, <2>2 DEF Holding, waiters
  <2>4. lockOwner # c
    BY <1>1, <2>2, HolderIs, NothingAssumption DEF Holding
  <2> QED
    BY <2>3, <2>4 DEF lockOwner, Advisory!Ask
<1>4. ASSUME NEW c \in Calls, Take(c) PROVE Advisory!Acquire(c)
  <2>1. \A d \in Calls : pc'[d] = IF d = c THEN "running" ELSE pc[d]
    BY <1>4 DEF Take, LockFileInv, LockFileTypes
  <2>2. \A d \in Calls : pc[d] # "running"
    BY <1>4, NothingAssumption DEF Take, LockFileInv, OneFile
  <2>3. pc[c] = "waiting"
    BY <1>4 DEF Take
  <2>4. lockOwner = Nothing /\ waiters' = waiters \ {c} /\ c \in waiters
    BY <1>1, <2>1, <2>2, <2>3, HolderIs DEF waiters
  <2>5. Holding' = {c}
    BY <2>1, <2>2 DEF Holding
  <2>6. lockOwner' = c
    BY <2>5 DEF lockOwner
  <2> QED
    BY <2>4, <2>6 DEF Advisory!Acquire
<1>5. ASSUME NEW c \in Calls, GiveUp(c) \/ LockFails(c) \/ Return(c) \/ Die(c)
      PROVE  Advisory!Refuse(c) \/ Advisory!Release(c)
  BY <1>1, <1>5, CloseReleases DEF GiveUp, LockFails, Return, Die
<1>6. ASSUME NEW c \in Calls, OpenFails(c) PROVE UNCHANGED Advisory!lockVars
  BY <1>2, <1>6 DEF OpenFails
<1>7. CASE Tick
  BY <1>2, <1>7 DEF Tick
<1>8. CASE UNCHANGED lockFileVars
  BY <1>2, <1>8 DEF lockFileVars
<1> QED
  BY <1>3, <1>4, <1>5, <1>6, <1>7, <1>8 DEF LockFileNext, Proceed, Advisory!LockNext

(* What the callers are modelled with is what the file, the kernel and the  *)
(* retry loop provide.                                                      *)
THEOREM LockFileIsALock == LockFileSpec => IsAdvisoryLock
  BY LockInitFollows, LockStepFollows, LockFileInvHolds, PTL
     DEF LockFileSpec, IsAdvisoryLock, Advisory!LockSpec

----------------------------------------------------------------------------
(* The context document, changed under the lock. *)

(* Only the invocation inside contexts.Update has looked at the document it is
   about to replace, and what it looked at is still what is on disk, readable,
   and what its result was worked out from. *)
Holds(p) == job[p].at \in {"locked", "checked"} => holder = p

LookedAgain(p) ==
  At(p, "checked") => Readable /\ job[p].before = doc.view

Placed(p) ==
  /\ At(p, "editor") => job[p].kind = "edit"
  /\ At(p, "ending") => job[p].kind \in {"change", "edit", "amend", "logout"}
  /\ At(p, "authorizing") => job[p].kind \in {"login", "create"}

OnlyEditsStale(p) == ~At(p, "idle") /\ job[p].stale => job[p].kind = "edit"

(* What a login obtains it obtains as the document records it, or for a context
   the document does not declare, until a change lets the reference go. *)
Agrees(p) ==
  At(p, "authorizing") =>
    \A r \in job[p].todo \ job[p].late :
      \/ job[p].after.access[r] = doc.view.access[r]
      \/ job[p].kind = "create" /\ r \in LoginRefs /\ doc.view.access[r] = None

(* A creating login logs in to one context. *)
OneContext(p) ==
  Runs(p, {"create"}) =>
    \A c, d \in LoginRefs \cap (job[p].todo \cup job[p].done) : c = d

(* A session a change leaves behind is gone once it has been looked up, unless
   a login saved one since. *)
Seen(p) ==
  At(p, "checked") =>
    \A r \in UnreachedBy(job[p].before, job[p].after) \ job[p].unseen :
      stored[r] = None \/ r \in strays

(* A stored session is the one its record asks for, or that of a context a
   creating login is about to record. *)
Creates(p, r) == /\ Runs(p, {"create"}) /\ r \in job[p].done
                 /\ job[p].after.access[r] = stored[r]

Named(r) ==
  stored[r] # None /\ r \notin strays =>
    \/ stored[r] = doc.view.access[r]
    \/ r \in LoginRefs /\ doc.view.access[r] = None /\ \E p \in Procs : Creates(p, r)

IInv ==
  /\ TypeOK
  /\ \A p \in Procs : Holds(p)
  /\ \A p \in Procs : LookedAgain(p)
  /\ \A p \in Procs : Placed(p)
  /\ \A p \in Procs : OnlyEditsStale(p)
  /\ \A p \in Procs : Agrees(p)
  /\ \A p \in Procs : OneContext(p)
  /\ \A p \in Procs : Seen(p)
  /\ \A r \in Refs : Named(r)

------------------------------------------------------------------------------
(* Facts about the records. *)

Places == {"editor", "ending", "authorizing", "locked", "checked"}

LEMMA IdleType == Idle \in Jobs /\ Idle.at = "idle"
  BY DEF Idle, Jobs

LEMMA RunningType ==
  ASSUME NEW j \in Running
  PROVE  /\ j \in Jobs
         /\ j.at \in Places /\ j.at # "idle" /\ j.kind \in Kinds
         /\ j.before \in Views /\ j.after \in Views
         /\ j.todo \subseteq Refs /\ j.done \subseteq Refs
         /\ j.unseen \subseteq Refs /\ j.late \subseteq Refs
  BY DEF Running, Jobs, Places

LEMMA BusyRuns ==
  ASSUME TypeOK, NEW p \in Procs, ~At(p, "idle")
  PROVE  job[p] \in Running
  BY DEF TypeOK, Jobs, Idle, At

(* One step on: at a later place, everything else kept. *)
LEMMA SetAt ==
  ASSUME NEW j \in Running, NEW at \in Places
  PROVE  LET k == [j EXCEPT !.at = at]
         IN  /\ k \in Running /\ k.at = at /\ k.kind = j.kind
             /\ k.before = j.before /\ k.after = j.after /\ k.todo = j.todo
             /\ k.done = j.done /\ k.unseen = j.unseen /\ k.late = j.late
             /\ k.stale = j.stale
  BY DEF Running, Places

LEMMA SetUnseen ==
  ASSUME NEW j \in Running, NEW unseen \in SUBSET Refs
  PROVE  LET k == [j EXCEPT !.unseen = unseen]
         IN  /\ k \in Running /\ k.at = j.at /\ k.kind = j.kind
             /\ k.before = j.before /\ k.after = j.after /\ k.todo = j.todo
             /\ k.done = j.done /\ k.unseen = unseen /\ k.late = j.late
             /\ k.stale = j.stale
  BY DEF Running

LEMMA SetLate ==
  ASSUME NEW j \in Running, NEW late \in SUBSET Refs
  PROVE  LET k == [j EXCEPT !.late = late]
         IN  /\ k \in Running /\ k.at = j.at /\ k.kind = j.kind
             /\ k.before = j.before /\ k.after = j.after /\ k.todo = j.todo
             /\ k.done = j.done /\ k.unseen = j.unseen /\ k.late = late
             /\ k.stale = j.stale
  BY DEF Running

(* A session ended or saved. *)
LEMMA SetTodoDone ==
  ASSUME NEW j \in Running, NEW todo \in SUBSET Refs, NEW done \in SUBSET Refs
  PROVE  LET k == [j EXCEPT !.todo = todo, !.done = done]
         IN  /\ k \in Running /\ k.at = j.at /\ k.kind = j.kind
             /\ k.before = j.before /\ k.after = j.after /\ k.todo = todo
             /\ k.done = done /\ k.unseen = j.unseen /\ k.late = j.late
             /\ k.stale = j.stale
  BY DEF Running

(* Replay: to be looked up. *)
LEMMA SetAtUnseen ==
  ASSUME NEW j \in Running, NEW at \in Places, NEW unseen \in SUBSET Refs
  PROVE  LET k == [j EXCEPT !.at = at, !.unseen = unseen]
         IN  /\ k \in Running /\ k.at = at /\ k.kind = j.kind
             /\ k.before = j.before /\ k.after = j.after /\ k.todo = j.todo
             /\ k.done = j.done /\ k.unseen = unseen /\ k.late = j.late
             /\ k.stale = j.stale
  BY DEF Running, Places

(* Amend and Record: a result worked out under the lock. *)
LEMMA SetResult ==
  ASSUME NEW j \in Running, NEW at \in Places, NEW before \in Views, NEW after \in Views
  PROVE  LET k == [j EXCEPT !.at = at, !.before = before, !.after = after]
         IN  /\ k \in Running /\ k.at = at /\ k.kind = j.kind
             /\ k.before = before /\ k.after = after /\ k.todo = j.todo
             /\ k.done = j.done /\ k.unseen = j.unseen /\ k.late = j.late
             /\ k.stale = j.stale
  BY DEF Running, Places

LEMMA WithLoginType ==
  ASSUME ContextAssumption, NEW v \in Views, NEW c \in LoginRefs,
         NEW b \in Bindings \cup {None}, b # None \/ v.access[c] = None
  PROVE  /\ WithLogin(v, c, b) \in Views
         /\ WithLogin(v, c, b).access[c] = b
         /\ \A r \in Refs \ {c} : WithLogin(v, c, b).access[r] = v.access[r]
<1> DEFINE w == WithLogin(v, c, b)
<1>1. /\ w \in [access : [Refs -> Bindings \cup {None}], rest : Rests] /\ w.access[c] = b
      /\ \A r \in Refs \ {c} : w.access[r] = v.access[r]
  BY DEF WithLogin, Views, Refs
<1>2. ASSUME NEW r \in SubRefs, w.access[r] # None PROVE w.access[ContextOf(r)] # None
  BY <1>1, <1>2 DEF ContextAssumption, Views, Refs
<1> QED BY <1>1, <1>2 DEF Views

------------------------------------------------------------------------------
(* What a step of one invocation leaves as it was. *)

Local(p) == /\ Holds(p) /\ LookedAgain(p) /\ Placed(p) /\ OnlyEditsStale(p)
            /\ Agrees(p) /\ OneContext(p)

LEMMA OneJob ==
  ASSUME TypeOK, NEW p \in Procs, NEW r \in Jobs, Becomes(p, r)
  PROVE  /\ job' \in [Procs -> Jobs] /\ job'[p] = r
         /\ \A q \in Procs \ {p} : job'[q] = job[q]
  BY DEF TypeOK, Becomes

LEMMA OthersKept ==
  ASSUME IInv, doc' = doc,
         NEW q \in Procs, job'[q] = job[q], holder = q => holder' = q
  PROVE  Local(q)' /\ (stored' = stored /\ strays \subseteq strays' => Seen(q)')
<1>1. Holds(q) /\ LookedAgain(q) /\ Placed(q) /\ OnlyEditsStale(q) /\ Agrees(q) /\ OneContext(q) /\ Seen(q)
  BY DEF IInv
<1>2. Holds(q)'
  BY <1>1 DEF Holds
<1>3. LookedAgain(q)' /\ Placed(q)' /\ OnlyEditsStale(q)' /\ Agrees(q)' /\ OneContext(q)'
  BY <1>1 DEF LookedAgain, Placed, OnlyEditsStale, Agrees, OneContext, At, Runs, Readable
<1>4. ASSUME stored' = stored, strays \subseteq strays' PROVE Seen(q)'
  BY <1>1, <1>4 DEF Seen, At, UnreachedBy, Reached
<1> QED BY <1>2, <1>3, <1>4 DEF Local

LEMMA CreatesKept ==
  ASSUME NEW q \in Procs, job'[q] = job[q], NEW r \in Refs, stored'[r] = stored[r],
         Creates(q, r)
  PROVE  Creates(q, r)'
  BY DEF Creates, Runs

LEMMA NamedKept ==
  ASSUME IInv, doc' = doc, stored' = stored, strays \subseteq strays',
         NEW p \in Procs, \A q \in Procs \ {p} : job'[q] = job[q],
         \A r \in LoginRefs : Creates(p, r) /\ doc.view.access[r] = None
                          => Creates(p, r)' \/ r \in strays'
  PROVE  \A r \in Refs : Named(r)'
<1> SUFFICES ASSUME NEW r \in Refs, stored[r] # None, r \notin strays'
             PROVE  \/ stored[r] = doc.view.access[r]
                    \/ /\ r \in LoginRefs /\ doc.view.access[r] = None
                       /\ \E q \in Procs : Creates(q, r)'
  BY DEF Named
<1>1. Named(r) /\ r \notin strays
  BY DEF IInv
<1>2. ASSUME NEW q \in Procs, Creates(q, r), doc.view.access[r] = None, r \in LoginRefs
      PROVE  Creates(q, r)'
  BY <1>2, CreatesKept
<1> QED BY <1>1, <1>2 DEF Named

LEMMA Reassemble ==
  ASSUME IInv, NEW p \in Procs, NEW r \in Jobs, Becomes(p, r), doc' = doc,
         holder' \in Procs \cup {None}, stored' \in [Refs -> Bindings \cup {None}],
         strays' \subseteq Refs,
         \A q \in Procs \ {p} : holder = q => holder' = q,
         Local(p)', \A q \in Procs : Seen(q)', \A x \in Refs : Named(x)'
  PROVE  IInv'
<1>1. TypeOK /\ TypeOK'
  BY OneJob DEF IInv, TypeOK
<1>2. \A q \in Procs : Local(q)'
  <2> SUFFICES ASSUME NEW q \in Procs, q # p PROVE Local(q)'
    OBVIOUS
  <2>1. job'[q] = job[q]
    BY <1>1, OneJob
  <2> QED BY <2>1, OthersKept
<1> QED BY <1>1, <1>2 DEF IInv, Local

(* A step that only moves one invocation on. *)
LEMMA OnlyJob ==
  ASSUME IInv, NEW p \in Procs, NEW r \in Jobs, Becomes(p, r),
         doc' = doc, stored' = stored, strays' = strays,
         holder' \in Procs \cup {None},
         \A q \in Procs \ {p} : holder = q => holder' = q,
         Local(p)', Seen(p)',
         \A x \in LoginRefs : Creates(p, x) /\ doc.view.access[x] = None => Creates(p, x)'
  PROVE  IInv'
<1>1. TypeOK
  BY DEF IInv
<1>2. \A q \in Procs \ {p} : job'[q] = job[q]
  BY <1>1, OneJob
<1>3. \A q \in Procs : Seen(q)'
  BY <1>2, OthersKept
<1>4. \A x \in Refs : Named(x)'
  BY <1>2, NamedKept
<1> QED BY <1>1, <1>3, <1>4, Reassemble DEF TypeOK

------------------------------------------------------------------------------
(* One lemma per action. *)

LEMMA Starting ==
  ASSUME IInv, NEW p \in Procs, At(p, "idle") \/ At(p, "editor"),
         NEW r \in Running, Becomes(p, r), UNCHANGED <<doc, holder, stored, strays>>,
         r.at \in {"editor", "ending", "authorizing"},
         r.at = "editor" => r.kind = "edit",
         r.at = "ending" => r.kind \in {"change", "edit", "amend", "logout"},
         r.at = "authorizing" => r.kind \in {"login", "create"},
         r.stale => r.kind = "edit",
         r.at = "authorizing" =>
           \A x \in r.todo :
             \/ r.after.access[x] = doc.view.access[x]
             \/ r.kind = "create" /\ x \in LoginRefs /\ doc.view.access[x] = None,
         r.kind = "create" => \A c, d \in LoginRefs \cap r.todo : c = d,
         r.done = {}
  PROVE  IInv'
<1>1. TypeOK /\ Placed(p) /\ r \in Jobs
  BY RunningType DEF IInv
<1>2. job'[p] = r
  BY <1>1, OneJob
<1>3. Holds(p)' /\ LookedAgain(p)' /\ Placed(p)' /\ OnlyEditsStale(p)'
  BY <1>2 DEF Holds, LookedAgain, Placed, OnlyEditsStale, At
<1>4. Agrees(p)'
  BY <1>2 DEF Agrees, At
<1>5. OneContext(p)'
  BY <1>2 DEF OneContext, Runs
<1>6. Seen(p)'
  BY <1>2 DEF Seen, At
<1>7. \A x \in LoginRefs : ~Creates(p, x)
  BY <1>1 DEF Creates, Runs, At, Placed
<1> QED BY <1>1, <1>3, <1>4, <1>5, <1>6, <1>7, OnlyJob DEF Local, TypeOK

LEMMA ViewType == ASSUME IInv PROVE TypeOK /\ doc.view \in Views
  BY DEF IInv, TypeOK

LEMMA UnreachedType ==
  ASSUME NEW v, NEW w PROVE UnreachedBy(v, w) \subseteq Refs
  BY DEF UnreachedBy, Reached

LEMMA StartChangeKeeps ==
  ASSUME IInv, NEW p \in Procs, StartChange(p) PROVE IInv'
<1>1. PICK after \in Views : Plan(p, "change", after, FALSE)
  BY DEF StartChange
<1> DEFINE j == Job("ending", "change", after, UnreachedBy(doc.view, after))
           r == [j EXCEPT !.stale = FALSE]
<1>2. /\ j \in Running /\ j.at = "ending" /\ j.kind = "change" /\ j.done = {}
      /\ j.stale = FALSE
  BY ViewType, UnreachedType DEF Job, Running, Kinds
<1>3. Becomes(p, r)
  BY <1>1 DEF Plan
<1> HIDE DEF j
<1>4. r = j
  BY <1>2 DEF Running
<1>5. At(p, "idle") /\ UNCHANGED <<doc, holder, stored, strays>>
  BY DEF StartChange, Starts
<1> QED BY <1>2, <1>3, <1>4, <1>5, Starting

LEMMA OpenEditorKeeps ==
  ASSUME IInv, NEW p \in Procs, OpenEditor(p) PROVE IInv'
<1> DEFINE r == Job("editor", "edit", doc.view, {})
<1>1. r \in Running /\ r.at = "editor" /\ r.kind = "edit" /\ r.done = {}
  BY ViewType DEF Job, Running, Kinds
<1>2. At(p, "idle") /\ Becomes(p, r) /\ UNCHANGED <<doc, holder, stored, strays>>
  BY DEF OpenEditor, Starts
<1> HIDE DEF r
<1> QED BY <1>1, <1>2, Starting

LEMMA StartAmendKeeps ==
  ASSUME IInv, NEW p \in Procs, StartAmend(p) PROVE IInv'
<1> DEFINE r == Job("ending", "amend", doc.view, {})
<1>1. r \in Running /\ r.at = "ending" /\ r.kind = "amend" /\ r.done = {} /\ ~r.stale
  BY ViewType DEF Job, Running, Kinds
<1>2. At(p, "idle") /\ Becomes(p, r) /\ UNCHANGED <<doc, holder, stored, strays>>
  BY DEF StartAmend, Starts
<1> HIDE DEF r
<1> QED BY <1>1, <1>2, Starting

LEMMA StartLogoutKeeps ==
  ASSUME IInv, NEW p \in Procs, StartLogout(p) PROVE IInv'
<1>1. PICK c \in LoginRefs :
        Becomes(p, Job("ending", "logout", doc.view, {r \in Reached(doc.view) : ContextOf(r) = c}))
  BY DEF StartLogout
<1> DEFINE todo == {r \in Reached(doc.view) : ContextOf(r) = c}
           r == Job("ending", "logout", doc.view, todo)
<1>2. todo \in SUBSET Refs
  BY DEF Reached
<1> HIDE DEF todo
<1>3. r \in Running /\ r.at = "ending" /\ r.kind = "logout" /\ r.done = {} /\ ~r.stale
  BY <1>2, ViewType DEF Job, Running, Kinds
<1>4. At(p, "idle") /\ Becomes(p, r) /\ UNCHANGED <<doc, holder, stored, strays>>
  BY <1>1 DEF StartLogout, Starts, todo
<1> HIDE DEF r
<1> QED BY <1>3, <1>4, Starting

LEMMA StartLoginKeeps ==
  ASSUME IInv, NEW p \in Procs, StartLogin(p) PROVE IInv'
<1>1. PICK chosen \in SUBSET Reached(doc.view) :
        Becomes(p, Job("authorizing", "login", doc.view, chosen))
  BY DEF StartLogin
<1> DEFINE r == Job("authorizing", "login", doc.view, chosen)
<1>2. chosen \in SUBSET Refs
  BY DEF Reached
<1>3. /\ r \in Running /\ r.at = "authorizing" /\ r.kind = "login"
      /\ r.after = doc.view /\ r.done = {} /\ ~r.stale
  BY <1>2, ViewType DEF Job, Running, Kinds
<1>4. At(p, "idle") /\ Becomes(p, r) /\ UNCHANGED <<doc, holder, stored, strays>>
  BY <1>1 DEF StartLogin, Starts
<1> HIDE DEF r
<1> QED BY <1>3, <1>4, Starting

LEMMA StartCreateKeeps ==
  ASSUME ContextAssumption, IInv, NEW p \in Procs, StartCreate(p) PROVE IInv'
<1>1. PICK c \in LoginRefs :
        IF doc.view.access[c] = None
        THEN \E b \in Bindings :
               Becomes(p, Job("authorizing", "create", WithLogin(doc.view, c, b), {c}))
        ELSE Becomes(p, Job("authorizing", "create", doc.view,
                            {r \in Reached(doc.view) : ContextOf(r) = c}))
  BY DEF StartCreate
<1>2. At(p, "idle") /\ UNCHANGED <<doc, holder, stored, strays>>
  BY DEF StartCreate, Starts
<1>3. TypeOK /\ doc.view \in Views /\ c \in Refs
  BY ViewType DEF Refs
<1>4. CASE doc.view.access[c] = None
  <2>1. PICK b \in Bindings :
          Becomes(p, Job("authorizing", "create", WithLogin(doc.view, c, b), {c}))
    BY <1>1, <1>4
  <2> DEFINE r == Job("authorizing", "create", WithLogin(doc.view, c, b), {c})
  <2>2. WithLogin(doc.view, c, b) \in Views
    BY <1>3, WithLoginType
  <2>3. /\ r \in Running /\ r.at = "authorizing" /\ r.kind = "create"
        /\ r.todo = {c} /\ r.done = {} /\ ~r.stale
    BY <1>3, <2>2 DEF Job, Running, Kinds
  <2>4. Becomes(p, r)
    BY <2>1
  <2> HIDE DEF r
  <2> QED BY <1>2, <1>4, <2>3, <2>4, Starting
<1>5. CASE doc.view.access[c] # None
  <2> DEFINE todo == {x \in Reached(doc.view) : ContextOf(x) = c}
             r == Job("authorizing", "create", doc.view, todo)
  <2>1. todo \in SUBSET Refs
    BY DEF Reached
  <2>2. \A x, y \in LoginRefs \cap todo : x = y
    BY DEF ContextOf
  <2>3. Becomes(p, r)
    BY <1>1, <1>5
  <2> HIDE DEF todo
  <2>4. /\ r \in Running /\ r.at = "authorizing" /\ r.kind = "create"
        /\ r.after = doc.view /\ r.todo = todo /\ r.done = {} /\ ~r.stale
    BY <1>3, <2>1 DEF Job, Running, Kinds
  <2> HIDE DEF r
  <2> QED BY <1>2, <2>2, <2>3, <2>4, Starting
<1> QED BY <1>4, <1>5

LEMMA Leaving ==
  ASSUME IInv, NEW p \in Procs, Becomes(p, Idle), ~Runs(p, {"create"}),
         UNCHANGED <<doc, holder, stored, strays>>
  PROVE  IInv'
<1>1. TypeOK /\ Idle \in Jobs /\ Idle.at = "idle"
  BY IdleType DEF IInv
<1>2. job'[p].at = "idle"
  BY <1>1, OneJob
<1>3. Local(p)' /\ Seen(p)'
  BY <1>2 DEF Local, Holds, LookedAgain, Placed, OnlyEditsStale, Agrees, OneContext,
              Seen, At, Runs
<1>4. \A x \in LoginRefs : ~Creates(p, x)
  BY DEF Creates
<1> QED BY <1>1, <1>3, <1>4, OnlyJob DEF TypeOK

(* Stopping, whatever was held: what a creating login had saved is a stray. *)
LEMMA Stopping ==
  ASSUME IInv, NEW p \in Procs, Stops(p), doc' = doc, stored' = stored,
         holder' \in Procs \cup {None},
         \A q \in Procs \ {p} : holder = q => holder' = q
  PROVE  IInv'
<1>1. TypeOK /\ Idle \in Jobs /\ Idle.at = "idle" /\ Becomes(p, Idle)
  BY IdleType DEF IInv, Stops
<1>2. job'[p].at = "idle" /\ \A q \in Procs \ {p} : job'[q] = job[q]
  BY <1>1, OneJob
<1>3. Local(p)' /\ Seen(p)'
  BY <1>2 DEF Local, Holds, LookedAgain, Placed, OnlyEditsStale, Agrees, OneContext,
              Seen, At, Runs
<1>4. Abandoned(p) \subseteq Refs /\ strays' = strays \cup Abandoned(p)
  <2>1. CASE Runs(p, {"create"})
    <3>1. job[p] \in Running
      BY <1>1, <2>1, BusyRuns DEF Runs, At
    <3> QED BY <2>1, <3>1, RunningType DEF Abandoned, Stops
  <2>2. CASE ~Runs(p, {"create"})
    BY <2>2 DEF Abandoned, Stops
  <2> QED BY <2>1, <2>2
<1>5. \A x \in LoginRefs : Creates(p, x) /\ doc.view.access[x] = None => x \in strays'
  BY <1>4 DEF Creates, Abandoned
<1>6. \A x \in Refs : Named(x)'
  BY <1>2, <1>4, <1>5, NamedKept
<1>7. \A q \in Procs : Seen(q)'
  BY <1>2, <1>3, <1>4, OthersKept
<1>8. strays' \subseteq Refs
  BY <1>1, <1>4 DEF TypeOK
<1> QED BY <1>1, <1>3, <1>6, <1>7, <1>8, Reassemble DEF TypeOK

LEMMA CloseEditorKeeps ==
  ASSUME IInv, NEW p \in Procs, CloseEditor(p) PROVE IInv'
<1>1. At(p, "editor") /\ UNCHANGED <<doc, holder, stored, strays>>
  BY DEF CloseEditor
<1>2. CASE Becomes(p, Idle)
  <2>1. Placed(p)
    BY DEF IInv
  <2>2. ~Runs(p, {"create"})
    BY <1>1, <2>1 DEF Placed, Runs, At
  <2> QED BY <1>1, <1>2, <2>2, Leaving
<1>3. CASE \E after \in Views : Plan(p, "edit", after, job[p].before # doc.view)
  <2>1. PICK after \in Views : Plan(p, "edit", after, job[p].before # doc.view)
    BY <1>3
  <2> DEFINE stale == job[p].before # doc.view
             todo == UnreachedBy(doc.view, after)
             j == Job("ending", "edit", after, todo)
             r == [j EXCEPT !.stale = stale]
  <2>2. todo \in SUBSET Refs /\ stale \in BOOLEAN
    BY UnreachedType
  <2>3. Becomes(p, r)
    BY <2>1 DEF Plan
  <2> HIDE DEF todo, stale
  <2>4. j \in Running /\ j.at = "ending" /\ j.kind = "edit" /\ j.done = {}
    BY <2>2, ViewType DEF Job, Running, Kinds
  <2> HIDE DEF j
  <2>5. r \in Running /\ r.at = "ending" /\ r.kind = "edit" /\ r.done = {}
    BY <2>2, <2>4 DEF Running
  <2> HIDE DEF r
  <2> QED BY <1>1, <2>3, <2>5, Starting
<1> QED BY <1>2, <1>3 DEF CloseEditor

LEMMA FinishKeeps ==
  ASSUME IInv, NEW p \in Procs, Finish(p) PROVE IInv'
<1>1. ~Runs(p, {"create"})
  BY DEF Finish, Runs
<1> QED BY <1>1, Leaving DEF Finish

LEMMA EndSessionKeeps ==
  ASSUME IInv, NEW p \in Procs, EndSession(p) PROVE IInv'
<1>1. At(p, "ending") /\ doc' = doc /\ holder' = holder /\ TypeOK /\ Placed(p)
  BY DEF EndSession, IInv
<1>2. job[p] \in Running /\ ~Runs(p, {"create"}) /\ job[p].at = "ending"
  BY <1>1, BusyRuns DEF At, Placed, Runs
<1>3. CASE Becomes(p, Idle) /\ UNCHANGED <<stored, strays>>
  BY <1>1, <1>2, <1>3, Leaving
<1>4. CASE \E x \in job[p].todo :
             /\ stored' = [stored EXCEPT ![x] = None]
             /\ Becomes(p, [job[p] EXCEPT !.todo = @ \ {x}, !.done = @ \cup {x}])
             /\ strays' = strays \ {x}
  <2>1. PICK x \in job[p].todo :
             /\ stored' = [stored EXCEPT ![x] = None]
             /\ Becomes(p, [job[p] EXCEPT !.todo = @ \ {x}, !.done = @ \cup {x}])
             /\ strays' = strays \ {x}
    BY <1>4
  <2> DEFINE j == job[p]  todo == j.todo \ {x}  done == j.done \cup {x}
             r == [j EXCEPT !.todo = todo, !.done = done]
  <2>2. Becomes(p, r)
    BY <2>1
  <2>3. x \in Refs /\ todo \in SUBSET Refs /\ done \in SUBSET Refs /\ j \in Running
    BY <1>2, RunningType
  <2>a. j.at = "ending"
    BY <1>2
  <2> HIDE DEF todo, done, j
  <2>4. r \in Running /\ r.at = "ending" /\ r.kind = j.kind /\ r.stale = j.stale
    BY <2>a, <2>3 DEF Running
  <2> USE DEF j
  <2> HIDE DEF r
  <2>5. job'[p] = r /\ r \in Jobs /\ \A q \in Procs \ {p} : job'[q] = job[q]
    BY <1>1, <2>2, <2>4, OneJob, RunningType
  <2>6. Local(p)' /\ Seen(p)'
    <3>1. Placed(p) /\ OnlyEditsStale(p) /\ ~Runs(p, {"create"})
      BY <1>2 DEF IInv
    <3> QED BY <1>2, <2>4, <2>5, <3>1
            DEF Local, Holds, LookedAgain, Placed, OnlyEditsStale, Agrees, OneContext,
                Seen, At, Runs
  <2>7. /\ stored' \in [Refs -> Bindings \cup {None}] /\ stored'[x] = None
        /\ \A y \in Refs \ {x} : stored'[y] = stored[y] /\ (y \in strays <=> y \in strays')
        /\ strays' \subseteq Refs
    <3>1. stored \in [Refs -> Bindings \cup {None}] /\ strays \subseteq Refs
      BY <1>1 DEF TypeOK
    <3>2. stored' = [stored EXCEPT ![x] = None] /\ strays' = strays \ {x}
      BY <2>1
    <3> QED BY <2>3, <3>1, <3>2
  <2>8. ASSUME NEW q \in Procs, q # p PROVE Seen(q)'
    <3>1. Seen(q) /\ job'[q] = job[q]
      BY <2>5, <2>8 DEF IInv
    <3> QED BY <1>1, <2>7, <3>1 DEF Seen, At, UnreachedBy, Reached
  <2>9. ASSUME NEW y \in Refs PROVE Named(y)'
    <3>1. CASE y = x
      BY <2>7, <3>1 DEF Named
    <3>2. CASE y # x
      <4>1. Named(y) /\ stored'[y] = stored[y] /\ (y \in strays <=> y \in strays')
        BY <2>7, <3>2 DEF IInv
      <4>2. ASSUME NEW q \in Procs, Creates(q, y) PROVE Creates(q, y)'
        <5>1. q # p
          BY <1>2, <4>2 DEF Creates
        <5> QED BY <2>5, <4>1, <4>2, <5>1, CreatesKept
      <4> QED BY <1>1, <4>1, <4>2 DEF Named
    <3> QED BY <3>1, <3>2
  <2> QED BY <1>1, <2>2, <2>5, <2>6, <2>7, <2>8, <2>9, Reassemble DEF TypeOK
<1> QED BY <1>3, <1>4 DEF EndSession

LEMMA LockRefusedKeeps ==
  ASSUME IInv, NEW p \in Procs, LockRefused(p) PROVE IInv'
  BY ViewType, Stopping DEF LockRefused, TypeOK

LEMMA RefuseKeeps ==
  ASSUME ContextAssumption, IInv, NEW p \in Procs, Refuse(p) PROVE IInv'
<1>1. Holds(p) /\ holder' = None /\ holder = p
  BY DEF Refuse, IInv, Holds
<1> QED BY <1>1, Stopping DEF Refuse

LEMMA CrashKeeps ==
  ASSUME IInv, NEW p \in Procs, Crash(p) PROVE IInv'
<1>1. /\ holder' \in Procs \cup {None}
      /\ \A q \in Procs \ {p} : holder = q => holder' = q
  BY ViewType DEF Crash, TypeOK
<1> QED BY <1>1, Stopping DEF Crash

LEMMA SupersedeKeeps ==
  ASSUME ContextAssumption, IInv, Supersede PROVE IInv'
<1>1. /\ doc'.view = doc.view /\ holder = None /\ TypeOK
      /\ UNCHANGED <<holder, stored, job, strays>>
  BY DEF Supersede, IInv, TypeOK
<1>2. TypeOK'
  BY <1>1 DEF Supersede, TypeOK
<1>3. ASSUME NEW p \in Procs PROVE Local(p)' /\ Seen(p)'
  <2>1. /\ Holds(p) /\ Placed(p) /\ OnlyEditsStale(p)
        /\ Agrees(p) /\ OneContext(p) /\ Seen(p)
    BY DEF IInv
  <2>2. job[p].at \notin {"locked", "checked"}
    BY <1>1, <2>1 DEF Holds, ContextAssumption
  <2>3. Holds(p)' /\ LookedAgain(p)' /\ Seen(p)'
    BY <1>1, <2>2 DEF Holds, LookedAgain, Seen, At
  <2>4. Placed(p)' /\ OnlyEditsStale(p)' /\ Agrees(p)' /\ OneContext(p)'
    BY <1>1, <2>1 DEF Placed, OnlyEditsStale, Agrees, OneContext, At, Runs
  <2> QED BY <2>3, <2>4 DEF Local
<1>4. ASSUME NEW r \in Refs PROVE Named(r)'
  <2>1. Named(r)
    BY DEF IInv
  <2> QED BY <1>1, <2>1 DEF Named, Creates, Runs
<1> QED BY <1>2, <1>3, <1>4 DEF IInv, Local

(* A step inside contexts.Update, or into it. *)
LEMMA Advancing ==
  ASSUME ContextAssumption, IInv, NEW p \in Procs, ~At(p, "idle"),
         NEW r \in Running, Becomes(p, r), UNCHANGED <<doc, stored, strays>>,
         holder \in {p, None}, holder' = p, r.at \in {"locked", "checked"},
         r.kind = job[p].kind, r.todo = job[p].todo, r.done = job[p].done,
         r.stale = job[p].stale,
         r.at = "checked" => Readable /\ r.before = doc.view,
         r.at = "checked" =>
           \A x \in UnreachedBy(r.before, r.after) \ r.unseen :
             stored[x] = None \/ x \in strays,
         \A x \in LoginRefs : Creates(p, x) /\ doc.view.access[x] = None
                           => r.after.access[x] = stored[x]
  PROVE  IInv'
<1>1. TypeOK /\ r \in Jobs /\ OnlyEditsStale(p) /\ OneContext(p)
  BY RunningType DEF IInv
<1>2. job'[p] = r
  BY <1>1, OneJob
<1>3. Holds(p)' /\ LookedAgain(p)' /\ Placed(p)' /\ Agrees(p)'
  BY <1>2 DEF Holds, LookedAgain, Placed, Agrees, At, Readable
<1>4. OnlyEditsStale(p)' /\ OneContext(p)'
  BY <1>1, <1>2 DEF OnlyEditsStale, OneContext, At, Runs
<1>5. Seen(p)'
  BY <1>2 DEF Seen, At, UnreachedBy, Reached
<1>6. \A x \in LoginRefs : Creates(p, x) /\ doc.view.access[x] = None => Creates(p, x)'
  BY <1>2 DEF Creates, Runs
<1>7. \A q \in Procs \ {p} : holder = q => holder' = q
  BY DEF ContextAssumption
<1> QED BY <1>1, <1>3, <1>4, <1>5, <1>6, <1>7, OnlyJob DEF Local

LEMMA LockKeeps ==
  ASSUME ContextAssumption, IInv, NEW p \in Procs, Lock(p) PROVE IInv'
<1>1. ~At(p, "idle") /\ holder = None /\ holder' = p /\ UNCHANGED <<doc, stored, strays>>
  BY DEF Lock, Writes, At
<1> DEFINE j == job[p]  r == [j EXCEPT !.at = "locked"]
<1>2. j \in Running /\ Becomes(p, r)
  BY <1>1, ViewType, BusyRuns DEF Lock
<1>3. /\ r \in Running /\ r.at = "locked" /\ r.kind = j.kind /\ r.todo = j.todo
      /\ r.done = j.done /\ r.stale = j.stale /\ r.after = j.after
  <2> HIDE DEF j
  <2> QED BY <1>2 DEF Running
<1> HIDE DEF r
<1>4. \A x \in LoginRefs : Creates(p, x) => r.after.access[x] = stored[x]
  BY <1>3 DEF Creates
<1> QED BY <1>1, <1>2, <1>3, <1>4, Advancing

LEMMA ReplayKeeps ==
  ASSUME ContextAssumption, IInv, NEW p \in Procs, Replay(p) PROVE IInv'
<1>1. /\ ~At(p, "idle") /\ Readable /\ holder = p /\ holder' = p
      /\ job[p].before = doc.view /\ UNCHANGED <<doc, stored, strays>>
  BY DEF Replay, At, IInv, Holds
<1> DEFINE j == job[p]  unseen == UnreachedBy(doc.view, j.after)
           r == [j EXCEPT !.at = "checked", !.unseen = unseen]
<1>2. j \in Running /\ Becomes(p, r) /\ unseen \in SUBSET Refs
  BY <1>1, ViewType, BusyRuns, UnreachedType DEF Replay, Checks
<1> HIDE DEF unseen
<1>3. /\ r \in Running /\ r.at = "checked" /\ r.kind = j.kind /\ r.todo = j.todo
      /\ r.done = j.done /\ r.stale = j.stale /\ r.after = j.after
      /\ r.before = j.before /\ r.unseen = unseen
  <2> HIDE DEF j
  <2> QED BY <1>2 DEF Running
<1> HIDE DEF r
<1>4. UnreachedBy(r.before, r.after) \ r.unseen = {}
  BY <1>1, <1>3 DEF unseen
<1>5. \A x \in LoginRefs : Creates(p, x) => r.after.access[x] = stored[x]
  BY <1>3 DEF Creates
<1> QED BY <1>1, <1>2, <1>3, <1>4, <1>5, Advancing

LEMMA LookUpKeeps ==
  ASSUME ContextAssumption, IInv, NEW p \in Procs, LookUp(p) PROVE IInv'
<1>1. /\ At(p, "checked") /\ ~At(p, "idle") /\ holder = p /\ holder' = p
      /\ LookedAgain(p) /\ Seen(p) /\ UNCHANGED <<doc, stored, strays>>
  BY DEF LookUp, At, IInv, Holds
<1>2. PICK x \in job[p].unseen :
        stored[x] = None /\ Becomes(p, [job[p] EXCEPT !.unseen = @ \ {x}])
  BY DEF LookUp
<1> DEFINE j == job[p]  unseen == j.unseen \ {x}  r == [j EXCEPT !.unseen = unseen]
<1>3. j \in Running /\ Becomes(p, r) /\ j.at = "checked"
  BY <1>1, <1>2, ViewType, BusyRuns DEF At
<1>4. unseen \in SUBSET Refs
  BY <1>3, RunningType
<1> HIDE DEF unseen
<1>5. /\ r \in Running /\ r.at = "checked" /\ r.kind = j.kind /\ r.todo = j.todo
      /\ r.done = j.done /\ r.stale = j.stale /\ r.after = j.after
      /\ r.before = j.before /\ r.unseen = unseen
  <2> HIDE DEF j
  <2> QED BY <1>3, <1>4 DEF Running
<1> HIDE DEF r
<1>6. \A y \in UnreachedBy(r.before, r.after) \ r.unseen : stored[y] = None \/ y \in strays
  BY <1>1, <1>2, <1>5 DEF Seen, unseen
<1>7. \A y \in LoginRefs : Creates(p, y) => r.after.access[y] = stored[y]
  BY <1>5 DEF Creates
<1>8. Readable /\ r.before = doc.view
  BY <1>1, <1>5 DEF LookedAgain
<1> QED BY <1>1, <1>3, <1>5, <1>6, <1>7, <1>8, Advancing

(* Amend and Record touch only a context whose login is not recorded, whose
   references therefore nothing reached. *)
LEMMA NothingUnreached ==
  ASSUME NEW v \in Views, NEW w, NEW c \in LoginRefs,
         \A x \in Refs : w.access[x] # v.access[x] => ContextOf(x) = c /\ v.access[c] = None
  PROVE  UnreachedBy(v, w) = {}
  BY DEF UnreachedBy, Reached, Views, Refs, ContextOf

LEMMA AmendKeeps ==
  ASSUME ContextAssumption, IInv, NEW p \in Procs, Amend(p) PROVE IInv'
<1>1. /\ ~At(p, "idle") /\ Readable /\ holder = p /\ holder' = p /\ Runs(p, {"amend"})
      /\ UNCHANGED <<doc, stored, strays>>
  BY DEF Amend, At, IInv, Holds
<1>2. PICK after \in Amended(doc.view) :
        Becomes(p, [job[p] EXCEPT !.at = "checked", !.before = doc.view, !.after = after])
  BY DEF Amend
<1> DEFINE j == job[p]  before == doc.view
           r == [j EXCEPT !.at = "checked", !.before = before, !.after = after]
<1>3. /\ j \in Running /\ Becomes(p, r) /\ before \in Views /\ after \in Views
  BY <1>1, <1>2, ViewType, BusyRuns DEF Amended
<1>4. UnreachedBy(before, after) = {}
  <2>1. PICK c \in LoginRefs : \A x \in Refs :
          after.access[x] # before.access[x] => ContextOf(x) = c /\ before.access[c] = None
    BY <1>2 DEF Amended
  <2> HIDE DEF before
  <2> QED BY <1>3, <2>1, NothingUnreached
<1>5. /\ r \in Running /\ r.at = "checked" /\ r.kind = j.kind /\ r.todo = j.todo
      /\ r.done = j.done /\ r.stale = j.stale /\ r.after = after /\ r.before = before
  <2> HIDE DEF j, before
  <2> QED BY <1>3 DEF Running
<1> HIDE DEF r
<1>6. \A x \in LoginRefs : ~Creates(p, x)
  BY <1>1 DEF Creates, Runs
<1>7. UnreachedBy(r.before, r.after) = {}
  BY <1>4, <1>5
<1> QED BY <1>1, <1>3, <1>5, <1>6, <1>7, Advancing

LEMMA RecordKeeps ==
  ASSUME ContextAssumption, IInv, NEW p \in Procs, Record(p) PROVE IInv'
<1>1. /\ ~At(p, "idle") /\ Readable /\ holder = p /\ holder' = p /\ Runs(p, {"create"})
      /\ OneContext(p) /\ UNCHANGED <<doc, stored, strays>>
  BY DEF Record, At, IInv, Holds
<1> DEFINE j == job[p]
           v(rest) == [doc.view EXCEPT !.rest = rest]
           w(c, rest) == IF v(rest).access[c] # None THEN v(rest)
                         ELSE WithLogin(v(rest), c, j.after.access[c])
<1>2. PICK c \in LoginRefs \cap j.done, rest \in Rests :
        Becomes(p, [j EXCEPT !.at = "checked", !.before = doc.view, !.after = w(c, rest)])
  BY DEF Record
<1> DEFINE before == doc.view  after == w(c, rest)
           r == [j EXCEPT !.at = "checked", !.before = before, !.after = after]
<1>3. /\ j \in Running /\ Becomes(p, r) /\ before \in Views
  BY <1>1, <1>2, ViewType, BusyRuns
<1>4. v(rest) \in Views /\ v(rest).access = before.access
  BY <1>3 DEF Views
<1>5. j.after.access[c] \in Bindings \cup {None}
  BY <1>3, RunningType DEF Views, Refs
<1> HIDE DEF v
<1>6. /\ after \in Views
      /\ \A x \in Refs : after.access[x] # before.access[x] => x = c /\ before.access[c] = None
      /\ before.access[c] = None => after.access[c] = j.after.access[c]
  <2>1. CASE before.access[c] = None
    <3>1. after = WithLogin(v(rest), c, j.after.access[c])
      BY <1>4, <2>1
    <3>2. /\ WithLogin(v(rest), c, j.after.access[c]) \in Views
          /\ WithLogin(v(rest), c, j.after.access[c]).access[c] = j.after.access[c]
          /\ \A x \in Refs \ {c} :
               WithLogin(v(rest), c, j.after.access[c]).access[x] = v(rest).access[x]
      BY <1>4, <1>5, <2>1, WithLoginType
    <3> QED BY <1>4, <2>1, <3>1, <3>2
  <2>2. CASE before.access[c] # None
    BY <1>4, <2>2
  <2> QED BY <2>1, <2>2
<1> HIDE DEF w
<1>7. UnreachedBy(before, after) = {}
  <2>1. \A x \in Refs :
          after.access[x] # before.access[x] => ContextOf(x) = c /\ before.access[c] = None
    BY <1>6 DEF ContextOf
  <2> HIDE DEF before, after
  <2> QED BY <1>3, <2>1, NothingUnreached
<1>8. /\ r \in Running /\ r.at = "checked" /\ r.kind = j.kind /\ r.todo = j.todo
      /\ r.done = j.done /\ r.stale = j.stale /\ r.after = after /\ r.before = before
  <2> HIDE DEF j, before, after
  <2> QED BY <1>3, <1>6 DEF Running
<1> HIDE DEF r
<1>9. \A x \in LoginRefs : Creates(p, x) /\ doc.view.access[x] = None
                            => r.after.access[x] = stored[x]
  <2> SUFFICES ASSUME NEW x \in LoginRefs, Creates(p, x), doc.view.access[x] = None
               PROVE  after.access[x] = stored[x]
    BY <1>8
  <2>1. x = c
    BY <1>1, <1>2 DEF Creates, OneContext
  <2> QED BY <1>6, <2>1 DEF Creates
<1>10. UnreachedBy(r.before, r.after) = {}
  BY <1>7, <1>8
<1> QED BY <1>1, <1>3, <1>8, <1>9, <1>10, Advancing

LEMMA EstablishKeeps ==
  ASSUME IInv, NEW p \in Procs, Establish(p) PROVE IInv'
<1>1. At(p, "authorizing") /\ doc' = doc /\ holder' = holder /\ TypeOK
  BY DEF Establish, IInv
<1>2. job[p] \in Running /\ job[p].at = "authorizing"
  BY <1>1, BusyRuns DEF At
<1>3. CASE Stops(p) /\ UNCHANGED stored
  BY <1>1, <1>3, Stopping DEF TypeOK
<1>4. CASE \E x \in job[p].todo :
             /\ stored' = [stored EXCEPT ![x] = job[p].after.access[x]]
             /\ Becomes(p, [job[p] EXCEPT !.todo = @ \ {x}, !.done = @ \cup {x}])
             /\ strays' = IF x \in job[p].late \/ LookedAt(x)
                          THEN strays \cup {x} ELSE strays \ {x}
  <2>1. PICK x \in job[p].todo :
             /\ stored' = [stored EXCEPT ![x] = job[p].after.access[x]]
             /\ Becomes(p, [job[p] EXCEPT !.todo = @ \ {x}, !.done = @ \cup {x}])
             /\ strays' = IF x \in job[p].late \/ LookedAt(x)
                          THEN strays \cup {x} ELSE strays \ {x}
    BY <1>4
  <2> DEFINE j == job[p]  todo == j.todo \ {x}  done == j.done \cup {x}
             r == [j EXCEPT !.todo = todo, !.done = done]
  <2>2. Becomes(p, r)
    BY <2>1
  <2>3. /\ x \in Refs /\ todo \in SUBSET Refs /\ done \in SUBSET Refs /\ j \in Running
        /\ j.after.access[x] \in Bindings \cup {None}
    BY <1>2, RunningType DEF Views
  <2>4. /\ r \in Running /\ r.at = j.at /\ r.kind = j.kind /\ r.stale = j.stale
        /\ r.todo = todo /\ r.done = done /\ r.after = j.after /\ r.late = j.late
    <3> HIDE DEF j, todo, done
    <3> QED BY <2>3 DEF Running
  <2> HIDE DEF r
  <2>5. job'[p] = r /\ r \in Jobs /\ \A q \in Procs \ {p} : job'[q] = job[q]
    BY <1>1, <2>2, <2>4, OneJob, RunningType
  <2>6. /\ stored' \in [Refs -> Bindings \cup {None}]
        /\ stored'[x] = j.after.access[x]
        /\ \A y \in Refs \ {x} : stored'[y] = stored[y] /\ (y \in strays <=> y \in strays')
        /\ strays' \subseteq Refs
        /\ x \in strays' <=> x \in j.late \/ LookedAt(x)
    <3>1. stored \in [Refs -> Bindings \cup {None}] /\ strays \subseteq Refs
      BY <1>1 DEF TypeOK
    <3> QED BY <2>1, <2>3, <3>1
  <2>7. Local(p)' /\ Seen(p)'
    <3>1. Placed(p) /\ OnlyEditsStale(p) /\ Agrees(p) /\ OneContext(p)
      BY DEF IInv
    <3>2. Holds(p)' /\ LookedAgain(p)' /\ Seen(p)'
      BY <1>2, <2>4, <2>5 DEF Holds, LookedAgain, Seen, At
    <3>3. Placed(p)' /\ OnlyEditsStale(p)'
      BY <1>2, <2>4, <2>5, <3>1 DEF Placed, OnlyEditsStale, At
    <3>4. Agrees(p)'
      BY <1>1, <1>2, <2>4, <2>5, <3>1 DEF Agrees, At
    <3>5. OneContext(p)'
      BY <1>2, <2>1, <2>4, <2>5, <3>1 DEF OneContext, Runs
    <3> QED BY <3>2, <3>3, <3>4, <3>5 DEF Local
  <2>8. ASSUME NEW q \in Procs, q # p PROVE Seen(q)'
    <3>1. Seen(q) /\ job'[q] = job[q]
      BY <2>5, <2>8 DEF IInv
    <3>2. At(q, "checked") /\ x \in UnreachedBy(job[q].before, job[q].after) \ job[q].unseen
            => x \in strays'
      BY <2>6 DEF LookedAt
    <3> QED BY <2>3, <2>6, <3>1, <3>2 DEF Seen, At, UnreachedBy, Reached
  <2>9. ASSUME NEW y \in Refs PROVE Named(y)'
    <3>1. CASE y = x
      <4> SUFFICES ASSUME stored'[x] # None, x \notin strays'
                   PROVE  \/ stored'[x] = doc.view.access[x]
                          \/ x \in LoginRefs /\ doc.view.access[x] = None /\ Creates(p, x)'
        BY <1>1, <3>1 DEF Named
      <4>1. \/ j.after.access[x] = doc.view.access[x]
            \/ j.kind = "create" /\ x \in LoginRefs /\ doc.view.access[x] = None
        BY <1>1, <2>1, <2>6 DEF IInv, Agrees
      <4> QED BY <1>2, <2>4, <2>5, <2>6, <4>1 DEF Creates, Runs
    <3>2. CASE y # x
      <4>1. Named(y) /\ stored'[y] = stored[y] /\ (y \in strays <=> y \in strays')
        BY <2>6, <3>2 DEF IInv
      <4>2. ASSUME NEW q \in Procs, Creates(q, y) PROVE Creates(q, y)'
        <5>1. CASE q = p
          BY <1>2, <2>4, <2>5, <4>1, <4>2, <5>1 DEF Creates, Runs
        <5>2. CASE q # p
          BY <2>5, <4>1, <4>2, <5>2, CreatesKept
        <5> QED BY <5>1, <5>2
      <4> QED BY <1>1, <4>1, <4>2 DEF Named
    <3> QED BY <3>1, <3>2
  <2> QED BY <1>1, <2>2, <2>5, <2>6, <2>7, <2>8, <2>9, Reassemble DEF TypeOK
<1> QED BY <1>3, <1>4 DEF Establish

LEMMA WriteKeeps ==
  ASSUME ContextAssumption, IInv, NEW p \in Procs, Write(p) PROVE IInv'
<1> DEFINE after == job[p].after
<1>1. /\ TypeOK /\ At(p, "checked") /\ holder = p /\ job[p].unseen = {} /\ holder' = None
      /\ LookedAgain(p) /\ Seen(p) /\ stored' = stored
      /\ doc' = [schema |-> "current", view |-> after]
  BY DEF Write, At, IInv, Holds
<1>2. job[p] \in Running /\ after \in Views /\ doc'.view = after /\ doc.view = job[p].before
  BY <1>1, BusyRuns, RunningType DEF At, LookedAgain
<1> DEFINE lost(q) == Overtaken(q, after)
           late(q) == job[q].late \cup lost(q)
<1>3. /\ job' = [q \in Procs |->
                  IF q = p THEN Idle
                  ELSE IF q \in LoggingIn THEN [job[q] EXCEPT !.late = late(q)] ELSE job[q]]
      /\ strays' = strays \cup UNION {lost(q) \cap job[q].done : q \in LoggingIn}
  BY DEF Write
<1>4. ASSUME NEW q \in LoggingIn
      PROVE  q \in Procs /\ job[q] \in Running /\ lost(q) \in SUBSET Refs /\ late(q) \in SUBSET Refs
  <2>1. q \in Procs /\ job[q] \in Running
    BY <1>1, BusyRuns DEF LoggingIn, At
  <2>2. job[q].todo \subseteq Refs /\ job[q].done \subseteq Refs /\ job[q].late \subseteq Refs
    BY <2>1, RunningType
  <2>3. lost(q) \in SUBSET Refs
    BY <2>2 DEF Overtaken
  <2> HIDE DEF lost
  <2> QED BY <2>1, <2>2, <2>3
<1>5. ASSUME NEW q \in LoggingIn, q # p
      PROVE  LET k == [job[q] EXCEPT !.late = late(q)]
             IN  /\ k \in Running /\ k.at = job[q].at /\ k.kind = job[q].kind
                 /\ k.after = job[q].after /\ k.todo = job[q].todo
                 /\ k.done = job[q].done /\ k.late = late(q) /\ k.stale = job[q].stale
  <2>1. job[q] \in Running /\ late(q) \in SUBSET Refs
    BY <1>4
  <2> HIDE DEF late
  <2> QED BY <2>1 DEF Running
<1> HIDE DEF late
<1>6. job'[p] = Idle
  BY <1>3
<1>7. ASSUME NEW q \in LoggingIn, q # p
      PROVE  /\ job'[q] \in Running /\ job'[q].at = job[q].at /\ job'[q].kind = job[q].kind
             /\ job'[q].after = job[q].after /\ job'[q].todo = job[q].todo
             /\ job'[q].done = job[q].done /\ job'[q].late = late(q)
             /\ job'[q].stale = job[q].stale
  <2>1. job'[q] = [job[q] EXCEPT !.late = late(q)]
    BY <1>3, <1>4, <1>7
  <2> QED BY <1>5, <1>7, <2>1
<1>8. ASSUME NEW q \in Procs \ LoggingIn, q # p PROVE job'[q] = job[q]
  BY <1>3, <1>8
<1> HIDE DEF after
<1>9. \A q \in LoggingIn : lost(q) \cap job[q].done \subseteq strays'
  BY <1>3
<1>10. TypeOK'
  <2>1. \A q \in Procs : job'[q] \in Jobs
    BY <1>1, <1>6, <1>7, <1>8, IdleType, RunningType DEF TypeOK
  <2>2. job' \in [Procs -> Jobs]
    <3>1. job' = [q \in Procs |-> job'[q]]
      BY <1>3
    <3> QED BY <2>1, <3>1
  <2>3. strays' \subseteq Refs
    <3> HIDE DEF lost
    <3> QED BY <1>1, <1>3, <1>4 DEF TypeOK
  <2> QED BY <1>1, <1>2, <2>2, <2>3 DEF TypeOK
<1>11. ASSUME NEW q \in Procs PROVE Local(q)' /\ Seen(q)'
  <2>1. CASE q = p
    BY <1>6, <2>1, IdleType DEF Local, Holds, LookedAgain, Placed, OnlyEditsStale, Agrees,
                                OneContext, Seen, At, Runs
  <2>2. CASE q # p
    <3>1. Holds(q) /\ Placed(q) /\ OnlyEditsStale(q) /\ Agrees(q) /\ OneContext(q)
      BY DEF IInv
    <3>2. job[q].at \notin {"locked", "checked"}
      BY <1>1, <2>2, <3>1 DEF Holds
    <3>3. CASE q \in LoggingIn
      <4>1. job'[q].at = "authorizing" /\ job[q].at = "authorizing"
        BY <1>7, <2>2, <3>3 DEF LoggingIn, At
      <4>2. Holds(q)' /\ LookedAgain(q)' /\ Seen(q)'
        BY <4>1 DEF Holds, LookedAgain, Seen, At
      <4>3. Placed(q)' /\ OnlyEditsStale(q)' /\ OneContext(q)'
        BY <1>7, <2>2, <3>1, <3>3, <4>1 DEF Placed, OnlyEditsStale, OneContext, At, Runs
      <4>4. Agrees(q)'
        <5> SUFFICES ASSUME NEW x \in job[q].todo \ late(q)
                     PROVE  \/ job[q].after.access[x] = after.access[x]
                            \/ /\ job[q].kind = "create" /\ x \in LoginRefs
                               /\ after.access[x] = None
          BY <1>2, <1>7, <2>2, <3>3 DEF Agrees
        <5>1. after.access[x] = doc.view.access[x] /\ x \notin job[q].late
          BY DEF late, Overtaken
        <5> QED BY <3>1, <4>1, <5>1 DEF Agrees, At
      <4> QED BY <4>2, <4>3, <4>4 DEF Local
    <3>4. CASE q \notin LoggingIn
      <4>1. job'[q] = job[q] /\ ~At(q, "authorizing")
        BY <1>8, <2>2, <3>4 DEF LoggingIn
      <4> QED BY <3>1, <3>2, <4>1 DEF Local, Holds, LookedAgain, Placed, OnlyEditsStale,
                                      Agrees, OneContext, Seen, At, Runs
    <3> QED BY <3>3, <3>4
  <2> QED BY <2>1, <2>2
<1>12. ASSUME NEW x \in Refs PROVE Named(x)'
  <2> SUFFICES ASSUME stored[x] # None, x \notin strays'
               PROVE  \/ stored[x] = after.access[x]
                      \/ /\ x \in LoginRefs /\ after.access[x] = None
                         /\ \E q \in Procs : Creates(q, x)'
    BY <1>1, <1>2 DEF Named
  <2>1. Named(x) /\ x \notin strays
    BY <1>3 DEF IInv
  <2>2. CASE stored[x] = doc.view.access[x]
    <3>1. after.access[x] = doc.view.access[x]
      BY <1>1, <1>2, <2>1, <2>2 DEF Seen, UnreachedBy, Reached, after
    <3> QED BY <2>2, <3>1
  <2>3. CASE x \in LoginRefs /\ doc.view.access[x] = None /\ \E q \in Procs : Creates(q, x)
    <3>1. PICK q \in Procs : Creates(q, x)
      BY <2>3
    <3>2. CASE q = p
      BY <3>1, <3>2 DEF Creates, after
    <3>3. CASE q # p
      <4>1. Holds(q) /\ Placed(q) /\ job[q].kind = "create" /\ ~At(q, "idle") /\ x \in job[q].done
        BY <3>1 DEF IInv, Creates, Runs, At
      <4>2. job[q] \in Running
        BY <1>1, <4>1, BusyRuns
      <4>3. q \in LoggingIn
        BY <1>1, <3>3, <4>1, <4>2, RunningType DEF Holds, Placed, At, LoggingIn, Places
      <4>4. after.access[x] = None
        BY <1>9, <2>3, <4>1, <4>3 DEF Overtaken
      <4>5. Creates(q, x)'
        BY <1>1, <1>7, <3>1, <3>3, <4>3 DEF Creates, Runs, LoggingIn, At
      <4> QED BY <2>3, <4>4, <4>5
    <3> QED BY <3>2, <3>3
  <2> QED BY <2>1, <2>2, <2>3 DEF Named
<1> QED BY <1>10, <1>11, <1>12 DEF IInv, Local

------------------------------------------------------------------------------
(* The theorems. *)

LEMMA InitHolds == ASSUME Init PROVE IInv
<1>1. PICK v \in Views, s \in {"old", "current"} :
        Reached(v) = {} /\ doc = [schema |-> s, view |-> v]
  BY DEF Init
<1>2. TypeOK
  BY <1>1, IdleType DEF Init, TypeOK
<1>3. \A p \in Procs : job[p].at = "idle"
  BY IdleType DEF Init
<1>4. \A p \in Procs : Local(p) /\ Seen(p)
  <2> SUFFICES ASSUME NEW p \in Procs PROVE Local(p) /\ Seen(p)
    OBVIOUS
  <2>1. job[p].at = "idle"
    BY <1>3
  <2> QED BY <2>1 DEF Local, Holds, LookedAgain, Placed, OnlyEditsStale, Agrees, OneContext,
                      Seen, At, Runs
<1>5. \A r \in Refs : Named(r)
  BY DEF Init, Named
<1> QED BY <1>2, <1>4, <1>5 DEF IInv, Local

LEMMA StutterHolds == ASSUME IInv, UNCHANGED vars PROVE IInv'
<1>1. TypeOK'
  BY DEF IInv, TypeOK, vars
<1>2. ASSUME NEW p \in Procs PROVE Local(p)' /\ Seen(p)'
  BY OthersKept DEF vars
<1>3. ASSUME NEW r \in Refs PROVE Named(r)'
  <2>1. Named(r)
    BY DEF IInv
  <2> QED BY <2>1 DEF Named, Creates, Runs, vars
<1> QED BY <1>1, <1>2, <1>3 DEF IInv, Local

LEMMA StepHolds == ASSUME ContextAssumption, IInv, Next PROVE IInv'
<1>1. CASE Supersede
  BY <1>1, SupersedeKeeps
<1>2. ASSUME NEW p \in Procs, Step(p) PROVE IInv'
  BY <1>2, StartChangeKeeps, OpenEditorKeeps, CloseEditorKeeps, StartAmendKeeps,
     StartLogoutKeeps, StartLoginKeeps, StartCreateKeeps, EndSessionKeeps, EstablishKeeps,
     FinishKeeps, LockKeeps, LockRefusedKeeps, ReplayKeeps, AmendKeeps, RecordKeeps,
     LookUpKeeps, WriteKeeps, RefuseKeeps, CrashKeeps DEF Step
<1> QED BY <1>1, <1>2 DEF Next

THEOREM Inductive == Spec => []IInv
<1>1. IInv /\ [Next]_vars => IInv'
  BY StepHolds, StutterHolds, ContextAssumption
<1> QED BY InitHolds, <1>1, PTL DEF Spec

(* Every document written is one its own reader accepts, and every plan is made
   of such documents. *)
THEOREM TypeCorrect == Spec => []TypeOK
<1>1. IInv => TypeOK
  BY DEF IInv
<1> QED BY Inductive, <1>1, PTL

(* Whatever changes, logins, logouts, refusals and kills interleave, a stored
   session is the one its record asks for, but for the logins that overlap a
   change and those that are about to record what they saved. *)
THEOREM SessionsStayNamed == Spec => []SessionsNamed
<1>1. IInv => SessionsNamed
  BY DEF IInv, Named, SessionsNamed, Recording, Creates
<1> QED BY Inductive, <1>1, PTL

(* Nothing but an edit writes a result that was worked out from a document
   other than the one it replaces. *)
THEOREM NothingDiscarded == Spec => NoChangeDiscarded
<1>1. IInv => DiscardsStep
  BY DEF IInv, LookedAgain, OnlyEditsStale, DiscardsStep, Discards, Runs, At
<1>2. IInv => [DiscardsStep]_vars
  BY <1>1
<1> QED BY Inductive, <1>2, PTL DEF NoChangeDiscarded

(* A document of a newer schema is never written over. *)
THEOREM FrozenKept == Spec => FrozenStaysFrozen
<1>1. ASSUME IInv, Next PROVE FrozenStep
  <2>1. CASE Supersede
    BY <2>1 DEF Supersede, Readable, FrozenStep
  <2>2. ASSUME NEW p \in Procs, Write(p) PROVE FrozenStep
    BY <1>1, <2>2 DEF Write, IInv, LookedAgain, Readable, FrozenStep
  <2>3. ASSUME NEW p \in Procs, Step(p), ~Write(p) PROVE doc' = doc
    BY <2>3 DEF Step, StartChange, OpenEditor, CloseEditor, StartAmend, StartLogout,
                StartLogin, StartCreate, EndSession, Establish, Finish, Lock, LockRefused,
                Replay, Amend, Record, LookUp, Refuse, Crash
  <2> QED BY <1>1, <2>1, <2>2, <2>3 DEF Next, FrozenStep
<1>2. IInv /\ [Next]_vars => [FrozenStep]_vars
  BY <1>1
<1> QED BY Inductive, <1>2, PTL DEF Spec, FrozenStaysFrozen

=============================================================================
