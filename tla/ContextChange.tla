---------------------------- MODULE ContextChange ----------------------------
(***************************************************************************)
(* The context document, the sessions its records name, and the commands   *)
(* that change either.                                                     *)
(*                                                                         *)
(* The secure store cannot be listed: a stored session is found only       *)
(* through the record that names its reference, and is meant only for what *)
(* that record asks for. A command that rewrites records therefore plans   *)
(* the change, ends every session the change would leave behind, and then  *)
(* writes under the document lock, if nothing moved meanwhile. The lock    *)
(* admits no network call, so ending the sessions, and every login, run    *)
(* outside it.                                                             *)
(*                                                                         *)
(* A document is seen as its view: which session references its records    *)
(* reach and how (the binding a stored session is compared by), and the    *)
(* rest of it, which no session depends on. A document an earlier shell    *)
(* wrote is read through its migration, so it has the view it will have    *)
(* once written.                                                           *)
(***************************************************************************)
EXTENDS Naturals, FiniteSets

CONSTANTS Procs,      \* invocations that may run at the same time
          LoginRefs,  \* a context's credential reference, its login's session
          SubRefs,    \* <<login reference, record>>: a product's own session
          Bindings,   \* issuer, client, strategy, resource and scopes
          Rests,      \* selection, names, organizations, URLs
          Ops,        \* bound: what is run, of "change", "edit", "amend",
                      \* "login", "create", "logout", "supersede", "kill"
          None

Refs == LoginRefs \cup SubRefs
ContextOf(r) == IF r \in LoginRefs THEN r ELSE r[1]

ASSUME ContextAssumption ==
  /\ None \notin Bindings \cup Procs
  /\ LoginRefs \cap SubRefs = {}
  /\ \A r \in SubRefs : ContextOf(r) \in LoginRefs

VARIABLES doc,     \* the document: its schema and its view
          holder,  \* who is inside contexts.Update
          stored,  \* secure store: reference -> binding of the session, or None
          job,     \* what each invocation is doing
          strays   \* history: references at which a login overlapped a change
                   \* that rewrote them, or gave up before it recorded them

vars == <<doc, holder, stored, job, strays>>

(* A context always reaches its login's session, whatever else it reaches. *)
Views ==
  {v \in [access : [Refs -> Bindings \cup {None}], rest : Rests] :
     \A r \in SubRefs : v.access[r] # None => v.access[ContextOf(r)] # None}

Reached(v) == {r \in Refs : v.access[r] # None}

(* Document.SessionsUnreachedBy: reached by one view and not, or not the same
   way, by the next. *)
UnreachedBy(v, next) == {r \in Reached(v) : next.access[r] # v.access[r]}

Kinds == {"change", "edit", "amend", "login", "create", "logout"}

(* An invocation's locals: before and after are the plan, todo the sessions
   still to end or obtain, done those ended or saved, unseen those still to be
   looked up under the lock. stale and late are history: whether the document
   had moved between the editor's opening and the plan, and the references a
   login obtains that the document has since let go. *)
Idle == [at |-> "idle"]
Running ==
  [at : {"editor", "ending", "authorizing", "locked", "checked"}, kind : Kinds,
   before : Views, after : Views, todo : SUBSET Refs, done : SUBSET Refs,
   unseen : SUBSET Refs, late : SUBSET Refs, stale : BOOLEAN]

Jobs == {Idle} \cup Running

Init ==
  /\ \E v \in Views, s \in {"old", "current"} :
       Reached(v) = {} /\ doc = [schema |-> s, view |-> v]
  /\ holder = None
  /\ stored = [r \in Refs |-> None]
  /\ job = [p \in Procs |-> Idle]
  /\ strays = {}

------------------------------------------------------------------------------

At(p, place) == job[p].at = place
Runs(p, kinds) == job[p].at # "idle" /\ job[p].kind \in kinds
Becomes(p, record) == job' = [job EXCEPT ![p] = record]
Starts(p, op) == At(p, "idle") /\ op \in Ops

(* contexts.Writable and Load refuse a document of a schema this shell does
   not know. *)
Readable == doc.schema # "frozen"

Job(at, kind, after, todo) ==
  [at |-> at, kind |-> kind, before |-> doc.view, after |-> after, todo |-> todo,
   done |-> {}, unseen |-> {}, late |-> {}, stale |-> FALSE]

(* Shell.planChange: nothing is written and nothing is ended yet. *)
Plan(p, kind, after, stale) ==
  Becomes(p, [Job("ending", kind, after, UnreachedBy(doc.view, after))
                EXCEPT !.stale = stale])

(* context delete, apply, product add and product remove work their change out
   from the document they plan against. *)
StartChange(p) ==
  /\ Starts(p, "change") /\ Readable
  /\ \E after \in Views \ {doc.view} : Plan(p, "change", after, FALSE)
  /\ UNCHANGED <<doc, holder, stored, strays>>

(* context edit copies the document out and waits for the editor. *)
OpenEditor(p) ==
  /\ Starts(p, "edit") /\ Readable
  /\ Becomes(p, Job("editor", "edit", doc.view, {}))
  /\ UNCHANGED <<doc, holder, stored, strays>>

(* What the person saved becomes the plan, against the document as it is now. *)
CloseEditor(p) ==
  /\ At(p, "editor")
  /\ \/ /\ Readable
        /\ \E after \in Views \ {job[p].before} :
             Plan(p, "edit", after, job[p].before # doc.view)
     \/ Becomes(p, Idle)
  /\ UNCHANGED <<doc, holder, stored, strays>>

(* context create, use and rename, org use and the upgrade at the start of an
   invocation go to contexts.Update at once. *)
StartAmend(p) ==
  /\ Starts(p, "amend") /\ Readable
  /\ Becomes(p, Job("ending", "amend", doc.view, {}))
  /\ UNCHANGED <<doc, holder, stored, strays>>

(* Shell.logout: every session of one context. *)
StartLogout(p) ==
  /\ Starts(p, "logout") /\ Readable
  /\ \E c \in LoginRefs \cap Reached(doc.view) :
       Becomes(p, Job("ending", "logout", doc.view,
                      {r \in Reached(doc.view) : ContextOf(r) = c}))
  /\ UNCHANGED <<doc, holder, stored, strays>>

(* Shell.login against a configured context: all of its sessions, the login's
   alone, or one product's. *)
StartLogin(p) ==
  /\ Starts(p, "login") /\ Readable
  /\ \E c \in LoginRefs, chosen \in SUBSET Reached(doc.view) \ {{}} :
       /\ \A r \in chosen : ContextOf(r) = c
       /\ Becomes(p, Job("authorizing", "login", doc.view, chosen))
  /\ UNCHANGED <<doc, holder, stored, strays>>

(* Shell.loginCreating: a context the document does not declare yet, planned
   with a free credential reference and no product, or one it does. *)
WithLogin(v, c, b) == [v EXCEPT !.access[c] = b]

StartCreate(p) ==
  /\ Starts(p, "create") /\ Readable
  /\ \E c \in LoginRefs :
       IF doc.view.access[c] = None
       THEN \E b \in Bindings :
              Becomes(p, Job("authorizing", "create", WithLogin(doc.view, c, b), {c}))
       ELSE Becomes(p, Job("authorizing", "create", doc.view,
                           {r \in Reached(doc.view) : ContextOf(r) = c}))
  /\ UNCHANGED <<doc, holder, stored, strays>>

------------------------------------------------------------------------------
(* Outside the document lock: sessions end and sessions are obtained. Each is
   one step here, under the session's own lock (SessionRotation). *)

(* What an invocation leaves behind when it stops before it has written: a
   creating login, the session of the context it was to record. *)
Abandoned(p) ==
  IF Runs(p, {"create"}) THEN {r \in job[p].done : doc.view.access[r] = None} ELSE {}
Stops(p) == Becomes(p, Idle) /\ strays' = strays \cup Abandoned(p)

(* endSession, for one session. A secure store or a session lock that refuses
   ends the command, and what has been ended stays ended. *)
EndSession(p) ==
  /\ At(p, "ending")
  /\ \E r \in job[p].todo :
       \/ /\ stored' = [stored EXCEPT ![r] = None]
          /\ Becomes(p, [job[p] EXCEPT !.todo = @ \ {r}, !.done = @ \cup {r}])
          /\ strays' = strays \ {r}
       \/ Becomes(p, Idle) /\ UNCHANGED <<stored, strays>>
  /\ UNCHANGED <<doc, holder>>

(* A session may be saved while a change that has looked at its reference is
   about to write. *)
LookedAt(r) ==
  \E q \in Procs : /\ At(q, "checked")
                   /\ r \in UnreachedBy(job[q].before, job[q].after) \ job[q].unseen

(* establishProduct, for one access: the person authorizes it, and it is saved
   whatever the document has become. *)
Establish(p) ==
  /\ At(p, "authorizing")
  /\ \E r \in job[p].todo :
       \/ /\ stored' = [stored EXCEPT ![r] = job[p].after.access[r]]
          /\ Becomes(p, [job[p] EXCEPT !.todo = @ \ {r}, !.done = @ \cup {r}])
          /\ strays' = IF r \in job[p].late \/ LookedAt(r)
                       THEN strays \cup {r} ELSE strays \ {r}
       \/ Stops(p) /\ UNCHANGED stored
  /\ UNCHANGED <<doc, holder>>

(* A configured login, and a logout, write no document. *)
Finish(p) ==
  /\ Runs(p, {"login", "logout"}) /\ job[p].todo = {}
  /\ Becomes(p, Idle)
  /\ UNCHANGED <<doc, holder, stored, strays>>

------------------------------------------------------------------------------
(* contexts.Update. *)

Writes(p) == /\ Runs(p, {"change", "edit", "amend", "create"})
             /\ job[p].at \in {"ending", "authorizing"} /\ job[p].todo = {}

Lock(p) ==
  /\ Writes(p) /\ holder = None
  /\ holder' = p
  /\ Becomes(p, [job[p] EXCEPT !.at = "locked"])
  /\ UNCHANGED <<doc, stored, strays>>

(* Busy until the deadline, or a lock file that cannot be opened. *)
LockRefused(p) ==
  /\ Writes(p) /\ Stops(p)
  /\ UNCHANGED <<doc, holder, stored>>

Checks(p) ==
  Becomes(p, [job[p] EXCEPT !.at = "checked", !.unseen = UnreachedBy(doc.view, job[p].after)])

(* Mutant: Replay, merging the plan into a document that has changed. *)
Replay_Merged(p) ==
  /\ At(p, "locked") /\ Runs(p, {"change", "edit"}) /\ Readable
  /\ UnreachedBy(doc.view, job[p].after) \subseteq job[p].done
  /\ Checks(p)
  /\ UNCHANGED <<doc, holder, stored, strays>>

(* writeChange's replay: the planned result, if the document is as planned and
   every session the change ends is one this run has ended. *)
Replay(p) ==
  /\ At(p, "locked") /\ Runs(p, {"change", "edit"}) /\ Readable
  /\ doc.view = job[p].before
  /\ UnreachedBy(doc.view, job[p].after) \subseteq job[p].done
  /\ Checks(p)
  /\ UNCHANGED <<doc, holder, stored, strays>>

(* What the other writers make of the document they hold the lock on: another
   rest, and for context create the records of a context under a reference
   nothing else claims. *)
Amended(v) ==
  {w \in Views : \E c \in LoginRefs : \A r \in Refs :
     w.access[r] # v.access[r] => ContextOf(r) = c /\ v.access[c] = None}

Amend(p) ==
  /\ At(p, "locked") /\ Runs(p, {"amend"}) /\ Readable
  /\ \E after \in Amended(doc.view) :
       Becomes(p, [job[p] EXCEPT !.at = "checked", !.before = doc.view, !.after = after])
  /\ UNCHANGED <<doc, holder, stored, strays>>

(* Mutant: Record, by a shell that checked the schema before the login only. *)
Record_Unchecked(p) ==
  /\ At(p, "locked") /\ Runs(p, {"create"})
  /\ \E c \in LoginRefs \cap job[p].done :
       Becomes(p, [job[p] EXCEPT !.at = "checked", !.before = doc.view,
                     !.after = WithLogin(doc.view, c, job[p].after.access[c])])
  /\ UNCHANGED <<doc, holder, stored, strays>>

(* A creating login plans again under the lock. A context the document declares
   stands as it is; an issuer, client or reference that differs is refused. *)
Record(p) ==
  /\ At(p, "locked") /\ Runs(p, {"create"}) /\ Readable
  /\ \E c \in LoginRefs \cap job[p].done, rest \in Rests :
       LET v == [doc.view EXCEPT !.rest = rest]
           after == IF v.access[c] # None THEN v
                    ELSE WithLogin(v, c, job[p].after.access[c])
       IN Becomes(p, [job[p] EXCEPT !.at = "checked", !.before = doc.view, !.after = after])
  /\ UNCHANGED <<doc, holder, stored, strays>>

(* Mutant: LookUp, without looking. *)
LookUp_Skipped(p) ==
  /\ At(p, "checked")
  /\ \E r \in job[p].unseen : Becomes(p, [job[p] EXCEPT !.unseen = @ \ {r}])
  /\ UNCHANGED <<doc, holder, stored, strays>>

(* Is the session still gone? A login may have stored another since. *)
LookUp(p) ==
  /\ At(p, "checked")
  /\ \E r \in job[p].unseen :
       stored[r] = None /\ Becomes(p, [job[p] EXCEPT !.unseen = @ \ {r}])
  /\ UNCHANGED <<doc, holder, stored, strays>>

(* The references login q obtains that a document with this view lets go. *)
Overtaken(q, view) ==
  {r \in job[q].todo \cup job[q].done : view.access[r] # doc.view.access[r]}

LoggingIn == {q \in Procs : At(q, "authorizing")}

(* writeDocument: one rename. *)
Write(p) ==
  /\ At(p, "checked") /\ job[p].unseen = {}
  /\ doc' = [schema |-> "current", view |-> job[p].after]
  /\ holder' = None
  /\ job' = [q \in Procs |->
       IF q = p THEN Idle
       ELSE IF q \in LoggingIn
            THEN [job[q] EXCEPT !.late = @ \cup Overtaken(q, job[p].after)]
            ELSE job[q]]
  /\ strays' = strays \cup UNION {Overtaken(q, job[p].after) \cap job[q].done : q \in LoggingIn}
  /\ UNCHANGED stored

(* A document that has changed or is frozen, a session that is back, a context
   that is another's, a file that cannot be written: nothing is written. *)
Refuse(p) ==
  /\ job[p].at \in {"locked", "checked"}
  /\ holder' = None
  /\ Stops(p)
  /\ UNCHANGED <<doc, stored>>

------------------------------------------------------------------------------
(* Outside this shell. *)

(* A newer shell writes the document in a schema this one does not know. *)
Supersede ==
  /\ "supersede" \in Ops /\ holder = None /\ Readable
  /\ doc' = [doc EXCEPT !.schema = "frozen"]
  /\ UNCHANGED <<holder, stored, job, strays>>

(* A killed invocation, its advisory lock released by the kernel. *)
Crash(p) ==
  /\ "kill" \in Ops /\ ~At(p, "idle")
  /\ Stops(p)
  /\ holder' = IF holder = p THEN None ELSE holder
  /\ UNCHANGED <<doc, stored>>

Step(p) ==
  \/ StartChange(p) \/ OpenEditor(p) \/ CloseEditor(p) \/ StartAmend(p)
  \/ StartLogout(p) \/ StartLogin(p) \/ StartCreate(p)
  \/ EndSession(p) \/ Establish(p) \/ Finish(p)
  \/ Lock(p) \/ LockRefused(p) \/ Replay(p) \/ Amend(p) \/ Record(p)
  \/ LookUp(p) \/ Write(p) \/ Refuse(p) \/ Crash(p)

Next == Supersede \/ \E p \in Procs : Step(p)

Spec == Init /\ [][Next]_vars

------------------------------------------------------------------------------
(* What the commands promise. *)

(* The document is one its own reader accepts, and every invocation's plan is
   made of such documents. *)
TypeOK ==
  /\ doc \in [schema : {"old", "current", "frozen"}, view : Views]
  /\ holder \in Procs \cup {None}
  /\ stored \in [Refs -> Bindings \cup {None}]
  /\ job \in [Procs -> Jobs]
  /\ strays \subseteq Refs

(* A login that will record the reference it saves at. *)
Recording(r) == \E p \in Procs : Runs(p, {"create"}) /\ r \in job[p].todo \cup job[p].done

(* docs/adr/0016: no entry is left that no document names, and none is named by
   a record it does not match, whatever changes, logins, logouts, refusals and
   kills interleave: except where a login was still in the browser when a
   change rewrote what it logs in to, saved between the change's look and its
   write, or gave up before recording what it had saved. *)
SessionsNamed ==
  \A r \in Refs : (stored[r] # None /\ r \notin strays /\ ~Recording(r))
                    => stored[r] = doc.view.access[r]

(* contexts/save.go: no write discards another invocation's change, because
   whatever is written was worked out from the document it replaces. An edit is
   worked out from the document its editor was opened on. *)
Discards(p) == /\ At(p, "checked") /\ ~At(p, "checked")' /\ doc' # doc
               /\ job[p].before # doc.view \/ job[p].stale
DiscardsStep == \A p \in Procs : Discards(p) => Runs(p, {"edit"})
NoChangeDiscarded == [][DiscardsStep]_vars

(* contexts/save.go: a document a newer shell wrote is never written over, not
   even by a command that planned, or logged in, before it appeared. *)
FrozenStep == doc.schema = "frozen" => doc' = doc
FrozenStaysFrozen == [][FrozenStep]_vars

=============================================================================
