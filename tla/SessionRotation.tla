--------------------------- MODULE SessionRotation ---------------------------
(***************************************************************************)
(* The stored login session of one credential reference, and the shell     *)
(* invocations that share it: commands that mint access from it, logins    *)
(* that replace it and logouts that end it.  Every invocation is a process *)
(* of its own; what they share is the OS keyring, the advisory lock of the *)
(* reference and the issuer that rotates the refresh token.                *)
(*                                                                         *)
(* A login (a member of Logins) stands for one authorization: its refresh  *)
(* tokens are the generations 1, 2, ... and its access and identity tokens *)
(* are represented by the login that obtained them.                        *)
(***************************************************************************)
EXTENDS Naturals

CONSTANTS
  Procs,        \* shell invocations that may run at the same time
  Logins,       \* authorizations the issuer may complete
  Bindings,     \* what a context may record for the reference
  Strategies,   \* how the records sharing the reference are reached
  MaxGen,       \* bound: generations of one login's refresh token
  Faults,       \* which environment faults may happen
  None,         \* no entry, no token, no holder
  Unreadable    \* an entry that is there and does not decode

Sides == {"access", "id"}

Unbound == [issuer |-> "", clientId |-> "", resource |-> "", scopes |-> {}]

\* What an entry written before bindings were recorded still says.
Legacy(b) == [b EXCEPT !.clientId = "", !.resource = "", !.scopes = {}]

EntryBindings == Bindings \cup {Legacy(b) : b \in Bindings}

\* The session entry: everything but the two large tokens.  inline marks an
\* entry that still carries its access token itself.
Entries == [login : Logins, gen : 1..MaxGen, bind : EntryBindings,
            bound : BOOLEAN, inline : BOOLEAN]

ASSUME BindingsAssumption ==
  /\ Bindings # {}
  /\ \A b \in Bindings :
       /\ DOMAIN b = {"issuer", "clientId", "resource", "scopes"}
       /\ b.issuer # "" /\ b.clientId # ""
ASSUME BoundsAssumption == MaxGen \in Nat \ {0}
ASSUME ValuesAssumption ==
  /\ None \notin Procs \cup Logins \cup Entries \cup {Unreadable}
  /\ Unreadable \notin Entries

AllStrategies == {"direct", "sibling", "federated", "derived", "exchanged"}
AllFaults == {"crash", "keyring", "sideRead", "lockfile", "network", "issuer"}

ASSUME StrategiesAssumption == Strategies \subseteq AllStrategies
ASSUME FaultsAssumption == Faults \subseteq AllFaults

\* The records a command may authorize by itself, and those it may authorize
\* again when the issuer refuses to narrow the session.
Establishes == {"sibling", "federated", "derived"}
Reauthorizes == {"sibling", "federated"}

VARIABLES
  main,       \* the session entry of the reference
  side,       \* its #access and #id entries
  bare,       \* whether an entry an older shell stored is still there
  holder,     \* the invocation holding the advisory lock
  pc,         \* where each invocation is
  job,        \* what each invocation carries
  live,       \* issuer: the generation it honours per login, 0 for none
  grantedTo,  \* issuer: the record each login was authorized for
  unasked,    \* issuer: logins whose request left out the record's resource
  broken,     \* history: logins whose newest refresh token a fault destroyed
  torn        \* history: side entries a login failed to replace

keyring == <<main, side, bare>>
issuerVars == <<live, grantedTo, unasked>>
vars == <<main, side, bare, holder, pc, job, live, grantedTo, unasked, broken, torn>>

Waiting == {"saveWait", "lockWait", "endWait"}
Locked == {"derive", "load", "refresh", "answer", "reply", "saveMain",
           "saveSides", "endLoad", "revoke", "delSides", "delMain"}
Unlocked == {"idle", "ensure", "authorize"} \cup Waiting

NoTokens == [x \in Sides |-> None]

NoJob == [kind |-> "none", strategy |-> "none", bind |-> Unbound,
          retried |-> FALSE, mem |-> None, tokens |-> NoTokens,
          answer |-> "none", gen |-> 0, saving |-> "none", todo |-> {},
          revocation |-> "none"]

Jobs == [kind : {"none", "mint", "login", "logout"},
         strategy : Strategies \cup {"none"},
         bind : Bindings \cup {Unbound},
         retried : BOOLEAN,
         mem : Entries \cup {None},
         tokens : [Sides -> Logins \cup {None}],
         answer : {"none", "usable", "unusable", "noToken"},
         gen : 0..MaxGen,
         saving : {"none", "login", "rotation"},
         todo : SUBSET Sides,
         revocation : {"none", "confirmed", "not-attempted", "failed"}]

-----------------------------------------------------------------------------
(* Control shared by the actions. *)

May(fault) == fault \in Faults

\* A command minting for the record b.
Minting(b, s, again) == [NoJob EXCEPT !.kind = "mint", !.bind = b,
                                      !.strategy = s, !.retried = again]

\* Return from the command; whatever lock it holds goes with its descriptor.
Finish(p) ==
  /\ pc' = [pc EXCEPT ![p] = "idle"]
  /\ job' = [job EXCEPT ![p] = NoJob]
  /\ holder' = IF holder = p THEN None ELSE holder

Goto(p, label) == pc' = [pc EXCEPT ![p] = label] /\ UNCHANGED holder

Stored(s) == s \in Entries

\* The token Load reports for a side entry of the session s.
TokenOf(s, x) == IF x = "access" /\ s.inline THEN s.login ELSE side[x]

-----------------------------------------------------------------------------
(* An invocation starts: a module asks the broker for access, wso2 login   *)
(* authorizes the record, or wso2 logout ends its session.                 *)

StartMint(p) ==
  /\ pc[p] = "idle"
  /\ \E b \in Bindings, s \in Strategies :
       /\ job' = [job EXCEPT ![p] = Minting(b, s, FALSE)]
       /\ Goto(p, IF s \in Establishes THEN "ensure" ELSE "lockWait")
  /\ UNCHANGED <<keyring, issuerVars, broken, torn>>

StartLogin(p) ==
  /\ pc[p] = "idle"
  /\ \E b \in Bindings :
       job' = [job EXCEPT ![p] = [NoJob EXCEPT !.kind = "login", !.bind = b]]
  /\ Goto(p, "authorize")
  /\ UNCHANGED <<keyring, issuerVars, broken, torn>>

(* A logout works for the record its context has now, which need not be the *)
(* one the session was authorized for.                                      *)
StartLogout(p) ==
  /\ pc[p] = "idle"
  /\ \E b \in Bindings :
       job' = [job EXCEPT ![p] = [NoJob EXCEPT !.kind = "logout", !.bind = b]]
  /\ Goto(p, "endWait")
  /\ UNCHANGED <<keyring, issuerVars, broken, torn>>

(* ensureSession: an unlocked read decides whether to authorize first. *)
EnsureSession(p) ==
  /\ pc[p] = "ensure"
  /\ \/ Goto(p, IF Stored(main) THEN "lockWait" ELSE "authorize") /\ UNCHANGED job
     \/ May("keyring") /\ Finish(p)
  /\ UNCHANGED <<keyring, issuerVars, broken, torn>>

\* The session a login authorized for the record b obtained.
Obtained(l, b) ==
  [login |-> l, gen |-> 1, bind |-> b, bound |-> TRUE, inline |-> FALSE]

(* establishProduct up to the lock: a browser or device authorization runs *)
(* without the lock, and either yields a refresh token of a new login or   *)
(* fails.  A device login may yield no identity token, and its request      *)
(* never names a resource, though the session records the record's.        *)
Authorize(p) ==
  /\ pc[p] = "authorize"
  /\ \/ \E l \in Logins, id \in BOOLEAN, device \in BOOLEAN :
          /\ grantedTo[l] = Unbound
          /\ ~id => device
          /\ grantedTo' = [grantedTo EXCEPT ![l] = job[p].bind]
          /\ unasked' = IF device /\ job[p].bind.resource # ""
                        THEN unasked \cup {l} ELSE unasked
          /\ live' = [live EXCEPT ![l] = 1]
          /\ job' = [job EXCEPT ![p] =
               [@ EXCEPT !.saving = "login",
                         !.mem = Obtained(l, job[p].bind),
                         !.tokens = [x \in Sides |->
                                       IF x = "id" /\ ~id THEN None ELSE l]]]
          /\ Goto(p, "saveWait")
     \/ Finish(p) /\ UNCHANGED issuerVars
  /\ UNCHANGED <<keyring, broken, torn>>

-----------------------------------------------------------------------------
(* lockfile.With: take the advisory lock, or give up once it stayed taken. *)

Section(label) == CASE label = "saveWait" -> "saveMain"
                    [] label = "lockWait" -> "derive"
                    [] OTHER -> "endLoad"

\* Mutant: a lock that is held is taken for one left behind, and broken.
Lock_Broken(p) ==
  /\ pc[p] \in Waiting
  /\ holder' = p
  /\ pc' = [pc EXCEPT ![p] = Section(pc[p])]
  /\ UNCHANGED <<keyring, job, issuerVars, broken, torn>>

Lock(p) ==
  /\ pc[p] \in Waiting
  /\ holder = None
  /\ holder' = p
  /\ pc' = [pc EXCEPT ![p] = Section(pc[p])]
  /\ UNCHANGED <<keyring, job, issuerVars, broken, torn>>

\* Mutant: no deadline, so a lock that stays taken is waited for.
LockBusy_Never(p) ==
  /\ pc[p] \in Waiting
  /\ May("lockfile")
  /\ Finish(p)
  /\ UNCHANGED <<keyring, issuerVars, broken, torn>>

LockBusy(p) ==
  /\ pc[p] \in Waiting
  /\ holder # None \/ May("lockfile")
  /\ Finish(p)
  /\ UNCHANGED <<keyring, issuerVars, broken, torn>>

-----------------------------------------------------------------------------
(* Minting under the lock. *)

(* derive: a federated session's stored access token may serve the request; *)
(* whether it is still valid and covers the request is left open.           *)
Derive(p) ==
  /\ pc[p] = "derive"
  /\ \/ /\ job[p].strategy = "federated"
        /\ Stored(main) /\ TokenOf(main, "access") # None
        /\ Finish(p)
     \/ Goto(p, "load") /\ UNCHANGED job
  /\ UNCHANGED <<keyring, issuerVars, broken, torn>>

\* Mutant: the resource indicator is not compared.
Drifted_AnyResource(s, b) ==
  \/ s.bind.clientId # "" /\ s.bind.clientId # b.clientId
  \/ s.bind.scopes # {} /\ s.bind.scopes # b.scopes

(* productDrifted and the two refusals before it. *)
Drifted(s, b) ==
  \/ s.bind.clientId # "" /\ s.bind.clientId # b.clientId
  \/ s.bound /\ s.bind.resource # b.resource
  \/ s.bind.scopes # {} /\ s.bind.scopes # b.scopes

Presentable(s, b) ==
  /\ s.bind.issuer = b.issuer
  /\ s.bound \/ b.resource = ""
  /\ ~Drifted(s, b)

(* renew, its Load and its refusals.  A side entry that cannot be read is  *)
(* taken for one that is not there.                                        *)
LoadSession(p) ==
  /\ pc[p] = "load"
  /\ \/ /\ Stored(main) /\ Presentable(main, job[p].bind)
        /\ \E unread \in SUBSET {x \in Sides : May("sideRead")} :
             job' = [job EXCEPT ![p] =
                [@ EXCEPT !.mem = main,
                          !.tokens = [x \in Sides |->
                             IF x \in unread /\ ~(x = "access" /\ main.inline)
                             THEN None ELSE TokenOf(main, x)]]]
        /\ Goto(p, "refresh")
     \/ /\ ~(Stored(main) /\ Presentable(main, job[p].bind)) \/ May("keyring")
        /\ Finish(p)
  /\ UNCHANGED <<keyring, issuerVars, broken, torn>>

(* Leaving the lock to authorize again, at most once per command. *)
Reauthorize(p) ==
  IF job[p].strategy \in Reauthorizes /\ ~job[p].retried
  THEN /\ pc' = [pc EXCEPT ![p] = "authorize"]
       /\ job' = [job EXCEPT ![p] =
                    Minting(job[p].bind, job[p].strategy, TRUE)]
       /\ holder' = None
  ELSE Finish(p)

(* The issuer answers the refresh grant.  A current token is honoured, with *)
(* or without a rotation; every other token is refused.                     *)
Refresh(p) ==
  LET s == job[p].mem IN
  /\ pc[p] = "refresh"
  /\ \/ \E rotate \in BOOLEAN, answer \in {"usable", "unusable", "noToken"} :
          /\ live[s.login] = s.gen
          /\ rotate => s.gen < MaxGen
          /\ answer = "noToken" => May("issuer")
          /\ live' = [live EXCEPT ![s.login] = IF rotate THEN s.gen + 1 ELSE s.gen]
          /\ job' = [job EXCEPT ![p] = [@ EXCEPT !.answer = answer,
                       !.gen = IF rotate THEN s.gen + 1 ELSE s.gen]]
          /\ Goto(p, "answer")
     \/ live[s.login] = s.gen /\ Reauthorize(p) /\ UNCHANGED live  \* invalid_scope
     \/ live[s.login] # s.gen /\ Finish(p) /\ UNCHANGED live       \* invalid_grant
     \/ May("network") /\ Finish(p) /\ UNCHANGED live
  /\ UNCHANGED <<keyring, grantedTo, unasked, broken, torn>>

\* Mutant: a replacement is stored only if the access token serves.
Replaced_IfUsable(p) ==
  job[p].answer = "usable" /\ job[p].gen # job[p].mem.gen

\* The issuer returned another refresh token than the one it was sent.
Replaced(p) == job[p].gen # job[p].mem.gen

(* renew reads the answer and stores a replaced refresh token before        *)
(* anything else happens with it.                                           *)
Answer(p) ==
  LET lost == job[p].answer = "noToken" IN
  /\ pc[p] = "answer"
  /\ \/ /\ ~lost /\ Replaced(p)
        /\ job' = [job EXCEPT ![p] = [@ EXCEPT !.saving = "rotation",
                                               !.mem.gen = job[p].gen]]
        /\ Goto(p, "saveMain")
        /\ UNCHANGED broken
     \/ /\ ~lost /\ ~Replaced(p)
        /\ Goto(p, "reply")
        /\ UNCHANGED <<job, broken>>
     \/ /\ lost \/ May("network")
        /\ Finish(p)
        /\ broken' = IF Replaced(p) THEN broken \cup {job[p].mem.login} ELSE broken
  /\ UNCHANGED <<keyring, issuerVars, torn>>

(* What the strategy does with the renewed session, still under the lock:   *)
(* prove the narrowing, or run the second grant a derived or an exchanged   *)
(* record needs.                                                            *)
Reply(p) ==
  /\ pc[p] = "reply"
  /\ \/ job[p].answer = "usable" /\ Finish(p)
     \/ job[p].answer = "unusable" /\ Reauthorize(p)
  /\ UNCHANGED <<keyring, issuerVars, broken, torn>>

-----------------------------------------------------------------------------
(* Store.Save: the session entry first, then the side entries in any order. *)

SaveMain(p) ==
  /\ pc[p] = "saveMain"
  /\ \/ /\ main' = [job[p].mem EXCEPT !.inline = FALSE]
        /\ job' = [job EXCEPT ![p] = [@ EXCEPT !.todo = Sides]]
        /\ Goto(p, "saveSides")
        /\ UNCHANGED broken
     \/ /\ May("keyring")
        /\ Finish(p)
        /\ broken' = IF job[p].saving = "rotation"
                     THEN broken \cup {job[p].mem.login} ELSE broken
        /\ UNCHANGED main
  /\ UNCHANGED <<side, bare, issuerVars, torn>>

\* Where the command goes once its Save returned.
Saved(p) ==
  CASE job[p].saving = "rotation" ->
         /\ Goto(p, "reply")
         /\ job' = [job EXCEPT ![p] = [@ EXCEPT !.saving = "none", !.todo = {}]]
    [] job[p].saving = "login" /\ job[p].kind = "mint" ->
         /\ pc' = [pc EXCEPT ![p] = "lockWait"]
         /\ holder' = None
         /\ job' = [job EXCEPT ![p] =
              Minting(job[p].bind, job[p].strategy, job[p].retried)]
    [] OTHER -> Finish(p)

(* retireLegacyEntry is best effort. *)
Retire == bare' \in {FALSE, bare /\ May("keyring")}

\* The side entries still to be written when a login's Save stops short.
Unwritten(p) == IF job[p].saving = "login" THEN job[p].todo ELSE {}

\* Mutant: an absent token leaves its entry alone.
Written_Kept(p, x) ==
  IF job[p].tokens[x] = None THEN side[x] ELSE job[p].tokens[x]

\* What Save leaves in a side entry: a token is set, an absent one deleted.
Written(p, x) == job[p].tokens[x]

SaveSide(p) ==
  /\ pc[p] = "saveSides"
  /\ \/ \E x \in job[p].todo :
          /\ side' = [side EXCEPT ![x] = Written(p, x)]
          /\ torn' = torn \ (Unwritten(p) \cap {x})
          /\ \/ /\ job[p].todo = {x}
                /\ Retire
                /\ Saved(p)
             \/ /\ job[p].todo # {x}
                /\ job' = [job EXCEPT ![p] = [@ EXCEPT !.todo = job[p].todo \ {x}]]
                /\ UNCHANGED <<pc, holder, bare>>
     \/ /\ May("keyring")
        /\ Finish(p)
        /\ torn' = torn \cup Unwritten(p)
        /\ UNCHANGED <<side, bare>>
  /\ UNCHANGED <<main, issuerVars, broken>>

-----------------------------------------------------------------------------
(* endSession: read, revoke and delete under one hold of the lock. *)

EndLoad(p) ==
  /\ pc[p] = "endLoad"
  /\ \/ /\ Stored(main)
        /\ job' = [job EXCEPT ![p] = [@ EXCEPT !.mem = main]]
        /\ Goto(p, "revoke")
     \/ /\ ~Stored(main)
        /\ job' = [job EXCEPT ![p] = [@ EXCEPT !.todo = Sides]]
        /\ Goto(p, "delSides")
     \/ May("keyring") /\ Finish(p)
  /\ UNCHANGED <<keyring, issuerVars, broken, torn>>

\* The issuer and the client the record b names are those of the login l.
SentHome(b, l) ==
  b.issuer = grantedTo[l].issuer /\ b.clientId = grantedTo[l].clientId

(* The request goes to the issuer and in the name of the client the record  *)
(* has now.  An issuer confirms a token it does not know as readily as a    *)
(* live one, may or may not retract another client's, and a failed request  *)
(* may still have been carried out.                                         *)
Revoke(p) ==
  LET s == job[p].mem
      b == job[p].bind
  IN
  /\ pc[p] = "revoke"
  /\ \E outcome \in {"confirmed", "not-attempted", "failed"}, retract \in BOOLEAN :
       /\ outcome = "failed" => May("network") \/ ~SentHome(b, s.login)
       /\ outcome = "confirmed" /\ SentHome(b, s.login) => retract
       /\ retract => /\ outcome # "not-attempted"
                     /\ b.issuer = grantedTo[s.login].issuer
       /\ live' = IF retract /\ live[s.login] = s.gen
                  THEN [live EXCEPT ![s.login] = 0] ELSE live
       /\ job' = [job EXCEPT ![p] = [@ EXCEPT !.revocation = outcome,
                                              !.todo = Sides]]
  /\ Goto(p, "delSides")
  /\ UNCHANGED <<keyring, grantedTo, unasked, broken, torn>>

(* Store.Delete: the side entries first, then the session entry. *)
NextSide(todo) == IF "access" \in todo THEN "access" ELSE "id"

\* Mutant: a side entry that cannot be deleted is passed over.
DeleteSide_Regardless(p) ==
  LET x == NextSide(job[p].todo) IN
  /\ pc[p] = "delSides"
  /\ \/ side' = [side EXCEPT ![x] = None] /\ torn' = torn \ {x}
     \/ May("keyring") /\ UNCHANGED <<side, torn>>
  /\ job' = [job EXCEPT ![p] = [@ EXCEPT !.todo = job[p].todo \ {x}]]
  /\ Goto(p, IF job[p].todo = {x} THEN "delMain" ELSE "delSides")
  /\ UNCHANGED <<main, bare, issuerVars, broken>>

DeleteSide(p) ==
  LET x == NextSide(job[p].todo) IN
  /\ pc[p] = "delSides"
  /\ \/ /\ side' = [side EXCEPT ![x] = None]
        /\ torn' = torn \ {x}
        /\ job' = [job EXCEPT ![p] = [@ EXCEPT !.todo = job[p].todo \ {x}]]
        /\ \/ job[p].todo = {x} /\ Retire /\ Goto(p, "delMain")
           \/ job[p].todo # {x} /\ UNCHANGED <<pc, holder, bare>>
     \/ May("keyring") /\ Finish(p) /\ UNCHANGED <<side, bare, torn>>
  /\ UNCHANGED <<main, issuerVars, broken>>

DeleteMain(p) ==
  /\ pc[p] = "delMain"
  /\ \/ main' = None
     \/ May("keyring") /\ UNCHANGED main
  /\ Finish(p)
  /\ UNCHANGED <<side, bare, issuerVars, broken, torn>>

-----------------------------------------------------------------------------
(* The invocation is killed; the kernel releases its lock. *)
Crash(p) ==
  /\ May("crash")
  /\ pc[p] # "idle"
  /\ Finish(p)
  /\ broken' = IF \/ pc[p] = "answer" /\ Replaced(p)
                  \/ pc[p] = "saveMain" /\ job[p].saving = "rotation"
               THEN broken \cup {job[p].mem.login} ELSE broken
  /\ torn' = IF pc[p] = "saveSides" THEN torn \cup Unwritten(p) ELSE torn
  /\ UNCHANGED <<keyring, issuerVars>>

-----------------------------------------------------------------------------
Init ==
  /\ side = NoTokens
  /\ bare \in BOOLEAN
  /\ holder = None
  /\ pc = [p \in Procs |-> "idle"]
  /\ job = [p \in Procs |-> NoJob]
  /\ unasked = {}
  /\ broken = {}
  /\ torn = {}
  /\ \/ /\ main \in {None, Unreadable}
        /\ live = [l \in Logins |-> 0]
        /\ grantedTo = [l \in Logins |-> Unbound]
     \/ \E l \in Logins, b \in Bindings :
          /\ main = [login |-> l, gen |-> 1, bind |-> Legacy(b),
                     bound |-> FALSE, inline |-> TRUE]
          /\ live = [k \in Logins |-> IF k = l THEN 1 ELSE 0]
          /\ grantedTo = [k \in Logins |-> IF k = l THEN b ELSE Unbound]

Start(p) == StartMint(p) \/ StartLogin(p) \/ StartLogout(p)

Advance(p) ==
  \/ EnsureSession(p) \/ Authorize(p) \/ Lock(p) \/ LockBusy(p)
  \/ Derive(p) \/ LoadSession(p) \/ Refresh(p) \/ Answer(p) \/ Reply(p)
  \/ SaveMain(p) \/ SaveSide(p)
  \/ EndLoad(p) \/ Revoke(p) \/ DeleteSide(p) \/ DeleteMain(p)

Next == \E p \in Procs : Start(p) \/ Advance(p) \/ Crash(p)

Spec == Init /\ [][Next]_vars

FairSpec == Spec /\ \A p \in Procs : WF_vars(Advance(p))

-----------------------------------------------------------------------------
TypeOK ==
  /\ main \in Entries \cup {None, Unreadable}
  /\ side \in [Sides -> Logins \cup {None}]
  /\ bare \in BOOLEAN
  /\ holder \in Procs \cup {None}
  /\ pc \in [Procs -> Locked \cup Unlocked]
  /\ job \in [Procs -> Jobs]
  /\ live \in [Logins -> 0..MaxGen]
  /\ grantedTo \in [Logins -> Bindings \cup {Unbound}]
  /\ unasked \subseteq Logins
  /\ broken \subseteq Logins
  /\ torn \subseteq Sides

(* One invocation at a time is between a read and the write that depends on *)
(* it, and no invocation waits for a person, an unlocked read or the lock   *)
(* itself while it holds the lock (Store.WithLock and its callers).         *)
OneWriter == \A p \in Procs : pc[p] \in Locked <=> holder = p

(* No token is left on the machine that nothing can reach any more: while a *)
(* side entry exists so does the session entry, in every state a crash or a *)
(* refused keyring call can leave behind (Store.Save, Store.Delete).        *)
SideReachable == \A x \in Sides : side[x] # None => main # None

(* An issuer that rotates never leaves the shell holding a token it has     *)
(* replaced: the stored generation is the live one unless the issuer ended  *)
(* the session, the holder of the lock is about to store the replacement,   *)
(* or a fault hit exactly that window (sessionSource.renew).                *)
Storing(p, l) ==
  /\ job[p].mem.login = l
  /\ \/ pc[p] = "answer"
     \/ pc[p] = "saveMain" /\ job[p].saving = "rotation"

StoredTokenCurrent ==
  Stored(main) =>
    \/ live[main.login] \in {0, main.gen}
    \/ main.login \in broken
    \/ \E p \in Procs : holder = p /\ Storing(p, main.login)

(* A refresh token is presented only where its login was authorized: same   *)
(* issuer, client, resource and scopes.  An entry that recorded no binding  *)
(* is held to its issuer and to a record that asks for no resource, and an  *)
(* authorization for no scopes is narrowed by any record.  Exempt from the  *)
(* resource is a device login: its request named none, so all that can hold *)
(* is that the record it was made for asked for the same one               *)
(* (Shell.establishSession).                                                *)
Asked(l) == IF l \in unasked THEN [grantedTo[l] EXCEPT !.resource = ""]
                             ELSE grantedTo[l]

PresentedWhereEstablished ==
  \A p \in Procs : pc[p] = "refresh" =>
    LET s == job[p].mem
        g == Asked(s.login)
        b == job[p].bind
    IN /\ g.issuer = b.issuer
       /\ IF s.bound
          THEN /\ g.clientId = b.clientId
               /\ g.scopes \in {{}, b.scopes}
               /\ \/ g.resource = b.resource
                  \/ /\ s.login \in unasked
                     /\ grantedTo[s.login].resource = b.resource
          ELSE b.resource = ""

(* The side entries hold tokens of the login whose session entry they sit   *)
(* beside, unless a login's Save is writing them or stopped half way.       *)
SidesOfOneLogin ==
  \A x \in Sides : Stored(main) /\ side[x] # None =>
    \/ side[x] = main.login
    \/ x \in torn
    \/ \E p \in Procs : pc[p] = "saveSides" /\ x \in Unwritten(p)

(* A logout that reports its revocation confirmed, and whose record still   *)
(* names the issuer and the client the session was authorized by, told that *)
(* issuer about the token that was live: the login it ends cannot be used   *)
(* again.  Only a login whose newest token was lost survives it.  A record  *)
(* that names another issuer or client is exempt: the request goes there,   *)
(* and is confirmed though the token stays live (Shell.endSession).         *)
ConfirmedMeansDead ==
  \A p \in Procs :
    job[p].revocation = "confirmed" /\ SentHome(job[p].bind, job[p].mem.login) =>
      \/ live[job[p].mem.login] = 0
      \/ job[p].mem.login \in broken

(* Only a login puts a login into the store: a mint's write never brings an *)
(* ended session back and never replaces a newer login's session.           *)
InstallStep ==
  Stored(main') /\ main' # main =>
    \/ Stored(main) /\ main'.login = main.login
    \/ \E p \in Procs : holder = p /\ job[p].saving = "login"

OnlyLoginsInstall == [][InstallStep]_vars

(* A logout removes the session it read and revoked, never one a login      *)
(* stored since.                                                            *)
RemovalStep ==
  Stored(main) /\ main' = None =>
    \E p \in Procs : holder = p /\ job[p].mem = main

DeletesWhatItRead == [][RemovalStep]_vars

Turn == INSTANCE AdvisoryLock WITH
  Callers <- Procs, NoHolder <- None, lockHolder <- holder,
  asking <- {p \in Procs : pc[p] \in Waiting}

(* Every section is entered through the lock and left with it, and nobody   *)
(* asks for the lock it holds: a second descriptor of the same file waits   *)
(* for the first (lockfile.With, session.Store.WithLock).                   *)
KeepsToTheLock == Turn!LockSpec

(* Every invocation comes to an end: every wait has a deadline and a mint   *)
(* authorizes again at most once.                                           *)
Returns == \A p \in Procs : pc[p] # "idle" ~> pc[p] = "idle"
=============================================================================
