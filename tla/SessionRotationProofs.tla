------------------------ MODULE SessionRotationProofs ------------------------
(* Proofs about SessionRotation, for any number of invocations, logins and  *)
(* bindings and any set of faults.                                          *)
EXTENDS SessionRotation, TLAPS

LEMMA NoJobType == NoJob \in Jobs
  BY BoundsAssumption DEF NoJob, Jobs, NoTokens

(***************************************************************************)
(* What an invocation carries wherever the code relies on it: the record it *)
(* works for, the session it read or obtained, the generation answered.     *)
(***************************************************************************)
Ending == {"endWait", "endLoad", "revoke", "delSides", "delMain"}
Using == {"saveWait", "saveMain", "saveSides", "refresh", "answer", "revoke"}

Carries ==
  \A p \in Procs :
    /\ pc[p] \notin Ending \cup {"idle"} => job[p].bind \in Bindings
    /\ pc[p] \in Using => job[p].mem \in Entries
    /\ pc[p] = "answer" => job[p].gen \in 1..MaxGen

Typed == TypeOK /\ Carries

LEMMA MintingType ==
  ASSUME NEW b \in Bindings \cup {Unbound}, NEW s \in Strategies \cup {"none"},
         NEW r \in BOOLEAN
  PROVE  Minting(b, s, r) \in Jobs /\ Minting(b, s, r).bind = b
  BY NoJobType DEF Minting, Jobs

LEMMA TypedInit == Init => Typed
<1> SUFFICES ASSUME Init PROVE Typed
  OBVIOUS
<1>1. job \in [Procs -> Jobs]
  BY NoJobType DEF Init
<1>2. main \in Entries \cup {None, Unreadable}
  <2>1. CASE main \in {None, Unreadable}
    BY <2>1
  <2>2. ASSUME NEW l \in Logins, NEW b \in Bindings,
               main = [login |-> l, gen |-> 1, bind |-> Legacy(b),
                       bound |-> FALSE, inline |-> TRUE]
        PROVE  main \in Entries
    <3>1. Legacy(b) \in EntryBindings /\ 1 \in 1..MaxGen
      BY BoundsAssumption DEF EntryBindings
    <3> QED
      BY <2>2, <3>1 DEF Entries
  <2> QED
    BY <2>1, <2>2 DEF Init
<1>3. /\ live \in [Logins -> 0..MaxGen]
      /\ grantedTo \in [Logins -> Bindings \cup {Unbound}]
  BY BoundsAssumption DEF Init
<1>4. Carries
  BY DEF Init, Carries, Using
<1> QED
  BY <1>1, <1>2, <1>3, <1>4 DEF Init, Typed, TypeOK, NoTokens, Locked, Unlocked

(* The steps of Carries and TypeOK that concern the local state alone: an   *)
(* action that moves p to label with the record r keeps both.               *)
LEMMA MoveTyped ==
  ASSUME Typed, NEW p \in Procs, NEW r \in Jobs, NEW label \in Locked \cup Unlocked,
         pc' = [pc EXCEPT ![p] = label],
         job' = [job EXCEPT ![p] = r],
         label \notin Ending \cup {"idle"} => r.bind \in Bindings,
         label \in Using => r.mem \in Entries,
         label = "answer" => r.gen \in 1..MaxGen
  PROVE  /\ pc' \in [Procs -> Locked \cup Unlocked]
         /\ job' \in [Procs -> Jobs]
         /\ Carries'
  BY DEF Typed, TypeOK, Carries

LEMMA FinishTyped ==
  ASSUME Typed, NEW p \in Procs, Finish(p)
  PROVE  /\ pc' \in [Procs -> Locked \cup Unlocked]
         /\ job' \in [Procs -> Jobs]
         /\ holder' \in Procs \cup {None}
         /\ Carries'
  BY NoJobType, MoveTyped DEF Typed, TypeOK, Finish, Unlocked, Using

LEMMA ReauthorizeTyped ==
  ASSUME Typed, NEW p \in Procs, Reauthorize(p), job[p].bind \in Bindings
  PROVE  /\ pc' \in [Procs -> Locked \cup Unlocked]
         /\ job' \in [Procs -> Jobs]
         /\ holder' \in Procs \cup {None}
         /\ Carries'
<1>1. CASE Finish(p)
  BY <1>1, FinishTyped
<1>2. CASE ~Finish(p)
  <2>1. job[p].strategy \in Strategies \cup {"none"}
    BY DEF Typed, TypeOK, Jobs
  <2>2. /\ Minting(job[p].bind, job[p].strategy, TRUE) \in Jobs
        /\ Minting(job[p].bind, job[p].strategy, TRUE).bind = job[p].bind
    BY <2>1, MintingType
  <2> QED
    BY <1>2, <2>2, MoveTyped DEF Reauthorize, Unlocked, Using
<1> QED
  BY <1>1, <1>2

LEMMA TypedStep == Typed /\ [Next]_vars => Typed'
<1> SUFFICES ASSUME Typed, [Next]_vars PROVE Typed'
  OBVIOUS
<1> USE BoundsAssumption
<1> USE DEF keyring, issuerVars
<1>0. CASE UNCHANGED vars
  BY <1>0 DEF Typed, TypeOK, Carries, vars
<1>1. ASSUME NEW p \in Procs, StartMint(p) PROVE Typed'
  <2>1. PICK b \in Bindings, s \in Strategies :
          /\ job' = [job EXCEPT ![p] = Minting(b, s, FALSE)]
          /\ Goto(p, IF s \in Establishes THEN "ensure" ELSE "lockWait")
    BY <1>1 DEF StartMint
  <2>2. /\ pc' \in [Procs -> Locked \cup Unlocked]
        /\ job' \in [Procs -> Jobs]
        /\ Carries'
    <3> DEFINE label == IF s \in Establishes THEN "ensure" ELSE "lockWait"
    <3>1. label \in {"ensure", "lockWait"}
      OBVIOUS
    <3>2. /\ Minting(b, s, FALSE) \in Jobs
          /\ Minting(b, s, FALSE).bind \in Bindings
      BY MintingType
    <3>3. pc' = [pc EXCEPT ![p] = label]
      BY <2>1 DEF Goto
    <3> HIDE DEF label
    <3> QED
      BY <2>1, <3>1, <3>2, <3>3, MoveTyped DEF Unlocked, Waiting, Using
  <2> QED
    BY <1>1, <2>1, <2>2 DEF StartMint, Typed, TypeOK, Goto
<1>2. ASSUME NEW p \in Procs, StartLogin(p) PROVE Typed'
  <2>1. PICK b \in Bindings :
          job' = [job EXCEPT ![p] = [NoJob EXCEPT !.kind = "login", !.bind = b]]
    BY <1>2 DEF StartLogin
  <2>2. /\ [NoJob EXCEPT !.kind = "login", !.bind = b] \in Jobs
        /\ [NoJob EXCEPT !.kind = "login", !.bind = b].bind = b
    BY NoJobType DEF Jobs
  <2>3. /\ pc' \in [Procs -> Locked \cup Unlocked]
        /\ job' \in [Procs -> Jobs]
        /\ Carries'
    BY <1>2, <2>1, <2>2, MoveTyped DEF StartLogin, Goto, Unlocked, Using
  <2> QED
    BY <1>2, <2>3 DEF StartLogin, Typed, TypeOK, Goto
<1>3. ASSUME NEW p \in Procs, StartLogout(p) PROVE Typed'
  <2>1. PICK b \in Bindings :
          job' = [job EXCEPT ![p] = [NoJob EXCEPT !.kind = "logout", !.bind = b]]
    BY <1>3 DEF StartLogout
  <2>2. [NoJob EXCEPT !.kind = "logout", !.bind = b] \in Jobs
    BY NoJobType DEF Jobs
  <2>3. /\ pc' \in [Procs -> Locked \cup Unlocked]
        /\ job' \in [Procs -> Jobs]
        /\ Carries'
    BY <1>3, <2>1, <2>2, MoveTyped DEF StartLogout, Goto, Unlocked, Waiting, Using, Ending
  <2> QED
    BY <1>3, <2>3 DEF StartLogout, Typed, TypeOK, Goto
<1>4. ASSUME NEW p \in Procs, EnsureSession(p) PROVE Typed'
  <2>1. CASE Finish(p)
    BY <1>4, <2>1, FinishTyped DEF EnsureSession, Typed, TypeOK
  <2>2. CASE Goto(p, IF Stored(main) THEN "lockWait" ELSE "authorize") /\ UNCHANGED job
    BY <1>4, <2>2 DEF EnsureSession, Goto, Typed, TypeOK, Carries, Unlocked, Waiting, Using, Ending
  <2> QED
    BY <1>4, <2>1, <2>2 DEF EnsureSession
<1>5. ASSUME NEW p \in Procs, Authorize(p) PROVE Typed'
  <2>1. ASSUME NEW l \in Logins, NEW id \in BOOLEAN,
               grantedTo' = [grantedTo EXCEPT ![l] = job[p].bind],
               unasked' \in {unasked, unasked \cup {l}},
               live' = [live EXCEPT ![l] = 1],
               job' = [job EXCEPT ![p] =
                 [@ EXCEPT !.saving = "login",
                    !.mem = Obtained(l, job[p].bind),
                    !.tokens = [x \in Sides |-> IF x = "id" /\ ~id THEN None ELSE l]]],
               Goto(p, "saveWait")
        PROVE  Typed'
    <3> DEFINE e == Obtained(l, job[p].bind)
               t == [x \in Sides |-> IF x = "id" /\ ~id THEN None ELSE l]
               r == [job[p] EXCEPT !.saving = "login", !.mem = e, !.tokens = t]
    <3>1. job[p] \in Jobs /\ job[p].bind \in Bindings
      BY <1>5 DEF Authorize, Typed, TypeOK, Carries, Ending
    <3>2. e \in Entries
      BY <3>1 DEF Obtained, Entries, EntryBindings
    <3>3. t \in [Sides -> Logins \cup {None}]
      OBVIOUS
    <3> HIDE DEF e, t
    <3>4. r \in Jobs /\ r.bind = job[p].bind /\ r.mem = e
      BY <3>1, <3>2, <3>3 DEF Jobs
    <3>5. job' = [job EXCEPT ![p] = r]
      BY <2>1 DEF e, t
    <3> HIDE DEF r
    <3>6. /\ pc' \in [Procs -> Locked \cup Unlocked]
          /\ job' \in [Procs -> Jobs]
          /\ Carries'
      BY <2>1, <3>1, <3>2, <3>4, <3>5, MoveTyped DEF Goto, Unlocked, Waiting
    <3>7. /\ grantedTo' \in [Logins -> Bindings \cup {Unbound}]
          /\ live' \in [Logins -> 0..MaxGen]
          /\ unasked' \subseteq Logins
      BY <2>1, <3>1 DEF Typed, TypeOK
    <3> QED
      BY <1>5, <2>1, <3>6, <3>7 DEF Authorize, Goto, Typed, TypeOK
  <2>2. CASE Finish(p) /\ UNCHANGED issuerVars
    BY <1>5, <2>2, FinishTyped DEF Authorize, Typed, TypeOK
  <2> QED
    BY <1>5, <2>1, <2>2 DEF Authorize
<1>6. ASSUME NEW p \in Procs, Lock(p) PROVE Typed'
  BY <1>6 DEF Lock, Section, Typed, TypeOK, Carries, Locked, Unlocked, Waiting, Using, Ending
<1>7. ASSUME NEW p \in Procs, LockBusy(p) PROVE Typed'
  BY <1>7, FinishTyped DEF LockBusy, Typed, TypeOK
<1>8. ASSUME NEW p \in Procs, Derive(p) PROVE Typed'
  <2>1. CASE Finish(p)
    BY <1>8, <2>1, FinishTyped DEF Derive, Typed, TypeOK
  <2>2. CASE Goto(p, "load") /\ UNCHANGED job
    BY <1>8, <2>2 DEF Derive, Goto, Typed, TypeOK, Carries, Locked, Using, Ending
  <2> QED
    BY <1>8, <2>1, <2>2 DEF Derive
<1>9. ASSUME NEW p \in Procs, LoadSession(p) PROVE Typed'
  <2>1. CASE Finish(p)
    BY <1>9, <2>1, FinishTyped DEF LoadSession, Typed, TypeOK
  <2>2. CASE ~Finish(p)
    <3>1. PICK unread \in SUBSET {x \in Sides : May("sideRead")} :
            /\ Stored(main)
            /\ Goto(p, "refresh")
            /\ job' = [job EXCEPT ![p] =
                [@ EXCEPT !.mem = main,
                          !.tokens = [x \in Sides |->
                             IF x \in unread /\ ~(x = "access" /\ main.inline)
                             THEN None ELSE TokenOf(main, x)]]]
      BY <1>9, <2>2 DEF LoadSession
    <3> DEFINE t == [x \in Sides |->
                       IF x \in unread /\ ~(x = "access" /\ main.inline)
                       THEN None ELSE TokenOf(main, x)]
               r == [job[p] EXCEPT !.mem = main, !.tokens = t]
    <3>2. job[p] \in Jobs /\ job[p].bind \in Bindings /\ main \in Entries
      BY <1>9, <3>1 DEF LoadSession, Stored, Typed, TypeOK, Carries, Ending
    <3>3. t \in [Sides -> Logins \cup {None}]
      BY <3>2 DEF TokenOf, Typed, TypeOK, Entries
    <3> HIDE DEF t
    <3>4. r \in Jobs /\ r.bind = job[p].bind /\ r.mem = main
      BY <3>2, <3>3 DEF Jobs
    <3>5. job' = [job EXCEPT ![p] = r]
      BY <3>1 DEF t
    <3> HIDE DEF r
    <3>6. /\ pc' \in [Procs -> Locked \cup Unlocked]
          /\ job' \in [Procs -> Jobs]
          /\ Carries'
      BY <3>1, <3>2, <3>4, <3>5, MoveTyped DEF Goto, Locked
    <3> QED
      BY <1>9, <3>1, <3>6 DEF LoadSession, Goto, Typed, TypeOK
  <2> QED
    BY <2>1, <2>2
<1>10. ASSUME NEW p \in Procs, Refresh(p) PROVE Typed'
  <2>1. /\ job[p] \in Jobs /\ job[p].bind \in Bindings /\ job[p].mem \in Entries
        /\ job[p].mem.login \in Logins /\ job[p].mem.gen \in 1..MaxGen
    BY <1>10 DEF Refresh, Typed, TypeOK, Carries, Ending, Using, Entries
  <2>2. ASSUME NEW rotate \in BOOLEAN, NEW answer \in {"usable", "unusable", "noToken"},
               rotate => job[p].mem.gen < MaxGen,
               live' = [live EXCEPT ![job[p].mem.login] =
                          IF rotate THEN job[p].mem.gen + 1 ELSE job[p].mem.gen],
               job' = [job EXCEPT ![p] = [@ EXCEPT !.answer = answer,
                         !.gen = IF rotate THEN job[p].mem.gen + 1 ELSE job[p].mem.gen]],
               Goto(p, "answer")
        PROVE  Typed'
    <3> DEFINE g == IF rotate THEN job[p].mem.gen + 1 ELSE job[p].mem.gen
               r == [job[p] EXCEPT !.answer = answer, !.gen = g]
    <3>1. g \in 1..MaxGen /\ g \in 0..MaxGen
      BY <2>1, <2>2
    <3> HIDE DEF g
    <3>2. /\ r \in Jobs /\ r.bind = job[p].bind /\ r.mem = job[p].mem /\ r.gen = g
      BY <2>1, <3>1 DEF Jobs
    <3>3. job' = [job EXCEPT ![p] = r] /\ live' = [live EXCEPT ![job[p].mem.login] = g]
      BY <2>2 DEF g
    <3> HIDE DEF r
    <3>4. /\ pc' \in [Procs -> Locked \cup Unlocked]
          /\ job' \in [Procs -> Jobs]
          /\ Carries'
      BY <2>1, <2>2, <3>1, <3>2, <3>3, MoveTyped DEF Goto, Locked
    <3>5. live' \in [Logins -> 0..MaxGen]
      BY <3>1, <3>3 DEF Typed, TypeOK
    <3> HIDE DEF r
    <3> QED
      BY <1>10, <2>2, <3>4, <3>5 DEF Refresh, Goto, Typed, TypeOK
  <2>3. CASE Reauthorize(p) /\ UNCHANGED live
    BY <1>10, <2>1, <2>3, ReauthorizeTyped DEF Refresh, Typed, TypeOK
  <2>4. CASE Finish(p) /\ UNCHANGED live
    BY <1>10, <2>4, FinishTyped DEF Refresh, Typed, TypeOK
  <2> QED
    BY <1>10, <2>2, <2>3, <2>4 DEF Refresh
<1>11. ASSUME NEW p \in Procs, Answer(p) PROVE Typed'
  <2>1. /\ job[p] \in Jobs /\ job[p].bind \in Bindings /\ job[p].mem \in Entries
        /\ job[p].gen \in 1..MaxGen /\ job[p].mem.login \in Logins
    BY <1>11 DEF Answer, Typed, TypeOK, Carries, Ending, Using, Entries
  <2>2. ASSUME job' = [job EXCEPT ![p] = [@ EXCEPT !.saving = "rotation",
                                                   !.mem.gen = job[p].gen]],
               Goto(p, "saveMain"), UNCHANGED broken
        PROVE  Typed'
    <3> DEFINE e == [job[p].mem EXCEPT !.gen = job[p].gen]
               r == [job[p] EXCEPT !.saving = "rotation", !.mem = e]
    <3>1. e \in Entries
      BY <2>1 DEF Entries
    <3> HIDE DEF e
    <3>2. r \in Jobs /\ r.bind = job[p].bind /\ r.mem = e
      BY <2>1, <3>1 DEF Jobs
    <3>3. job' = [job EXCEPT ![p] = r]
      BY <2>1, <2>2 DEF e, Jobs, Typed, TypeOK
    <3> HIDE DEF r
    <3>4. /\ pc' \in [Procs -> Locked \cup Unlocked]
          /\ job' \in [Procs -> Jobs]
          /\ Carries'
      BY <2>1, <2>2, <3>1, <3>2, <3>3, MoveTyped DEF Goto, Locked
    <3> QED
      BY <1>11, <2>2, <3>4 DEF Answer, Goto, Typed, TypeOK
  <2>3. CASE Goto(p, "reply") /\ UNCHANGED <<job, broken>>
    BY <1>11, <2>1, <2>3 DEF Answer, Goto, Typed, TypeOK, Carries, Locked, Using, Ending
  <2>4. CASE Finish(p)
    BY <1>11, <2>1, <2>4, FinishTyped DEF Answer, Typed, TypeOK
  <2> QED
    BY <1>11, <2>2, <2>3, <2>4 DEF Answer
<1>12. ASSUME NEW p \in Procs, Reply(p) PROVE Typed'
  <2>1. job[p].bind \in Bindings
    BY <1>12 DEF Reply, Typed, Carries, Ending
  <2>2. CASE Finish(p)
    BY <1>12, <2>2, FinishTyped DEF Reply, Typed, TypeOK
  <2>3. CASE Reauthorize(p)
    BY <1>12, <2>1, <2>3, ReauthorizeTyped DEF Reply, Typed, TypeOK
  <2> QED
    BY <1>12, <2>2, <2>3 DEF Reply
<1>13. ASSUME NEW p \in Procs, SaveMain(p) PROVE Typed'
  <2>1. job[p] \in Jobs /\ job[p].bind \in Bindings /\ job[p].mem \in Entries
    BY <1>13 DEF SaveMain, Typed, TypeOK, Carries, Ending, Using
  <2>2. CASE Finish(p)
    <3>1. broken' \subseteq Logins /\ main' \in Entries \cup {None, Unreadable}
      BY <1>13, <2>1 DEF SaveMain, Typed, TypeOK, Entries
    <3> QED
      BY <1>13, <2>2, <3>1, FinishTyped DEF SaveMain, Typed, TypeOK
  <2>3. CASE ~Finish(p)
    <3> DEFINE r == [job[p] EXCEPT !.todo = Sides]
    <3>1. /\ main' = [job[p].mem EXCEPT !.inline = FALSE]
          /\ job' = [job EXCEPT ![p] = r]
          /\ Goto(p, "saveSides") /\ UNCHANGED broken
      BY <1>13, <2>3 DEF SaveMain
    <3>2. r \in Jobs /\ r.bind = job[p].bind /\ r.mem = job[p].mem
      BY <2>1 DEF Jobs
    <3>3. main' \in Entries
      BY <2>1, <3>1 DEF Entries
    <3> HIDE DEF r
    <3>4. /\ pc' \in [Procs -> Locked \cup Unlocked]
          /\ job' \in [Procs -> Jobs]
          /\ Carries'
      BY <2>1, <3>1, <3>2, MoveTyped DEF Goto, Locked
    <3> QED
      BY <1>13, <3>1, <3>3, <3>4 DEF SaveMain, Goto, Typed, TypeOK
  <2> QED
    BY <2>2, <2>3
<1>14. ASSUME NEW p \in Procs, SaveSide(p) PROVE Typed'
  <2>1. /\ job[p] \in Jobs /\ job[p].bind \in Bindings /\ job[p].mem \in Entries
        /\ job[p].strategy \in Strategies \cup {"none"} /\ job[p].retried \in BOOLEAN
        /\ job[p].tokens \in [Sides -> Logins \cup {None}]
        /\ job[p].todo \in SUBSET Sides
    BY <1>14 DEF SaveSide, Typed, TypeOK, Carries, Ending, Using, Jobs
  <2>2. CASE Finish(p) /\ UNCHANGED <<side, bare>> /\ torn' = torn \cup Unwritten(p)
    BY <1>14, <2>1, <2>2, FinishTyped DEF SaveSide, Typed, TypeOK, Unwritten
  <2>3. ASSUME NEW x \in job[p].todo,
               side' = [side EXCEPT ![x] = job[p].tokens[x]],
               torn' = torn \ (Unwritten(p) \cap {x}),
               Retire, Saved(p)
        PROVE  Typed'
    <3>1. /\ side' \in [Sides -> Logins \cup {None}]
          /\ torn' \subseteq Sides
          /\ bare' \in BOOLEAN
      BY <2>1, <2>3 DEF Typed, TypeOK, Retire
    <3>2. /\ pc' \in [Procs -> Locked \cup Unlocked]
          /\ job' \in [Procs -> Jobs]
          /\ holder' \in Procs \cup {None}
          /\ Carries'
      <4>1. CASE Finish(p)
        BY <4>1, FinishTyped
      <4>2. CASE /\ Goto(p, "reply")
                 /\ job' = [job EXCEPT ![p] = [@ EXCEPT !.saving = "none", !.todo = {}]]
        <5> DEFINE r == [job[p] EXCEPT !.saving = "none", !.todo = {}]
        <5>1. r \in Jobs /\ r.bind = job[p].bind
          BY <2>1 DEF Jobs
        <5>2. job' = [job EXCEPT ![p] = r]
          BY <4>2
        <5> HIDE DEF r
        <5>3. holder' \in Procs \cup {None}
          BY <4>2 DEF Goto, Typed, TypeOK
        <5> QED
          BY <2>1, <4>2, <5>1, <5>2, <5>3, MoveTyped DEF Goto, Locked, Using
      <4>3. CASE /\ pc' = [pc EXCEPT ![p] = "lockWait"]
                 /\ holder' = None
                 /\ job' = [job EXCEPT ![p] =
                      Minting(job[p].bind, job[p].strategy, job[p].retried)]
        <5>1. /\ Minting(job[p].bind, job[p].strategy, job[p].retried) \in Jobs
              /\ Minting(job[p].bind, job[p].strategy, job[p].retried).bind \in Bindings
          BY <2>1, MintingType
        <5> QED
          BY <4>3, <5>1, MoveTyped DEF Unlocked, Waiting, Using
      <4> QED
        BY <2>3, <4>1, <4>2, <4>3 DEF Saved
    <3> QED
      BY <1>14, <3>1, <3>2 DEF SaveSide, Typed, TypeOK
  <2>4. ASSUME NEW x \in job[p].todo,
               side' = [side EXCEPT ![x] = job[p].tokens[x]],
               torn' = torn \ (Unwritten(p) \cap {x}),
               job' = [job EXCEPT ![p] = [@ EXCEPT !.todo = job[p].todo \ {x}]],
               UNCHANGED <<pc, holder, bare>>
        PROVE  Typed'
    <3> DEFINE r == [job[p] EXCEPT !.todo = job[p].todo \ {x}]
    <3>1. r \in Jobs /\ r.bind = job[p].bind /\ r.mem = job[p].mem
      BY <2>1 DEF Jobs
    <3>2. job' = [job EXCEPT ![p] = r]
      BY <2>4
    <3> HIDE DEF r
    <3>3. job' \in [Procs -> Jobs] /\ Carries'
      BY <1>14, <2>1, <2>4, <3>1, <3>2 DEF SaveSide, Typed, TypeOK, Carries
    <3> QED
      BY <1>14, <2>1, <2>4, <3>3 DEF SaveSide, Typed, TypeOK
  <2> QED
    BY <1>14, <2>2, <2>3, <2>4 DEF SaveSide, Written
<1>15. ASSUME NEW p \in Procs, EndLoad(p) PROVE Typed'
  <2>1. job[p] \in Jobs
    BY DEF Typed, TypeOK
  <2>2. CASE Finish(p)
    BY <1>15, <2>2, FinishTyped DEF EndLoad, Typed, TypeOK
  <2>3. CASE /\ Stored(main)
             /\ job' = [job EXCEPT ![p] = [@ EXCEPT !.mem = main]]
             /\ Goto(p, "revoke")
    <3> DEFINE r == [job[p] EXCEPT !.mem = main]
    <3>1. r \in Jobs /\ r.mem = main
      BY <2>1, <2>3 DEF Jobs, Stored
    <3>2. job' = [job EXCEPT ![p] = r] /\ main \in Entries
      BY <2>3 DEF Stored
    <3> HIDE DEF r
    <3>3. /\ pc' \in [Procs -> Locked \cup Unlocked]
          /\ job' \in [Procs -> Jobs]
          /\ Carries'
      BY <2>3, <3>1, <3>2, MoveTyped DEF Goto, Locked, Ending
    <3> QED
      BY <1>15, <2>3, <3>3 DEF EndLoad, Goto, Typed, TypeOK
  <2>4. CASE /\ job' = [job EXCEPT ![p] = [@ EXCEPT !.todo = Sides]]
             /\ Goto(p, "delSides")
    <3> DEFINE r == [job[p] EXCEPT !.todo = Sides]
    <3>1. r \in Jobs
      BY <2>1 DEF Jobs
    <3>2. job' = [job EXCEPT ![p] = r]
      BY <2>4
    <3> HIDE DEF r
    <3>3. /\ pc' \in [Procs -> Locked \cup Unlocked]
          /\ job' \in [Procs -> Jobs]
          /\ Carries'
      BY <2>4, <3>1, <3>2, MoveTyped DEF Goto, Locked, Ending, Using
    <3> QED
      BY <1>15, <2>4, <3>3 DEF EndLoad, Goto, Typed, TypeOK
  <2> QED
    BY <1>15, <2>2, <2>3, <2>4 DEF EndLoad
<1>16. ASSUME NEW p \in Procs, Revoke(p) PROVE Typed'
  <2>1. job[p] \in Jobs
    BY DEF Typed, TypeOK
  <2>2. PICK outcome \in {"confirmed", "not-attempted", "failed"} :
          job' = [job EXCEPT ![p] = [@ EXCEPT !.revocation = outcome, !.todo = Sides]]
    BY <1>16 DEF Revoke
  <2> DEFINE r == [job[p] EXCEPT !.revocation = outcome, !.todo = Sides]
  <2>3. r \in Jobs
    BY <2>1 DEF Jobs
  <2>4. job' = [job EXCEPT ![p] = r]
    BY <2>2
  <2> HIDE DEF r
  <2>5. /\ pc' \in [Procs -> Locked \cup Unlocked]
        /\ job' \in [Procs -> Jobs]
        /\ Carries'
    BY <1>16, <2>3, <2>4, MoveTyped DEF Revoke, Goto, Locked, Ending, Using
  <2>6. live' \in [Logins -> 0..MaxGen]
    <3>1. live' = live \/ live' = [live EXCEPT ![job[p].mem.login] = 0]
      BY <1>16 DEF Revoke
    <3> QED
      BY <3>1 DEF Typed, TypeOK
  <2> QED
    BY <1>16, <2>5, <2>6 DEF Revoke, Goto, Typed, TypeOK
<1>17. ASSUME NEW p \in Procs, DeleteSide(p) PROVE Typed'
  <2>1. job[p] \in Jobs
    BY DEF Typed, TypeOK
  <2>2. CASE Finish(p) /\ UNCHANGED <<side, bare, torn>>
    BY <1>17, <2>2, FinishTyped DEF DeleteSide, Typed, TypeOK
  <2>3. ASSUME job' = [job EXCEPT ![p] =
                         [@ EXCEPT !.todo = job[p].todo \ {NextSide(job[p].todo)}]],
               side' = [side EXCEPT ![NextSide(job[p].todo)] = None],
               torn' = torn \ {NextSide(job[p].todo)},
               \/ Retire /\ Goto(p, "delMain")
               \/ UNCHANGED <<pc, holder, bare>>
        PROVE  Typed'
    <3> DEFINE r == [job[p] EXCEPT !.todo = job[p].todo \ {NextSide(job[p].todo)}]
    <3>1. r \in Jobs
      BY <2>1 DEF Jobs
    <3>2. job' = [job EXCEPT ![p] = r]
      BY <2>3
    <3> HIDE DEF r
    <3>3. /\ pc' \in [Procs -> Locked \cup Unlocked]
          /\ job' \in [Procs -> Jobs]
          /\ Carries'
      BY <1>17, <2>3, <3>1, <3>2 DEF DeleteSide, Goto, Locked, Ending, Using,
                                     Typed, TypeOK, Carries
    <3>4. side' \in [Sides -> Logins \cup {None}] /\ bare' \in BOOLEAN
      BY <2>3 DEF Typed, TypeOK, Retire
    <3> QED
      BY <1>17, <2>3, <3>3, <3>4 DEF DeleteSide, Goto, Typed, TypeOK
  <2> QED
    BY <1>17, <2>2, <2>3 DEF DeleteSide
<1>18. ASSUME NEW p \in Procs, DeleteMain(p) PROVE Typed'
  BY <1>18, FinishTyped DEF DeleteMain, Typed, TypeOK
<1>19. ASSUME NEW p \in Procs, Crash(p) PROVE Typed'
  <2>1. job[p] \in Jobs
    BY DEF Typed, TypeOK
  <2>2. broken' \subseteq Logins
    <3>1. CASE pc[p] \in {"answer", "saveMain"}
      BY <1>19, <3>1 DEF Crash, Typed, TypeOK, Carries, Using, Entries
    <3>2. CASE pc[p] \notin {"answer", "saveMain"}
      BY <1>19, <3>2 DEF Crash, Typed, TypeOK
    <3> QED
      BY <3>1, <3>2
  <2>3. torn' \subseteq Sides
    BY <1>19, <2>1 DEF Crash, Typed, TypeOK, Unwritten, Jobs
  <2> QED
    BY <1>19, <2>2, <2>3, FinishTyped DEF Crash, Typed, TypeOK
<1> QED
  BY <1>0, <1>1, <1>2, <1>3, <1>4, <1>5, <1>6, <1>7, <1>8, <1>9, <1>10, <1>11,
     <1>12, <1>13, <1>14, <1>15, <1>16, <1>17, <1>18, <1>19
     DEF Next, Start, Advance

-----------------------------------------------------------------------------
(* Mutual exclusion.                                                        *)

\* A step of p that keeps it on the same side of the lock, or returns it.
LEMMA StayInside ==
  ASSUME Typed, OneWriter, NEW p \in Procs, NEW label,
         pc' = [pc EXCEPT ![p] = label],
         label \in Locked <=> pc[p] \in Locked,
         UNCHANGED holder
  PROVE  OneWriter'
  BY DEF Typed, TypeOK, OneWriter

LEMMA Leave ==
  ASSUME Typed, OneWriter, NEW p \in Procs, NEW label,
         pc' = [pc EXCEPT ![p] = label],
         label \notin Locked,
         holder' = (IF holder = p THEN None ELSE holder)
  PROVE  OneWriter'
  BY ValuesAssumption DEF Typed, TypeOK, OneWriter

LEMMA FinishLeaves ==
  ASSUME Typed, OneWriter, NEW p \in Procs, Finish(p)
  PROVE  OneWriter'
<1>1. "idle" \notin Locked
  BY DEF Locked
<1> QED
  BY <1>1, Leave DEF Finish

LEMMA ReauthorizeLeaves ==
  ASSUME Typed, OneWriter, NEW p \in Procs, pc[p] \in Locked, Reauthorize(p)
  PROVE  OneWriter'
<1>1. "authorize" \notin Locked /\ holder = p
  BY DEF Locked, OneWriter
<1> QED
  BY <1>1, Leave, FinishLeaves DEF Reauthorize

LEMMA ExclusionStep == Typed /\ OneWriter /\ [Next]_vars => OneWriter'
<1> SUFFICES ASSUME Typed, OneWriter, [Next]_vars PROVE OneWriter'
  OBVIOUS
<1>0. CASE UNCHANGED vars
  BY <1>0 DEF OneWriter, vars
<1>1. ASSUME NEW p \in Procs, Start(p) PROVE OneWriter'
  BY <1>1, StayInside DEF Start, StartMint, StartLogin, StartLogout, Goto, Locked
<1>2. ASSUME NEW p \in Procs, EnsureSession(p) PROVE OneWriter'
  BY <1>2, StayInside, FinishLeaves DEF EnsureSession, Goto, Locked
<1>3. ASSUME NEW p \in Procs, Authorize(p) PROVE OneWriter'
  BY <1>3, StayInside, FinishLeaves DEF Authorize, Goto, Locked
<1>4. ASSUME NEW p \in Procs, Lock(p) PROVE OneWriter'
  BY <1>4, ValuesAssumption DEF Lock, Section, Waiting, Locked, Typed, TypeOK, OneWriter
<1>5. ASSUME NEW p \in Procs, LockBusy(p) PROVE OneWriter'
  BY <1>5, FinishLeaves DEF LockBusy
<1>6. ASSUME NEW p \in Procs, Derive(p) PROVE OneWriter'
  BY <1>6, StayInside, FinishLeaves DEF Derive, Goto, Locked
<1>7. ASSUME NEW p \in Procs, LoadSession(p) PROVE OneWriter'
  BY <1>7, StayInside, FinishLeaves DEF LoadSession, Goto, Locked
<1>8. ASSUME NEW p \in Procs, Refresh(p) PROVE OneWriter'
  BY <1>8, StayInside, FinishLeaves, ReauthorizeLeaves DEF Refresh, Goto, Locked
<1>9. ASSUME NEW p \in Procs, Answer(p) PROVE OneWriter'
  BY <1>9, StayInside, FinishLeaves DEF Answer, Goto, Locked
<1>10. ASSUME NEW p \in Procs, Reply(p) PROVE OneWriter'
  BY <1>10, FinishLeaves, ReauthorizeLeaves DEF Reply, Locked
<1>11. ASSUME NEW p \in Procs, SaveMain(p) PROVE OneWriter'
  BY <1>11, StayInside, FinishLeaves DEF SaveMain, Goto, Locked
<1>12. ASSUME NEW p \in Procs, SaveSide(p) PROVE OneWriter'
  <2>1. pc[p] \in Locked /\ holder = p
    BY <1>12 DEF SaveSide, Locked, OneWriter
  <2>2. CASE Finish(p)
    BY <2>2, FinishLeaves
  <2>3. CASE UNCHANGED <<pc, holder>>
    BY <2>3 DEF OneWriter
  <2>4. CASE Goto(p, "reply")
    BY <2>1, <2>4, StayInside DEF Goto, Locked
  <2>5. CASE pc' = [pc EXCEPT ![p] = "lockWait"] /\ holder' = None
    BY <2>1, <2>5, Leave DEF Locked
  <2> QED
    BY <1>12, <2>2, <2>3, <2>4, <2>5 DEF SaveSide, Saved
<1>13. ASSUME NEW p \in Procs, EndLoad(p) PROVE OneWriter'
  BY <1>13, StayInside, FinishLeaves DEF EndLoad, Goto, Locked
<1>14. ASSUME NEW p \in Procs, Revoke(p) PROVE OneWriter'
  BY <1>14, StayInside DEF Revoke, Goto, Locked
<1>15. ASSUME NEW p \in Procs, DeleteSide(p) PROVE OneWriter'
  <2>1. CASE UNCHANGED <<pc, holder>>
    BY <2>1 DEF OneWriter
  <2> QED
    BY <1>15, <2>1, StayInside, FinishLeaves DEF DeleteSide, Goto, Locked
<1>16. ASSUME NEW p \in Procs, DeleteMain(p) \/ Crash(p) PROVE OneWriter'
  BY <1>16, FinishLeaves DEF DeleteMain, Crash
<1> QED
  BY <1>0, <1>1, <1>2, <1>3, <1>4, <1>5, <1>6, <1>7, <1>8, <1>9, <1>10, <1>11,
     <1>12, <1>13, <1>14, <1>15, <1>16 DEF Next, Advance

LEMMA ExclusionInit == Init => OneWriter
  BY ValuesAssumption DEF Init, OneWriter, Locked

(* Every reachable state has the declared type.                             *)
THEOREM TypeCorrect == Spec => []TypeOK
<1>1. Typed => TypeOK
  BY DEF Typed
<1> QED
  BY <1>1, TypedInit, TypedStep, PTL DEF Spec

(* An invocation is in the critical section of the reference exactly while  *)
(* it holds the lock, so at most one is, and none waits for a browser, an   *)
(* unlocked read or the lock itself while holding it.                       *)
THEOREM MutualExclusion == Spec => []OneWriter
  BY TypedInit, TypedStep, ExclusionInit, ExclusionStep, PTL DEF Spec

-----------------------------------------------------------------------------
(* Every invocation is a caller of the advisory lock. *)

\* A step of p that leaves its place in the queue alone.
LEMMA StayInTurn ==
  ASSUME Typed, NEW p \in Procs, NEW label,
         pc' = [pc EXCEPT ![p] = label],
         label \in Waiting <=> pc[p] \in Waiting,
         UNCHANGED holder
  PROVE  UNCHANGED Turn!lockVars
<1>1. \A q \in Procs : pc'[q] \in Waiting <=> pc[q] \in Waiting
  BY DEF Typed, TypeOK
<1> QED
  BY <1>1 DEF Turn!lockVars

\* A step of p that opens the lock file.
LEMMA JoinsTheTurn ==
  ASSUME Typed, OneWriter, NEW p \in Procs, NEW label,
         pc' = [pc EXCEPT ![p] = label],
         pc[p] \notin Locked, pc[p] \notin Waiting, label \in Waiting,
         UNCHANGED holder
  PROVE  Turn!Ask(p)
<1>1. \A q \in Procs : pc'[q] = IF q = p THEN label ELSE pc[q]
  BY DEF Typed, TypeOK
<1>2. holder # p
  BY DEF OneWriter
<1> QED
  BY <1>1, <1>2 DEF Turn!Ask

\* A step of p that closes whatever it has open, and may ask again.
LEMMA EndsTheTurn ==
  ASSUME Typed, OneWriter, NEW p \in Procs, NEW label,
         pc' = [pc EXCEPT ![p] = label],
         label \in Waiting => pc[p] \in Locked,
         holder' = (IF holder = p THEN None ELSE holder)
  PROVE  [Turn!LockNext]_(Turn!lockVars)
<1>1. \A q \in Procs : pc'[q] = IF q = p THEN label ELSE pc[q]
  BY DEF Typed, TypeOK
<1>2. Locked \cap Waiting = {}
  BY DEF Locked, Waiting
<1>3. CASE pc[p] \in Locked
  <2>1. holder = p /\ p \notin {q \in Procs : pc[q] \in Waiting}
    BY <1>2, <1>3 DEF OneWriter
  <2>2. Turn!Release(p)
    BY <1>1, <2>1 DEF Turn!Release
  <2> QED
    BY <2>2 DEF Turn!LockNext
<1>4. CASE pc[p] \in Waiting
  <2>1. holder' = holder /\ label \notin Waiting
    BY <1>2, <1>4 DEF OneWriter
  <2>2. Turn!Refuse(p)
    BY <1>1, <1>4, <2>1 DEF Turn!Refuse
  <2> QED
    BY <2>2 DEF Turn!LockNext
<1>5. CASE pc[p] \notin Locked /\ pc[p] \notin Waiting
  <2>1. holder' = holder /\ label \notin Waiting
    BY <1>5 DEF OneWriter
  <2> QED
    BY <1>5, <2>1, StayInTurn
<1> QED
  BY <1>3, <1>4, <1>5

LEMMA FinishEndsTheTurn ==
  ASSUME Typed, OneWriter, NEW p \in Procs, Finish(p)
  PROVE  [Turn!LockNext]_(Turn!lockVars)
<1>1. "idle" \notin Waiting
  BY DEF Waiting
<1> QED
  BY <1>1, EndsTheTurn DEF Finish

LEMMA ReauthorizeEndsTheTurn ==
  ASSUME Typed, OneWriter, NEW p \in Procs, pc[p] \in Locked, Reauthorize(p)
  PROVE  [Turn!LockNext]_(Turn!lockVars)
<1>1. "authorize" \notin Waiting /\ holder = p
  BY DEF Waiting, OneWriter
<1> QED
  BY <1>1, EndsTheTurn, FinishEndsTheTurn DEF Reauthorize

LEMMA TurnStepFollows ==
  Typed /\ OneWriter /\ [Next]_vars => [Turn!LockNext]_(Turn!lockVars)
<1> SUFFICES ASSUME Typed, OneWriter, [Next]_vars
             PROVE  [Turn!LockNext]_(Turn!lockVars)
  OBVIOUS
<1> DEFINE Kept == [Turn!LockNext]_(Turn!lockVars)
<1>k. ASSUME UNCHANGED Turn!lockVars PROVE Kept
  BY <1>k
<1>j. ASSUME NEW p \in Procs, Turn!Ask(p) PROVE Kept
  BY <1>j DEF Turn!LockNext
<1> HIDE DEF Kept
<1>0. CASE UNCHANGED vars
  <2>1. UNCHANGED Turn!lockVars
    BY <1>0 DEF vars, Turn!lockVars
  <2> QED
    BY <2>1, <1>k DEF Kept
<1>s. ASSUME NEW p \in Procs, NEW label \in {"load", "reply", "saveMain",
             "saveSides", "answer", "refresh", "revoke", "delSides", "delMain"},
             pc[p] \in Locked, Goto(p, label)
      PROVE  Kept
  BY <1>s, <1>k, StayInTurn DEF Goto, Locked, Waiting
<1>f. ASSUME NEW p \in Procs, Finish(p) PROVE Kept
  BY <1>f, FinishEndsTheTurn DEF Kept
<1>r. ASSUME NEW p \in Procs, pc[p] \in Locked, Reauthorize(p) PROVE Kept
  BY <1>r, ReauthorizeEndsTheTurn DEF Kept
<1>w. ASSUME NEW p \in Procs, NEW label \in Waiting, Goto(p, label),
             pc[p] \in {"idle", "ensure", "authorize"}
      PROVE  Kept
  BY <1>w, <1>j, JoinsTheTurn DEF Goto, Locked, Waiting
<1>e. ASSUME NEW p \in Procs, Goto(p, "ensure") \/ Goto(p, "authorize"),
             pc[p] \in {"idle", "ensure"}
      PROVE  Kept
  BY <1>e, <1>k, StayInTurn DEF Goto, Waiting
<1>u. ASSUME UNCHANGED <<pc, holder>> PROVE Kept
  <2>1. UNCHANGED Turn!lockVars
    BY <1>u DEF Turn!lockVars
  <2> QED
    BY <2>1, <1>k
<1>1. ASSUME NEW p \in Procs, Start(p) PROVE Kept
  <2>1. "lockWait" \in Waiting /\ "endWait" \in Waiting
    BY DEF Waiting
  <2> QED
    BY <1>1, <2>1, <1>w, <1>e DEF Start, StartMint, StartLogin, StartLogout
<1>2. ASSUME NEW p \in Procs, EnsureSession(p) PROVE Kept
  <2>1. "lockWait" \in Waiting
    BY DEF Waiting
  <2> QED
    BY <1>2, <2>1, <1>w, <1>e, <1>f DEF EnsureSession
<1>3. ASSUME NEW p \in Procs, Authorize(p) PROVE Kept
  <2>1. "saveWait" \in Waiting
    BY DEF Waiting
  <2> QED
    BY <1>3, <2>1, <1>w, <1>f DEF Authorize
<1>4. ASSUME NEW p \in Procs, Lock(p) PROVE Kept
  <2>1. Section(pc[p]) \notin Waiting
    BY DEF Section, Waiting
  <2>2. \A q \in Procs : pc'[q] = IF q = p THEN Section(pc[p]) ELSE pc[q]
    BY <1>4 DEF Lock, Typed, TypeOK
  <2>3. Turn!Acquire(p)
    BY <1>4, <2>1, <2>2 DEF Lock, Turn!Acquire
  <2> QED
    BY <2>3 DEF Kept, Turn!LockNext
<1>5. ASSUME NEW p \in Procs,
             LockBusy(p) \/ Crash(p) \/ DeleteMain(p)
      PROVE  Kept
  BY <1>5, <1>f DEF LockBusy, Crash, DeleteMain
<1>6. ASSUME NEW p \in Procs, Derive(p) \/ LoadSession(p) PROVE Kept
  <2>1. pc[p] \in Locked
    BY <1>6 DEF Derive, LoadSession, Locked
  <2> QED
    BY <1>6, <2>1, <1>s, <1>f DEF Derive, LoadSession
<1>7. ASSUME NEW p \in Procs, Refresh(p) \/ Reply(p) PROVE Kept
  <2>1. pc[p] \in Locked
    BY <1>7 DEF Refresh, Reply, Locked
  <2> QED
    BY <1>7, <2>1, <1>s, <1>f, <1>r DEF Refresh, Reply
<1>8. ASSUME NEW p \in Procs, Answer(p) \/ SaveMain(p) PROVE Kept
  <2>1. pc[p] \in Locked
    BY <1>8 DEF Answer, SaveMain, Locked
  <2> QED
    BY <1>8, <2>1, <1>s, <1>f DEF Answer, SaveMain
<1>9. ASSUME NEW p \in Procs, SaveSide(p) PROVE Kept
  <2>1. pc[p] \in Locked /\ holder = p
    BY <1>9 DEF SaveSide, Locked, OneWriter
  <2>2. ASSUME pc' = [pc EXCEPT ![p] = "lockWait"], holder' = None PROVE Kept
    BY <2>1, <2>2, EndsTheTurn DEF Kept
  <2> QED
    BY <1>9, <2>1, <2>2, <1>s, <1>f, <1>u DEF SaveSide, Saved
<1>10. ASSUME NEW p \in Procs, EndLoad(p) \/ Revoke(p) \/ DeleteSide(p) PROVE Kept
  <2>1. pc[p] \in Locked
    BY <1>10 DEF EndLoad, Revoke, DeleteSide, Locked
  <2> QED
    BY <1>10, <2>1, <1>s, <1>f, <1>u DEF EndLoad, Revoke, DeleteSide
<1> QED
  BY <1>0, <1>1, <1>2, <1>3, <1>4, <1>5, <1>6, <1>7, <1>8, <1>9, <1>10
     DEF Next, Advance, Kept

LEMMA TurnInitFollows == Init => Turn!LockInit
  BY DEF Init, Turn!LockInit, Waiting

(* Every section of the store is entered through the lock and left with it: *)
(* the invocations, seen through the lock and its queue, do nothing but ask *)
(* for it, take it while it is free, be refused it and give it back.        *)
THEOREM RotationKeepsToTheLock == Spec => KeepsToTheLock
  BY TypedInit, TypedStep, ExclusionInit, ExclusionStep, TurnInitFollows,
     TurnStepFollows, PTL DEF Spec, KeepsToTheLock, Turn!LockSpec

-----------------------------------------------------------------------------
(* What the store, the issuer and the carried sessions have to do with one  *)
(* another.                                                                 *)

Pending(p) ==
  \/ pc[p] = "saveWait"
  \/ pc[p] = "saveMain" /\ job[p].saving = "login"

\* Stored and carried sessions belong to logins the issuer completed.
Issued ==
  /\ Stored(main) => grantedTo[main.login] # Unbound
  /\ \A p \in Procs : pc[p] \in Using => grantedTo[job[p].mem.login] # Unbound

\* A login not yet stored is known to its own invocation alone.
Private ==
  \A p \in Procs : Pending(p) =>
    /\ job[p].saving = "login"
    /\ live[job[p].mem.login] = job[p].mem.gen
    /\ Stored(main) => main.login # job[p].mem.login
    /\ \A q \in Procs \ {p} :
          Pending(q) => job[q].mem.login # job[p].mem.login

\* Under the lock, what was read is still what is stored.
AtHand(p) ==
  /\ job[p].saving = "rotation" => pc[p] \in {"saveMain", "saveSides"}
  /\ job[p].revocation = "confirmed" =>
       /\ pc[p] \in {"delSides", "delMain"}
       /\ Stored(job[p].mem)
       /\ SentHome(job[p].bind, job[p].mem.login) =>
            live[job[p].mem.login] = 0 \/ job[p].mem.login \in broken
  /\ pc[p] \in {"refresh", "answer"} => main = job[p].mem
  /\ pc[p] = "answer" => live[job[p].mem.login] = job[p].gen
  /\ pc[p] = "saveMain" => job[p].saving \in {"login", "rotation"}
  /\ pc[p] = "saveMain" /\ job[p].saving = "rotation" =>
       /\ Stored(main) /\ main.login = job[p].mem.login
       /\ live[job[p].mem.login] = job[p].mem.gen
  /\ pc[p] = "saveSides" => Stored(main)
  /\ pc[p] \in {"endWait", "endLoad"} => job[p].mem = None
  /\ pc[p] \in {"revoke", "delSides", "delMain"} =>
       job[p].mem = IF Stored(main) THEN main ELSE None
  /\ pc[p] = "revoke" => Stored(main)
  /\ pc[p] = "delSides" => \A x \in Sides \ job[p].todo : side[x] = None
  /\ pc[p] = "delMain" => \A x \in Sides : side[x] = None

Coherent ==
  /\ Issued
  /\ Private
  /\ \A p \in Procs : AtHand(p)
  /\ SideReachable
  /\ StoredTokenCurrent

IInv == Typed /\ OneWriter /\ Coherent

LEMMA UnboundIsNoBinding == Unbound \notin Bindings
  BY BindingsAssumption DEF Unbound

LEMMA CoherentInit == Init => Coherent
<1> SUFFICES ASSUME Init PROVE Coherent
  OBVIOUS
<1>1. \A p \in Procs : pc[p] = "idle" /\ job[p] = NoJob
  BY DEF Init
<1>2. Stored(main) => \E l \in Logins, b \in Bindings :
         /\ main.login = l /\ main.gen = 1 /\ live[l] = 1 /\ grantedTo[l] = b
  BY ValuesAssumption DEF Init, Stored
<1>3. Issued
  BY <1>1, <1>2, UnboundIsNoBinding DEF Issued, Using
<1>4. Private
  BY <1>1 DEF Private, Pending
<1>5. \A p \in Procs : AtHand(p)
  <2>1. NoJob.saving = "none" /\ NoJob.revocation = "none"
    BY DEF NoJob
  <2> QED
    BY <1>1, <2>1 DEF AtHand
<1>6. SideReachable
  BY DEF Init, SideReachable, NoTokens
<1>7. StoredTokenCurrent
  BY <1>2 DEF StoredTokenCurrent
<1> QED
  BY <1>3, <1>4, <1>5, <1>6, <1>7 DEF Coherent

\* Everyone but p is outside the critical section if p is inside it.
LEMMA Alone ==
  ASSUME Typed, OneWriter, NEW p \in Procs, pc[p] \in Locked,
         NEW q \in Procs, q # p
  PROVE  pc[q] \notin Locked
  BY DEF OneWriter

(***************************************************************************)
(* A step of p that leaves the store and the issuer alone keeps Coherent as *)
(* long as p itself stays coherent, takes up no new session, and does not   *)
(* forget a replacement it was about to store.                              *)
(***************************************************************************)
LEMMA Quiet ==
  ASSUME IInv, Typed', OneWriter', NEW p \in Procs,
         UNCHANGED <<main, side, live, grantedTo>>,
         broken \subseteq broken',
         \A q \in Procs \ {p} : pc'[q] = pc[q] /\ job'[q] = job[q],
         AtHand(p)',
         Pending(p)' => Pending(p) /\ job'[p].mem = job[p].mem
                                  /\ job'[p].saving = job[p].saving,
         pc'[p] \in Using => grantedTo[job'[p].mem.login] # Unbound,
         (Stored(main) /\ holder = p /\ Storing(p, main.login)) =>
            \/ live[main.login] \in {0, main.gen}
            \/ main.login \in broken'
            \/ holder' = p /\ Storing(p, main.login)'
  PROVE  Coherent'
<1> USE DEF IInv, Coherent
<1>1. Issued'
  BY DEF Issued, Stored
<1>2. Private'
  BY DEF Private, Pending, Stored
<1>3. \A q \in Procs : AtHand(q)'
  <2> SUFFICES ASSUME NEW q \in Procs, q # p PROVE AtHand(q)'
    OBVIOUS
  <2>1. AtHand(q) /\ pc'[q] = pc[q] /\ job'[q] = job[q]
    OBVIOUS
  <2> QED
    BY <2>1 DEF AtHand, Stored, SentHome
<1>4. SideReachable'
  BY DEF SideReachable
<1>5. StoredTokenCurrent'
  <2> SUFFICES ASSUME Stored(main),
                      live[main.login] \notin {0, main.gen},
                      main.login \notin broken'
               PROVE  \E q \in Procs : holder' = q /\ Storing(q, main.login)'
    BY DEF StoredTokenCurrent, Stored
  <2>1. PICK q \in Procs : holder = q /\ Storing(q, main.login)
    BY DEF StoredTokenCurrent
  <2>2. CASE q = p
    BY <2>1, <2>2
  <2>3. CASE q # p
    <3>1. pc[q] \in Locked /\ pc'[q] = pc[q] /\ job'[q] = job[q]
      BY <2>1, <2>3 DEF Storing, Locked
    <3>2. holder' = q
      BY <3>1 DEF OneWriter
    <3> QED
      BY <2>1, <3>1, <3>2 DEF Storing
  <2> QED
    BY <2>2, <2>3
<1> QED
  BY <1>1, <1>2, <1>3, <1>4, <1>5

(***************************************************************************)
(* A step p takes inside the critical section: whatever it writes, nobody  *)
(* else is between a read and a write.                                     *)
(***************************************************************************)
LEMMA Inside ==
  ASSUME IInv, Typed', OneWriter', NEW p \in Procs, pc[p] \in Locked,
         UNCHANGED grantedTo,
         \A q \in Procs \ {p} : pc'[q] = pc[q] /\ job'[q] = job[q],
         AtHand(p)',
         ~Pending(p)',
         pc'[p] \in Using => grantedTo[job'[p].mem.login] # Unbound,
         Stored(main') => grantedTo[main'.login] # Unbound,
         \A q \in Procs \ {p} : Pending(q) =>
            /\ live'[job[q].mem.login] = live[job[q].mem.login]
            /\ Stored(main') => main'.login # job[q].mem.login,
         SideReachable', StoredTokenCurrent'
  PROVE  Coherent'
<1> USE DEF IInv, Coherent
<1>1. Issued'
  BY DEF Issued, Stored
<1>2. Private'
  BY DEF Private, Pending, Stored
<1>3. \A q \in Procs : AtHand(q)'
  <2> SUFFICES ASSUME NEW q \in Procs, q # p PROVE AtHand(q)'
    OBVIOUS
  <2>1. AtHand(q) /\ pc'[q] = pc[q] /\ job'[q] = job[q] /\ pc[q] \notin Locked
    BY Alone
  <2> QED
    BY <2>1 DEF AtHand, Locked, SentHome
<1> QED
  BY <1>1, <1>2, <1>3

\* What a move of p to label with the record r does to the local states.
LEMMA Local ==
  ASSUME Typed, NEW p \in Procs, NEW label, NEW r,
         pc' = [pc EXCEPT ![p] = label], job' = [job EXCEPT ![p] = r]
  PROVE  /\ pc'[p] = label /\ job'[p] = r
         /\ \A q \in Procs \ {p} : pc'[q] = pc[q] /\ job'[q] = job[q]
  BY DEF Typed, TypeOK

(* A command that returns forgets nothing the store still needs.            *)
LEMMA FinishQuiet ==
  ASSUME IInv, Typed', OneWriter', NEW p \in Procs, Finish(p),
         UNCHANGED <<main, side, live, grantedTo>>,
         broken \subseteq broken',
         (Stored(main) /\ Storing(p, main.login)) =>
            live[main.login] \in {0, main.gen} \/ main.login \in broken'
  PROVE  Coherent'
<1>1. /\ pc'[p] = "idle" /\ job'[p] = NoJob
      /\ \A q \in Procs \ {p} : pc'[q] = pc[q] /\ job'[q] = job[q]
  BY Local DEF Finish, IInv
<1>2. NoJob.saving = "none" /\ NoJob.revocation = "none"
  BY DEF NoJob
<1>3. AtHand(p)'
  BY <1>1, <1>2 DEF AtHand
<1> QED
  BY <1>1, <1>3, Quiet DEF Pending, Using

\* Neither does one that leaves the lock to authorize again.
LEMMA ReauthorizeQuiet ==
  ASSUME IInv, Typed', OneWriter', NEW p \in Procs, Reauthorize(p),
         pc[p] \in {"refresh", "reply"},
         UNCHANGED <<main, side, live, grantedTo, broken>>
  PROVE  Coherent'
<1>1. ~Storing(p, main.login)
  BY DEF Storing
<1>2. CASE Finish(p)
  BY <1>1, <1>2, FinishQuiet
<1>3. CASE ~Finish(p)
  <2> DEFINE r == Minting(job[p].bind, job[p].strategy, TRUE)
  <2>1. r.saving = "none" /\ r.revocation = "none"
    BY DEF Minting, NoJob
  <2>2. pc' = [pc EXCEPT ![p] = "authorize"] /\ job' = [job EXCEPT ![p] = r]
    BY <1>3 DEF Reauthorize
  <2> HIDE DEF r
  <2>3. /\ pc'[p] = "authorize" /\ job'[p] = r
        /\ \A q \in Procs \ {p} : pc'[q] = pc[q] /\ job'[q] = job[q]
    BY <2>2, Local DEF IInv
  <2>4. AtHand(p)'
    BY <2>1, <2>3 DEF AtHand
  <2> QED
    BY <1>1, <2>3, <2>4, Quiet DEF Pending, Using
<1> QED
  BY <1>2, <1>3

\* A move that carries nothing yet and touches no shared state.
LEMMA EmptyHanded ==
  ASSUME IInv, Typed', OneWriter', NEW p \in Procs, NEW label, NEW r,
         pc' = [pc EXCEPT ![p] = label], job' = [job EXCEPT ![p] = r],
         UNCHANGED <<main, side, live, grantedTo, broken>>,
         ~Storing(p, main.login),
         label \in {"ensure", "authorize", "lockWait", "endWait", "derive",
                    "load", "reply"},
         r.saving = "none", r.revocation = "none",
         label = "endWait" => r.mem = None
  PROVE  Coherent'
<1>1. /\ pc'[p] = label /\ job'[p] = r
      /\ \A q \in Procs \ {p} : pc'[q] = pc[q] /\ job'[q] = job[q]
  BY Local DEF IInv
<1>2. AtHand(p)'
  BY <1>1 DEF AtHand
<1> QED
  BY <1>1, <1>2, Quiet DEF Pending, Using

LEMMA StartCoherent ==
  ASSUME IInv, Typed', OneWriter', NEW p \in Procs, Start(p)
  PROVE  Coherent'
<1> USE DEF keyring, issuerVars
<1>1. pc[p] = "idle" /\ ~Storing(p, main.login)
  BY DEF Start, StartMint, StartLogin, StartLogout, Storing
<1>2. PICK r, label : /\ pc' = [pc EXCEPT ![p] = label]
                      /\ job' = [job EXCEPT ![p] = r]
                      /\ label \in {"ensure", "lockWait", "authorize", "endWait"}
                      /\ r.saving = "none" /\ r.revocation = "none"
                      /\ label = "endWait" => r.mem = None
                      /\ UNCHANGED <<main, side, live, grantedTo, broken>>
  <2>1. CASE StartMint(p)
    <3>1. PICK b \in Bindings, s \in Strategies :
            /\ job' = [job EXCEPT ![p] = Minting(b, s, FALSE)]
            /\ Goto(p, IF s \in Establishes THEN "ensure" ELSE "lockWait")
      BY <2>1 DEF StartMint
    <3>2. /\ Minting(b, s, FALSE).saving = "none"
          /\ Minting(b, s, FALSE).revocation = "none"
      BY DEF Minting, NoJob
    <3> QED
      BY <2>1, <3>1, <3>2 DEF StartMint, Goto
  <2>2. CASE StartLogin(p)
    <3>1. PICK b \in Bindings : job' =
            [job EXCEPT ![p] = [NoJob EXCEPT !.kind = "login", !.bind = b]]
      BY <2>2 DEF StartLogin
    <3>2. /\ [NoJob EXCEPT !.kind = "login", !.bind = b].saving = "none"
          /\ [NoJob EXCEPT !.kind = "login", !.bind = b].revocation = "none"
      BY DEF NoJob
    <3> QED
      BY <2>2, <3>1, <3>2 DEF StartLogin, Goto
  <2>3. CASE StartLogout(p)
    <3>1. PICK b \in Bindings : job' =
            [job EXCEPT ![p] = [NoJob EXCEPT !.kind = "logout", !.bind = b]]
      BY <2>3 DEF StartLogout
    <3>2. /\ [NoJob EXCEPT !.kind = "logout", !.bind = b].saving = "none"
          /\ [NoJob EXCEPT !.kind = "logout", !.bind = b].revocation = "none"
          /\ [NoJob EXCEPT !.kind = "logout", !.bind = b].mem = None
      BY DEF NoJob
    <3> QED
      BY <2>3, <3>1, <3>2 DEF StartLogout, Goto
  <2> QED
    BY <2>1, <2>2, <2>3 DEF Start
<1> QED
  BY <1>1, <1>2, EmptyHanded

\* An action other than Start that reads, waits or gives up.
LEMMA WaitCoherent ==
  ASSUME IInv, Typed', OneWriter', NEW p \in Procs,
         \/ EnsureSession(p) \/ LockBusy(p) \/ Derive(p)
  PROVE  Coherent'
<1> USE DEF keyring, issuerVars
<1>1. ~Storing(p, main.login)
  BY DEF EnsureSession, LockBusy, Derive, Storing, Waiting
<1>2. CASE Finish(p)
  BY <1>1, <1>2, FinishQuiet DEF EnsureSession, LockBusy, Derive
<1>3. CASE ~Finish(p)
  <2>1. PICK label \in {"lockWait", "authorize", "load"} : Goto(p, label)
    BY <1>3 DEF EnsureSession, LockBusy, Derive
  <2>2. /\ pc[p] \in {"ensure", "derive"}
        /\ UNCHANGED <<main, side, live, grantedTo, broken, job>>
    BY <1>3 DEF EnsureSession, LockBusy, Derive
  <2>3. job' = [job EXCEPT ![p] = job[p]]
    BY <2>2 DEF IInv, Typed, TypeOK
  <2>4. job[p].saving \in {"none", "login", "rotation"}
    BY DEF IInv, Typed, TypeOK, Jobs
  <2>5. AtHand(p)' /\ ~Pending(p)' /\ pc'[p] \notin Using
    <3>1. AtHand(p) /\ pc'[p] = label /\ job'[p] = job[p]
      BY <2>1, <2>2 DEF Goto, IInv, Typed, TypeOK, Coherent
    <3> QED
      BY <2>2, <3>1 DEF AtHand, Pending, Using
  <2>6. \A q \in Procs \ {p} : pc'[q] = pc[q] /\ job'[q] = job[q]
    BY <2>1, <2>2 DEF Goto, IInv, Typed, TypeOK
  <2> QED
    BY <1>1, <2>2, <2>5, <2>6, Quiet
<1> QED
  BY <1>2, <1>3

LEMMA LockCoherent ==
  ASSUME IInv, Typed', OneWriter', NEW p \in Procs, Lock(p)
  PROVE  Coherent'
<1> USE DEF keyring, issuerVars
<1>1. /\ pc'[p] = Section(pc[p]) /\ job' = job
      /\ \A q \in Procs \ {p} : pc'[q] = pc[q]
      /\ UNCHANGED <<main, side, live, grantedTo, broken>>
      /\ pc[p] \in Waiting /\ ~Storing(p, main.login)
  BY DEF Lock, IInv, Typed, TypeOK, Storing, Waiting
<1>2. Section(pc[p]) \in {"saveMain", "derive", "endLoad"}
  BY DEF Section
<1>3. Section(pc[p]) = "saveMain" <=> pc[p] = "saveWait"
  BY <1>1 DEF Section, Waiting
<1>4. Section(pc[p]) = "endLoad" <=> pc[p] = "endWait"
  BY <1>1 DEF Section, Waiting
<1>5. AtHand(p) /\ Private
  BY DEF IInv, Coherent
<1>6. AtHand(p)'
  BY <1>1, <1>2, <1>3, <1>4, <1>5 DEF AtHand, Waiting, Private, Pending
<1>7. Pending(p)' => Pending(p)
  BY <1>1, <1>2, <1>3 DEF Pending
<1>8. pc'[p] \in Using => grantedTo[job'[p].mem.login] # Unbound
  BY <1>1, <1>2, <1>3 DEF Using, IInv, Coherent, Issued
<1> QED
  BY <1>1, <1>6, <1>7, <1>8, Quiet

LEMMA AuthorizeCoherent ==
  ASSUME IInv, Typed', OneWriter', NEW p \in Procs, Authorize(p)
  PROVE  Coherent'
<1> USE DEF keyring, issuerVars
<1>1. pc[p] = "authorize" /\ ~Storing(p, main.login)
  BY DEF Authorize, Storing
<1>2. CASE Finish(p) /\ UNCHANGED issuerVars
  BY <1>1, <1>2, FinishQuiet DEF Authorize
<1>3. CASE ~(Finish(p) /\ UNCHANGED issuerVars)
  <2>1. PICK l \in Logins, id \in BOOLEAN :
          /\ grantedTo[l] = Unbound
          /\ grantedTo' = [grantedTo EXCEPT ![l] = job[p].bind]
          /\ live' = [live EXCEPT ![l] = 1]
          /\ job' = [job EXCEPT ![p] =
               [@ EXCEPT !.saving = "login",
                         !.mem = Obtained(l, job[p].bind),
                         !.tokens = [x \in Sides |->
                                       IF x = "id" /\ ~id THEN None ELSE l]]]
          /\ Goto(p, "saveWait")
    BY <1>1, <1>3 DEF Authorize
  <2>2. /\ pc'[p] = "saveWait"
        /\ job'[p].saving = "login"
        /\ job'[p].mem.login = l /\ job'[p].mem.gen = 1
        /\ job'[p].revocation = job[p].revocation
        /\ \A q \in Procs \ {p} : pc'[q] = pc[q] /\ job'[q] = job[q]
    <3> DEFINE m == Obtained(l, job[p].bind)
    <3> DEFINE t == [x \in Sides |-> IF x = "id" /\ ~id THEN None ELSE l]
    <3> DEFINE r == [job[p] EXCEPT !.saving = "login", !.mem = m, !.tokens = t]
    <3>1. m.login = l /\ m.gen = 1
      BY DEF Obtained
    <3> HIDE DEF m, t
    <3>2. r.saving = "login" /\ r.mem = m /\ r.revocation = job[p].revocation
      BY DEF IInv, Typed, TypeOK, Jobs
    <3>3. job' = [job EXCEPT ![p] = r]
      BY <2>1 DEF m, t, IInv, Typed, TypeOK
    <3>4. pc' = [pc EXCEPT ![p] = "saveWait"]
      BY <2>1 DEF Goto
    <3>5. /\ pc'[p] = "saveWait" /\ job'[p] = r
          /\ \A q \in Procs \ {p} : pc'[q] = pc[q] /\ job'[q] = job[q]
      BY <3>3, <3>4, Local DEF IInv
    <3> HIDE DEF r
    <3> QED
      BY <3>1, <3>2, <3>5
  <2>3. /\ UNCHANGED <<main, side, broken, torn, holder>>
    BY <2>1 DEF Authorize, Goto
  <2>4. /\ \A k \in Logins \ {l} : live'[k] = live[k] /\ grantedTo'[k] = grantedTo[k]
        /\ live'[l] = 1 /\ grantedTo'[l] = job[p].bind /\ grantedTo'[l] # Unbound
    BY <1>1, <2>1, UnboundIsNoBinding DEF IInv, Typed, TypeOK, Carries, Ending
  <2>5. /\ Stored(main) => main.login \in Logins \ {l}
        /\ \A q \in Procs : pc[q] \in Using => job[q].mem.login \in Logins \ {l}
    BY <2>1 DEF IInv, Typed, Carries, Entries, Stored, Coherent, Issued
  <2>6. Issued'
    BY <2>2, <2>3, <2>4, <2>5 DEF IInv, Coherent, Issued, Stored
  <2>7. Private'
    BY <2>2, <2>3, <2>4, <2>5 DEF IInv, Coherent, Private, Pending, Using, Stored
  <2>8. \A q \in Procs : AtHand(q)'
    <3>1. AtHand(p)'
      BY <1>1, <2>2 DEF AtHand, IInv, Coherent
    <3>2. ASSUME NEW q \in Procs, q # p PROVE AtHand(q)'
      <4>1. AtHand(q) /\ pc'[q] = pc[q] /\ job'[q] = job[q]
        BY <2>2, <3>2 DEF IInv, Coherent
      <4>2. Stored(job[q].mem) /\ pc[q] \in {"delSides", "delMain"} =>
              job[q].mem.login \in Logins \ {l}
        BY <2>5, <4>1, ValuesAssumption DEF AtHand, Stored
      <4> QED
        BY <2>3, <2>4, <2>5, <4>1, <4>2 DEF AtHand, Stored, Using, SentHome
    <3> QED
      BY <3>1, <3>2
  <2>9. SideReachable'
    BY <2>3 DEF IInv, Coherent, SideReachable
  <2>10. StoredTokenCurrent'
    <3> SUFFICES ASSUME Stored(main),
                        live[main.login] \notin {0, main.gen},
                        main.login \notin broken
                 PROVE  \E q \in Procs : holder = q /\ Storing(q, main.login)'
      BY <2>3, <2>4, <2>5 DEF StoredTokenCurrent, Stored
    <3>1. PICK q \in Procs : holder = q /\ Storing(q, main.login)
      BY DEF StoredTokenCurrent, IInv, Coherent
    <3> QED
      BY <1>1, <2>2, <2>3, <3>1 DEF Storing
  <2> QED
    BY <2>6, <2>7, <2>8, <2>9, <2>10 DEF Coherent
<1> QED
  BY <1>2, <1>3

LEMMA LoadCoherent ==
  ASSUME IInv, Typed', OneWriter', NEW p \in Procs, LoadSession(p)
  PROVE  Coherent'
<1> USE DEF keyring, issuerVars
<1>1. pc[p] = "load" /\ ~Storing(p, main.login)
  BY DEF LoadSession, Storing
<1>2. CASE Finish(p)
  BY <1>1, <1>2, FinishQuiet DEF LoadSession
<1>3. CASE ~Finish(p)
  <2>1. /\ Stored(main)
        /\ pc' = [pc EXCEPT ![p] = "refresh"]
        /\ \E t : job' = [job EXCEPT ![p] = [@ EXCEPT !.mem = main, !.tokens = t]]
        /\ UNCHANGED <<main, side, live, grantedTo, broken>>
    BY <1>3 DEF LoadSession, Goto
  <2>2. /\ pc'[p] = "refresh" /\ job'[p].mem = main
        /\ job'[p].saving = job[p].saving
        /\ job'[p].revocation = job[p].revocation
        /\ \A q \in Procs \ {p} : pc'[q] = pc[q] /\ job'[q] = job[q]
    BY <2>1 DEF IInv, Typed, TypeOK, Jobs
  <2>3. AtHand(p)'
    BY <1>1, <2>1, <2>2 DEF AtHand, IInv, Coherent
  <2>4. grantedTo[main.login] # Unbound
    BY <2>1 DEF IInv, Coherent, Issued
  <2> QED
    BY <1>1, <2>1, <2>2, <2>3, <2>4, Quiet DEF Pending
<1> QED
  BY <1>2, <1>3

LEMMA RefreshCoherent ==
  ASSUME IInv, Typed', OneWriter', NEW p \in Procs, Refresh(p)
  PROVE  Coherent'
<1> USE DEF keyring, issuerVars
<1> DEFINE s == job[p].mem
<1>1. /\ pc[p] = "refresh" /\ pc[p] \in Locked /\ ~Storing(p, main.login)
      /\ UNCHANGED <<main, side, grantedTo, broken>>
  BY DEF Refresh, Storing, Locked
<1>2. CASE Finish(p) /\ UNCHANGED live
  BY <1>1, <1>2, FinishQuiet
<1>3. CASE Reauthorize(p) /\ UNCHANGED live
  BY <1>1, <1>3, ReauthorizeQuiet
<1>4. CASE ~(Finish(p) /\ UNCHANGED live) /\ ~(Reauthorize(p) /\ UNCHANGED live)
  <2>1. PICK rotate \in BOOLEAN, answer \in {"usable", "unusable", "noToken"} :
          /\ live[s.login] = s.gen
          /\ live' = [live EXCEPT ![s.login] = IF rotate THEN s.gen + 1 ELSE s.gen]
          /\ job' = [job EXCEPT ![p] = [@ EXCEPT !.answer = answer,
                       !.gen = IF rotate THEN s.gen + 1 ELSE s.gen]]
          /\ Goto(p, "answer")
    BY <1>4 DEF Refresh
  <2>2. main = s /\ s \in Entries /\ s.login \in Logins
    BY <1>1 DEF IInv, Coherent, AtHand, Typed, Carries, Using, Entries
  <2>3. /\ pc'[p] = "answer"
        /\ job'[p].mem = s
        /\ job'[p].saving = job[p].saving
        /\ job'[p].revocation = job[p].revocation
        /\ job'[p].gen = (IF rotate THEN s.gen + 1 ELSE s.gen)
        /\ \A q \in Procs \ {p} : pc'[q] = pc[q] /\ job'[q] = job[q]
    <3> DEFINE g == IF rotate THEN s.gen + 1 ELSE s.gen
    <3> DEFINE r == [job[p] EXCEPT !.answer = answer, !.gen = g]
    <3>1. job' = [job EXCEPT ![p] = r] /\ pc' = [pc EXCEPT ![p] = "answer"]
      BY <2>1 DEF Goto
    <3> HIDE DEF g
    <3>2. /\ r.mem = s /\ r.saving = job[p].saving
          /\ r.revocation = job[p].revocation /\ r.gen = g
      BY DEF IInv, Typed, TypeOK, Jobs
    <3> HIDE DEF r
    <3>3. /\ pc'[p] = "answer" /\ job'[p] = r
          /\ \A q \in Procs \ {p} : pc'[q] = pc[q] /\ job'[q] = job[q]
      BY <3>1, Local DEF IInv
    <3> QED
      BY <3>2, <3>3 DEF g
  <2>4. /\ live'[s.login] = job'[p].gen
        /\ \A k \in Logins \ {s.login} : live'[k] = live[k]
    BY <2>1, <2>2, <2>3 DEF IInv, Typed, TypeOK
  <2>5. AtHand(p)'
    BY <1>1, <2>2, <2>3, <2>4 DEF AtHand, IInv, Coherent
  <2>6. StoredTokenCurrent'
    <3>1. holder' = p
      BY <1>1, <2>1 DEF Goto, IInv, OneWriter
    <3>2. Storing(p, main.login)'
      BY <1>1, <2>2, <2>3 DEF Storing
    <3> QED
      BY <3>1, <3>2 DEF StoredTokenCurrent
  <2>7. ASSUME NEW q \in Procs, q # p, Pending(q)
        PROVE  /\ live'[job[q].mem.login] = live[job[q].mem.login]
               /\ Stored(main') => main'.login # job[q].mem.login
    <3>1. job[q].mem.login # s.login /\ job[q].mem.login \in Logins
      BY <2>2, <2>7 DEF IInv, Coherent, Private, Stored, Pending, Typed, Carries,
                        Using, Entries
    <3> QED
      BY <1>1, <2>2, <2>4, <3>1
  <2>8. grantedTo[s.login] # Unbound
    BY <2>2 DEF IInv, Coherent, Issued, Stored
  <2>9. SideReachable'
    BY <1>1 DEF IInv, Coherent, SideReachable
  <2> QED
    BY <1>1, <2>2, <2>3, <2>5, <2>6, <2>7, <2>8, <2>9, Inside DEF Pending
<1> QED
  BY <1>2, <1>3, <1>4

LEMMA AnswerCoherent ==
  ASSUME IInv, Typed', OneWriter', NEW p \in Procs, Answer(p)
  PROVE  Coherent'
<1> USE DEF keyring, issuerVars
<1>1. /\ pc[p] = "answer" /\ holder = p
      /\ UNCHANGED <<main, side, live, grantedTo>>
  BY DEF Answer, Locked, IInv, OneWriter
<1>2. /\ main = job[p].mem /\ main \in Entries
      /\ live[main.login] = job[p].gen
      /\ job[p].saving # "rotation" /\ job[p].revocation # "confirmed"
      /\ grantedTo[main.login] # Unbound
  BY <1>1 DEF IInv, Coherent, AtHand, Issued, Typed, Carries, Using, Stored
<1>3. CASE Finish(p)
  <2>1. broken' = IF job[p].gen # job[p].mem.gen
                  THEN broken \cup {job[p].mem.login} ELSE broken
    BY <1>1, <1>3 DEF Answer, Replaced, Finish, Goto, IInv, Typed, TypeOK
  <2> QED
    BY <1>1, <1>2, <1>3, <2>1, FinishQuiet
<1>4. CASE Goto(p, "reply") /\ UNCHANGED <<job, broken>> /\ job[p].gen = job[p].mem.gen
  <2>1. /\ pc'[p] = "reply" /\ job'[p] = job[p]
        /\ \A q \in Procs \ {p} : pc'[q] = pc[q] /\ job'[q] = job[q]
    BY <1>4 DEF Goto, IInv, Typed, TypeOK
  <2>2. AtHand(p)'
    BY <1>2, <2>1 DEF AtHand
  <2> QED
    BY <1>1, <1>2, <1>4, <2>1, <2>2, Quiet DEF Pending, Using
<1>5. CASE /\ Goto(p, "saveMain") /\ UNCHANGED broken
           /\ job' = [job EXCEPT ![p] = [@ EXCEPT !.saving = "rotation",
                                                  !.mem.gen = job[p].gen]]
  <2>1. /\ pc'[p] = "saveMain"
        /\ job'[p].saving = "rotation"
        /\ job'[p].revocation = job[p].revocation
        /\ job'[p].mem.login = main.login /\ job'[p].mem.gen = job[p].gen
        /\ \A q \in Procs \ {p} : pc'[q] = pc[q] /\ job'[q] = job[q]
    <3> DEFINE m == [job[p].mem EXCEPT !.gen = job[p].gen]
    <3> DEFINE r == [job[p] EXCEPT !.saving = "rotation", !.mem = m]
    <3>1. job' = [job EXCEPT ![p] = r] /\ pc' = [pc EXCEPT ![p] = "saveMain"]
      BY <1>5 DEF Goto
    <3>2. m.login = main.login /\ m.gen = job[p].gen
      BY <1>2 DEF Entries
    <3> HIDE DEF m
    <3>3. /\ r.mem = m /\ r.saving = "rotation"
          /\ r.revocation = job[p].revocation
      BY DEF IInv, Typed, TypeOK, Jobs
    <3> HIDE DEF r
    <3>4. /\ pc'[p] = "saveMain" /\ job'[p] = r
          /\ \A q \in Procs \ {p} : pc'[q] = pc[q] /\ job'[q] = job[q]
      BY <3>1, Local DEF IInv
    <3> QED
      BY <3>2, <3>3, <3>4
  <2>2. AtHand(p)'
    BY <1>1, <1>2, <2>1 DEF AtHand, Stored
  <2>3. holder' = p /\ Storing(p, main.login)'
    BY <1>1, <1>5, <2>1 DEF Goto, Storing
  <2> QED
    BY <1>1, <1>2, <1>5, <2>1, <2>2, <2>3, Quiet DEF Pending, Using
<1> QED
  BY <1>3, <1>4, <1>5 DEF Answer, Replaced

LEMMA ReplyCoherent ==
  ASSUME IInv, Typed', OneWriter', NEW p \in Procs, Reply(p)
  PROVE  Coherent'
<1> USE DEF keyring, issuerVars
<1>1. /\ pc[p] = "reply" /\ ~Storing(p, main.login)
      /\ UNCHANGED <<main, side, live, grantedTo, broken>>
  BY DEF Reply, Storing
<1> QED
  BY <1>1, FinishQuiet, ReauthorizeQuiet DEF Reply

LEMMA SaveMainCoherent ==
  ASSUME IInv, Typed', OneWriter', NEW p \in Procs, SaveMain(p)
  PROVE  Coherent'
<1> USE DEF keyring, issuerVars
<1> DEFINE m == job[p].mem
<1>1. /\ pc[p] = "saveMain" /\ pc[p] \in Locked
      /\ UNCHANGED <<side, live, grantedTo>>
  BY DEF SaveMain, Locked
<1>2. job[p].saving \in {"login", "rotation"} /\ job[p].revocation # "confirmed"
  BY <1>1 DEF IInv, Coherent, AtHand
<1>3. m \in Entries /\ grantedTo[m.login] # Unbound
  BY <1>1 DEF IInv, Coherent, Issued, Typed, Carries, Using
<1>4. live[m.login] = m.gen
  BY <1>1, <1>2 DEF IInv, Coherent, Private, Pending, AtHand
<1>5. CASE Finish(p)
  <2>1. UNCHANGED main
    BY <1>1, <1>5 DEF SaveMain, Finish, Goto, IInv, Typed, TypeOK
  <2>2. broken \subseteq broken'
    BY <1>5 DEF SaveMain
  <2>3. broken' = IF job[p].saving = "rotation" THEN broken \cup {m.login} ELSE broken
    BY <1>1, <1>5 DEF SaveMain, Finish, Goto, IInv, Typed, TypeOK
  <2>4. Storing(p, main.login) => main.login \in broken'
    BY <1>1, <2>3 DEF Storing
  <2> QED
    BY <1>1, <1>5, <2>1, <2>2, <2>4, FinishQuiet
<1>6. CASE ~Finish(p)
  <2>1. /\ main' = [m EXCEPT !.inline = FALSE]
        /\ job' = [job EXCEPT ![p] = [@ EXCEPT !.todo = Sides]]
        /\ Goto(p, "saveSides")
        /\ UNCHANGED broken
    BY <1>6 DEF SaveMain
  <2>2. /\ main'.login = m.login /\ main'.gen = m.gen
        /\ main' \in Entries /\ main' # None
    BY <1>3, <2>1, ValuesAssumption DEF Entries
  <2>3. /\ pc'[p] = "saveSides"
        /\ job'[p].mem = m
        /\ job'[p].saving = job[p].saving
        /\ job'[p].revocation = job[p].revocation
        /\ \A q \in Procs \ {p} : pc'[q] = pc[q] /\ job'[q] = job[q]
    <3> DEFINE r == [job[p] EXCEPT !.todo = Sides]
    <3>1. job' = [job EXCEPT ![p] = r] /\ pc' = [pc EXCEPT ![p] = "saveSides"]
      BY <2>1 DEF Goto
    <3>2. /\ r.mem = m /\ r.saving = job[p].saving
          /\ r.revocation = job[p].revocation
      BY DEF IInv, Typed, TypeOK, Jobs
    <3> HIDE DEF r
    <3>3. /\ pc'[p] = "saveSides" /\ job'[p] = r
          /\ \A q \in Procs \ {p} : pc'[q] = pc[q] /\ job'[q] = job[q]
      BY <3>1, Local DEF IInv
    <3> QED
      BY <3>2, <3>3
  <2>4. AtHand(p)'
    BY <1>2, <2>2, <2>3 DEF AtHand, Stored
  <2>5. ASSUME NEW q \in Procs, q # p, Pending(q)
        PROVE  main'.login # job[q].mem.login
    <3>1. CASE job[p].saving = "login"
      BY <1>1, <2>2, <2>5, <3>1 DEF IInv, Coherent, Private, Pending
    <3>2. CASE job[p].saving = "rotation"
      BY <1>1, <2>2, <2>5, <3>2 DEF IInv, Coherent, Private, AtHand
    <3> QED
      BY <1>2, <3>1, <3>2
  <2>6. SideReachable'
    BY <2>2 DEF SideReachable
  <2>7. StoredTokenCurrent'
    BY <1>1, <1>4, <2>2 DEF StoredTokenCurrent
  <2>8. grantedTo[main'.login] # Unbound
    BY <1>3, <2>2
  <2> QED
    BY <1>1, <1>3, <2>3, <2>4, <2>5, <2>6, <2>7, <2>8, Inside DEF Pending
<1> QED
  BY <1>5, <1>6

LEMMA SaveSideCoherent ==
  ASSUME IInv, Typed', OneWriter', NEW p \in Procs, SaveSide(p)
  PROVE  Coherent'
<1> USE DEF keyring, issuerVars
<1>1. /\ pc[p] = "saveSides" /\ pc[p] \in Locked /\ holder = p
      /\ ~Storing(p, main.login)
      /\ UNCHANGED <<main, live, grantedTo, broken>>
  BY DEF SaveSide, Locked, Storing, IInv, OneWriter
<1>2. /\ Stored(main) /\ main # None /\ grantedTo[main.login] # Unbound
      /\ job[p].mem \in Entries /\ grantedTo[job[p].mem.login] # Unbound
      /\ job[p].revocation # "confirmed"
  BY <1>1, ValuesAssumption
     DEF IInv, Coherent, AtHand, Issued, Stored, Typed, Carries, Using
<1>3. StoredTokenCurrent'
  <2> SUFFICES ASSUME live[main.login] \notin {0, main.gen},
                      main.login \notin broken
               PROVE  FALSE
    BY <1>1 DEF StoredTokenCurrent
  <2> QED
    BY <1>1, <1>2 DEF IInv, Coherent, StoredTokenCurrent
<1>4. SideReachable'
  BY <1>1, <1>2 DEF SideReachable
<1>5. \A q \in Procs \ {p} : Pending(q) => main.login # job[q].mem.login
  BY <1>2 DEF IInv, Coherent, Private
<1> DEFINE Leads(label, r) ==
      /\ pc' = [pc EXCEPT ![p] = label] /\ job' = [job EXCEPT ![p] = r]
      /\ label \in {"saveSides", "reply", "lockWait", "idle"}
      /\ r.saving = "rotation" => label = "saveSides"
      /\ r.revocation # "confirmed"
      /\ label = "saveSides" => r.mem = job[p].mem
<1>6. \E label, r : Leads(label, r)
  <2>1. CASE Finish(p)
    <3>1. NoJob.saving = "none" /\ NoJob.revocation = "none"
      BY DEF NoJob
    <3>2. Leads("idle", NoJob)
      BY <2>1, <3>1 DEF Finish
    <3> QED
      BY <3>2
  <2>2. ASSUME NEW x \in job[p].todo, UNCHANGED pc,
               job' = [job EXCEPT ![p] = [@ EXCEPT !.todo = job[p].todo \ {x}]]
        PROVE  \E label, r : Leads(label, r)
    <3> DEFINE r == [job[p] EXCEPT !.todo = job[p].todo \ {x}]
    <3>1. r.revocation = job[p].revocation /\ r.mem = job[p].mem
      BY DEF IInv, Typed, TypeOK, Jobs
    <3>2. pc' = [pc EXCEPT ![p] = "saveSides"] /\ job' = [job EXCEPT ![p] = r]
      BY <1>1, <2>2 DEF IInv, Typed, TypeOK
    <3> HIDE DEF r
    <3>3. Leads("saveSides", r)
      BY <1>2, <3>1, <3>2
    <3> QED
      BY <3>3
  <2>3. CASE /\ Goto(p, "reply")
             /\ job' = [job EXCEPT ![p] = [@ EXCEPT !.saving = "none", !.todo = {}]]
    <3> DEFINE r == [job[p] EXCEPT !.saving = "none", !.todo = {}]
    <3>1. r.revocation = job[p].revocation /\ r.saving = "none"
      BY DEF IInv, Typed, TypeOK, Jobs
    <3>2. pc' = [pc EXCEPT ![p] = "reply"] /\ job' = [job EXCEPT ![p] = r]
      BY <2>3 DEF Goto
    <3> HIDE DEF r
    <3>3. Leads("reply", r)
      BY <1>2, <3>1, <3>2
    <3> QED
      BY <3>3
  <2>4. CASE /\ pc' = [pc EXCEPT ![p] = "lockWait"]
             /\ job' = [job EXCEPT ![p] =
                          Minting(job[p].bind, job[p].strategy, job[p].retried)]
    <3> DEFINE r == Minting(job[p].bind, job[p].strategy, job[p].retried)
    <3>1. r.saving = "none" /\ r.revocation = "none"
      BY DEF Minting, NoJob
    <3> HIDE DEF r
    <3>2. Leads("lockWait", r)
      BY <2>4, <3>1 DEF r
    <3> QED
      BY <3>2
  <2> HIDE DEF Leads
  <2> QED
    BY <2>1, <2>2, <2>3, <2>4 DEF SaveSide, Saved
<1>7. PICK label, r : Leads(label, r)
  BY <1>6
<1>8. /\ pc'[p] = label /\ job'[p] = r
      /\ \A q \in Procs \ {p} : pc'[q] = pc[q] /\ job'[q] = job[q]
  BY <1>7, Local DEF IInv
<1>9. AtHand(p)'
  BY <1>1, <1>2, <1>7, <1>8 DEF AtHand, Stored
<1>10. ~Pending(p)' /\ (pc'[p] \in Using => job'[p].mem = job[p].mem)
  BY <1>7, <1>8 DEF Pending, Using
<1> HIDE DEF Leads
<1> QED
  BY <1>1, <1>2, <1>3, <1>4, <1>5, <1>8, <1>9, <1>10, Inside

LEMMA EndLoadCoherent ==
  ASSUME IInv, Typed', OneWriter', NEW p \in Procs, EndLoad(p)
  PROVE  Coherent'
<1> USE DEF keyring, issuerVars
<1>1. /\ pc[p] = "endLoad" /\ ~Storing(p, main.login)
      /\ UNCHANGED <<main, side, live, grantedTo, broken>>
  BY DEF EndLoad, Storing
<1>2. /\ job[p].mem = None /\ job[p].saving # "rotation"
      /\ job[p].revocation # "confirmed"
  BY <1>1 DEF IInv, Coherent, AtHand
<1>3. CASE Finish(p)
  BY <1>1, <1>3, FinishQuiet
<1>4. CASE /\ Stored(main) /\ Goto(p, "revoke")
           /\ job' = [job EXCEPT ![p] = [@ EXCEPT !.mem = main]]
  <2> DEFINE r == [job[p] EXCEPT !.mem = main]
  <2>1. pc' = [pc EXCEPT ![p] = "revoke"] /\ job' = [job EXCEPT ![p] = r]
    BY <1>4 DEF Goto
  <2>2. r.mem = main /\ r.saving = job[p].saving /\ r.revocation = job[p].revocation
    BY DEF IInv, Typed, TypeOK, Jobs
  <2> HIDE DEF r
  <2>3. /\ pc'[p] = "revoke" /\ job'[p] = r
        /\ \A q \in Procs \ {p} : pc'[q] = pc[q] /\ job'[q] = job[q]
    BY <2>1, Local DEF IInv
  <2>4. AtHand(p)'
    BY <1>1, <1>2, <1>4, <2>2, <2>3 DEF AtHand, Stored
  <2>5. grantedTo[main.login] # Unbound
    BY <1>4 DEF IInv, Coherent, Issued
  <2> QED
    BY <1>1, <2>2, <2>3, <2>4, <2>5, Quiet DEF Pending
<1>5. CASE /\ ~Stored(main) /\ Goto(p, "delSides")
           /\ job' = [job EXCEPT ![p] = [@ EXCEPT !.todo = Sides]]
  <2> DEFINE r == [job[p] EXCEPT !.todo = Sides]
  <2>1. pc' = [pc EXCEPT ![p] = "delSides"] /\ job' = [job EXCEPT ![p] = r]
    BY <1>5 DEF Goto
  <2>2. /\ r.mem = job[p].mem /\ r.saving = job[p].saving
        /\ r.revocation = job[p].revocation /\ r.todo = Sides
    BY DEF IInv, Typed, TypeOK, Jobs
  <2> HIDE DEF r
  <2>3. /\ pc'[p] = "delSides" /\ job'[p] = r
        /\ \A q \in Procs \ {p} : pc'[q] = pc[q] /\ job'[q] = job[q]
    BY <2>1, Local DEF IInv
  <2>4. AtHand(p)'
    BY <1>1, <1>2, <1>5, <2>2, <2>3 DEF AtHand, Stored
  <2> QED
    BY <1>1, <2>2, <2>3, <2>4, Quiet DEF Pending, Using
<1> QED
  BY <1>3, <1>4, <1>5 DEF EndLoad

LEMMA RevokeCoherent ==
  ASSUME IInv, Typed', OneWriter', NEW p \in Procs, Revoke(p)
  PROVE  Coherent'
<1> USE DEF keyring, issuerVars
<1> DEFINE s == job[p].mem
<1>1. /\ pc[p] = "revoke" /\ pc[p] \in Locked /\ holder = p
      /\ ~Storing(p, main.login)
      /\ UNCHANGED <<main, side, grantedTo, broken>>
  BY DEF Revoke, Locked, Storing, IInv, OneWriter
<1>2. /\ Stored(main) /\ main = s /\ s.login \in Logins
      /\ job[p].saving # "rotation"
      /\ grantedTo[s.login] # Unbound
  BY <1>1 DEF IInv, Coherent, AtHand, Issued, Stored, Entries
<1>3. live[s.login] \in {0, s.gen} \/ s.login \in broken
  BY <1>1, <1>2 DEF IInv, Coherent, StoredTokenCurrent
<1> DEFINE home == SentHome(job[p].bind, s.login)
<1>4. PICK outcome \in {"confirmed", "not-attempted", "failed"}, retract \in BOOLEAN :
        /\ job' = [job EXCEPT ![p] = [@ EXCEPT !.revocation = outcome,
                                               !.todo = Sides]]
        /\ outcome = "confirmed" /\ home => retract
        /\ live' = IF retract /\ live[s.login] = s.gen
                   THEN [live EXCEPT ![s.login] = 0] ELSE live
        /\ Goto(p, "delSides")
  BY DEF Revoke
<1> HIDE DEF home
<1>5. /\ \A k \in Logins \ {s.login} : live'[k] = live[k]
      /\ live'[s.login] \in {0, s.gen} \/ s.login \in broken
      /\ outcome = "confirmed" /\ home => live'[s.login] = 0 \/ s.login \in broken
  BY <1>2, <1>3, <1>4 DEF IInv, Typed, TypeOK
<1>6. /\ pc'[p] = "delSides"
      /\ job'[p].mem = s /\ job'[p].saving = job[p].saving
      /\ job'[p].revocation = outcome /\ job'[p].todo = Sides
      /\ job'[p].bind = job[p].bind
      /\ \A q \in Procs \ {p} : pc'[q] = pc[q] /\ job'[q] = job[q]
  <2> DEFINE r == [job[p] EXCEPT !.revocation = outcome, !.todo = Sides]
  <2>1. job' = [job EXCEPT ![p] = r] /\ pc' = [pc EXCEPT ![p] = "delSides"]
    BY <1>4 DEF Goto
  <2>2. /\ r.mem = s /\ r.saving = job[p].saving
        /\ r.revocation = outcome /\ r.todo = Sides /\ r.bind = job[p].bind
    BY DEF IInv, Typed, TypeOK, Jobs
  <2> HIDE DEF r
  <2>3. /\ pc'[p] = "delSides" /\ job'[p] = r
        /\ \A q \in Procs \ {p} : pc'[q] = pc[q] /\ job'[q] = job[q]
    BY <2>1, Local DEF IInv
  <2> QED
    BY <2>2, <2>3
<1>7. AtHand(p)'
  <2>1. SentHome(job[p].bind, job[p].mem.login)' => home
    BY <1>1, <1>6 DEF SentHome, home
  <2> QED
    BY <1>1, <1>2, <1>5, <1>6, <2>1 DEF AtHand, Stored
<1>8. StoredTokenCurrent'
  BY <1>1, <1>2, <1>5 DEF StoredTokenCurrent
<1>9. SideReachable'
  BY <1>1 DEF IInv, Coherent, SideReachable
<1>10. ASSUME NEW q \in Procs, q # p, Pending(q)
       PROVE  /\ live'[job[q].mem.login] = live[job[q].mem.login]
              /\ main'.login # job[q].mem.login
  <2>1. job[q].mem.login # s.login /\ job[q].mem.login \in Logins
    BY <1>2, <1>10 DEF IInv, Coherent, Private, Stored, Pending, Typed, Carries,
                       Using, Entries
  <2> QED
    BY <1>1, <1>2, <1>5, <2>1
<1> QED
  BY <1>1, <1>2, <1>6, <1>7, <1>8, <1>9, <1>10, Inside DEF Pending, Using

LEMMA DeleteSideCoherent ==
  ASSUME IInv, Typed', OneWriter', NEW p \in Procs, DeleteSide(p)
  PROVE  Coherent'
<1> USE DEF keyring, issuerVars
<1>1. /\ pc[p] = "delSides" /\ pc[p] \in Locked /\ ~Storing(p, main.login)
      /\ UNCHANGED <<main, live, grantedTo, broken>>
  BY DEF DeleteSide, Locked, Storing
<1>2. CASE Finish(p) /\ UNCHANGED side
  BY <1>1, <1>2, FinishQuiet
<1>3. CASE ~(Finish(p) /\ UNCHANGED side)
  <2> DEFINE x == NextSide(job[p].todo)
             r == [job[p] EXCEPT !.todo = job[p].todo \ {x}]
  <2>1. PICK label \in {"delSides", "delMain"} :
          /\ side' = [side EXCEPT ![x] = None]
          /\ pc' = [pc EXCEPT ![p] = label]
          /\ job' = [job EXCEPT ![p] = r]
          /\ label = "delMain" => job[p].todo = {x}
    BY <1>1, <1>3 DEF DeleteSide, Goto, IInv, Typed, TypeOK
  <2>2. /\ r.mem = job[p].mem /\ r.saving = job[p].saving
        /\ r.revocation = job[p].revocation /\ r.todo = job[p].todo \ {x}
        /\ r.bind = job[p].bind
    BY DEF IInv, Typed, TypeOK, Jobs
  <2>3. x \in Sides
    BY DEF NextSide, Sides
  <2> HIDE DEF x, r
  <2>4. /\ pc'[p] = label /\ job'[p] = r
        /\ \A q \in Procs \ {p} : pc'[q] = pc[q] /\ job'[q] = job[q]
    BY <2>1, Local DEF IInv
  <2>5. \A y \in Sides : side'[y] = IF y = x THEN None ELSE side[y]
    BY <2>1, <2>3 DEF IInv, Typed, TypeOK
  <2>6. AtHand(p) /\ Issued /\ SideReachable
    BY DEF IInv, Coherent
  <2>7. AtHand(p)'
    BY <1>1, <2>1, <2>2, <2>4, <2>5, <2>6 DEF AtHand, Stored, SentHome
  <2>8. SideReachable'
    BY <1>1, <2>5, <2>6 DEF SideReachable
  <2>9. StoredTokenCurrent'
    <3>1. ~(holder = p /\ Storing(p, main.login))
      BY <1>1
    <3>2. \A q \in Procs : holder = q => q = p
      BY <1>1 DEF IInv, OneWriter
    <3> QED
      BY <1>1, <3>1, <3>2 DEF IInv, Coherent, StoredTokenCurrent
  <2>10. \A q \in Procs \ {p} : Pending(q) =>
           (Stored(main) => main.login # job[q].mem.login)
    BY DEF IInv, Coherent, Private
  <2>11. Stored(main) => grantedTo[main.login] # Unbound
    BY <2>6 DEF Issued
  <2> QED
    BY <1>1, <2>1, <2>4, <2>7, <2>8, <2>9, <2>10, <2>11, Inside DEF Pending, Using
<1> QED
  BY <1>2, <1>3

LEMMA DeleteMainCoherent ==
  ASSUME IInv, Typed', OneWriter', NEW p \in Procs, DeleteMain(p)
  PROVE  Coherent'
<1> USE DEF keyring, issuerVars
<1>1. /\ pc[p] = "delMain" /\ pc[p] \in Locked /\ ~Storing(p, main.login)
      /\ Finish(p)
      /\ UNCHANGED <<side, live, grantedTo, broken>>
  BY DEF DeleteMain, Locked, Storing
<1>2. CASE UNCHANGED main
  BY <1>1, <1>2, FinishQuiet
<1>3. CASE main' = None
  <2>1. ~Stored(main')
    BY <1>3, ValuesAssumption DEF Stored
  <2>2. /\ pc'[p] = "idle" /\ job'[p] = NoJob
        /\ \A q \in Procs \ {p} : pc'[q] = pc[q] /\ job'[q] = job[q]
    BY <1>1, Local DEF Finish, IInv
  <2>3. NoJob.saving = "none" /\ NoJob.revocation = "none"
    BY DEF NoJob
  <2>4. AtHand(p)'
    BY <2>2, <2>3 DEF AtHand
  <2>5. SideReachable'
    BY <1>1 DEF IInv, Coherent, AtHand, SideReachable
  <2>6. StoredTokenCurrent'
    BY <2>1 DEF StoredTokenCurrent, Stored
  <2> QED
    BY <1>1, <2>1, <2>2, <2>4, <2>5, <2>6, Inside DEF Pending, Using
<1> QED
  BY <1>2, <1>3 DEF DeleteMain

LEMMA CrashCoherent ==
  ASSUME IInv, Typed', OneWriter', NEW p \in Procs, Crash(p)
  PROVE  Coherent'
<1> USE DEF keyring, issuerVars
<1>1. /\ Finish(p) /\ UNCHANGED <<main, side, live, grantedTo>>
      /\ broken \subseteq broken'
  BY DEF Crash
<1>2. ASSUME Stored(main), Storing(p, main.login)
      PROVE  live[main.login] \in {0, main.gen} \/ main.login \in broken'
  <2>1. CASE pc[p] = "answer" /\ job[p].gen = job[p].mem.gen
    BY <2>1 DEF IInv, Coherent, AtHand
  <2> QED
    BY <1>2, <2>1 DEF Crash, Replaced, Storing
<1> QED
  BY <1>1, <1>2, FinishQuiet

LEMMA IInvStep == IInv /\ [Next]_vars => IInv'
<1> SUFFICES ASSUME IInv, [Next]_vars PROVE IInv'
  OBVIOUS
<1>1. Typed' /\ OneWriter'
  BY TypedStep, ExclusionStep DEF IInv
<1>2. CASE UNCHANGED vars
  BY <1>2 DEF vars, IInv, Typed, TypeOK, Carries, OneWriter, Coherent, Issued,
              Private, Pending, AtHand, SideReachable, StoredTokenCurrent,
              Storing, Stored, SentHome
<1>3. ASSUME NEW p \in Procs, Start(p) PROVE Coherent'
  BY <1>1, <1>3, StartCoherent
<1>4. ASSUME NEW p \in Procs, Advance(p) PROVE Coherent'
  BY <1>1, <1>4, AuthorizeCoherent, WaitCoherent, LockCoherent, LoadCoherent,
     RefreshCoherent, AnswerCoherent, ReplyCoherent, SaveMainCoherent,
     SaveSideCoherent, EndLoadCoherent, RevokeCoherent, DeleteSideCoherent,
     DeleteMainCoherent
     DEF Advance
<1>5. ASSUME NEW p \in Procs, Crash(p) PROVE Coherent'
  BY <1>1, <1>5, CrashCoherent
<1> QED
  BY <1>1, <1>2, <1>3, <1>4, <1>5 DEF Next, IInv

LEMMA IInvInit == Init => IInv
  BY TypedInit, ExclusionInit, CoherentInit DEF IInv

LEMMA IInvHolds == Spec => []IInv
  BY IInvInit, IInvStep, PTL DEF Spec

(* No crash, refused keyring call or interleaving leaves a token in a side  *)
(* entry that no session entry leads to.                                    *)
THEOREM NoOrphanedToken == Spec => []SideReachable
<1>1. IInv => SideReachable
  BY DEF IInv, Coherent
<1> QED
  BY <1>1, IInvHolds, PTL

(* Whatever the interleaving, the stored refresh token is the one the issuer *)
(* honours, or the issuer ended the session, or its replacement is about to  *)
(* be stored by the holder of the lock, or a fault destroyed it.             *)
THEOREM RotationSafe == Spec => []StoredTokenCurrent
<1>1. IInv => StoredTokenCurrent
  BY DEF IInv, Coherent
<1> QED
  BY <1>1, IInvHolds, PTL

(* A revocation reported as confirmed, sent for a record that still names   *)
(* the issuer and the client the session was authorized by, ended it.       *)
THEOREM RevocationReachesIssuer == Spec => []ConfirmedMeansDead
<1>1. IInv => ConfirmedMeansDead
  BY DEF IInv, Coherent, AtHand, ConfirmedMeansDead
<1> QED
  BY <1>1, IInvHolds, PTL

-----------------------------------------------------------------------------
(* Steps that write the session entry. *)

LEMMA SavedEntry ==
  ASSUME IInv, NEW p \in Procs, SaveMain(p), main' # main
  PROVE  main' \in Entries /\ main'.login = job[p].mem.login
<1>1. job[p].mem \in Entries
  BY DEF SaveMain, IInv, Typed, Carries, Using
<1>2. main' = [job[p].mem EXCEPT !.inline = FALSE]
  BY DEF SaveMain
<1> QED
  BY <1>1, <1>2 DEF Entries

\* Only a Save and the end of a Delete change the session entry.
LEMMA MainChanges ==
  ASSUME NEW p \in Procs, Start(p) \/ Advance(p) \/ Crash(p), main' # main
  PROVE  SaveMain(p) \/ DeleteMain(p)
  BY DEF Start, Advance, keyring, StartMint, StartLogin, StartLogout, EnsureSession,
         Authorize, Lock, LockBusy, Derive, LoadSession, Refresh, Answer, Reply,
         SaveSide, EndLoad, Revoke, DeleteSide, Crash

(* A session enters the store with a login alone: a mint's write continues  *)
(* the session that is stored.                                              *)
THEOREM MintsNeverInstall == Spec => OnlyLoginsInstall
<1>1. ASSUME IInv, NEW p \in Procs, Start(p) \/ Advance(p) \/ Crash(p)
      PROVE  InstallStep
  <2> SUFFICES ASSUME Stored(main'), main' # main
               PROVE  \/ Stored(main) /\ main'.login = main.login
                      \/ \E q \in Procs : holder = q /\ job[q].saving = "login"
    BY DEF InstallStep
  <2>1. SaveMain(p)
    BY <1>1, MainChanges, ValuesAssumption DEF DeleteMain, Stored
  <2>2. /\ pc[p] = "saveMain" /\ holder = p
        /\ main'.login = job[p].mem.login
    BY <1>1, <2>1, SavedEntry DEF SaveMain, IInv, OneWriter, Locked
  <2>3. AtHand(p)
    BY <1>1 DEF IInv, Coherent
  <2> QED
    BY <2>2, <2>3 DEF AtHand
<1>2. IInv /\ [Next]_vars => [InstallStep]_vars
  BY <1>1 DEF Next
<1> QED
  BY <1>2, IInvHolds, PTL DEF Spec, OnlyLoginsInstall

(* The session a logout takes out of the store is the one it read, and so   *)
(* the one it asked the issuer to revoke.                                   *)
THEOREM LogoutDeletesItsOwn == Spec => DeletesWhatItRead
<1>1. ASSUME IInv, NEW p \in Procs, Start(p) \/ Advance(p) \/ Crash(p)
      PROVE  RemovalStep
  <2> SUFFICES ASSUME Stored(main), main' = None
               PROVE  \E q \in Procs : holder = q /\ job[q].mem = main
    BY DEF RemovalStep
  <2>1. main # None
    BY ValuesAssumption DEF Stored
  <2>2. CASE SaveMain(p)
    BY <1>1, <2>1, <2>2, SavedEntry, ValuesAssumption
  <2>3. CASE DeleteMain(p)
    <3>1. pc[p] = "delMain" /\ holder = p
      BY <1>1, <2>3 DEF DeleteMain, IInv, OneWriter, Locked
    <3>2. job[p].mem = main
      BY <1>1, <3>1 DEF IInv, Coherent, AtHand
    <3> QED
      BY <3>1, <3>2
  <2> QED
    BY <1>1, <2>1, <2>2, <2>3, MainChanges
<1>2. IInv /\ [Next]_vars => [RemovalStep]_vars
  BY <1>1 DEF Next
<1> QED
  BY <1>2, IInvHolds, PTL DEF Spec, DeletesWhatItRead

-----------------------------------------------------------------------------
(***************************************************************************)
(* The side entries.  The tokens a Save is about to write are its own       *)
(* login's; those a rotation read are the stored login's, or it read them   *)
(* from a side entry that an earlier login failed to replace.               *)
(***************************************************************************)
OfItsLogin(p, x) == job[p].tokens[x] \in {None, job[p].mem.login}

Writing(p, kind) ==
  pc[p] \in {"saveWait", "saveMain", "saveSides"} /\ job[p].saving = kind

Matching(p) ==
  /\ Writing(p, "login") => \A x \in Sides : OfItsLogin(p, x)
  /\ pc[p] \in {"refresh", "answer"} \/ Writing(p, "rotation") =>
       \A x \in Sides : OfItsLogin(p, x) \/ x \in torn
  /\ pc[p] = "saveSides" =>
       job[p].saving \in {"login", "rotation"} /\ job[p].mem.login = main.login

Beside == SidesOfOneLogin /\ \A p \in Procs : Matching(p)

-----------------------------------------------------------------------------
(* What a session entry records of the authorization it came from. *)
Recorded(s) ==
  \/ s.bind = grantedTo[s.login]
  \/ ~s.bound /\ s.bind = Legacy(grantedTo[s.login])

Faithful ==
  /\ Stored(main) => Recorded(main)
  /\ \A p \in Procs :
       /\ pc[p] \in Using => Recorded(job[p].mem)
       /\ pc[p] = "refresh" => Presentable(job[p].mem, job[p].bind)

LEMMA FaithfulInit == Init => Faithful
<1> SUFFICES ASSUME Init PROVE Faithful
  OBVIOUS
<1>1. \A p \in Procs : pc[p] = "idle"
  BY DEF Init
<1>2. Stored(main) => Recorded(main)
  <2>1. CASE main \in {None, Unreadable}
    BY <2>1, ValuesAssumption DEF Stored
  <2>2. ASSUME NEW l \in Logins, NEW b \in Bindings,
               main = [login |-> l, gen |-> 1, bind |-> Legacy(b),
                       bound |-> FALSE, inline |-> TRUE],
               grantedTo = [k \in Logins |-> IF k = l THEN b ELSE Unbound]
        PROVE  Recorded(main)
    <3>1. main.login = l /\ main.bind = Legacy(b) /\ ~main.bound /\ grantedTo[l] = b
      BY <2>2
    <3> QED
      BY <3>1 DEF Recorded
  <2> QED
    BY <2>1, <2>2 DEF Init
<1> QED
  BY <1>1, <1>2 DEF Faithful, Using

\* A step moves one invocation and leaves the others where they are.
LEMMA OneMoves ==
  ASSUME Typed, NEW p \in Procs, Start(p) \/ Advance(p) \/ Crash(p)
  PROVE  \E label, r : pc' = [pc EXCEPT ![p] = label] /\ job' = [job EXCEPT ![p] = r]
<1> DEFINE Moves == \E label, r : /\ pc' = [pc EXCEPT ![p] = label]
                                  /\ job' = [job EXCEPT ![p] = r]
<1>1. Finish(p) => Moves
  BY DEF Finish
<1>2. Reauthorize(p) => Moves
  BY <1>1 DEF Reauthorize
<1>3. Saved(p) => Moves
  BY <1>1 DEF Saved, Goto
<1>4. ASSUME NEW label, pc' = [pc EXCEPT ![p] = label], UNCHANGED job PROVE Moves
  <2>1. job' = [job EXCEPT ![p] = job[p]]
    BY <1>4 DEF Typed, TypeOK
  <2> QED
    BY <1>4, <2>1
<1>5. ASSUME NEW r, UNCHANGED pc, job' = [job EXCEPT ![p] = r] PROVE Moves
  <2>1. pc' = [pc EXCEPT ![p] = pc[p]]
    BY <1>5 DEF Typed, TypeOK
  <2> QED
    BY <1>5, <2>1
<1>6. ASSUME NEW label, NEW r, Goto(p, label), job' = [job EXCEPT ![p] = r] PROVE Moves
  BY <1>6 DEF Goto
<1>7. ASSUME NEW label, Goto(p, label), UNCHANGED job PROVE Moves
  BY <1>4, <1>7 DEF Goto
<1> HIDE DEF Moves
<1>8. Start(p) => Moves
  BY <1>6 DEF Start, StartMint, StartLogin, StartLogout
<1>9. EnsureSession(p) \/ Derive(p) => Moves
  BY <1>1, <1>7 DEF EnsureSession, Derive
<1>10. Authorize(p) \/ LoadSession(p) \/ EndLoad(p) => Moves
  BY <1>1, <1>6 DEF Authorize, LoadSession, EndLoad
<1>11. Lock(p) => Moves
  BY <1>4 DEF Lock
<1>12. LockBusy(p) \/ DeleteMain(p) \/ Crash(p) => Moves
  BY <1>1 DEF LockBusy, DeleteMain, Crash
<1>13. Refresh(p) \/ Reply(p) => Moves
  BY <1>1, <1>2, <1>6 DEF Refresh, Reply
<1>14. Answer(p) \/ SaveMain(p) \/ Revoke(p) => Moves
  BY <1>1, <1>6, <1>7 DEF Answer, SaveMain, Revoke
<1>15. SaveSide(p) => Moves
  BY <1>1, <1>3, <1>5 DEF SaveSide
<1>16. DeleteSide(p) => Moves
  BY <1>1, <1>5, <1>6 DEF DeleteSide
<1> QED
  BY <1>8, <1>9, <1>10, <1>11, <1>12, <1>13, <1>14, <1>15, <1>16 DEF Advance, Moves

LEMMA OthersStay ==
  ASSUME Typed, NEW p \in Procs, Start(p) \/ Advance(p) \/ Crash(p)
  PROVE  \A q \in Procs \ {p} : pc'[q] = pc[q] /\ job'[q] = job[q]
  BY OneMoves, Local

\* What an invocation that returns, or leaves to authorize again, keeps.
LEMMA FinishEmpty ==
  ASSUME Typed, NEW p \in Procs, Finish(p)
  PROVE  pc'[p] = "idle" /\ job'[p] = NoJob
  BY DEF Finish, Typed, TypeOK

LEMMA ReauthorizeEmpty ==
  ASSUME Typed, NEW p \in Procs, Reauthorize(p)
  PROVE  pc'[p] \in {"idle", "authorize"}
  BY FinishEmpty DEF Reauthorize, Typed, TypeOK

\* The places from which no session is used any more.
LEMMA UsesNothing ==
  ASSUME Typed, NEW p \in Procs,
         \/ Start(p) \/ EnsureSession(p) \/ LockBusy(p) \/ Derive(p) \/ Reply(p)
         \/ Revoke(p) \/ DeleteSide(p) \/ DeleteMain(p) \/ Crash(p)
         \/ Finish(p) \/ Reauthorize(p)
  PROVE  pc'[p] \notin Using
<1>1. Finish(p) \/ Reauthorize(p) => pc'[p] \notin Using
  BY FinishEmpty, ReauthorizeEmpty DEF Using
<1>2. ASSUME NEW label, Goto(p, label), label \notin Using PROVE pc'[p] \notin Using
  BY <1>2 DEF Goto, Typed, TypeOK
<1>3. /\ ~("ensure" \in Using) /\ ~("lockWait" \in Using) /\ ~("authorize" \in Using)
      /\ ~("endWait" \in Using) /\ ~("load" \in Using) /\ ~("delSides" \in Using)
      /\ ~("delMain" \in Using)
  BY DEF Using
<1>4. Start(p) => pc'[p] \notin Using
  BY <1>2, <1>3 DEF Start, StartMint, StartLogin, StartLogout
<1>5. EnsureSession(p) \/ Derive(p) \/ Revoke(p) => pc'[p] \notin Using
  BY <1>1, <1>2, <1>3 DEF EnsureSession, Derive, Revoke
<1>6. DeleteSide(p) => pc'[p] \notin Using
  BY <1>1, <1>2, <1>3 DEF DeleteSide
<1> QED
  BY <1>1, <1>4, <1>5, <1>6 DEF LockBusy, Reply, DeleteMain, Crash

LEMMA FaithfulStep == IInv /\ Faithful /\ [Next]_vars => Faithful'
<1> SUFFICES ASSUME IInv, Faithful, [Next]_vars PROVE Faithful'
  OBVIOUS
<1> USE DEF keyring, issuerVars
<1>1. CASE UNCHANGED vars
  BY <1>1 DEF vars, Faithful, Stored, Recorded, Presentable, Drifted
<1>2. ASSUME NEW p \in Procs, Start(p) \/ Advance(p) \/ Crash(p) PROVE Faithful'
  <2>1. \A q \in Procs \ {p} : pc'[q] = pc[q] /\ job'[q] = job[q]
    BY <1>2, OthersStay DEF IInv
  <2>2. ASSUME Stored(main') => Recorded(main)',
               pc'[p] \in Using => Recorded(job[p].mem)',
               pc'[p] = "refresh" => Presentable(job[p].mem, job[p].bind)',
               \A q \in Procs \ {p} :
                 pc[q] \in Using /\ Recorded(job[q].mem) => Recorded(job[q].mem)'
        PROVE  Faithful'
    <3>1. ASSUME NEW q \in Procs
          PROVE  /\ pc'[q] \in Using => Recorded(job[q].mem)'
                 /\ pc'[q] = "refresh" => Presentable(job[q].mem, job[q].bind)'
      <4>1. CASE q = p
        BY <2>2, <4>1
      <4>2. CASE q # p
        BY <2>1, <2>2, <4>2 DEF Faithful, Presentable, Drifted
      <4> QED
        BY <4>1, <4>2
    <3> QED
      BY <2>2, <3>1 DEF Faithful, Stored
  <2> DEFINE Kept == \A q \in Procs \ {p} :
               pc[q] \in Using /\ Recorded(job[q].mem) => Recorded(job[q].mem)'
  <2>14. UNCHANGED grantedTo => Kept
    BY <2>1 DEF Recorded
  <2>3. ASSUME UNCHANGED grantedTo, main' \in {main, None}, pc'[p] \notin Using
        PROVE  Faithful'
    <3>1. Stored(main') => Recorded(main)'
      BY <2>3, ValuesAssumption DEF Faithful, Stored, Recorded
    <3> QED
      BY <2>2, <2>3, <2>14, <3>1 DEF Using
  <2>4. ASSUME UNCHANGED <<grantedTo, main>>, pc'[p] \in Using \ {"refresh"},
               Recorded(job'[p].mem)
        PROVE  Faithful'
    <3>1. Stored(main') => Recorded(main)'
      BY <2>4 DEF Faithful, Stored, Recorded
    <3>2. Recorded(job[p].mem)' /\ Kept
      BY <2>4, <2>14 DEF Recorded
    <3> QED
      BY <2>2, <2>4, <3>1, <3>2
  <2>5. CASE \/ Start(p) \/ EnsureSession(p) \/ LockBusy(p) \/ Derive(p) \/ Reply(p)
             \/ Revoke(p) \/ DeleteSide(p) \/ DeleteMain(p) \/ Crash(p)
    <3>1. pc'[p] \notin Using
      BY <2>5, UsesNothing DEF IInv
    <3>2. UNCHANGED grantedTo /\ main' \in {main, None}
      BY <2>5 DEF Start, StartMint, StartLogin, StartLogout, EnsureSession, LockBusy,
                  Derive, Reply, Revoke, DeleteSide, DeleteMain, Crash
    <3> QED
      BY <2>3, <3>1, <3>2
  <2>6. CASE Authorize(p)
    <3>1. UNCHANGED main
      BY <2>6 DEF Authorize
    <3>2. CASE Finish(p) /\ UNCHANGED issuerVars
      BY <2>3, <3>1, <3>2, UsesNothing DEF IInv
    <3>3. ASSUME NEW l \in Logins, NEW id \in BOOLEAN,
                 grantedTo[l] = Unbound,
                 grantedTo' = [grantedTo EXCEPT ![l] = job[p].bind],
                 job' = [job EXCEPT ![p] =
                   [@ EXCEPT !.saving = "login", !.mem = Obtained(l, job[p].bind),
                      !.tokens = [x \in Sides |-> IF x = "id" /\ ~id THEN None ELSE l]]],
                 Goto(p, "saveWait")
          PROVE  Faithful'
      <4>1. job'[p].mem = Obtained(l, job[p].bind) /\ pc'[p] = "saveWait"
        BY <3>3 DEF Goto, IInv, Typed, TypeOK, Jobs
      <4>2. grantedTo'[l] = job[p].bind /\ \A k \in Logins \ {l} : grantedTo'[k] = grantedTo[k]
        BY <3>3 DEF IInv, Typed, TypeOK
      <4>3. Recorded(job[p].mem)'
        BY <4>1, <4>2 DEF Recorded, Obtained
      <4>4. ASSUME NEW s \in Entries, grantedTo[s.login] # Unbound, Recorded(s)
            PROVE  \/ s.bind = grantedTo'[s.login]
                   \/ ~s.bound /\ s.bind = Legacy(grantedTo'[s.login])
        BY <3>3, <4>2, <4>4 DEF Recorded, Entries
      <4>5. Stored(main') => Recorded(main)'
        BY <3>1, <4>4 DEF Stored, Recorded, Faithful, IInv, Coherent, Issued
      <4>6. ASSUME NEW q \in Procs \ {p}, pc[q] \in Using PROVE Recorded(job[q].mem)'
        <5>1. /\ job[q].mem \in Entries /\ grantedTo[job[q].mem.login] # Unbound
              /\ Recorded(job[q].mem) /\ job'[q] = job[q]
          BY <2>1, <4>6 DEF Faithful, IInv, Coherent, Issued, Typed, Carries
        <5> QED
          BY <4>4, <5>1 DEF Recorded
      <4> QED
        BY <2>2, <4>1, <4>3, <4>5, <4>6
    <3> QED
      BY <2>6, <3>2, <3>3 DEF Authorize
  <2>7. CASE Lock(p)
    <3>1. UNCHANGED <<grantedTo, main>> /\ job' = job /\ pc'[p] = Section(pc[p])
      BY <2>7 DEF Lock, IInv, Typed, TypeOK
    <3>2. pc[p] \in Waiting /\ pc'[p] \in {"saveMain", "derive", "endLoad"}
      BY <2>7, <3>1 DEF Lock, Section
    <3>3. CASE pc'[p] \notin Using
      BY <2>3, <3>1, <3>3
    <3>4. CASE pc'[p] \in Using
      <4>1. pc[p] \in Using
        BY <3>1, <3>2, <3>4 DEF Section, Waiting, Using
      <4> QED
        BY <2>4, <3>1, <3>2, <3>4, <4>1 DEF Faithful
    <3> QED
      BY <3>3, <3>4
  <2>8. CASE LoadSession(p)
    <3>1. UNCHANGED <<grantedTo, main>>
      BY <2>8 DEF LoadSession
    <3>2. CASE Finish(p)
      BY <2>3, <3>1, <3>2, UsesNothing DEF IInv
    <3>3. CASE ~Finish(p)
      <4>1. /\ Stored(main) /\ Presentable(main, job[p].bind) /\ Goto(p, "refresh")
            /\ \E t : job' = [job EXCEPT ![p] = [@ EXCEPT !.mem = main, !.tokens = t]]
        BY <2>8, <3>3 DEF LoadSession
      <4>2. job'[p].mem = main /\ job'[p].bind = job[p].bind
        BY <4>1 DEF IInv, Typed, TypeOK, Jobs
      <4>3. Recorded(main) /\ Recorded(main)' /\ Stored(main')
        BY <3>1, <4>1 DEF Faithful, Recorded, Stored
      <4>4. Recorded(job[p].mem)'
        BY <3>1, <4>2, <4>3 DEF Recorded
      <4>5. Presentable(job[p].mem, job[p].bind)'
        BY <4>1, <4>2 DEF Presentable, Drifted
      <4> QED
        BY <2>2, <2>14, <3>1, <4>3, <4>4, <4>5
    <3> QED
      BY <3>2, <3>3
  <2>9. CASE Refresh(p)
    <3>1. UNCHANGED <<grantedTo, main>> /\ pc[p] = "refresh"
      BY <2>9 DEF Refresh
    <3>2. CASE Finish(p) \/ Reauthorize(p)
      BY <2>3, <3>1, <3>2, UsesNothing DEF IInv
    <3>3. CASE ~(Finish(p) \/ Reauthorize(p))
      <4>1. /\ Goto(p, "answer")
            /\ \E a, g : job' = [job EXCEPT ![p] = [@ EXCEPT !.answer = a, !.gen = g]]
        BY <2>9, <3>3 DEF Refresh
      <4>2. job'[p].mem = job[p].mem /\ pc'[p] = "answer"
        BY <4>1 DEF Goto, IInv, Typed, TypeOK, Jobs
      <4> QED
        BY <2>4, <3>1, <4>2 DEF Faithful, Using
    <3> QED
      BY <3>2, <3>3
  <2>10. CASE Answer(p)
    <3>1. UNCHANGED <<grantedTo, main>> /\ pc[p] = "answer"
      BY <2>10 DEF Answer
    <3>2. CASE Finish(p)
      BY <2>3, <3>1, <3>2, UsesNothing DEF IInv
    <3>3. CASE Goto(p, "reply")
      <4>1. pc'[p] = "reply"
        BY <3>3 DEF Goto, IInv, Typed, TypeOK
      <4> QED
        BY <2>3, <3>1, <4>1 DEF Using
    <3>4. CASE /\ job' = [job EXCEPT ![p] = [@ EXCEPT !.saving = "rotation",
                                                       !.mem.gen = job[p].gen]]
               /\ Goto(p, "saveMain")
      <4>1. job[p].mem \in Entries /\ Recorded(job[p].mem)
        BY <3>1 DEF Faithful, Using, IInv, Typed, Carries
      <4>2. job'[p].mem = [job[p].mem EXCEPT !.gen = job[p].gen] /\ pc'[p] = "saveMain"
        BY <3>4 DEF Goto, IInv, Typed, TypeOK, Jobs
      <4>3. Recorded(job'[p].mem)
        BY <4>1, <4>2 DEF Recorded, Entries
      <4> QED
        BY <2>4, <3>1, <4>2, <4>3 DEF Using
    <3> QED
      BY <2>10, <3>2, <3>3, <3>4 DEF Answer
  <2>11. CASE SaveMain(p)
    <3>1. UNCHANGED grantedTo /\ pc[p] = "saveMain" /\ job[p].mem \in Entries
      BY <2>11 DEF SaveMain, IInv, Typed, Carries, Using
    <3>2. CASE Finish(p) /\ UNCHANGED main
      BY <2>3, <3>1, <3>2, UsesNothing DEF IInv
    <3>3. CASE /\ main' = [job[p].mem EXCEPT !.inline = FALSE]
               /\ job' = [job EXCEPT ![p] = [@ EXCEPT !.todo = Sides]]
               /\ Goto(p, "saveSides")
      <4>1. job'[p].mem = job[p].mem /\ pc'[p] = "saveSides"
        BY <3>3 DEF Goto, IInv, Typed, TypeOK, Jobs
      <4>2. Recorded(job[p].mem)
        BY <3>1 DEF Faithful, Using
      <4>3. Recorded(main)'
        BY <3>1, <3>3, <4>2 DEF Recorded, Entries
      <4>4. Recorded(job[p].mem)'
        BY <3>1, <4>1, <4>2 DEF Recorded
      <4> QED
        BY <2>2, <2>14, <3>1, <4>1, <4>4, <4>3
    <3> QED
      BY <2>11, <3>2, <3>3 DEF SaveMain
  <2>12. CASE SaveSide(p)
    <3>1. UNCHANGED <<grantedTo, main>> /\ pc[p] = "saveSides"
      BY <2>12 DEF SaveSide
    <3>2. CASE Finish(p)
      BY <2>3, <3>1, <3>2, UsesNothing DEF IInv
    <3>3. CASE Saved(p)
      <4>1. pc'[p] \in {"reply", "lockWait", "idle"}
        BY <3>3, FinishEmpty DEF Saved, Goto, IInv, Typed, TypeOK
      <4> QED
        BY <2>3, <3>1, <4>1 DEF Using
    <3>4. CASE /\ \E t : job' = [job EXCEPT ![p] = [@ EXCEPT !.todo = t]]
               /\ UNCHANGED pc
      <4>1. job'[p].mem = job[p].mem
        BY <3>4 DEF IInv, Typed, TypeOK, Jobs
      <4> QED
        BY <2>4, <3>1, <3>4, <4>1 DEF Faithful, Using
    <3> QED
      BY <2>12, <3>2, <3>3, <3>4 DEF SaveSide
  <2>13. CASE EndLoad(p)
    <3>1. UNCHANGED <<grantedTo, main>>
      BY <2>13 DEF EndLoad
    <3>2. CASE Finish(p)
      BY <2>3, <3>1, <3>2, UsesNothing DEF IInv
    <3>3. CASE Goto(p, "delSides")
      <4>1. pc'[p] = "delSides"
        BY <3>3 DEF Goto, IInv, Typed, TypeOK
      <4> QED
        BY <2>3, <3>1, <4>1 DEF Using
    <3>4. CASE /\ Stored(main) /\ Goto(p, "revoke")
               /\ job' = [job EXCEPT ![p] = [@ EXCEPT !.mem = main]]
      <4>1. job'[p].mem = main /\ pc'[p] = "revoke"
        BY <3>4 DEF Goto, IInv, Typed, TypeOK, Jobs
      <4> QED
        BY <2>4, <3>1, <3>4, <4>1 DEF Faithful, Using
    <3> QED
      BY <2>13, <3>2, <3>3, <3>4 DEF EndLoad
  <2> QED
    BY <1>2, <2>5, <2>6, <2>7, <2>8, <2>9, <2>10, <2>11, <2>12, <2>13 DEF Advance
<1> QED
  BY <1>1, <1>2 DEF Next

(* A refresh token is sent nowhere but where its login was authorized, with *)
(* any number of records and invocations sharing the reference; the request *)
(* of a device login named no resource, and there it is sent only for a     *)
(* record that asks for the resource its own record asked for.              *)
THEOREM TokenStaysHome == Spec => []PresentedWhereEstablished
<1>1. IInv /\ Faithful => PresentedWhereEstablished
  <2> SUFFICES ASSUME IInv, Faithful, NEW p \in Procs, pc[p] = "refresh"
               PROVE  LET s == job[p].mem
                          g == Asked(s.login)
                          b == job[p].bind
                      IN /\ g.issuer = b.issuer
                         /\ IF s.bound
                            THEN /\ g.clientId = b.clientId
                                 /\ g.scopes \in {{}, b.scopes}
                                 /\ \/ g.resource = b.resource
                                    \/ /\ s.login \in unasked
                                       /\ grantedTo[s.login].resource = b.resource
                            ELSE b.resource = ""
    BY DEF PresentedWhereEstablished
  <2> DEFINE s == job[p].mem
             r == grantedTo[s.login]
             g == Asked(s.login)
             b == job[p].bind
  <2>1. s \in Entries /\ r # Unbound /\ Recorded(s) /\ Presentable(s, b)
    BY DEF Faithful, IInv, Coherent, Issued, Typed, Carries, Using
  <2>2. r \in Bindings
    BY <2>1 DEF IInv, Typed, TypeOK, Entries
  <2>3. r.clientId # "" /\ Legacy(r).issuer = r.issuer
    BY <2>2, BindingsAssumption DEF Legacy
  <2>4. r.issuer = b.issuer
    BY <2>1, <2>3 DEF Recorded, Presentable
  <2>5. s.bound => r.clientId = b.clientId /\ r.resource = b.resource /\ r.scopes \in {{}, b.scopes}
    BY <2>1, <2>3 DEF Recorded, Presentable, Drifted
  <2>6. ~s.bound => b.resource = ""
    BY <2>1 DEF Presentable
  <2>7. /\ g.issuer = r.issuer /\ g.clientId = r.clientId /\ g.scopes = r.scopes
        /\ s.login \in unasked \/ g.resource = r.resource
    BY <2>2, BindingsAssumption DEF Asked
  <2> QED
    BY <2>4, <2>5, <2>6, <2>7
<1>2. Faithful /\ IInv /\ [Next]_vars /\ IInv' => Faithful'
  BY FaithfulStep
<1> QED
  BY <1>1, <1>2, FaithfulInit, IInvHolds, PTL DEF Spec

LEMMA BesideInit == Init => Beside
<1> SUFFICES ASSUME Init PROVE Beside
  OBVIOUS
<1>1. \A p \in Procs : pc[p] = "idle"
  BY DEF Init
<1>2. \A x \in Sides : side[x] = None
  BY DEF Init, NoTokens
<1> QED
  BY <1>1, <1>2 DEF Beside, SidesOfOneLogin, Matching, Writing

LEMMA BesideStep == IInv /\ Beside /\ [Next]_vars => Beside'
<1> SUFFICES ASSUME IInv, Beside, [Next]_vars PROVE Beside'
  OBVIOUS
<1> USE DEF keyring, issuerVars
<1>1. CASE UNCHANGED vars
  BY <1>1 DEF vars, Beside, SidesOfOneLogin, Matching, Writing, OfItsLogin,
              Stored, Unwritten
<1>2. ASSUME NEW p \in Procs, Start(p) \/ Advance(p) \/ Crash(p) PROVE Beside'
  <2>1. \A q \in Procs \ {p} : pc'[q] = pc[q] /\ job'[q] = job[q]
    BY <1>2, OthersStay DEF IInv
  <2>2. ASSUME Matching(p)', SidesOfOneLogin', pc[p] \in Locked \/ UNCHANGED <<main, torn>>
        PROVE  Beside'
    <3>1. ASSUME NEW q \in Procs \ {p} PROVE Matching(q)'
      <4>1. Matching(q) /\ pc'[q] = pc[q] /\ job'[q] = job[q]
        BY <2>1 DEF Beside
      <4>2. CASE UNCHANGED <<main, torn>>
        BY <4>1, <4>2 DEF Matching, Writing, OfItsLogin
      <4>3. CASE pc[p] \in Locked
        <5>1. pc[q] \notin Locked
          BY <4>3, Alone DEF IInv
        <5>2. pc[q] = "saveWait" => job[q].saving = "login"
          BY DEF IInv, Coherent, Private, Pending
        <5> QED
          BY <4>1, <5>1, <5>2 DEF Matching, Writing, OfItsLogin, Locked
      <4> QED
        BY <2>2, <4>2, <4>3
    <3> QED
      BY <2>2, <3>1 DEF Beside
  <2>3. ASSUME UNCHANGED side, main' \in {main, None}, torn \subseteq torn',
               pc[p] = "saveSides" => Unwritten(p) \subseteq torn'
        PROVE  SidesOfOneLogin'
    <3>1. SUFFICES ASSUME NEW x \in Sides, Stored(main'), side'[x] # None
          PROVE  \/ side'[x] = main'.login
                 \/ x \in torn'
                 \/ \E q \in Procs : pc'[q] = "saveSides" /\ x \in Unwritten(q)'
      BY DEF SidesOfOneLogin
    <3>2. Stored(main) /\ side[x] # None /\ main' = main
      BY <2>3, <3>1, ValuesAssumption DEF Stored
    <3>3. \/ side[x] = main.login
          \/ x \in torn
          \/ \E q \in Procs : pc[q] = "saveSides" /\ x \in Unwritten(q)
      BY <3>2 DEF Beside, SidesOfOneLogin
    <3>4. ASSUME NEW q \in Procs, pc[q] = "saveSides", x \in Unwritten(q), q # p
          PROVE  pc'[q] = "saveSides" /\ x \in Unwritten(q)'
      BY <2>1, <3>4 DEF Unwritten
    <3> QED
      BY <2>3, <3>2, <3>3, <3>4
  <2>4. ASSUME pc'[p] \notin Using PROVE Matching(p)'
    BY <2>4 DEF Matching, Writing, Using
  <2>5. ASSUME UNCHANGED <<side, main>>, UNCHANGED torn, pc[p] # "saveSides"
        PROVE  SidesOfOneLogin'
    BY <2>3, <2>5
  <2>6. CASE \/ Start(p) \/ EnsureSession(p) \/ LockBusy(p) \/ Derive(p) \/ Reply(p)
             \/ Revoke(p)
    <3>1. UNCHANGED <<side, main, torn>> /\ pc[p] # "saveSides"
      BY <2>6 DEF Start, StartMint, StartLogin, StartLogout, EnsureSession, LockBusy,
                  Derive, Reply, Revoke, Waiting
    <3> QED
      BY <2>2, <2>4, <2>5, <2>6, <3>1, UsesNothing DEF IInv
  <2>7. CASE Crash(p)
    <3>1. /\ UNCHANGED <<side, main>> /\ torn \subseteq torn'
          /\ pc[p] = "saveSides" => Unwritten(p) \subseteq torn'
          /\ pc[p] = "saveSides" \/ UNCHANGED torn
      BY <2>7 DEF Crash
    <3>2. pc[p] \in Locked \/ UNCHANGED <<main, torn>>
      BY <3>1 DEF Locked
    <3> QED
      BY <2>2, <2>3, <2>4, <2>7, <3>1, <3>2, UsesNothing DEF IInv
  <2>8. CASE DeleteSide(p)
    <3>1. /\ UNCHANGED main /\ pc[p] = "delSides" /\ pc[p] \in Locked
          /\ \/ UNCHANGED <<side, torn>>
             \/ \E x \in Sides : side' = [side EXCEPT ![x] = None] /\ torn' = torn \ {x}
      BY <2>8 DEF DeleteSide, Locked, NextSide, Sides
    <3>2. CASE UNCHANGED <<side, torn>>
      BY <2>2, <2>4, <2>5, <2>8, <3>1, <3>2, UsesNothing DEF IInv
    <3>3. ASSUME NEW x \in Sides, side' = [side EXCEPT ![x] = None], torn' = torn \ {x}
          PROVE  SidesOfOneLogin'
      <4>1. side'[x] = None /\ \A y \in Sides \ {x} : side'[y] = side[y]
        BY <3>3 DEF IInv, Typed, TypeOK
      <4>2. \A q \in Procs : pc[q] = "saveSides" =>
              q # p /\ pc'[q] = pc[q] /\ Unwritten(q)' = Unwritten(q)
        BY <2>1, <3>1 DEF Unwritten
      <4>3. ASSUME NEW y \in Sides, Stored(main), side'[y] # None
            PROVE  \/ side'[y] = main.login
                   \/ y \in torn'
                   \/ \E q \in Procs : pc'[q] = "saveSides" /\ y \in Unwritten(q)'
        <5>1. y # x /\ side[y] # None
          BY <4>1, <4>3
        <5>2. \/ side[y] = main.login
              \/ y \in torn
              \/ \E q \in Procs : pc[q] = "saveSides" /\ y \in Unwritten(q)
          BY <4>3, <5>1 DEF Beside, SidesOfOneLogin
        <5> QED
          BY <3>3, <4>1, <4>2, <5>1, <5>2
      <4> QED
        BY <3>1, <4>3 DEF SidesOfOneLogin, Stored
    <3> QED
      BY <2>2, <2>4, <2>8, <3>1, <3>2, <3>3, UsesNothing DEF IInv
  <2>9. CASE DeleteMain(p)
    <3>1. UNCHANGED <<side, torn>> /\ main' \in {main, None} /\ pc[p] = "delMain"
      BY <2>9 DEF DeleteMain
    <3> QED
      BY <2>2, <2>3, <2>4, <2>9, <3>1, UsesNothing DEF IInv, Locked
  <2>10. CASE Authorize(p)
    <3>1. UNCHANGED <<side, main, torn>> /\ pc[p] = "authorize"
      BY <2>10 DEF Authorize
    <3>2. CASE Finish(p)
      BY <2>2, <2>4, <2>5, <3>1, <3>2, UsesNothing DEF IInv
    <3>3. ASSUME NEW l \in Logins, NEW id \in BOOLEAN,
                 job' = [job EXCEPT ![p] =
                   [@ EXCEPT !.saving = "login", !.mem = Obtained(l, job[p].bind),
                      !.tokens = [x \in Sides |-> IF x = "id" /\ ~id THEN None ELSE l]]],
                 Goto(p, "saveWait")
          PROVE  Matching(p)'
      <4> DEFINE m == Obtained(l, job[p].bind)
                 t == [x \in Sides |-> IF x = "id" /\ ~id THEN None ELSE l]
                 r == [job[p] EXCEPT !.saving = "login", !.mem = m, !.tokens = t]
      <4>1. m.login = l /\ \A x \in Sides : t[x] \in {None, l}
        BY DEF Obtained
      <4>2. job' = [job EXCEPT ![p] = r] /\ pc' = [pc EXCEPT ![p] = "saveWait"]
        BY <3>3 DEF Goto
      <4> HIDE DEF m, t
      <4>3. r.saving = "login" /\ r.mem = m /\ r.tokens = t
        BY DEF IInv, Typed, TypeOK, Jobs
      <4> HIDE DEF r
      <4>4. /\ pc'[p] = "saveWait" /\ job'[p] = r
            /\ \A q \in Procs \ {p} : pc'[q] = pc[q] /\ job'[q] = job[q]
        BY <4>2, Local DEF IInv
      <4> QED
        BY <4>1, <4>3, <4>4 DEF Matching, Writing, OfItsLogin
    <3> QED
      BY <2>2, <2>5, <2>10, <3>1, <3>2, <3>3 DEF Authorize
  <2>11. CASE Lock(p)
    <3>1. UNCHANGED <<side, main, torn>> /\ job' = job /\ pc'[p] = Section(pc[p])
      BY <2>11 DEF Lock, IInv, Typed, TypeOK
    <3>2. pc[p] \in Waiting /\ pc[p] # "saveSides" /\ pc'[p] \in {"saveMain", "derive", "endLoad"}
      BY <2>11, <3>1 DEF Lock, Section, Waiting
    <3>3. pc'[p] = "saveMain" => pc[p] = "saveWait"
      BY <3>1, <3>2 DEF Section, Waiting
    <3>4. Matching(p)'
      BY <3>1, <3>2, <3>3 DEF Beside, Matching, Writing, OfItsLogin
    <3> QED
      BY <2>2, <2>5, <3>1, <3>2, <3>4
  <2>12. CASE LoadSession(p)
    <3>1. UNCHANGED <<side, main, torn>> /\ pc[p] = "load" /\ pc[p] \in Locked
      BY <2>12 DEF LoadSession, Locked
    <3>2. CASE Finish(p)
      BY <2>2, <2>4, <2>5, <3>1, <3>2, UsesNothing DEF IInv
    <3>3. CASE ~Finish(p)
      <4>1. PICK unread \in SUBSET {x \in Sides : May("sideRead")} :
              /\ Stored(main) /\ Goto(p, "refresh")
              /\ job' = [job EXCEPT ![p] =
                   [@ EXCEPT !.mem = main,
                             !.tokens = [x \in Sides |->
                                IF x \in unread /\ ~(x = "access" /\ main.inline)
                                THEN None ELSE TokenOf(main, x)]]]
        BY <2>12, <3>3 DEF LoadSession
      <4> DEFINE t == [x \in Sides |->
                         IF x \in unread /\ ~(x = "access" /\ main.inline)
                         THEN None ELSE TokenOf(main, x)]
                 r == [job[p] EXCEPT !.mem = main, !.tokens = t]
      <4>2. ASSUME NEW x \in Sides PROVE t[x] \in {None, main.login} \/ x \in torn
        <5>1. \A q \in Procs : pc[q] # "saveSides"
          BY <3>1, Alone DEF IInv, Locked
        <5>2. side[x] \in {None, main.login} \/ x \in torn
          BY <4>1, <5>1 DEF Beside, SidesOfOneLogin
        <5> QED
          BY <5>2 DEF TokenOf
      <4>3. job' = [job EXCEPT ![p] = r] /\ pc' = [pc EXCEPT ![p] = "refresh"]
        BY <4>1 DEF Goto
      <4> HIDE DEF t
      <4>4. r.mem = main /\ r.tokens = t
        BY DEF IInv, Typed, TypeOK, Jobs
      <4> HIDE DEF r
      <4>5. /\ pc'[p] = "refresh" /\ job'[p] = r
            /\ \A q \in Procs \ {p} : pc'[q] = pc[q] /\ job'[q] = job[q]
        BY <4>3, Local DEF IInv
      <4>6. Matching(p)'
        BY <3>1, <4>2, <4>4, <4>5 DEF Matching, Writing, OfItsLogin
      <4> QED
        BY <2>2, <2>5, <3>1, <4>6
    <3> QED
      BY <3>2, <3>3
  <2>13. CASE Refresh(p)
    <3>1. UNCHANGED <<side, main, torn>> /\ pc[p] = "refresh"
      BY <2>13 DEF Refresh
    <3>2. CASE Finish(p) \/ Reauthorize(p)
      BY <2>2, <2>4, <2>5, <3>1, <3>2, UsesNothing DEF IInv
    <3>3. CASE ~(Finish(p) \/ Reauthorize(p))
      <4>1. /\ Goto(p, "answer")
            /\ \E a, g : job' = [job EXCEPT ![p] = [@ EXCEPT !.answer = a, !.gen = g]]
        BY <2>13, <3>3 DEF Refresh
      <4>2. /\ job'[p].mem = job[p].mem /\ job'[p].tokens = job[p].tokens
            /\ pc'[p] = "answer"
        BY <4>1 DEF Goto, IInv, Typed, TypeOK, Jobs
      <4>3. Matching(p)'
        BY <3>1, <4>2 DEF Beside, Matching, Writing, OfItsLogin
      <4> QED
        BY <2>2, <2>5, <3>1, <4>3
    <3> QED
      BY <3>2, <3>3
  <2>14. CASE Answer(p)
    <3>1. UNCHANGED <<side, main, torn>> /\ pc[p] = "answer"
      BY <2>14 DEF Answer
    <3>2. CASE Finish(p)
      BY <2>2, <2>4, <2>5, <3>1, <3>2, UsesNothing DEF IInv
    <3>3. CASE Goto(p, "reply")
      <4>1. pc'[p] = "reply"
        BY <3>3 DEF Goto, IInv, Typed, TypeOK
      <4> QED
        BY <2>2, <2>4, <2>5, <3>1, <4>1 DEF Using
    <3>4. CASE /\ job' = [job EXCEPT ![p] = [@ EXCEPT !.saving = "rotation",
                                                       !.mem.gen = job[p].gen]]
               /\ Goto(p, "saveMain")
      <4>1. job[p].mem \in Entries
        BY <3>1 DEF Using, IInv, Typed, Carries
      <4>2. /\ job'[p].mem = [job[p].mem EXCEPT !.gen = job[p].gen]
            /\ job'[p].tokens = job[p].tokens
            /\ job'[p].saving = "rotation" /\ pc'[p] = "saveMain"
        BY <3>4 DEF Goto, IInv, Typed, TypeOK, Jobs
      <4>3. job'[p].mem.login = job[p].mem.login
        BY <4>1, <4>2 DEF Entries
      <4>4. Matching(p)'
        BY <3>1, <4>2, <4>3 DEF Beside, Matching, Writing, OfItsLogin
      <4> QED
        BY <2>2, <2>5, <3>1, <4>4
    <3> QED
      BY <2>14, <3>2, <3>3, <3>4 DEF Answer
  <2>15. CASE SaveMain(p)
    <3>1. /\ UNCHANGED <<side, torn>> /\ pc[p] = "saveMain" /\ pc[p] \in Locked
          /\ job[p].mem \in Entries
      BY <2>15 DEF SaveMain, IInv, Typed, Carries, Using, Locked
    <3>2. CASE Finish(p) /\ UNCHANGED main
      BY <2>2, <2>4, <2>5, <3>1, <3>2, UsesNothing DEF IInv
    <3>3. CASE /\ main' = [job[p].mem EXCEPT !.inline = FALSE]
               /\ job' = [job EXCEPT ![p] = [@ EXCEPT !.todo = Sides]]
               /\ Goto(p, "saveSides")
      <4>1. /\ job'[p].mem = job[p].mem /\ job'[p].tokens = job[p].tokens
            /\ job'[p].saving = job[p].saving /\ job'[p].todo = Sides
            /\ pc'[p] = "saveSides"
        BY <3>3 DEF Goto, IInv, Typed, TypeOK, Jobs
      <4>2. main'.login = job[p].mem.login
        BY <3>1, <3>3 DEF Entries
      <4>3. /\ job[p].saving \in {"login", "rotation"}
            /\ job[p].saving = "rotation" => Stored(main) /\ main.login = job[p].mem.login
        BY <3>1 DEF IInv, Coherent, AtHand
      <4>4. Matching(p)'
        BY <3>1, <4>1, <4>2, <4>3 DEF Beside, Matching, Writing, OfItsLogin
      <4>5. CASE job[p].saving = "login"
        <5>1. pc'[p] = "saveSides" /\ Unwritten(p)' = Sides
          BY <4>1, <4>5 DEF Unwritten
        <5>2. SidesOfOneLogin'
          BY <5>1 DEF SidesOfOneLogin
        <5> QED
          BY <2>2, <3>1, <4>4, <5>2
      <4>6. CASE job[p].saving = "rotation"
        <5>1. \A q \in Procs : pc[q] # "saveSides"
          BY <3>1, Alone DEF IInv, Locked
        <5>2. \A x \in Sides : side[x] # None => side[x] = main.login \/ x \in torn
          BY <4>3, <4>6, <5>1 DEF Beside, SidesOfOneLogin
        <5>3. SidesOfOneLogin'
          BY <3>1, <4>2, <4>3, <4>6, <5>2 DEF SidesOfOneLogin
        <5> QED
          BY <2>2, <3>1, <4>4, <5>3
      <4> QED
        BY <4>3, <4>5, <4>6
    <3> QED
      BY <2>15, <3>2, <3>3 DEF SaveMain
  <2>16. CASE SaveSide(p)
    <3>1. /\ UNCHANGED main /\ pc[p] = "saveSides" /\ pc[p] \in Locked
          /\ \A q \in Procs \ {p} : pc[q] # "saveSides"
      BY <2>16, Alone DEF SaveSide, Locked, IInv
    <3>2. /\ job[p].saving \in {"login", "rotation"} /\ job[p].mem.login = main.login
          /\ job[p].todo \subseteq Sides
          /\ \A x \in Sides : \/ OfItsLogin(p, x)
                              \/ x \in torn /\ job[p].saving = "rotation"
      BY <3>1 DEF Beside, Matching, Writing, IInv, Typed, TypeOK, Jobs
    <3>3. CASE Finish(p) /\ torn' = torn \cup Unwritten(p) /\ UNCHANGED side
      <4>1. torn \subseteq torn' /\ Unwritten(p) \subseteq torn'
        BY <3>3
      <4> QED
        BY <2>2, <2>3, <2>4, <3>1, <3>3, <4>1, UsesNothing DEF IInv
    <3>4. ASSUME NEW x \in job[p].todo, side' = [side EXCEPT ![x] = Written(p, x)],
                 torn' = torn \ (Unwritten(p) \cap {x}),
                 \/ job[p].todo = {x}
                 \/ pc'[p] = "saveSides" /\ Unwritten(p)' = Unwritten(p) \ {x}
          PROVE  SidesOfOneLogin'
      <4>1. x \in Sides
        BY <3>2
      <4>2. side'[x] = job[p].tokens[x] /\ \A y \in Sides \ {x} : side'[y] = side[y]
        BY <3>4, <4>1 DEF Written, IInv, Typed, TypeOK
      <4>3. side'[x] \in {None, main.login} \/ x \in torn'
        <5>1. CASE OfItsLogin(p, x)
          BY <3>2, <4>2, <5>1 DEF OfItsLogin
        <5>2. CASE x \in torn /\ job[p].saving = "rotation"
          BY <3>4, <5>2 DEF Unwritten
        <5> QED
          BY <3>2, <4>1, <5>1, <5>2
      <4>4. ASSUME NEW y \in Sides \ {x}, Stored(main), side[y] # None
            PROVE  \/ side'[y] = main.login
                   \/ y \in torn'
                   \/ pc'[p] = "saveSides" /\ y \in Unwritten(p)'
        <5>1. \/ side[y] = main.login
              \/ y \in torn
              \/ y \in Unwritten(p)
          BY <3>1, <4>4 DEF Beside, SidesOfOneLogin
        <5>2. y \in Unwritten(p) => job[p].todo # {x}
          BY DEF Unwritten
        <5> QED
          BY <3>4, <4>2, <5>1, <5>2
      <4> QED
        BY <3>1, <4>1, <4>2, <4>3, <4>4 DEF SidesOfOneLogin, Stored
    <3>5. ASSUME NEW x \in job[p].todo, side' = [side EXCEPT ![x] = Written(p, x)],
                 torn' = torn \ (Unwritten(p) \cap {x}),
                 job[p].todo = {x}, Saved(p)
          PROVE  Beside'
      <4>1. pc'[p] \in {"reply", "lockWait", "idle"}
        BY <3>5, FinishEmpty DEF Saved, Goto, IInv, Typed, TypeOK
      <4>2. SidesOfOneLogin'
        BY <3>4, <3>5
      <4>3. Matching(p)'
        BY <2>4, <4>1 DEF Using
      <4> QED
        BY <2>2, <3>1, <4>2, <4>3
    <3>6. ASSUME NEW x \in job[p].todo, side' = [side EXCEPT ![x] = Written(p, x)],
                 torn' = torn \ (Unwritten(p) \cap {x}),
                 job' = [job EXCEPT ![p] = [@ EXCEPT !.todo = job[p].todo \ {x}]],
                 UNCHANGED pc
          PROVE  Beside'
      <4>1. /\ job'[p].mem = job[p].mem /\ job'[p].tokens = job[p].tokens
            /\ job'[p].saving = job[p].saving /\ job'[p].todo = job[p].todo \ {x}
        BY <3>6 DEF IInv, Typed, TypeOK, Jobs
      <4>2. Unwritten(p)' = Unwritten(p) \ {x}
        BY <4>1 DEF Unwritten
      <4>3. job[p].saving = "rotation" => torn' = torn
        BY <3>6 DEF Unwritten
      <4>4. Matching(p)'
        BY <3>1, <3>2, <3>6, <4>1, <4>3 DEF Beside, Matching, Writing, OfItsLogin
      <4> QED
        BY <2>2, <3>1, <3>4, <3>6, <4>2, <4>4
    <3> QED
      BY <2>16, <3>3, <3>5, <3>6 DEF SaveSide
  <2>17. CASE EndLoad(p)
    <3>1. UNCHANGED <<side, main, torn>> /\ pc[p] = "endLoad"
      BY <2>17 DEF EndLoad
    <3>2. CASE Finish(p)
      BY <2>2, <2>4, <2>5, <3>1, <3>2, UsesNothing DEF IInv
    <3>3. CASE Goto(p, "delSides") \/ Goto(p, "revoke")
      <4>1. pc'[p] \in {"delSides", "revoke"}
        BY <3>3 DEF Goto, IInv, Typed, TypeOK
      <4>2. Matching(p)'
        BY <4>1 DEF Matching, Writing
      <4> QED
        BY <2>2, <2>5, <3>1, <4>2
    <3> QED
      BY <2>17, <3>2, <3>3 DEF EndLoad
  <2> QED
    BY <1>2, <2>6, <2>7, <2>8, <2>9, <2>10, <2>11, <2>12, <2>13, <2>14, <2>15, <2>16,
       <2>17 DEF Advance
<1> QED
  BY <1>1, <1>2 DEF Next

(* No crash, refused call or interleaving of rotations, logins and logouts  *)
(* leaves one login's token beside another's session, but for entries a     *)
(* login's own Save stopped short of.                                       *)
THEOREM SidesKeepCompany == Spec => []SidesOfOneLogin
<1>1. Beside => SidesOfOneLogin
  BY DEF Beside
<1> QED
  BY <1>1, BesideInit, BesideStep, IInvHolds, PTL DEF Spec

=============================================================================
