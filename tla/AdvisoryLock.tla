---------------------------- MODULE AdvisoryLock ----------------------------
(* What the callers of lockfile.With rely on: a lock that one caller holds  *)
(* at a time, that is refused only while somebody holds it or the locking   *)
(* machinery fails, and that is free again once its holder returns or dies. *)
CONSTANTS Callers, NoHolder

VARIABLES lockHolder, asking

lockVars == <<lockHolder, asking>>

LockInit == lockHolder = NoHolder /\ asking = {}

Ask(c) ==
  /\ c \notin asking /\ lockHolder # c
  /\ asking' = asking \cup {c}
  /\ UNCHANGED lockHolder

Acquire(c) ==
  /\ c \in asking /\ lockHolder = NoHolder
  /\ asking' = asking \ {c}
  /\ lockHolder' = c

\* Refused for being busy, or for a failure of the machinery.
Refuse(c) ==
  /\ c \in asking
  /\ asking' = asking \ {c}
  /\ UNCHANGED lockHolder

\* Released, by a caller that may ask for its next turn at once.
Release(c) ==
  /\ lockHolder = c
  /\ lockHolder' = NoHolder
  /\ asking' \in {asking, asking \cup {c}}

LockNext == \E c \in Callers : Ask(c) \/ Acquire(c) \/ Refuse(c) \/ Release(c)

LockSpec == LockInit /\ [][LockNext]_lockVars
=============================================================================
