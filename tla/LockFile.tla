------------------------------- MODULE LockFile -------------------------------
(***************************************************************************)
(* The advisory file lock: With opens the lock file, tries a non-blocking  *)
(* exclusive lock on its own descriptor until it has it or the deadline    *)
(* passed, runs the work, and closes the descriptor.  The kernel keys the  *)
(* lock to the file behind the descriptor, not to the path, so files that  *)
(* come and go at the path are told apart here.                            *)
(***************************************************************************)
EXTENDS Naturals

CONSTANTS
  Calls,       \* calls of With on one path, in one process or in several
  Files,       \* the files that may ever be created at the path
  Nothing,        \* no file, no owner
  Deadline,    \* how long a call waits (lockDeadline, 45 s)
  MaxHold      \* how long the work may run (grantDeadline 30 s and a margin)

ASSUME NothingAssumption == Nothing \notin Calls \cup Files
ASSUME DeadlineAssumption == Deadline \in Nat /\ MaxHold \in Nat /\ MaxHold < Deadline

VARIABLES
  path,        \* the file at the path
  fd,          \* the file each call has open
  owner,       \* kernel: the call whose descriptor holds the lock of a file
  pc,          \* idle, waiting for the lock, or running the work
  waited,      \* time since the call began to wait, up to Deadline + 1
  held,        \* time since the call took the lock
  overtaken,   \* history: another call took the lock while this one waited
  busy         \* the call reported that the lock is held elsewhere

files == <<path, fd, owner>>
clocks == <<waited, held>>
lockFileVars == <<path, fd, owner, pc, waited, held, overtaken, busy>>

\* The call returns; closing its descriptor drops the lock with it.
Close(c, refused) ==
  /\ owner' = [f \in Files |-> IF owner[f] = c THEN Nothing ELSE owner[f]]
  /\ fd' = [fd EXCEPT ![c] = Nothing]
  /\ pc' = [pc EXCEPT ![c] = "idle"]
  /\ waited' = [waited EXCEPT ![c] = 0]
  /\ held' = [held EXCEPT ![c] = 0]
  /\ overtaken' = [overtaken EXCEPT ![c] = FALSE]
  /\ busy' = [busy EXCEPT ![c] = refused]

(* OpenFile with O_CREATE: the file at the path, or a new one. *)
Open(c) ==
  /\ pc[c] = "idle"
  /\ \E f \in Files :
       /\ path # Nothing => f = path
       /\ path = Nothing => \A d \in Calls : fd[d] # f   \* a new file
       /\ path' = f
       /\ fd' = [fd EXCEPT ![c] = f]
  /\ pc' = [pc EXCEPT ![c] = "waiting"]
  /\ busy' = [busy EXCEPT ![c] = FALSE]
  /\ UNCHANGED <<owner, clocks, overtaken>>

(* The directory or the file cannot be created. *)
OpenFails(c) ==
  /\ pc[c] = "idle"
  /\ busy' = [busy EXCEPT ![c] = FALSE]
  /\ UNCHANGED <<files, pc, clocks, overtaken>>

(* tryLock succeeds. *)
Take(c) ==
  /\ pc[c] = "waiting"
  /\ owner[fd[c]] = Nothing
  /\ owner' = [owner EXCEPT ![fd[c]] = c]
  /\ pc' = [pc EXCEPT ![c] = "running"]
  /\ overtaken' = [d \in Calls |-> overtaken[d] \/ (d # c /\ pc[d] = "waiting")]
  /\ UNCHANGED <<path, fd, clocks, busy>>

\* Mutant: every attempt begins the wait anew.
GiveUp_Restarted(c) ==
  /\ pc[c] = "waiting"
  /\ owner[fd[c]] # Nothing
  /\ waited[c] > Deadline
  /\ waited' = [waited EXCEPT ![c] = 0]
  /\ UNCHANGED <<files, pc, held, overtaken, busy>>

(* tryLock finds the lock taken and the deadline is over.  Found taken      *)
(* before the deadline, the call sleeps and tries again, which changes      *)
(* nothing.                                                                 *)
GiveUp(c) ==
  /\ pc[c] = "waiting"
  /\ owner[fd[c]] # Nothing
  /\ waited[c] > Deadline
  /\ Close(c, TRUE)
  /\ UNCHANGED path

LockFails(c) ==
  /\ pc[c] = "waiting"
  /\ Close(c, FALSE)
  /\ UNCHANGED path

\* Mutant: the lock file is removed with the lock.
Return_Unlinking(c) ==
  /\ pc[c] = "running"
  /\ Close(c, FALSE)
  /\ path' = Nothing

(* The work is done, well or not; the file stays. *)
Return(c) ==
  /\ pc[c] = "running"
  /\ Close(c, FALSE)
  /\ UNCHANGED path

(* The process dies, waiting or running; the kernel closes its descriptor.  *)
Die(c) ==
  /\ pc[c] # "idle"
  /\ Close(c, FALSE)
  /\ UNCHANGED path

\* Mutant: nothing bounds the work done under the lock.
Tick_Unbounded ==
  /\ waited' = [c \in Calls |-> IF pc[c] = "waiting" /\ waited[c] <= Deadline
                                THEN waited[c] + 1 ELSE waited[c]]
  /\ held' = [c \in Calls |-> IF pc[c] = "running" THEN held[c] + 1 ELSE held[c]]
  /\ UNCHANGED <<files, pc, overtaken, busy>>

(* Time passes.  The work under the lock is bounded by its own deadline.    *)
Tick ==
  /\ \A c \in Calls : pc[c] = "running" => held[c] < MaxHold
  /\ waited' = [c \in Calls |-> IF pc[c] = "waiting" /\ waited[c] <= Deadline
                                THEN waited[c] + 1 ELSE waited[c]]
  /\ held' = [c \in Calls |-> IF pc[c] = "running" THEN held[c] + 1 ELSE held[c]]
  /\ UNCHANGED <<files, pc, overtaken, busy>>

LockFileInit ==
  /\ path \in Files \cup {Nothing}
  /\ fd = [c \in Calls |-> Nothing]
  /\ owner = [f \in Files |-> Nothing]
  /\ pc = [c \in Calls |-> "idle"]
  /\ waited = [c \in Calls |-> 0]
  /\ held = [c \in Calls |-> 0]
  /\ overtaken = [c \in Calls |-> FALSE]
  /\ busy = [c \in Calls |-> FALSE]

\* What a call does once it has the file open.
Proceed(c) == Take(c) \/ GiveUp(c) \/ Return(c)

LockFileNext ==
  \/ \E c \in Calls : Open(c) \/ OpenFails(c) \/ Proceed(c) \/ LockFails(c) \/ Die(c)
  \/ Tick

LockFileSpec == LockFileInit /\ [][LockFileNext]_lockFileVars

FairSpec == LockFileSpec /\ WF_lockFileVars(Tick) /\ \A c \in Calls : WF_lockFileVars(Proceed(c))

-----------------------------------------------------------------------------
LockFileTypes ==
  /\ path \in Files \cup {Nothing}
  /\ fd \in [Calls -> Files \cup {Nothing}]
  /\ owner \in [Files -> Calls \cup {Nothing}]
  /\ pc \in [Calls -> {"idle", "waiting", "running"}]
  /\ waited \in [Calls -> 0..(Deadline + 1)]
  /\ held \in [Calls -> 0..MaxHold]
  /\ overtaken \in [Calls -> BOOLEAN]
  /\ busy \in [Calls -> BOOLEAN]

(* One call runs its work at a time, whichever files came and went at the   *)
(* path while calls were waiting (the reason With never unlinks).           *)
OneRunner ==
  \A c, d \in Calls : pc[c] = "running" /\ pc[d] = "running" => c = d

(* A holder that is merely slow never costs a waiter its turn: a call that  *)
(* reports the lock busy saw it change hands while it waited (the      *)
(* coupling of lockDeadline and grantDeadline).                             *)
RefusalStep == \A c \in Calls : busy'[c] /\ ~busy[c] => overtaken[c]

BusyMeansOvertaken == [][RefusalStep]_lockFileVars

(* A call comes back: with the lock, or without it after its deadline.      *)
Comes == \A c \in Calls : pc[c] = "waiting" ~> pc[c] # "waiting"

\* The lock the callers see.
Holding == {c \in Calls : pc[c] = "running"}
lockOwner == IF Holding = {} THEN Nothing ELSE CHOOSE c \in Calls : c \in Holding
waiters == {c \in Calls : pc[c] = "waiting"}

Advisory == INSTANCE AdvisoryLock WITH
  Callers <- Calls, NoHolder <- Nothing, lockHolder <- lockOwner, asking <- waiters

(* The lock file is an advisory lock: what the components that call With    *)
(* are modelled with.                                                       *)
IsAdvisoryLock == Advisory!LockSpec
=============================================================================
