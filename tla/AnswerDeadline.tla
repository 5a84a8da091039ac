--------------------------- MODULE AnswerDeadline ---------------------------
(***************************************************************************)
(* The time a module has to answer: a timer that is stopped while the      *)
(* broker is consulted and reset, to what was left, afterwards             *)
(* (internal/rpc/launch.go, answerDeadline). Time is counted in ticks and  *)
(* relative: age is the time since resumedAt, left the time to the timer's *)
(* next firing. Every method holds the deadline's mutex from its first     *)
(* line to its last, so each is one step.                                  *)
(***************************************************************************)
EXTENDS Integers

CONSTANT Timeout   \* Invocation.timeout(), in ticks

ASSUME TimeoutAssumption == Timeout \in Nat \ {0}

VARIABLE deadline

Floor(n) == IF n < 0 THEN 0 ELSE n
Capped(n) == IF n > Timeout THEN Timeout ELSE n

(* age is capped at Timeout: a larger one is subtracted from a remainder it
   already exceeds. armed says that the timer is set and its firing has not been
   received; it has fired when left is 0. *)
Deadlines == [held : BOOLEAN, armed : BOOLEAN,
              left : 0..Timeout, remaining : 0..Timeout, age : 0..Timeout]

NewDeadline == [held |-> FALSE, armed |-> TRUE,
                left |-> Timeout, remaining |-> Timeout, age |-> 0]

(* What a tick of the clock does to the deadline. *)
Older(d) == [d EXCEPT !.age = Capped(@ + 1),
                      !.left = IF d.armed THEN Floor(@ - 1) ELSE @]

(* The firing can be received, and is received once. *)
Expired == deadline.armed /\ deadline.left = 0
Received == [deadline EXCEPT !.armed = FALSE]

(* Mutant: Held, resuming later with the whole of what was left before. *)
Held_Unspent(d) ==
    IF d.held THEN d
    ELSE [d EXCEPT !.held = TRUE, !.armed = FALSE, !.remaining = IF d.armed THEN @ ELSE 0]

(* Stop on a timer whose firing was received says so, and nothing remains. On
   one that fired unreceived it discards the firing, and what it answers does
   not matter: nothing remains either way. *)
Held(d) ==
    IF d.held THEN d
    ELSE [d EXCEPT !.held = TRUE, !.armed = FALSE,
                   !.remaining = IF d.armed THEN Floor(@ - d.age) ELSE 0]

Released(d) ==
    IF ~d.held THEN d
    ELSE [d EXCEPT !.held = FALSE, !.age = 0, !.armed = TRUE, !.left = d.remaining]
=============================================================================
