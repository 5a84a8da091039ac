------------------------------ MODULE Versions ------------------------------
(***************************************************************************)
(* The semantic versions and compatibility ranges of internal/semver.      *)
(*                                                                         *)
(* A version written down is a record of what Parse looks at: the          *)
(* components between the dots (NotANumber for one that is not all         *)
(* digits), the prerelease identifiers when there is a dash, and whether   *)
(* build metadata follows.  An identifier that strconv.Atoi reads is       *)
(* [numeric |-> TRUE, rank |-> its value]; any other keeps only its rank   *)
(* in byte order, which is all that strings.Compare tells of it.           *)
(***************************************************************************)
EXTENDS Integers, Sequences, FiniteSets

NotANumber == -1
NoIdentifier == [numeric |-> FALSE, rank |-> -1]
Malformed == [malformed |-> TRUE]

(* Parse: build metadata is dropped, a dash must be followed by non-empty
   identifiers, and the core must be three numbers. *)
Parse(text) ==
  IF \/ Len(text.core) # 3
     \/ \E i \in 1 .. Len(text.core) : text.core[i] = NotANumber
     \/ text.dash /\ (text.pre = <<>> \/ \E i \in 1 .. Len(text.pre) : text.pre[i] = NoIdentifier)
  THEN Malformed
  ELSE [major |-> text.core[1], minor |-> text.core[2], patch |-> text.core[3],
        pre |-> IF text.dash THEN text.pre ELSE <<>>]

sign(difference) ==
  IF difference < 0 THEN -1 ELSE IF difference > 0 THEN 1 ELSE 0

(* A numeric identifier precedes every other one. *)
compareIdentifier(left, right) ==
  IF left.numeric = right.numeric THEN sign(left.rank - right.rank)
  ELSE IF left.numeric THEN -1 ELSE 1

(* The place of the first pair of identifiers that differ, 0 when one list
   begins with the other. *)
FirstDifference(left, right) ==
  LET places == {i \in 1 .. Len(left) : i <= Len(right) /\ compareIdentifier(left[i], right[i]) # 0}
  IN  IF places = {} THEN 0 ELSE CHOOSE i \in places : \A j \in places : i <= j

(* A release follows each of its prereleases. *)
comparePrerelease(left, right) ==
  LET i == FirstDifference(left, right) IN
  CASE left = right -> 0
    [] left # right /\ left = <<>> -> 1
    [] left # right /\ left # <<>> /\ right = <<>> -> -1
    [] OTHER -> IF i # 0 THEN compareIdentifier(left[i], right[i])
                ELSE sign(Len(left) - Len(right))

Compare(left, right) ==
  CASE left.major # right.major -> sign(left.major - right.major)
    [] left.major = right.major /\ left.minor # right.minor -> sign(left.minor - right.minor)
    [] left.major = right.major /\ left.minor = right.minor /\ left.patch # right.patch ->
         sign(left.patch - right.patch)
    [] OTHER -> comparePrerelease(left.pre, right.pre)

(* Channel: a prerelease is published on the prerelease channel. *)
Channel(version) == IF version.pre = <<>> THEN "stable" ELSE "prerelease"

-----------------------------------------------------------------------------
(* A range is a sequence of comparators, all of which must hold; an empty one
   and one with an unreadable version are not ranges. *)
ParseRange(spec) ==
  IF spec = <<>> \/ \E i \in 1 .. Len(spec) : Parse(spec[i].text) = Malformed
  THEN Malformed
  ELSE [comparators |-> [i \in 1 .. Len(spec) |->
          [operator |-> spec[i].operator, version |-> Parse(spec[i].text)]]]

Satisfies(version, comparator) ==
  LET result == Compare(version, comparator.version) IN
  CASE comparator.operator = ">=" -> result >= 0
    [] comparator.operator = "<=" -> result <= 0
    [] comparator.operator = ">" -> result > 0
    [] comparator.operator = "<" -> result < 0
    [] comparator.operator \in {"=", ""} -> result = 0

Contains(range, version) ==
  \A i \in DOMAIN range.comparators : Satisfies(version, range.comparators[i])

-----------------------------------------------------------------------------
(* What a set of versions has newest.  catalog.go sorts a history newest
   first and select.go sorts it again; either then takes the first entry that
   meets a condition, which is the newest of those that meet it. *)
NewestOf(entries) ==
  CHOOSE newest \in entries : \A other \in entries : Compare(newest.version, other.version) >= 0
=============================================================================
