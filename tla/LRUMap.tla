-------------------------------- MODULE LRUMap --------------------------------
(***************************************************************************)
(* What a least-recently-used cache promises: it remembers the values of    *)
(* the Capacity keys that were inserted or read last, and an insertion      *)
(* that throws adds nothing.                                               *)
(***************************************************************************)
EXTENDS Naturals, Sequences, SequencesExt

CONSTANTS Keys, Values, Capacity

VARIABLES
  recent,   \* <<key, value>> pairs, the one used last first
  result    \* what the latest operation returned

vars == <<recent, result>>

Init == recent = <<>> /\ result = "none"

Knows(k) == \E p \in ToSet(recent) : p[1] = k

\* The pairs of keys other than k, in their order.
Others(k) ==
  IF Knows(k) THEN RemoveAt(recent, CHOOSE i \in DOMAIN recent : recent[i][1] = k) ELSE recent

\* <<k, x>> becomes the pair used last; pairs beyond the capacity are forgotten.
Use(k, x) ==
  LET pairs == <<<<k, x>>>> \o Others(k)
  IN  recent' = SubSeq(pairs, 1, IF Len(pairs) > Capacity THEN Capacity ELSE Len(pairs))

Insert(k, x) == Use(k, x) /\ result' = x

\* A copy of the value found may throw; the key has been used all the same.
Get(k) ==
  \/ ~Knows(k) /\ UNCHANGED recent /\ result' = "nullopt"
  \/ \E p \in ToSet(recent) :
       p[1] = k /\ Use(k, p[2]) /\ result' \in {p[2], "exception"}

Throw == UNCHANGED recent /\ result' = "exception"

Next == (\E k \in Keys : Get(k) \/ \E x \in Values : Insert(k, x)) \/ Throw

Spec == Init /\ [][Next]_vars

================================================================================
