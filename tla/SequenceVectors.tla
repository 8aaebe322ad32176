---------------------------- MODULE SequenceVectors ----------------------------
(***************************************************************************)
(* What vectors of fixed capacities promise their caller: each is a         *)
(* sequence no longer than its capacity.  A length or range error changes   *)
(* nothing (except that resize fills the vector first); when an element     *)
(* throws, the vector written to keeps the elements made until then.       *)
(***************************************************************************)
EXTENDS Naturals, Sequences

CONSTANTS
  Values, Default, Vectors, Capacity,
  Lists, Sizes,   \* what callers construct vectors from, and resize them to
  Absent          \* "there is no such vector"

VARIABLES
  contents,   \* the elements of each vector, or Absent
  result      \* what the latest operation returned

vars == <<contents, result>>

Init == contents = [v \in Vectors |-> Absent] /\ result = "none"

Exists(v) == contents[v] # Absent

Become(v, s) == contents' = [contents EXCEPT ![v] = s]

Refuse(error) == result' = error /\ UNCHANGED contents

\* v becomes s: by a constructor, or by copying from the vector that holds s.
Assign(v, s) ==
  \/ Len(s) <= Capacity[v] /\ Become(v, s) /\ result' = "ok"
  \/ Len(s) > Capacity[v] /\ Refuse("length_error")

Construct(v, s) == ~Exists(v) /\ Assign(v, s)

Copy(v, w) == Exists(w) /\ Assign(v, contents[w])

Move(v, w) ==
  /\ Exists(w)
  /\ \/ v = w /\ Refuse("ok")
     \/ /\ v # w
        /\ Len(contents[w]) <= Capacity[v]
        /\ contents' = [contents EXCEPT ![v] = contents[w], ![w] = <<>>]
        /\ result' = "ok"
     \/ Len(contents[w]) > Capacity[v] /\ Refuse("length_error")

Destroy(v) == Exists(v) /\ Become(v, Absent) /\ result' = "none"

Clear(v) == Exists(v) /\ Become(v, <<>>) /\ result' = "none"

PushBack(v, x) == Exists(v) /\ Assign(v, Append(contents[v], x))

PopBack(v) ==
  /\ Exists(v)
  /\ \/ /\ contents[v] # <<>>
        /\ Become(v, SubSeq(contents[v], 1, Len(contents[v]) - 1))
        /\ result' = "ok"
     \/ contents[v] = <<>> /\ Refuse("out_of_range")

\* The first n elements of v, followed by as many default ones as are missing.
Resized(v, n) ==
  [i \in 1 .. n |-> IF i <= Len(contents[v]) THEN contents[v][i] ELSE Default]

Resize(v, n) ==
  /\ Exists(v)
  /\ \/ n <= Capacity[v] /\ Become(v, Resized(v, n)) /\ result' = "ok"
     \/ n > Capacity[v] /\ Become(v, Resized(v, Capacity[v])) /\ result' = "length_error"

At(v, i) ==
  /\ Exists(v)
  /\ \/ i < Len(contents[v]) /\ Refuse(contents[v][i + 1])
     \/ i >= Len(contents[v]) /\ Refuse("out_of_range")

\* An element throws: in a constructor or push_back nothing changes, an
\* assignment stops after k elements, and so does resize.
ElementThrows(v) ==
  /\ result' = "exception"
  /\ \/ UNCHANGED contents
     \/ \E w \in Vectors :
          /\ Exists(v) /\ Exists(w)
          /\ \E k \in 0 .. Len(contents[w]) : Become(v, SubSeq(contents[w], 1, k))
     \/ /\ Exists(v)
        /\ \E n \in Len(contents[v]) .. Capacity[v] : Become(v, Resized(v, n))

Next ==
  \E v \in Vectors :
    \/ \E s \in Lists : Construct(v, s)
    \/ \E w \in Vectors : Copy(v, w) \/ Move(v, w)
    \/ Destroy(v) \/ Clear(v) \/ PopBack(v) \/ ElementThrows(v)
    \/ \E x \in Values : PushBack(v, x)
    \/ \E n \in Sizes : Resize(v, n) \/ At(v, n)

Spec == Init /\ [][Next]_vars

================================================================================
