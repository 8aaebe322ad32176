-------------------------- MODULE FixedCapacityVector --------------------------
(***************************************************************************)
(* FixedCapacityVector<T, capacity> (containers/fixed_capacity_vector.hpp): *)
(* several vectors, each a buffer of raw storage for its elements and the   *)
(* count m_size.  Elements are constructed in the buffer and destroyed one  *)
(* by one; copying an element (or making a default one) and moving one may  *)
(* throw, after k of them.  One thread uses the vectors, so an action is a  *)
(* whole member function.                                                  *)
(***************************************************************************)
EXTENDS Naturals, Sequences, FiniteSets

CONSTANTS
  Values,         \* the elements
  Default,        \* the element T() that resize adds
  Vectors,        \* the vector objects
  Capacity,       \* the capacity parameter of each one's type
  Lists,          \* the initializer lists constructors are given
  Sizes,          \* the sizes and indices resize and at() are given
  Raw,            \* "no object lives here"
  Absent,         \* "there is no such vector"
  MayThrow        \* whether copying or making an element may throw

ASSUME VectorAssumption ==
  /\ Default \in Values
  /\ Capacity \in [Vectors -> Nat \ {0}]
  /\ Lists \subseteq Seq(Values)
  /\ Sizes \subseteq Nat
  /\ Raw \notin Values
  /\ Absent \notin Seq(Values)
  /\ MayThrow \in BOOLEAN

VARIABLES
  alive,      \* the vectors that exist
  m_buffer,   \* the storage of each
  m_size,
  result,     \* what the latest operation returned
  move_may_throw  \* whether moving an element may throw

vars == <<alive, m_buffer, m_size, result, move_may_throw>>

Slots(v) == 0 .. Capacity[v] - 1

Empty(v) == [s \in Slots(v) |-> Raw]

Init ==
  /\ alive = {}
  /\ m_buffer = [v \in Vectors |-> Empty(v)]
  /\ m_size = [v \in Vectors |-> 0]
  /\ result = "none"
  /\ move_may_throw \in BOOLEAN

--------------------------------------------------------------------------------
(* Helpers *)

\* The buffer of w with its first k elements destroyed.
Without(w, k) == [s \in Slots(w) |-> IF s < k THEN Raw ELSE m_buffer[w][s]]

\* The buffer of v, its own elements destroyed, with copies of the first k of w.
Filled(v, w, k) ==
  [s \in Slots(v) |-> IF s < k THEN m_buffer[w][s] ELSE Without(v, m_size[v])[s]]

\* The buffer of v with default elements from the size on up to n, and those
\* from n on destroyed.
ResizedTo(v, n) ==
  [s \in Slots(v) |-> IF s \in n .. m_size[v] - 1 THEN Raw
                      ELSE IF s \in m_size[v] .. n - 1 THEN Default
                      ELSE m_buffer[v][s]]

\* The elements of w, a vector of another type, do not fit into v.
TooLarge(v, w) == Capacity[w] # Capacity[v] /\ m_size[w] > Capacity[v]

Refuse(what) == result' = what /\ UNCHANGED <<alive, m_buffer, m_size>>

--------------------------------------------------------------------------------
(* Constructors and destructor *)

Construct(v, list) ==
  /\ v \notin alive
  /\ \/ Len(list) > Capacity[v] /\ Refuse("length_error")
     \/ /\ Len(list) <= Capacity[v]
        /\ m_buffer' = [m_buffer EXCEPT ![v] =
             [s \in Slots(v) |-> IF s < Len(list) THEN list[s + 1] ELSE Raw]]
        /\ m_size' = [m_size EXCEPT ![v] = Len(list)]
        /\ alive' = alive \cup {v}
        /\ result' = "ok"
     \/ MayThrow /\ Len(list) \in 1 .. Capacity[v] /\ Refuse("exception")

\* The elements a throwing constructor has made are lost with the storage: the
\* destructor does not run.
CopyConstruct(v, w) ==
  /\ v \notin alive /\ w \in alive
  /\ \/ TooLarge(v, w) /\ Refuse("length_error")
     \/ /\ ~TooLarge(v, w)
        /\ m_buffer' = [m_buffer EXCEPT ![v] = Filled(v, w, m_size[w])]
        /\ m_size' = [m_size EXCEPT ![v] = m_size[w]]
        /\ alive' = alive \cup {v}
        /\ result' = "ok"
     \/ MayThrow /\ ~TooLarge(v, w) /\ m_size[w] # 0 /\ Refuse("exception")

\* The elements of w move into v: each is destroyed in w once it has moved.
TakeElements(v, w) ==
  /\ m_buffer' = [m_buffer EXCEPT ![v] = Filled(v, w, m_size[w]),
                                  ![w] = Without(w, m_size[w])]
  /\ m_size' = [m_size EXCEPT ![v] = m_size[w], ![w] = 0]
  /\ result' = "ok"

\* Mutant of MoveConstruct: the other's size is reset before its elements move,
\* not after; those behind one that throws are forgotten.
MoveConstructResetsFirst(v, w) ==
  /\ v \notin alive /\ w \in alive
  /\ \/ TooLarge(v, w) /\ Refuse("length_error")
     \/ ~TooLarge(v, w) /\ TakeElements(v, w) /\ alive' = alive \cup {v}
     \/ /\ move_may_throw /\ ~TooLarge(v, w)
        /\ \E k \in 0 .. m_size[w] - 1 :
             m_buffer' = [m_buffer EXCEPT ![w] = Without(w, k)]
        /\ m_size' = [m_size EXCEPT ![w] = 0]
        /\ result' = "exception"
        /\ UNCHANGED alive

MoveConstruct(v, w) ==
  /\ v \notin alive /\ w \in alive
  /\ \/ TooLarge(v, w) /\ Refuse("length_error")
     \/ ~TooLarge(v, w) /\ TakeElements(v, w) /\ alive' = alive \cup {v}
     \/ /\ move_may_throw /\ ~TooLarge(v, w)
        /\ \E k \in 0 .. m_size[w] - 1 :
             m_buffer' = [m_buffer EXCEPT ![w] = Without(w, k)]
        /\ result' = "exception"
        /\ UNCHANGED <<alive, m_size>>

\* clear(), and the end of the vector.
Destroy(v) ==
  /\ v \in alive
  /\ alive' = alive \ {v}
  /\ m_buffer' = [m_buffer EXCEPT ![v] = Empty(v)]
  /\ m_size' = [m_size EXCEPT ![v] = 0]
  /\ result' = "none"
--------------------------------------------------------------------------------
(* Assignments *)

\* Mutant of CopyAssign: the vector's own elements go before the other's size
\* has been checked.
CopyAssignDestroysFirst(v, w) ==
  /\ v \in alive /\ w \in alive
  /\ \/ v = w /\ Refuse("ok")
     \/ /\ v # w
        /\ \E k \in 0 .. m_size[w] :
             /\ k = IF TooLarge(v, w) THEN 0 ELSE m_size[w]
             /\ m_buffer' = [m_buffer EXCEPT ![v] = Filled(v, w, k)]
             /\ m_size' = [m_size EXCEPT ![v] = k]
             /\ result' = IF TooLarge(v, w) THEN "length_error" ELSE "ok"
        /\ UNCHANGED alive

CopyAssign(v, w) ==
  /\ v \in alive /\ w \in alive
  /\ \/ v = w /\ Refuse("ok")
     \/ TooLarge(v, w) /\ Refuse("length_error")
     \/ /\ v # w /\ ~TooLarge(v, w)
        /\ \E k \in 0 .. m_size[w] :
             /\ m_buffer' = [m_buffer EXCEPT ![v] = Filled(v, w, k)]
             /\ m_size' = [m_size EXCEPT ![v] = k]
             /\ \/ k = m_size[w] /\ result' = "ok"
                \/ k < m_size[w] /\ MayThrow /\ result' = "exception"
        /\ UNCHANGED alive

\* Mutant of MoveAssign: the size of the vector moved from is not reset.
MoveAssignKeepsSize(v, w) ==
  /\ v \in alive /\ w \in alive /\ v # w /\ ~TooLarge(v, w)
  /\ m_buffer' = [m_buffer EXCEPT ![v] = Filled(v, w, m_size[w]),
                                  ![w] = Without(w, m_size[w])]
  /\ m_size' = [m_size EXCEPT ![v] = m_size[w]]
  /\ result' = "ok"
  /\ UNCHANGED alive

\* When moving the element k throws, those before it are gone from w, whose
\* size still counts them.
MoveAssign(v, w) ==
  /\ v \in alive /\ w \in alive
  /\ \/ v = w /\ Refuse("ok")
     \/ TooLarge(v, w) /\ Refuse("length_error")
     \/ v # w /\ ~TooLarge(v, w) /\ TakeElements(v, w) /\ UNCHANGED alive
     \/ /\ move_may_throw /\ v # w /\ ~TooLarge(v, w)
        /\ \E k \in 0 .. m_size[w] - 1 :
             /\ m_buffer' = [m_buffer EXCEPT ![v] = Filled(v, w, k),
                                             ![w] = Without(w, k)]
             /\ m_size' = [m_size EXCEPT ![v] = k]
        /\ result' = "exception"
        /\ UNCHANGED alive

--------------------------------------------------------------------------------
(* Elements *)

\* pop_back until the vector is small enough, or emplace_back until it is large
\* enough, full, or an element throws.
Resize(v, n) ==
  /\ v \in alive
  /\ \E k \in 0 .. Capacity[v] :
       /\ m_buffer' = [m_buffer EXCEPT ![v] = ResizedTo(v, k)]
       /\ m_size' = [m_size EXCEPT ![v] = k]
       /\ \/ k = n /\ result' = "ok"
          \/ k = Capacity[v] /\ k < n /\ result' = "length_error"
          \/ /\ MayThrow
             /\ k >= m_size[v] /\ k < n /\ k < Capacity[v]
             /\ result' = "exception"
  /\ UNCHANGED alive

Clear(v) ==
  /\ v \in alive
  /\ m_buffer' = [m_buffer EXCEPT ![v] = Without(v, m_size[v])]
  /\ m_size' = [m_size EXCEPT ![v] = 0]
  /\ result' = "none"
  /\ UNCHANGED alive

\* push_back and emplace_back.
PushBack(v, x) ==
  /\ v \in alive
  /\ \/ m_size[v] = Capacity[v] /\ Refuse("length_error")
     \/ /\ m_size[v] # Capacity[v]
        /\ m_buffer' = [m_buffer EXCEPT ![v][m_size[v]] = x]
        /\ m_size' = [m_size EXCEPT ![v] = @ + 1]
        /\ result' = "ok"
        /\ UNCHANGED alive
     \/ MayThrow /\ m_size[v] # Capacity[v] /\ Refuse("exception")

PopBack(v) ==
  /\ v \in alive
  /\ \/ m_size[v] = 0 /\ Refuse("out_of_range")
     \/ /\ m_size[v] # 0
        /\ m_size' = [m_size EXCEPT ![v] = @ - 1]
        /\ m_buffer' = [m_buffer EXCEPT ![v][m_size[v] - 1] = Raw]
        /\ result' = "ok"
        /\ UNCHANGED alive

\* at(); front() and back() are the first and the last of the indices.
At(v, i) ==
  /\ v \in alive
  /\ \/ i >= m_size[v] /\ Refuse("out_of_range")
     \/ i < m_size[v] /\ Refuse(m_buffer[v][i])

Step ==
  \E v \in Vectors :
    \/ \E list \in Lists : Construct(v, list)
    \/ \E w \in Vectors :
         \/ CopyConstruct(v, w)
         \/ MoveConstruct(v, w)
         \/ CopyAssign(v, w)
         \/ MoveAssign(v, w)
    \/ \E n \in Sizes : Resize(v, n) \/ At(v, n)
    \/ \E x \in Values : PushBack(v, x)
    \/ PopBack(v) \/ Clear(v) \/ Destroy(v)

Next == Step /\ UNCHANGED move_may_throw

Spec == Init /\ [][Next]_vars

--------------------------------------------------------------------------------
(* Properties *)

\* The objects in a buffer are exactly the first m_size ones.
SizesRight ==
  \A v \in Vectors : \A s \in Slots(v) : m_buffer[v][s] # Raw <=> s < m_size[v]

\* Lifetimes: clear() and the destructor destroy every element, once.  (When
\* moving one may throw, the size of the vector moved from is wrong after that.)
LivePrefix == ~move_may_throw => SizesRight

\* No object lives beyond the size, where nothing would ever destroy it, also
\* when a move has thrown.
NoStrayElement ==
  \A v \in Vectors : \A s \in Slots(v) : m_buffer[v][s] # Raw => s < m_size[v]

--------------------------------------------------------------------------------
(* Refinement *)

\* The elements of each vector.
Contents ==
  [v \in Vectors |-> IF v \notin alive THEN Absent
                     ELSE [i \in 1 .. m_size[v] |-> m_buffer[v][i - 1]]]

Abstract == INSTANCE SequenceVectors WITH contents <- Contents

\* Every operation does to the sequences of elements what it promises, also when
\* it throws: copies and moves between vectors of any capacities, assignment of a
\* vector to itself, and errors.  (Once a move has thrown the sequence of the
\* vector moved from is undefined.)
ImplementsVectors ==
  Abstract!Init /\ [][SizesRight /\ SizesRight' => Abstract!Next]_(Abstract!vars)

================================================================================
