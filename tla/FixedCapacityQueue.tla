-------------------------- MODULE FixedCapacityQueue --------------------------
(***************************************************************************)
(* FixedCapacityQueue<T> (containers/fixed_capacity_queue.hpp): a ring of   *)
(* m_capacity slots of raw storage, used by one thread.  Elements are       *)
(* constructed at the tail and destroyed at the head, and constructing or   *)
(* moving one may throw.  push (twice) and emplace have the same control    *)
(* and are one operation here.                                             *)
(***************************************************************************)
EXTENDS Naturals, Sequences

CONSTANTS
  Values,      \* the elements
  m_capacity,  \* the constructor's argument; it throws when this is 0
  Raw,         \* "no object lives in this slot"
  MayThrow     \* whether constructing or moving a T may throw

ASSUME CapacityAssumption ==
  /\ m_capacity \in Nat \ {0}
  /\ Raw \notin Values
  /\ MayThrow \in BOOLEAN

VARIABLES
  m_data,         \* the slots
  m_head_index,
  m_size,
  result          \* what the latest operation returned

vars == <<m_data, m_head_index, m_size, result>>

Slots == 0 .. m_capacity - 1

Init ==
  /\ m_data = [s \in Slots |-> Raw]
  /\ m_head_index = 0
  /\ m_size = 0
  /\ result = "none"

\* The index i brought back into the ring: tail_index() of head plus size, and
\* advance_index of the head.
Wrap(i) == IF i >= m_capacity THEN i - m_capacity ELSE i

\* The slot of the element that is the i-th after the oldest one.
SlotOf(i) == Wrap(m_head_index + i)

--------------------------------------------------------------------------------
\* emplace, push: construct_element.
Emplace(v) ==
  \/ /\ m_size = m_capacity
     /\ result' = "false"
     /\ UNCHANGED <<m_data, m_head_index, m_size>>
  \/ /\ m_size # m_capacity
     /\ m_data' = [m_data EXCEPT ![SlotOf(m_size)] = v]
     /\ m_size' = m_size + 1
     /\ result' = "true"
     /\ UNCHANGED m_head_index

\* Mutant of Throw: the head is advanced before the element has been moved out.
ThrowLosesElement ==
  /\ MayThrow
  /\ m_size # 0
  /\ result' = "exception"
  /\ m_data' = [m_data EXCEPT ![m_head_index] = Raw]
  /\ m_head_index' = Wrap(m_head_index + 1)
  /\ m_size' = m_size - 1

\* Constructing the element (emplace, push) or moving it out (pop) throws.
Throw ==
  /\ MayThrow
  /\ m_size # m_capacity \/ m_size # 0
  /\ result' = "exception"
  /\ UNCHANGED <<m_data, m_head_index, m_size>>

\* Mutant of Pop: the element is moved out and not destroyed.
PopKeepsElement ==
  /\ m_size # 0
  /\ result' = m_data[m_head_index]
  /\ m_head_index' = Wrap(m_head_index + 1)
  /\ m_size' = m_size - 1
  /\ UNCHANGED m_data

\* Moves the oldest element out and destroys it: destruct_element.
Pop ==
  \/ /\ m_size = 0
     /\ result' = "nullopt"
     /\ UNCHANGED <<m_data, m_head_index, m_size>>
  \/ /\ m_size # 0
     /\ result' = m_data[m_head_index]
     /\ m_data' = [m_data EXCEPT ![m_head_index] = Raw]
     /\ m_head_index' = Wrap(m_head_index + 1)
     /\ m_size' = m_size - 1

\* Destroys the elements from the head on; also what the destructor does.
Clear ==
  /\ m_data' = [s \in Slots |->
       IF \E i \in 0 .. m_size - 1 : s = SlotOf(i) THEN Raw ELSE m_data[s]]
  /\ m_head_index' = SlotOf(m_size)
  /\ m_size' = 0
  /\ result' = "none"

Next == (\E v \in Values : Emplace(v)) \/ Throw \/ Pop \/ Clear

Spec == Init /\ [][Next]_vars

--------------------------------------------------------------------------------
(* Properties *)

\* The variables keep their types: no index leaves the ring, and the size no
\* more than reaches the capacity.
TypeOK ==
  /\ m_data \in [Slots -> Values \cup {Raw}]
  /\ m_head_index \in Slots
  /\ m_size \in 0 .. m_capacity

\* Lifetimes: exactly the m_size slots from the head on, around the end of the
\* ring, hold an object, so every element is destroyed once and none is read
\* or destroyed that does not exist.
LiveSlots ==
  \A s \in Slots : m_data[s] # Raw <=> \E i \in 0 .. m_size - 1 : s = SlotOf(i)

\* The elements, oldest first.
Elements == [i \in 1 .. m_size |-> m_data[SlotOf(i - 1)]]

Queue == INSTANCE SequentialQueue WITH Capacity <- m_capacity, items <- Elements

\* The ring is a bounded FIFO queue: full and empty are reported exactly when
\* they are, and elements come out in the order they went in.
ImplementsQueue == Queue!Spec

================================================================================
