------------------------------ MODULE MemoryPool ------------------------------
(***************************************************************************)
(* MemoryPool<T> (memory/pool_allocator.hpp): slots of storage for one T    *)
(* each.  The free ones form a list: the pointer to the next one is kept in *)
(* the very bytes an object of the slot occupies.                          *)
(***************************************************************************)
EXTENDS Naturals, FiniteSets

CONSTANTS
  PoolCapacity,      \* m_capacity
  NullSlot,          \* the null pointer
  Wild,              \* what the bytes of an object read as a pointer
  ConstructorWrites  \* whether a constructor of T writes to those bytes

ASSUME PoolAssumption ==
  /\ PoolCapacity \in Nat
  /\ NullSlot # Wild /\ {NullSlot, Wild} \cap Nat = {}
  /\ ConstructorWrites \in BOOLEAN

VARIABLES
  slot_next,     \* what each slot's bytes read as a pointer
  pool_live,     \* the slots an object lives in
  m_next_free,
  pool_result    \* what the latest operation returned

poolVars == <<slot_next, pool_live, m_next_free, pool_result>>

PoolSlots == 0 .. PoolCapacity - 1

\* The slot i, while there is one.
LinkedFrom(i) == IF i < PoolCapacity THEN i ELSE NullSlot

PoolInit ==
  /\ slot_next = [s \in PoolSlots |-> LinkedFrom(s + 1)]
  /\ m_next_free = LinkedFrom(0)
  /\ pool_live = {}
  /\ pool_result = <<"none">>

--------------------------------------------------------------------------------
\* The bytes of the slot s once a constructor has run there.
Constructed(s) == IF ConstructorWrites THEN [slot_next EXCEPT ![s] = Wild] ELSE slot_next

\* Mutant of Allocate: the head is not advanced past the slot handed out.
AllocateKeepsHead ==
  /\ m_next_free \in PoolSlots
  /\ slot_next' = Constructed(m_next_free)
  /\ pool_live' = pool_live \cup {m_next_free}
  /\ pool_result' = <<"slot", m_next_free>>
  /\ UNCHANGED m_next_free

\* The object is constructed in the first free slot; then the pointer to the
\* next one is read from the same bytes.
Allocate ==
  \/ /\ m_next_free = NullSlot
     /\ pool_result' = <<"bad_alloc">>
     /\ UNCHANGED <<slot_next, pool_live, m_next_free>>
  \/ /\ m_next_free \in PoolSlots
     /\ slot_next' = Constructed(m_next_free)
     /\ m_next_free' = slot_next'[m_next_free]
     /\ pool_live' = pool_live \cup {m_next_free}
     /\ pool_result' = <<"slot", m_next_free>>

\* The constructor of T throws in the first free slot.
AllocateThrows ==
  /\ m_next_free \in PoolSlots
  /\ slot_next' = Constructed(m_next_free)
  /\ pool_result' = <<"exception">>
  /\ UNCHANGED <<pool_live, m_next_free>>

\* The owner of an object writes to it, over whatever the pointer was.
UseObject(s) ==
  /\ s \in pool_live
  /\ slot_next' = [slot_next EXCEPT ![s] = Wild]
  /\ UNCHANGED <<pool_live, m_next_free, pool_result>>

\* Mutant of Deallocate: the head is changed before the slot is linked to it.
DeallocateLinksLast(s) ==
  /\ s \in pool_live
  /\ pool_live' = pool_live \ {s}
  /\ m_next_free' = s
  /\ slot_next' = [slot_next EXCEPT ![s] = s]
  /\ pool_result' = <<"none">>

\* The object is destroyed, and its slot is the first of the list.
Deallocate(s) ==
  /\ s \in pool_live
  /\ pool_live' = pool_live \ {s}
  /\ slot_next' = [slot_next EXCEPT ![s] = m_next_free]
  /\ m_next_free' = s
  /\ pool_result' = <<"none">>

PoolNext == Allocate \/ AllocateThrows \/ \E s \in PoolSlots : UseObject(s) \/ Deallocate(s)

PoolSpec == PoolInit /\ [][PoolNext]_poolVars

--------------------------------------------------------------------------------
(* Properties *)

\* The pointers met on the way from the head along the free list.
FreeList ==
  LET free[i \in 0 .. PoolCapacity] ==
        IF i = 0 THEN m_next_free
        ELSE IF free[i - 1] \in PoolSlots THEN slot_next[free[i - 1]] ELSE NullSlot
  IN  free

\* "Consistent state": the free list leads through every slot that has no
\* object, once, through no other, and ends.
FreeListConsistent ==
  /\ {FreeList[i] : i \in 0 .. PoolCapacity} \ {NullSlot} = PoolSlots \ pool_live
  /\ FreeList[Cardinality(PoolSlots \ pool_live)] = NullSlot

Pool == INSTANCE SlotPool WITH Slots <- PoolSlots, live <- pool_live, result <- pool_result

\* No slot is handed out twice, and allocation fails only when all are taken
\* (for a T whose constructor does not write to the pointer).
ImplementsPool == Pool!Spec

================================================================================
