----------------------- MODULE MemoryAndArithmeticProofs -----------------------
(***************************************************************************)
(* Proofs about the parts that hand out memory or compute offsets and       *)
(* numbers: OwningPointer, MemoryPool, CompileTimeGcd, Fibonacci and        *)
(* MatrixViews.  Each has a section, with its inductive invariant and what  *)
(* it proves, for every value of the component's constants.                *)
(***************************************************************************)
EXTENDS OwningPointer, MemoryPool, CompileTimeGcd, Fibonacci, MatrixViews,
        FiniteSetTheorems, WellFoundedInduction, TLAPS

(* Induction over the natural numbers, from their well-foundedness *)

\* Every set of naturals but the empty one has a least element.
LEMMA LeastNatural ==
  ASSUME NEW T, T \subseteq Nat, T # {}
  PROVE  \E x \in T : \A y \in T : x <= y
<1> DEFINE less == {p \in Nat \X Nat : p[1] < p[2]}
<1>1. OpToRel(<, Nat) = less
  BY DEF OpToRel
<1>2. IsWellFoundedOn(less, Nat)
  BY NatLessThanWellFounded, <1>1
<1>3. PICK x \in T : \A y \in T : ~(<<y, x>> \in less)
  <2> HIDE DEF less
  <2> QED
    BY <1>2, WFMin
<1>4. \A y \in T : <<y, x>> \in Nat \X Nat /\ <<y, x>>[1] = y /\ <<y, x>>[2] = x
  OBVIOUS
<1>5. \A y \in T : ~(y < x)
  BY <1>3, <1>4
<1> QED
  BY <1>5

\* Induction, for sets.
LEMMA Induction ==
  ASSUME NEW S, 0 \in S, \A n \in Nat : n \in S => n + 1 \in S
  PROVE  Nat \subseteq S
<1> DEFINE T == Nat \ S
<1> SUFFICES ASSUME T # {} PROVE FALSE
  OBVIOUS
<1>1. PICK m \in T : \A y \in T : m <= y
  <2>1. T \subseteq Nat
    OBVIOUS
  <2> HIDE DEF T
  <2> QED
    BY <2>1, LeastNatural
<1>2. m # 0 /\ m - 1 \in Nat /\ m - 1 \notin T
  BY <1>1
<1> QED
  BY <1>1, <1>2

--------------------------------------------------------------------------------
(* OwningPointer: an object has one owner at a time, with its own deleter, and is *)
(* never lost.  The four properties are proved together: that nothing is lost     *)
(* rests on the types, and the owner's deleter on who owns what.                  *)

OwningInv == TypeOK /\ UniqueOwnership /\ NoLeak /\ OwnerHasDeleter

LEMMA OwningInitInv == Init => OwningInv
BY PointerAssumption
DEF Init, OwningInv, TypeOK, UniqueOwnership, NoLeak, OwnerHasDeleter, Owners, Deleted

\* Every operation preserves the invariant.
LEMMA OwningNextInv == OwningInv /\ [Next]_vars => OwningInv'
<1> SUFFICES ASSUME OwningInv, [Next]_vars PROVE OwningInv'
  OBVIOUS
<1> USE PointerAssumption
    DEF OwningInv, TypeOK, UniqueOwnership, NoLeak, OwnerHasDeleter, Owners, Deleted
<1>1. ASSUME NEW h \in Handles, NEW d \in Deleters, ConstructEmpty(h, d) PROVE OwningInv'
  BY <1>1 DEF ConstructEmpty
<1>2. ASSUME NEW h \in Handles, NEW o \in Objects, Construct(h, o) PROVE OwningInv'
  BY <1>2 DEF Construct
<1>3. ASSUME NEW h \in Handles, NEW g \in Handles, MoveConstruct(h, g) PROVE OwningInv'
  BY <1>3 DEF MoveConstruct
<1>4. ASSUME NEW h \in Handles, NEW g \in Handles, MoveAssign(h, g) PROVE OwningInv'
  BY <1>4 DEF MoveAssign, DeleteWith
<1>5. ASSUME NEW h \in Handles, Destruct(h) PROVE OwningInv'
  BY <1>5 DEF Destruct, DeleteWith
<1>6. ASSUME NEW h \in Handles, AssignNull(h) PROVE OwningInv'
  BY <1>6 DEF AssignNull, DeleteWith
<1>7. ASSUME NEW h \in Handles, Release(h) PROVE OwningInv'
  BY <1>7 DEF Release
<1>8. CASE UNCHANGED vars
  BY <1>8 DEF vars
<1> QED
  BY <1>1, <1>2, <1>3, <1>4, <1>5, <1>6, <1>7, <1>8 DEF Next

--------------------------------------------------------------------------------
\* The types hold, and only handles that exist own something.
THEOREM OwningTypes == Spec => []TypeOK
BY OwningInitInv, OwningNextInv, PTL DEF Spec, OwningInv

\* Of any number of handles only one owns an object, and none owns one that was
\* deleted or released: it is deleted at most once.
THEOREM OneOwner == Spec => []UniqueOwnership
BY OwningInitInv, OwningNextInv, PTL DEF Spec, OwningInv

\* No object is lost by any sequence of moves, assignments and releases.
THEOREM NothingLost == Spec => []NoLeak
BY OwningInitInv, OwningNextInv, PTL DEF Spec, OwningInv

\* The owner of an object has the deleter the object came with.
THEOREM OwnersDeleter == Spec => []OwnerHasDeleter
BY OwningInitInv, OwningNextInv, PTL DEF Spec, OwningInv

--------------------------------------------------------------------------------
(* MemoryPool, of objects whose constructor leaves the link alone: none of the     *)
(* slots is handed out twice, and allocation fails only when all of them are       *)
(* taken.  The invariant is that a path leads along the links from the head        *)
(* through every free slot, none of them twice, to the null pointer.               *)

\* Links that lead out of m_next_free through the free slots, n of them.
Path(n, p) ==
  /\ n \in Nat
  /\ p \in [0 .. n -> PoolSlots \cup {NullSlot}]
  /\ p[0] = m_next_free /\ p[n] = NullSlot
  /\ \A i \in 0 .. n - 1 : p[i] \in PoolSlots \ pool_live /\ slot_next[p[i]] = p[i + 1]
  /\ \A i, j \in 0 .. n - 1 : p[i] = p[j] => i = j
  /\ \A s \in PoolSlots \ pool_live : \E i \in 0 .. n - 1 : p[i] = s

PathExists == \E n, p : Path(n, p)

PoolTyped ==
  /\ slot_next \in [PoolSlots -> PoolSlots \cup {NullSlot, Wild}]
  /\ pool_live \subseteq PoolSlots
  /\ m_next_free \in PoolSlots \cup {NullSlot}

PoolInv == PoolTyped /\ PathExists

LEMMA PoolInitInv == PoolInit => PoolInv
<1> SUFFICES ASSUME PoolInit PROVE PoolInv
  OBVIOUS
<1> USE PoolAssumption DEF PoolInit, PoolSlots, LinkedFrom
<1>1. PoolTyped
  BY DEF PoolTyped
<1> DEFINE p == [i \in 0 .. PoolCapacity |-> LinkedFrom(i)]
<1>2. /\ p \in [0 .. PoolCapacity -> PoolSlots \cup {NullSlot}]
      /\ p[0] = m_next_free /\ p[PoolCapacity] = NullSlot
  OBVIOUS
<1>3. \A i \in 0 .. PoolCapacity - 1 : p[i] = i /\ slot_next[i] = p[i + 1]
  OBVIOUS
<1>4. Path(PoolCapacity, p)
  <2> HIDE DEF p
  <2> QED
    BY <1>2, <1>3 DEF Path
<1> QED
  BY <1>1, <1>4 DEF PoolInv, PathExists

\* A path tells whether a slot is free.
LEMMA HeadIsFree ==
  ASSUME PoolInv
  PROVE  /\ m_next_free = NullSlot => pool_live = PoolSlots
         /\ m_next_free # NullSlot => m_next_free \in PoolSlots \ pool_live
<1>1. PICK n, p : Path(n, p)
  BY DEF PoolInv, PathExists
<1>2. n = 0 => PoolSlots \ pool_live = {}
  BY <1>1 DEF Path
<1>3. n # 0 => p[0] \in PoolSlots \ pool_live
  BY <1>1 DEF Path
<1>4. p[0] = m_next_free /\ (n = 0 => m_next_free = NullSlot)
  BY <1>1 DEF Path
<1>5. NullSlot \notin PoolSlots /\ pool_live \subseteq PoolSlots
  BY PoolAssumption DEF PoolInv, PoolTyped, PoolSlots
<1> QED
  BY <1>2, <1>3, <1>4, <1>5

LEMMA PoolNextInv == ~ConstructorWrites /\ PoolInv /\ [PoolNext]_poolVars => PoolInv'
<1> SUFFICES ASSUME ~ConstructorWrites, PoolInv, [PoolNext]_poolVars PROVE PoolInv'
  OBVIOUS
<1>1. PICK n, p : Path(n, p)
  BY DEF PoolInv, PathExists
<1> USE PoolAssumption
<1>2. ASSUME UNCHANGED <<slot_next, pool_live, m_next_free>> PROVE PoolInv'
  <2>1. Path(n, p)'
    BY <1>1, <1>2 DEF Path, PoolSlots
  <2>2. PoolTyped'
    BY <1>2 DEF PoolInv, PoolTyped, PoolSlots
  <2> QED
    BY <2>1, <2>2 DEF PoolInv, PathExists
<1>3. CASE Allocate
  <2>1. CASE m_next_free = NullSlot
    <3>1. UNCHANGED <<slot_next, pool_live, m_next_free>>
      BY <1>3, <2>1 DEF Allocate, PoolSlots
    <3> QED
      BY <1>2, <3>1
  <2>2. CASE m_next_free # NullSlot
    <3> DEFINE q == [i \in 0 .. n - 1 |-> p[i + 1]]
    <3>1. /\ m_next_free \in PoolSlots
          /\ UNCHANGED slot_next
          /\ m_next_free' = slot_next[m_next_free]
          /\ pool_live' = pool_live \cup {m_next_free}
      BY <1>3, <2>2 DEF Allocate, Constructed, PoolInv, PoolTyped
    <3>2. n # 0 /\ m_next_free = p[0] /\ m_next_free' = p[1]
      BY <1>1, <2>2, <3>1 DEF Path
    <3>3. PoolTyped'
      BY <1>1, <3>1, <3>2 DEF PoolInv, PoolTyped, Path
    <3>4. /\ n - 1 \in Nat /\ q \in [0 .. n - 1 -> PoolSlots \cup {NullSlot}]
          /\ q[0] = m_next_free' /\ q[n - 1] = NullSlot
      BY <1>1, <3>2 DEF Path
    <3>5. \A i \in 0 .. (n - 1) - 1 :
            q[i] \in PoolSlots \ pool_live' /\ slot_next'[q[i]] = q[i + 1]
      BY <1>1, <3>1, <3>2 DEF Path
    <3>6. \A i, j \in 0 .. (n - 1) - 1 : q[i] = q[j] => i = j
      BY <1>1, <3>2 DEF Path
    <3>7. ASSUME NEW s \in PoolSlots \ pool_live'
          PROVE  \E i \in 0 .. (n - 1) - 1 : q[i] = s
      <4>1. PICK i \in 0 .. n - 1 : p[i] = s
        BY <1>1, <3>1 DEF Path
      <4>2. i # 0
        BY <3>1, <3>2, <4>1
      <4>3. i - 1 \in 0 .. (n - 1) - 1 /\ q[i - 1] = p[i]
        BY <1>1, <4>1, <4>2 DEF Path
      <4> QED
        BY <4>1, <4>3
    <3>8. Path(n - 1, q)'
      <4> HIDE DEF q
      <4> QED
        BY <3>4, <3>5, <3>6, <3>7 DEF Path, PoolSlots
    <3> QED
      BY <3>3, <3>8 DEF PoolInv, PathExists
  <2> QED
    BY <2>1, <2>2
<1>4. CASE AllocateThrows
  BY <1>4, <1>2 DEF AllocateThrows, Constructed
<1>5. ASSUME NEW s \in PoolSlots, UseObject(s) PROVE PoolInv'
  <2>1. PoolTyped'
    BY <1>5 DEF UseObject, PoolInv, PoolTyped
  <2>2. Path(n, p)'
    BY <1>1, <1>5 DEF UseObject, PoolInv, PoolTyped, Path, PoolSlots
  <2> QED
    BY <2>1, <2>2 DEF PoolInv, PathExists
<1>6. ASSUME NEW s \in PoolSlots, Deallocate(s) PROVE PoolInv'
  <2> DEFINE q == [i \in 0 .. n + 1 |-> IF i = 0 THEN s ELSE p[i - 1]]
  <2>1. /\ s \in pool_live /\ pool_live' = pool_live \ {s}
        /\ slot_next' = [slot_next EXCEPT ![s] = m_next_free]
        /\ m_next_free' = s
    BY <1>6 DEF Deallocate
  <2>2. PoolTyped'
    BY <2>1 DEF PoolInv, PoolTyped
  <2>3. /\ n + 1 \in Nat /\ q \in [0 .. n + 1 -> PoolSlots \cup {NullSlot}]
        /\ q[0] = m_next_free' /\ q[n + 1] = NullSlot
    BY <1>1, <2>1 DEF Path
  <2>4. ASSUME NEW i \in 0 .. (n + 1) - 1
        PROVE  q[i] \in PoolSlots \ pool_live' /\ slot_next'[q[i]] = q[i + 1]
    <3>1. CASE i = 0
      BY <1>1, <2>1, <3>1 DEF Path, PoolInv, PoolTyped
    <3>2. CASE i # 0
      <4>1. i - 1 \in 0 .. n - 1 /\ q[i] = p[i - 1] /\ q[i + 1] = p[i]
        BY <1>1, <3>2 DEF Path
      <4>2. p[i - 1] \in PoolSlots \ pool_live /\ slot_next[p[i - 1]] = p[i]
        BY <1>1, <4>1 DEF Path
      <4> QED
        BY <2>1, <4>1, <4>2 DEF PoolInv, PoolTyped
    <3> QED
      BY <3>1, <3>2
  <2>5. ASSUME NEW i \in 0 .. (n + 1) - 1, NEW j \in 0 .. (n + 1) - 1, q[i] = q[j]
        PROVE  i = j
    BY <1>1, <2>1, <2>5 DEF Path
  <2>6. ASSUME NEW r \in PoolSlots \ pool_live'
        PROVE  \E i \in 0 .. (n + 1) - 1 : q[i] = r
    <3>1. CASE r = s
      BY <1>1, <3>1 DEF Path
    <3>2. CASE r # s
      <4>1. PICK i \in 0 .. n - 1 : p[i] = r
        BY <1>1, <2>1, <3>2 DEF Path
      <4>2. i + 1 \in 0 .. (n + 1) - 1 /\ q[i + 1] = r
        BY <1>1, <4>1 DEF Path
      <4> QED
        BY <4>2
    <3> QED
      BY <3>1, <3>2
  <2>7. Path(n + 1, q)'
    <3> HIDE DEF q
    <3> QED
      BY <2>3, <2>4, <2>5, <2>6 DEF Path, PoolSlots
  <2> QED
    BY <2>2, <2>7 DEF PoolInv, PathExists
<1>7. CASE UNCHANGED poolVars
  BY <1>7, <1>2 DEF poolVars
<1> QED
  BY <1>3, <1>4, <1>5, <1>6, <1>7 DEF PoolNext

--------------------------------------------------------------------------------
LEMMA InitPool == PoolInit => Pool!Init
BY DEF PoolInit, Pool!Init

\* Every step of the free list is one of the set of slots, or changes neither.
LEMMA StepIsPoolStep == PoolInv /\ [PoolNext]_poolVars => [Pool!Next]_(Pool!vars)
<1> SUFFICES ASSUME PoolInv, [PoolNext]_poolVars PROVE [Pool!Next]_(Pool!vars)
  OBVIOUS
<1> USE HeadIsFree DEF Pool!Next, Pool!vars
<1>1. CASE Allocate
  BY <1>1, PoolAssumption DEF Allocate, Pool!Allocate, PoolSlots
<1>2. CASE AllocateThrows
  <2>1. m_next_free # NullSlot
    <3>1. m_next_free \in PoolSlots
      BY <1>2 DEF AllocateThrows
    <3>2. NullSlot \notin PoolSlots
      BY PoolAssumption DEF PoolSlots
    <3> QED
      BY <3>1, <3>2
  <2>2. pool_live # PoolSlots
    BY <1>2, <2>1
  <2> QED
    BY <1>2, <2>2 DEF AllocateThrows, Pool!Throw
<1>3. ASSUME NEW s \in PoolSlots, UseObject(s) PROVE [Pool!Next]_(Pool!vars)
  BY <1>3 DEF UseObject
<1>4. ASSUME NEW s \in PoolSlots, Deallocate(s) PROVE [Pool!Next]_(Pool!vars)
  BY <1>4 DEF Deallocate, Pool!Deallocate
<1>5. CASE UNCHANGED poolVars
  BY <1>5 DEF poolVars
<1> QED
  BY <1>1, <1>2, <1>3, <1>4, <1>5 DEF PoolNext

\* No slot is handed out twice, and allocation fails only when all are taken, for
\* every capacity.
THEOREM FreeListIsPool == ASSUME ~ConstructorWrites PROVE PoolSpec => ImplementsPool
<1>1. PoolInv /\ [PoolNext]_poolVars => PoolInv'
  BY PoolNextInv
<1> QED
  BY <1>1, PoolInitInv, InitPool, StepIsPoolStep, PTL DEF PoolSpec, ImplementsPool, Pool!Spec

\* What the free list is, from what it was up to the place before.
Links(f) ==
  [i \in 0 .. PoolCapacity |->
     IF i = 0 THEN m_next_free
     ELSE IF f[i - 1] \in PoolSlots THEN slot_next[f[i - 1]] ELSE NullSlot]

\* There is only one such list.
LEMMA FreeListIs == ASSUME NEW g, g = Links(g) PROVE FreeList = g
<1> USE PoolAssumption
<1>1. FreeList = CHOOSE f : f = Links(f)
  BY DEF FreeList, Links
<1>2. FreeList = Links(FreeList)
  <2>1. \E f : f = Links(f)
    OBVIOUS
  <2>2. (CHOOSE f : f = Links(f)) = Links(CHOOSE f : f = Links(f))
    BY <2>1
  <2> QED
    BY <1>1, <2>2
<1> DEFINE S == {i \in Nat : i \in 0 .. PoolCapacity => FreeList[i] = g[i]}
<1>3. 0 \in S
  <2>1. Links(FreeList)[0] = m_next_free /\ Links(g)[0] = m_next_free
    BY DEF Links
  <2> QED
    BY <1>2, <2>1
<1>4. ASSUME NEW n \in Nat, n \in S PROVE n + 1 \in S
  <2> SUFFICES ASSUME n + 1 \in 0 .. PoolCapacity PROVE FreeList[n + 1] = g[n + 1]
    OBVIOUS
  <2>1. FreeList[n] = g[n]
    BY <1>4
  <2>2. Links(FreeList)[n + 1] = Links(g)[n + 1]
    BY <2>1 DEF Links
  <2> QED
    BY <1>2, <2>2
<1>5. \A i \in 0 .. PoolCapacity : FreeList[i] = g[i]
  <2>1. Nat \subseteq S
    <3> HIDE DEF S
    <3> QED
      BY <1>3, <1>4, Induction
  <2> QED
    BY <2>1
<1>6. /\ FreeList = [i \in 0 .. PoolCapacity |-> FreeList[i]]
      /\ g = [i \in 0 .. PoolCapacity |-> g[i]]
  BY <1>2 DEF Links
<1> QED
  BY <1>5, <1>6

\* The path has a link for every free slot.
LEMMA PathLength ==
  ASSUME PoolInv, NEW n, NEW p, Path(n, p)
  PROVE  n <= PoolCapacity /\ Cardinality(PoolSlots \ pool_live) = n
<1> USE PoolAssumption
<1> DEFINE free == PoolSlots \ pool_live
<1> DEFINE f == [i \in 1 .. n |-> p[i - 1]]
<1>1. n \in Nat
  BY DEF Path
<1>2. f \in Injection(1 .. n, free)
  <2>1. \A i \in 1 .. n : i - 1 \in 0 .. n - 1
    BY <1>1
  <2>2. f \in [1 .. n -> free]
    BY <2>1 DEF Path
  <2>3. \A i, j \in 1 .. n : f[i] = f[j] => i = j
    BY <1>1, <2>1 DEF Path
  <2> QED
    BY <2>2, <2>3 DEF Injection, IsInjective
<1>3. f \in Surjection(1 .. n, free)
  <2>1. ASSUME NEW s \in free PROVE \E i \in 1 .. n : f[i] = s
    <3>1. PICK i \in 0 .. n - 1 : p[i] = s
      BY DEF Path
    <3>2. i + 1 \in 1 .. n /\ f[i + 1] = s
      BY <1>1, <3>1
    <3> QED
      BY <3>2
  <2>2. f \in [1 .. n -> free]
    BY <1>2 DEF Injection
  <2> QED
    BY <2>1, <2>2 DEF Surjection
<1>4. ExistsBijection(1 .. n, free)
  BY <1>2, <1>3 DEF ExistsBijection, Bijection
<1>5. Cardinality(free) = n
  <2> HIDE DEF free
  <2> QED
    BY <1>1, <1>4, FS_CountingElements
<1>6. IsFiniteSet(PoolSlots) /\ Cardinality(PoolSlots) = PoolCapacity
  <2>1. 0 \in Int /\ PoolCapacity - 1 \in Int
    OBVIOUS
  <2>2. Cardinality(PoolSlots) = IF 0 > PoolCapacity - 1 THEN 0 ELSE PoolCapacity - 1 - 0 + 1
    BY <2>1, FS_Interval DEF PoolSlots
  <2> QED
    BY <2>1, <2>2, FS_Interval DEF PoolSlots
<1>7. Cardinality(free) <= Cardinality(PoolSlots)
  <2>1. free \in SUBSET PoolSlots
    OBVIOUS
  <2> HIDE DEF free
  <2> QED
    BY <1>6, <2>1, FS_Subset
<1> QED
  BY <1>5, <1>6, <1>7

LEMMA PathIsFreeList == PoolInv => FreeListConsistent
<1> SUFFICES ASSUME PoolInv PROVE FreeListConsistent
  OBVIOUS
<1> USE PoolAssumption
<1>1. PICK n, p : Path(n, p)
  BY DEF PoolInv, PathExists
<1> DEFINE g == [i \in 0 .. PoolCapacity |-> IF i <= n THEN p[i] ELSE NullSlot]
<1>2. n \in 0 .. PoolCapacity /\ Cardinality(PoolSlots \ pool_live) = n
  <2>1. n \in Nat
    BY <1>1 DEF Path
  <2> QED
    BY <1>1, <2>1, PathLength
<1>3. NullSlot \notin PoolSlots
  BY DEF PoolSlots
<1>4. g = Links(g)
  <2>1. ASSUME NEW i \in 0 .. PoolCapacity PROVE g[i] = Links(g)[i]
    <3>1. CASE i = 0
      BY <1>1, <1>2, <3>1 DEF Links, Path
    <3>2. CASE i # 0 /\ i <= n
      <4>1. i - 1 \in 0 .. n - 1 /\ (i - 1) + 1 = i /\ g[i - 1] = p[i - 1]
        BY <1>2, <3>2
      <4>2. p[i - 1] \in PoolSlots /\ slot_next[p[i - 1]] = p[i]
        BY <1>1, <4>1 DEF Path
      <4> QED
        BY <3>2, <4>1, <4>2 DEF Links
    <3>3. CASE i > n
      <4>1. i - 1 \in 0 .. PoolCapacity /\ i # 0 /\ g[i - 1] = NullSlot
        BY <1>1, <1>2, <3>3 DEF Path
      <4> QED
        BY <1>2, <1>3, <3>3, <4>1 DEF Links
    <3> QED
      BY <1>2, <3>1, <3>2, <3>3
  <2>2. Links(g) = [i \in 0 .. PoolCapacity |-> Links(g)[i]]
    BY DEF Links
  <2>3. g = [i \in 0 .. PoolCapacity |-> g[i]]
    OBVIOUS
  <2> HIDE DEF g
  <2> QED
    BY <2>1, <2>2, <2>3
<1>5. FreeList = g
  <2> HIDE DEF g
  <2> QED
    BY <1>4, FreeListIs
<1>6. FreeList[n] = NullSlot
  BY <1>1, <1>2, <1>5 DEF Path
<1>7. ASSUME NEW i \in 0 .. PoolCapacity, FreeList[i] # NullSlot
      PROVE  FreeList[i] \in PoolSlots \ pool_live
  BY <1>1, <1>2, <1>5, <1>7 DEF Path
<1>8. ASSUME NEW s \in PoolSlots \ pool_live
      PROVE  \E i \in 0 .. PoolCapacity : FreeList[i] = s
  BY <1>1, <1>2, <1>5 DEF Path
<1>9. {FreeList[i] : i \in 0 .. PoolCapacity} \ {NullSlot} = PoolSlots \ pool_live
  BY <1>3, <1>7, <1>8
<1> QED
  BY <1>2, <1>6, <1>9 DEF FreeListConsistent

\* Whatever is allocated and given back: along the links from m_next_free every free
\* slot is reached once, no slot in use is, and the last link is the null pointer.
THEOREM FreeListStaysConsistent == ASSUME ~ConstructorWrites PROVE PoolSpec => []FreeListConsistent
<1>1. PoolInv /\ [PoolNext]_poolVars => PoolInv'
  BY PoolNextInv
<1> QED
  BY <1>1, PoolInitInv, PathIsFreeList, PTL DEF PoolSpec

--------------------------------------------------------------------------------
(* CompileTimeGcd: the common divisors of what the templates still have to divide *)
(* are those of their arguments.                                                   *)

LEMMA DividesBy ==
  ASSUME NEW d \in Nat, d # 0, NEW n \in Nat, NEW q \in Int, d * q = n
  PROVE  Divides(d, n)
<1>1. q >= 0
  <2> SUFFICES ASSUME q < 0 PROVE FALSE
    OBVIOUS
  <2>1. d * q < 0
    OBVIOUS
  <2> QED
    BY <2>1
<1>2. q <= d * q
  BY <1>1
<1> QED
  BY <1>1, <1>2 DEF Divides

LEMMA DividesZero == \A d \in Nat : Divides(d, 0)
BY DEF Divides

LEMMA ZeroDividesOnlyZero == \A n \in Nat : Divides(0, n) => n = 0
BY DEF Divides

LEMMA DividesItself == \A n \in Nat : Divides(n, n)
<1> SUFFICES ASSUME NEW n \in Nat PROVE \E q \in 0 .. n : n * q = n
  BY DEF Divides
<1>1. CASE n = 0
  BY <1>1
<1>2. CASE n # 0
  <2>1. 1 \in 0 .. n /\ n * 1 = n
    BY <1>2
  <2> QED
    BY <2>1
<1> QED
  BY <1>1, <1>2

\* A step of Euclid's algorithm keeps the common divisors.
LEMMA RemainderKeepsDivisors ==
  ASSUME NEW a \in Nat, NEW b \in Nat, b # 0, NEW d \in Nat
  PROVE  Divides(d, a) /\ Divides(d, b) <=> Divides(d, b) /\ Divides(d, a % b)
<1> DEFINE k == a \div b
<1> DEFINE r == a % b
<1>1. k \in Int /\ r \in Nat /\ a = b * k + r
  OBVIOUS
<1> HIDE DEF k, r
<1>2. CASE d = 0
  BY <1>2, ZeroDividesOnlyZero
<1>3. ASSUME d # 0, Divides(d, b) PROVE Divides(d, a) <=> Divides(d, r)
  <2>1. PICK q \in 0 .. b : d * q = b
    BY <1>3 DEF Divides
  <2>2. ASSUME Divides(d, a) PROVE Divides(d, r)
    <3>1. PICK p \in 0 .. a : d * p = a
      BY <2>2 DEF Divides
    <3>2. d * (p - q * k) = r
      <4>1. d * (p - q * k) = d * p - (d * q) * k
        BY <1>1
      <4> QED
        BY <4>1, <1>1, <2>1, <3>1
    <3>3. p - q * k \in Int
      BY <1>1
    <3> QED
      BY <1>1, <1>3, <3>2, <3>3, DividesBy
  <2>3. ASSUME Divides(d, r) PROVE Divides(d, a)
    <3>1. PICK p \in 0 .. r : d * p = r
      BY <2>3 DEF Divides
    <3>2. d * (p + q * k) = a
      <4>1. d * (p + q * k) = d * p + (d * q) * k
        BY <1>1, <3>1
      <4> QED
        BY <4>1, <1>1, <2>1, <3>1
    <3>3. p + q * k \in Int
      BY <1>1, <3>1
    <3> QED
      BY <1>1, <1>3, <3>2, <3>3, DividesBy
  <2> QED
    BY <2>2, <2>3
<1> QED
  BY <1>2, <1>3 DEF r

Argument(i) == Magnitude(gcd_args[i])

\* The pair at hand has the common divisors of the arguments.
GcdInv ==
  gcd_status \in {"gcd", "done"} =>
    /\ gcd_a \in Nat /\ gcd_b \in Nat
    /\ Argument(1) \in Nat /\ Argument(2) \in Nat
    /\ \A d \in Nat : Divides(d, gcd_a) /\ Divides(d, gcd_b)
                        <=> Divides(d, Argument(1)) /\ Divides(d, Argument(2))
    /\ gcd_status = "done" => gcd_b = 0

LEMMA GcdInitInv == GcdInit => GcdInv
BY DEF GcdInit, GcdInv

LEMMA GcdNextInv == GcdInv /\ [GcdNext]_gcdVars => GcdInv'
<1> SUFFICES ASSUME GcdInv, [GcdNext]_gcdVars PROVE GcdInv'
  OBVIOUS
<1>1. CASE HandleSigns
  <2>1. gcd_args'[1] \in Int /\ gcd_args'[2] \in Int
    BY <1>1 DEF HandleSigns, Signed
  <2> QED
    BY <1>1, <2>1 DEF HandleSigns, GcdInv, Argument, Magnitude
<1>2. CASE Instantiate
  <2>1. /\ gcd_a \in Nat /\ gcd_b \in Nat /\ gcd_b # 0 /\ gcd_a % gcd_b \in Nat
        /\ gcd_a' = gcd_b /\ gcd_b' = gcd_a % gcd_b /\ UNCHANGED <<gcd_args, gcd_status>>
        /\ gcd_status = "gcd"
    BY <1>2 DEF Instantiate, GcdInv
  <2>2. Argument(1)' = Argument(1) /\ Argument(2)' = Argument(2)
    BY <2>1 DEF Argument
  <2>3. \A d \in Nat : Divides(d, gcd_a) /\ Divides(d, gcd_b)
                         <=> Divides(d, gcd_a') /\ Divides(d, gcd_b')
    BY <2>1, RemainderKeepsDivisors
  <2> QED
    BY <2>1, <2>2, <2>3 DEF GcdInv
<1>3. CASE Finish
  BY <1>3 DEF Finish, GcdInv, Argument
<1>4. CASE UNCHANGED gcdVars
  BY <1>4 DEF gcdVars, GcdInv, Argument
<1> QED
  BY <1>1, <1>2, <1>3, <1>4 DEF GcdNext

\* For integers of any width: what the templates end with divides both arguments,
\* and is divided by whatever does.
THEOREM TemplateComputesGcd == GcdSpec => []ResultIsGcd
<1>1. GcdInv => ResultIsGcd
  <2> SUFFICES ASSUME GcdInv, gcd_status = "done"
               PROVE  /\ \A i \in {1, 2} : Divides(gcd_a, Argument(i))
                      /\ \A d \in Nat : (\A i \in {1, 2} : Divides(d, Argument(i)))
                                          => Divides(d, gcd_a)
    BY DEF ResultIsGcd, Argument
  <2>1. gcd_a \in Nat /\ gcd_b = 0
    BY DEF GcdInv
  <2>2. Divides(gcd_a, gcd_a) /\ Divides(gcd_a, gcd_b)
    BY <2>1, DividesItself, DividesZero
  <2> QED
    BY <2>1, <2>2 DEF GcdInv
<1> QED
  BY <1>1, GcdInitInv, GcdNextInv, PTL DEF GcdSpec

--------------------------------------------------------------------------------
(* Fibonacci, for every type's maximum: the limit that is found is the last number *)
(* of the sequence that fits.                                                      *)

\* The numbers of the sequence up to the n-th.
FibUpTo(f, n) ==
  /\ f \in [0 .. n -> Nat]
  /\ \A i \in 0 .. n : f[i] = IF i < 2 THEN i ELSE f[i - 1] + f[i - 2]

LEMMA FibUpToExists == \A n \in Nat : \E f : FibUpTo(f, n)
<1> DEFINE S == {n \in Nat : \E f : FibUpTo(f, n)}
<1>1. 0 \in S
  <2>1. FibUpTo([i \in 0 .. 0 |-> 0], 0)
    BY DEF FibUpTo
  <2> QED
    BY <2>1
<1>2. ASSUME NEW n \in Nat, n \in S PROVE n + 1 \in S
  <2>1. PICK f : FibUpTo(f, n)
    BY <1>2
  <2> DEFINE last == IF n = 0 THEN 1 ELSE f[n] + f[n - 1]
  <2> DEFINE g == [i \in 0 .. n + 1 |-> IF i <= n THEN f[i] ELSE last]
  <2>2. last \in Nat
    BY <2>1 DEF FibUpTo
  <2>3. g \in [0 .. n + 1 -> Nat]
    BY <2>1, <2>2 DEF FibUpTo
  <2>4. ASSUME NEW i \in 0 .. n + 1 PROVE g[i] = IF i < 2 THEN i ELSE g[i - 1] + g[i - 2]
    <3>1. CASE i <= n
      BY <2>1, <3>1 DEF FibUpTo
    <3>2. CASE i = n + 1
      <4>1. CASE n = 0
        BY <3>2, <4>1
      <4>2. CASE n # 0
        <5>1. g[i - 1] = f[n] /\ g[i - 2] = f[n - 1] /\ ~(i < 2) /\ g[i] = last
          BY <3>2, <4>2
        <5> QED
          BY <4>2, <5>1
      <4> QED
        BY <4>1, <4>2
    <3> QED
      BY <3>1, <3>2
  <2>5. FibUpTo(g, n + 1)
    <3> HIDE DEF g
    <3> QED
      BY <2>3, <2>4 DEF FibUpTo
  <2> QED
    BY <2>5
<1>3. Nat \subseteq S
  <2> HIDE DEF S
  <2> QED
    BY <1>1, <1>2, Induction
<1> QED
  BY <1>3

LEMMA FibUpToAgree ==
  ASSUME NEW m \in Nat, NEW n \in Nat, NEW f, NEW g, FibUpTo(f, m), FibUpTo(g, n)
  PROVE  \A i \in Nat : i <= m /\ i <= n => f[i] = g[i]
<1> DEFINE Same(i) == i <= m /\ i <= n => f[i] = g[i]
<1> DEFINE S == {i \in Nat : Same(i) /\ Same(i + 1)}
<1>1. 0 \in S
  BY DEF FibUpTo
<1>2. ASSUME NEW i \in Nat, i \in S PROVE i + 1 \in S
  <2>1. Same(i) /\ Same(i + 1)
    BY <1>2
  <2>2. ASSUME i + 2 <= m, i + 2 <= n PROVE f[i + 2] = g[i + 2]
    <3>1. f[i + 1] = g[i + 1] /\ f[i] = g[i]
      BY <2>1, <2>2
    <3>2. i + 2 \in 0 .. m /\ i + 2 \in 0 .. n /\ (i + 2) - 1 = i + 1 /\ (i + 2) - 2 = i
          /\ ~(i + 2 < 2)
      BY <2>2
    <3>3. f[i + 2] = f[i + 1] + f[i] /\ g[i + 2] = g[i + 1] + g[i]
      BY <3>2 DEF FibUpTo
    <3> QED
      BY <3>1, <3>3
  <2>3. (i + 1) + 1 = i + 2
    OBVIOUS
  <2> QED
    BY <2>1, <2>2, <2>3
<1>3. Nat \subseteq S
  <2> HIDE DEF S
  <2> QED
    BY <1>1, <1>2, Induction
<1> QED
  BY <1>3

\* F is what its equation says.
LEMMA FibonacciEquation ==
  /\ F \in [Nat -> Nat]
  /\ F[0] = 0 /\ F[1] = 1
  /\ \A n \in Nat : F[n + 2] = F[n + 1] + F[n]
<1> DEFINE Step(f) == [n \in Nat |-> IF n < 2 THEN n ELSE f[n - 1] + f[n - 2]]
<1> DEFINE part == [n \in Nat |-> CHOOSE f : FibUpTo(f, n)]
<1> DEFINE g == [n \in Nat |-> part[n][n]]
<1>1. \A n \in Nat : FibUpTo(part[n], n)
  BY FibUpToExists
<1> HIDE DEF part
<1>2. ASSUME NEW n \in Nat PROVE g[n] \in Nat
  BY <1>1 DEF FibUpTo
<1>3. ASSUME NEW n \in Nat PROVE g[n] = IF n < 2 THEN n ELSE g[n - 1] + g[n - 2]
  <2>1. part[n][n] = IF n < 2 THEN n ELSE part[n][n - 1] + part[n][n - 2]
    BY <1>1 DEF FibUpTo
  <2>2. CASE n < 2
    BY <2>1, <2>2
  <2>3. CASE ~(n < 2)
    <3>1. n - 1 \in Nat /\ n - 2 \in Nat
      BY <2>3
    <3>2. part[n][n - 1] = part[n - 1][n - 1]
      BY <1>1, <3>1, FibUpToAgree
    <3>3. part[n][n - 2] = part[n - 2][n - 2]
      BY <1>1, <3>1, FibUpToAgree
    <3> QED
      BY <2>1, <2>3, <3>1, <3>2, <3>3
  <2> QED
    BY <2>2, <2>3
<1>4. g = Step(g)
  <2>1. \A n \in Nat : g[n] = Step(g)[n]
    BY <1>3
  <2>2. Step(g) = [n \in Nat |-> Step(g)[n]] /\ g = [n \in Nat |-> g[n]]
    OBVIOUS
  <2> HIDE DEF g, Step
  <2> QED
    BY <2>1, <2>2
<1>5. F = Step(F)
  <2>1. F = CHOOSE f : f = Step(f)
    BY DEF F
  <2>2. \E f : f = Step(f)
    BY <1>4
  <2> HIDE DEF Step
  <2> QED
    BY <2>1, <2>2
<1>6. \A n \in Nat : F[n] = IF n < 2 THEN n ELSE F[n - 1] + F[n - 2]
  BY <1>5
<1>7. F[0] = 0 /\ F[1] = 1 /\ \A n \in Nat : F[n + 2] = F[n + 1] + F[n]
  <2>1. ASSUME NEW n \in Nat PROVE F[n + 2] = F[n + 1] + F[n]
    <3>1. n + 2 \in Nat /\ ~(n + 2 < 2) /\ (n + 2) - 1 = n + 1 /\ (n + 2) - 2 = n
      OBVIOUS
    <3> QED
      BY <1>6, <3>1
  <2> QED
    BY <1>6, <2>1
<1>8. Nat \subseteq {n \in Nat : F[n] \in Nat /\ F[n + 1] \in Nat}
  <2> DEFINE S == {n \in Nat : F[n] \in Nat /\ F[n + 1] \in Nat}
  <2>1. 0 \in S
    BY <1>7
  <2>2. ASSUME NEW n \in Nat, n \in S PROVE n + 1 \in S
    <3>1. F[n] \in Nat /\ F[n + 1] \in Nat /\ F[n + 2] = F[n + 1] + F[n] /\ (n + 1) + 1 = n + 2
      BY <1>7, <2>2
    <3> QED
      BY <3>1
  <2> HIDE DEF S
  <2>3. Nat \subseteq S
    BY <2>1, <2>2, Induction
  <2> QED
    BY <2>3 DEF S
<1> QED
  <2>1. F = [n \in Nat |-> F[n]]
    BY <1>5
  <2> QED
    BY <1>7, <1>8, <2>1

LEMMA FibonacciSum ==
  ASSUME NEW k \in Nat
  PROVE  F[k] \in Nat /\ F[k + 1] \in Nat /\ F[k + 2] \in Nat /\ F[k + 2] = F[k + 1] + F[k]
<1>1. k + 1 \in Nat /\ k + 2 \in Nat
  OBVIOUS
<1>2. F[k] \in Nat /\ F[k + 1] \in Nat /\ F[k + 2] \in Nat
  BY <1>1, FibonacciEquation, Zenon
<1>3. F[k + 2] = F[k + 1] + F[k]
  BY FibonacciEquation, Zenon
<1> QED
  BY <1>2, <1>3

LEMMA FibonacciFirst == F[0] = 0 /\ F[1] = 1 /\ F[2] = 1 /\ F[3] = 2
<1>1. F[0] = 0 /\ F[1] = 1
  BY FibonacciEquation
<1>2. F[0 + 2] = F[0 + 1] + F[0] /\ 0 + 2 = 2 /\ 0 + 1 = 1
  BY FibonacciSum
<1>3. F[1 + 2] = F[1 + 1] + F[1] /\ 1 + 2 = 3 /\ 1 + 1 = 2
  BY FibonacciSum
<1> QED
  BY <1>1, <1>2, <1>3

\* The sequence grows.
LEMMA FibonacciGrows ==
  ASSUME NEW m \in Nat
  PROVE  \A n \in Nat : n <= m => F[n] <= F[m]
<1>1. ASSUME NEW n \in Nat PROVE F[n] <= F[n + 1]
  <2>1. CASE n = 0
    BY <2>1, FibonacciFirst
  <2>2. CASE n # 0
    <3>1. n - 1 \in Nat /\ (n - 1) + 2 = n + 1 /\ (n - 1) + 1 = n
      BY <2>2
    <3>2. /\ F[n - 1] \in Nat /\ F[(n - 1) + 1] \in Nat
          /\ F[(n - 1) + 2] = F[(n - 1) + 1] + F[n - 1]
      BY <3>1, FibonacciSum
    <3>3. F[n - 1] \in Nat /\ F[n] \in Nat /\ F[n + 1] = F[n] + F[n - 1]
      BY <3>1, <3>2
    <3> QED
      BY <3>3
  <2> QED
    BY <2>1, <2>2
<1> DEFINE S == {k \in Nat : \A n \in Nat : n <= k => F[n] <= F[k]}
<1>2. 0 \in S
  BY FibonacciFirst
<1>3. ASSUME NEW k \in Nat, k \in S PROVE k + 1 \in S
  <2>1. ASSUME NEW n \in Nat, n <= k + 1 PROVE F[n] <= F[k + 1]
    <3>1. F[k] <= F[k + 1] /\ F[n] \in Nat /\ F[k] \in Nat /\ F[k + 1] \in Nat
      BY <1>1, FibonacciSum
    <3>2. CASE n = k + 1
      BY <3>1, <3>2
    <3>3. CASE n <= k
      <4>1. F[n] <= F[k]
        BY <1>3, <3>3
      <4> QED
        BY <3>1, <4>1
    <3> QED
      BY <2>1, <3>2, <3>3
  <2> QED
    BY <2>1
<1>4. Nat \subseteq S
  <2> HIDE DEF S
  <2> QED
    BY <1>2, <1>3, Induction
<1> QED
  BY <1>4

\* Only the number before the limit is followed by a sum that wraps.
FibonacciLimit(m) == F[m] <= fib_max /\ F[m + 1] > fib_max

FibonacciInv ==
  /\ fib_pc \in {"start", "limit", "yield", "resume", "done"}
  /\ fib_yields \in Nat
  /\ fib_pc # "start" => fib_max \in Maxima
  /\ fib_pc \in {"start", "limit"} =>
       /\ fib_yields = 0
       /\ \E k \in Nat : fib_current = F[k] /\ fib_next = F[k + 1]
       /\ fib_pc = "start" => fib_next = 1
       /\ fib_pc = "limit" => fib_next <= fib_max
  /\ fib_pc \in {"yield", "resume", "done"} =>
       \E m \in Nat, k \in Nat :
         /\ k <= m
         /\ fib_limit = F[m] /\ FibonacciLimit(m)
         /\ fib_current = F[k]
         /\ k < m => fib_next = F[k + 1]
         /\ fib_yields = IF fib_pc = "yield" THEN k ELSE k + 1
         /\ fib_pc = "done" => k = m

LEMMA FibonacciInitInv == FibonacciInit => FibonacciInv
<1> SUFFICES ASSUME FibonacciInit PROVE FibonacciInv
  OBVIOUS
<1>1. fib_current = F[0] /\ fib_next = F[0 + 1]
  BY FibonacciFirst DEF FibonacciInit
<1> QED
  BY <1>1 DEF FibonacciInit, FibonacciInv

\* The numbers of the sequence are different from 2 on, and the limit of a type is one of those.
LEMMA LimitIsNew ==
  ASSUME NEW m \in Nat, NEW k \in Nat, k < m, fib_max \in Maxima, FibonacciLimit(m)
  PROVE  F[k] < F[m]
<1>1. fib_max \in Nat /\ fib_max >= 2
  BY FibonacciAssumption
<1>2. m >= 3
  <2> SUFFICES ASSUME m + 1 <= 3 PROVE FALSE
    OBVIOUS
  <2>1. F[m + 1] <= F[3] /\ F[m + 1] \in Nat
    BY FibonacciGrows, FibonacciSum
  <2>2. F[3] = 2 /\ F[m + 1] > fib_max
    BY FibonacciFirst DEF FibonacciLimit
  <2> QED
    BY <1>1, <2>1, <2>2
<1>3. m - 2 \in Nat /\ m - 1 \in Nat /\ (m - 2) + 2 = m /\ (m - 2) + 1 = m - 1
  BY <1>2
<1>4. /\ F[m - 2] \in Nat /\ F[(m - 2) + 1] \in Nat
      /\ F[(m - 2) + 2] = F[(m - 2) + 1] + F[m - 2]
  BY <1>3, FibonacciSum
<1>5. F[m - 2] \in Nat /\ F[m - 1] \in Nat /\ F[m] = F[m - 1] + F[m - 2]
  BY <1>3, <1>4
<1>6. F[1] <= F[m - 2] /\ F[k] <= F[m - 1]
  <2>1. 1 <= m - 2 /\ k <= m - 1 /\ 1 \in Nat
    BY <1>2
  <2> QED
    BY <1>3, <2>1, FibonacciGrows
<1>7. F[1] = 1 /\ F[k] \in Nat
  BY FibonacciFirst, FibonacciSum
<1> QED
  BY <1>5, <1>6, <1>7

LEMMA FindLimitKeeps == FibonacciInv /\ FindLimit => FibonacciInv'
<1> SUFFICES ASSUME FibonacciInv, FindLimit PROVE FibonacciInv'
  OBVIOUS
<1>1. PICK k \in Nat : fib_current = F[k] /\ fib_next = F[k + 1]
  BY DEF FindLimit, FibonacciInv
<1>2. /\ fib_pc = "limit" /\ fib_yields = 0 /\ fib_next <= fib_max /\ fib_max \in Maxima
      /\ fib_max' = fib_max /\ fib_yields' = 0
  BY DEF FindLimit, FibonacciInv
<1>3. fib_max \in Nat /\ fib_max >= 2
  BY <1>2, FibonacciAssumption
<1>4. F[k + 2] = F[k + 1] + F[k] /\ F[k] \in Nat /\ F[k + 1] \in Nat /\ F[k + 2] \in Nat
  BY FibonacciSum
<1>5. k + 1 \in Nat /\ (k + 1) + 1 = k + 2
  OBVIOUS
<1>6. CASE fib_max - fib_next < fib_current
  <2>1. F[k + 2] > fib_max /\ F[k + 1] <= fib_max
    BY <1>1, <1>2, <1>3, <1>4, <1>6
  <2>2. FibonacciLimit(k + 1)'
    BY <1>2, <1>5, <2>1 DEF FibonacciLimit
  <2>3. fib_limit' = fib_next /\ fib_pc' = "yield" /\ fib_current' = 0 /\ fib_next' = 1
    BY <1>6 DEF FindLimit
  <2>4. fib_limit' = F[k + 1] /\ fib_current' = F[0] /\ fib_next' = F[0 + 1]
    BY <1>1, <2>3, FibonacciFirst
  <2>5. 0 \in Nat /\ 0 <= k + 1
    OBVIOUS
  <2> QED
    BY <1>2, <1>5, <2>2, <2>3, <2>4, <2>5 DEF FibonacciInv
<1>7. CASE ~(fib_max - fib_next < fib_current)
  <2>1. F[k + 2] <= fib_max
    BY <1>1, <1>2, <1>3, <1>4, <1>7
  <2>2. F[k + 2] % (fib_max + 1) = F[k + 2]
    BY <1>3, <1>4, <2>1
  <2>3. fib_current' = F[k + 1] /\ fib_next' = F[k + 2]
    BY <1>1, <1>4, <1>7, <2>2 DEF FindLimit, Advance
  <2>4. fib_pc' = "limit"
    BY <1>2, <1>7 DEF FindLimit
  <2> QED
    BY <1>2, <1>5, <2>1, <2>3, <2>4 DEF FibonacciInv
<1> QED
  BY <1>6, <1>7

LEMMA YieldKeeps == FibonacciInv /\ Yield => FibonacciInv'
<1> SUFFICES ASSUME FibonacciInv, Yield PROVE FibonacciInv'
  OBVIOUS
<1>1. PICK m \in Nat, k \in Nat :
        /\ k <= m /\ fib_limit = F[m] /\ FibonacciLimit(m)
        /\ fib_current = F[k] /\ (k < m => fib_next = F[k + 1]) /\ fib_yields = k
  BY DEF Yield, FibonacciInv
<1>2. /\ fib_pc' = "resume" /\ fib_yields' = k + 1 /\ fib_max \in Maxima
      /\ UNCHANGED <<fib_max, fib_current, fib_next, fib_limit>>
  BY <1>1 DEF Yield, FibonacciInv
<1>3. FibonacciLimit(m)' /\ k + 1 \in Nat
  BY <1>1, <1>2 DEF FibonacciLimit
<1> QED
  BY <1>1, <1>2, <1>3 DEF FibonacciInv

LEMMA ResumeKeeps == FibonacciInv /\ Resume => FibonacciInv'
<1> SUFFICES ASSUME FibonacciInv, Resume PROVE FibonacciInv'
  OBVIOUS
<1>1. PICK m \in Nat, k \in Nat :
        /\ k <= m /\ fib_limit = F[m] /\ FibonacciLimit(m)
        /\ fib_current = F[k] /\ (k < m => fib_next = F[k + 1]) /\ fib_yields = k + 1
  BY DEF Resume, FibonacciInv
<1>2. fib_max \in Maxima /\ fib_yields' = k + 1 /\ UNCHANGED <<fib_max, fib_limit>>
  BY <1>1 DEF Resume, FibonacciInv
<1>3. fib_max \in Nat
  BY <1>2, FibonacciAssumption
<1>4. FibonacciLimit(m)'
  BY <1>1, <1>2 DEF FibonacciLimit
<1>5. CASE fib_current = fib_limit
  <2>1. F[m] \in Nat /\ F[k] = F[m]
    BY <1>1, <1>5, FibonacciSum
  <2>2. k = m
    BY <1>1, <1>2, <2>1, LimitIsNew
  <2>3. fib_pc' = "done" /\ UNCHANGED <<fib_current, fib_next>>
    BY <1>5 DEF Resume
  <2> QED
    BY <1>1, <1>2, <1>4, <2>2, <2>3 DEF FibonacciInv
<1>6. CASE fib_current # fib_limit
  <2>1. k < m /\ fib_next = F[k + 1]
    BY <1>1, <1>6
  <2>2. /\ F[k + 2] = F[k + 1] + F[k] /\ F[k] \in Nat /\ F[k + 1] \in Nat /\ F[k + 2] \in Nat
        /\ F[m] \in Nat
    BY FibonacciSum
  <2>3. /\ fib_pc' = "yield" /\ fib_current' = F[k + 1]
        /\ fib_next' = F[k + 2] % (fib_max + 1)
    BY <1>1, <1>6, <2>1, <2>2 DEF Resume, Advance
  <2>4. ASSUME k + 1 < m PROVE fib_next' = F[k + 2]
    <3>1. F[k + 2] <= F[m]
      <4>1. k + 2 <= m /\ k + 2 \in Nat
        BY <2>4
      <4> QED
        BY <4>1, FibonacciGrows
    <3>2. F[k + 2] <= fib_max
      BY <1>1, <1>3, <2>2, <3>1 DEF FibonacciLimit
    <3> QED
      BY <1>3, <2>2, <2>3, <3>2
  <2>5. k + 1 \in Nat /\ k + 1 <= m /\ (k + 1) + 1 = k + 2
    BY <2>1
  <2> QED
    BY <1>1, <1>2, <1>4, <2>3, <2>4, <2>5 DEF FibonacciInv
<1> QED
  BY <1>5, <1>6

LEMMA FibonacciNextInv == FibonacciInv /\ [FibonacciNext]_fibonacciVars => FibonacciInv'
<1> SUFFICES ASSUME FibonacciInv, [FibonacciNext]_fibonacciVars PROVE FibonacciInv'
  OBVIOUS
<1>1. CASE InstantiateLimit
  <2>1. PICK k \in Nat : fib_current = F[k] /\ fib_next = F[k + 1]
    BY <1>1 DEF InstantiateLimit, FibonacciInv
  <2>2. /\ fib_pc' = "limit" /\ fib_max' \in Maxima /\ fib_next = 1 /\ fib_yields = 0
        /\ UNCHANGED <<fib_current, fib_next, fib_limit, fib_yields>>
    BY <1>1 DEF InstantiateLimit, FibonacciInv
  <2>3. 1 <= fib_max'
    BY <2>2, FibonacciAssumption
  <2> QED
    BY <2>1, <2>2, <2>3 DEF FibonacciInv
<1>2. CASE UNCHANGED fibonacciVars
  BY <1>2 DEF fibonacciVars, FibonacciInv, FibonacciLimit
<1> QED
  BY <1>1, <1>2, FindLimitKeeps, YieldKeeps, ResumeKeeps DEF FibonacciNext

\* For every type: whatever the consumer takes is the sequence, in order, none of it wrapped,
\* and when the generator ends, its last number is the largest one that fits.
THEOREM GeneratorYieldsFibonacci == FibonacciSpec => []YieldsWholeSequence
<1>1. FibonacciInv => YieldsWholeSequence
  <2> SUFFICES ASSUME FibonacciInv, fib_pc \in {"resume", "done"} PROVE YieldsWholeSequence
    BY DEF YieldsWholeSequence
  <2>1. PICK m \in Nat, k \in Nat :
          /\ k <= m /\ FibonacciLimit(m)
          /\ fib_current = F[k] /\ fib_yields = k + 1 /\ (fib_pc = "done" => k = m)
    BY DEF FibonacciInv
  <2>2. fib_yields - 1 = k
    BY <2>1
  <2> QED
    BY <2>1, <2>2 DEF YieldsWholeSequence, FibonacciLimit
<1> QED
  BY <1>1, FibonacciInitInv, FibonacciNextInv, PTL DEF FibonacciSpec

--------------------------------------------------------------------------------
(* MatrixViews: every view, of any sequence of operations, is inside the matrix,   *)
(* its fields are distinct, and it is the grid that the operations promise.        *)

\* Products, which the steps below never leave to arithmetic on their own.
LEMMA Distribute == \A a, b, c \in Nat : (a + b) * c = a * c + b * c
OBVIOUS

LEMMA Associate == \A a, b, c \in Nat : (a * b) * c = a * (b * c)
OBVIOUS

LEMMA ProductNat == \A a, b \in Nat : a * b \in Nat
OBVIOUS

LEMMA Monotone == \A a, b, c \in Nat : a <= b => a * c <= b * c
OBVIOUS

LEMMA Commute == \A a, b \in Nat : a * b = b * a
OBVIOUS

LEMMA Divided ==
  ASSUME NEW e \in Nat, NEW n \in Nat \ {0}
  PROVE  /\ e \div n \in Nat /\ e % n \in 0 .. n - 1
         /\ e = (e \div n) * n + (e % n)
OBVIOUS

\* Quotient and remainder are unique: counting row by row tells fields apart.
LEMMA Unique ==
  ASSUME NEW n \in Nat \ {0}, NEW a \in Nat, NEW b \in Nat,
         NEW r \in 0 .. n - 1, NEW s \in 0 .. n - 1,
         a * n + r = b * n + s
  PROVE  a = b /\ r = s
<1>1. ~(a < b)
  <2> SUFFICES ASSUME a + 1 <= b PROVE FALSE
    OBVIOUS
  <2>1. (a + 1) * n <= b * n
    BY Monotone
  <2>2. (a + 1) * n = a * n + 1 * n
    BY Distribute
  <2>3. a * n \in Nat /\ b * n \in Nat
    BY ProductNat
  <2> QED
    BY <2>1, <2>2, <2>3
<1>2. ~(b < a)
  <2> SUFFICES ASSUME b + 1 <= a PROVE FALSE
    OBVIOUS
  <2>1. (b + 1) * n <= a * n
    BY Monotone
  <2>2. (b + 1) * n = b * n + 1 * n
    BY Distribute
  <2>3. a * n \in Nat /\ b * n \in Nat
    BY ProductNat
  <2> QED
    BY <2>1, <2>2, <2>3
<1>3. a = b
  BY <1>1, <1>2
<1> QED
  BY <1>3, ProductNat

\* The multiples of step, as many as n / step rounded up, are below n.
LEMMA Ceiling ==
  ASSUME NEW n \in Nat, NEW step \in Nat \ {0}, NEW r \in Nat, r < (n + step - 1) \div step
  PROVE  r * step < n
<1> DEFINE e == n + step - 1
           q == e \div step
<1>1. e \in Nat
  OBVIOUS
<1>2. q \in Nat /\ e % step \in 0 .. step - 1 /\ e = q * step + (e % step)
  BY <1>1, Divided
<1>3. r + 1 <= q
  BY <1>2
<1> HIDE DEF q
<1>4. (r + 1) * step <= q * step
  BY <1>2, <1>3, Monotone
<1>5. (r + 1) * step = r * step + step
  BY Distribute
<1>6. r * step \in Nat /\ q * step \in Nat
  BY <1>2, ProductNat
<1> QED
  BY <1>2, <1>4, <1>5, <1>6

--------------------------------------------------------------------------------
\* What is below the end of std::size_t is held as it is, and nothing is made larger.
LEMMA Held ==
  ASSUME NEW n \in Nat
  PROVE  Size(n) \in Nat /\ Size(n) <= n /\ (~Wraps(n) => Size(n) = n)
<1>1. SizeValues \in Nat \ {0}
  <2>1. MatrixRows * MatrixCols \in Nat
    BY MatrixAssumption, ProductNat
  <2> QED
    BY <2>1, MatrixAssumption
<1>2. n \div SizeValues \in Nat /\ Size(n) \in 0 .. SizeValues - 1
      /\ n = (n \div SizeValues) * SizeValues + Size(n)
  BY <1>1, Divided DEF Size
<1>3. (n \div SizeValues) * SizeValues \in Nat
  BY <1>1, <1>2, ProductNat
<1>4. ASSUME ~Wraps(n) PROVE Size(n) = n
  <2>1. n \in 0 .. SizeValues - 1
    BY <1>1, <1>4 DEF Wraps
  <2>2. 0 * SizeValues + n = n
    BY <1>1
  <2> QED
    BY <1>1, <1>2, <2>1, <2>2, Unique
<1> QED
  BY <1>1, <1>2, <1>3, <1>4

Views == [m_data : Nat, m_rows : Nat, m_cols : Nat, m_row_stride : Nat, m_col_stride : Nat]

Rows(v) == 0 .. v.m_rows - 1
Cols(v) == 0 .. v.m_cols - 1

\* The index in the matrix of the field of v in row r and column c.
Element(v, r, c) == v.m_data + (r * v.m_row_stride + c * v.m_col_stride)

Inside(v) ==
  \A r \in Rows(v), c \in Cols(v) :
    /\ Element(v, r, c) \in 0 .. MatrixRows * MatrixCols - 1
    /\ \A s \in Rows(v), d \in Cols(v) :
         Element(v, r, c) = Element(v, s, d) => r = s /\ c = d

\* The address of a field, though its sums and products wrap.
LEMMA AddressOf ==
  ASSUME NEW v \in Views, Inside(v), NEW r \in Rows(v), NEW c \in Cols(v)
  PROVE  /\ Size(v.m_data + Size(r * v.m_row_stride + c * v.m_col_stride)) = Element(v, r, c)
         /\ r * v.m_row_stride < SizeValues /\ c * v.m_col_stride < SizeValues
<1> DEFINE i == r * v.m_row_stride
           j == c * v.m_col_stride
<1>1. v.m_data \in Nat /\ i \in Nat /\ j \in Nat
  BY ProductNat DEF Views, Rows, Cols
<1>2. v.m_data + (i + j) < SizeValues
  <2>1. v.m_data + (i + j) \in 0 .. MatrixRows * MatrixCols - 1
    BY DEF Inside, Element
  <2>2. MatrixRows * MatrixCols \in Nat
    BY MatrixAssumption, ProductNat
  <2> QED
    BY <2>1, <2>2, MatrixAssumption
<1>3. Element(v, r, c) = v.m_data + (i + j)
  BY DEF Element
<1> HIDE DEF i, j
<1>4. SizeValues \in Nat
  BY MatrixAssumption
<1>5. i + j \in Nat /\ ~Wraps(i + j) /\ i < SizeValues /\ j < SizeValues
  BY <1>1, <1>2, <1>4 DEF Wraps
<1>6. v.m_data + (i + j) \in Nat /\ ~Wraps(v.m_data + (i + j))
  BY <1>1, <1>2, <1>4 DEF Wraps
<1>7. Size(i + j) = i + j /\ Size(v.m_data + (i + j)) = v.m_data + (i + j)
  BY <1>5, <1>6, Held
<1> QED
  BY <1>3, <1>5, <1>7 DEF i, j

\* The arguments that Subview accepts, none of their sums having wrapped, and the place
\* of the first field, if there is one: that of an empty subview may have wrapped.
Subviews(v, row, col, rows, cols, data) ==
  /\ v \in Views /\ Inside(v)
  /\ row \in Nat /\ col \in Nat /\ rows \in Nat /\ cols \in Nat /\ data \in Nat
  /\ row + rows <= v.m_rows /\ col + cols <= v.m_cols
  /\ rows # 0 /\ cols # 0 => data = Element(v, row, col)

\* The fields of a subview are fields of the view.
LEMMA SubviewElements ==
  ASSUME NEW v, NEW row, NEW col, NEW rows, NEW cols, NEW data,
         Subviews(v, row, col, rows, cols, data)
  PROVE  LET w == Make(data, rows, cols, v.m_row_stride, v.m_col_stride)
         IN  /\ w \in Views /\ w.m_rows = rows /\ w.m_cols = cols
             /\ w.m_col_stride = v.m_col_stride
             /\ \A r \in 0 .. rows - 1, c \in 0 .. cols - 1 :
                  /\ row + r \in Rows(v) /\ col + c \in Cols(v)
                  /\ Element(w, r, c) = Element(v, row + r, col + c)
<1> DEFINE w == Make(data, rows, cols, v.m_row_stride, v.m_col_stride)
<1>1. /\ v.m_data \in Nat /\ v.m_rows \in Nat /\ v.m_cols \in Nat
      /\ v.m_row_stride \in Nat /\ v.m_col_stride \in Nat
      /\ row \in Nat /\ col \in Nat /\ rows \in Nat /\ cols \in Nat /\ data \in Nat
      /\ row + rows <= v.m_rows /\ col + cols <= v.m_cols
  BY DEF Subviews, Views
<1>2. row * v.m_row_stride \in Nat /\ col * v.m_col_stride \in Nat
  BY <1>1, ProductNat
<1>4. /\ w \in Views /\ w.m_data = data /\ w.m_rows = rows /\ w.m_cols = cols
      /\ w.m_row_stride = v.m_row_stride /\ w.m_col_stride = v.m_col_stride
  BY <1>1 DEF Make, Views
<1> HIDE DEF w
<1>5. ASSUME NEW r \in 0 .. rows - 1, NEW c \in 0 .. cols - 1
      PROVE  /\ row + r \in Rows(v) /\ col + c \in Cols(v)
             /\ Element(w, r, c) = Element(v, row + r, col + c)
  <2>1. r \in Nat /\ c \in Nat
    OBVIOUS
  <2>2. row + r \in Rows(v) /\ col + c \in Cols(v)
    BY <1>1, <2>1 DEF Rows, Cols
  <2>3. /\ (row + r) * v.m_row_stride = row * v.m_row_stride + r * v.m_row_stride
        /\ (col + c) * v.m_col_stride = col * v.m_col_stride + c * v.m_col_stride
    BY <1>1, <2>1, Distribute
  <2>4. r * v.m_row_stride \in Nat /\ c * v.m_col_stride \in Nat
    BY <1>1, <2>1, ProductNat
  <2>5. w.m_data = Element(v, row, col)
    BY <1>1, <1>4 DEF Subviews
  <2> QED
    BY <1>1, <1>2, <1>4, <2>5, <2>2, <2>3, <2>4 DEF Element
<1> QED
  BY <1>4, <1>5 DEF w

LEMMA TransposeElements ==
  ASSUME NEW v \in Views
  PROVE  LET w == Make(v.m_data, v.m_cols, v.m_rows, v.m_col_stride, v.m_row_stride)
         IN  /\ w \in Views /\ w.m_rows = v.m_cols /\ w.m_cols = v.m_rows
             /\ \A r \in Cols(v), c \in Rows(v) : Element(w, r, c) = Element(v, c, r)
<1> DEFINE w == Make(v.m_data, v.m_cols, v.m_rows, v.m_col_stride, v.m_row_stride)
<1>1. /\ v.m_data \in Nat /\ v.m_rows \in Nat /\ v.m_cols \in Nat
      /\ v.m_row_stride \in Nat /\ v.m_col_stride \in Nat
  BY DEF Views
<1>2. /\ w \in Views /\ w.m_data = v.m_data /\ w.m_rows = v.m_cols /\ w.m_cols = v.m_rows
      /\ w.m_row_stride = v.m_col_stride /\ w.m_col_stride = v.m_row_stride
  BY <1>1 DEF Make, Views
<1> HIDE DEF w
<1>3. ASSUME NEW r \in Cols(v), NEW c \in Rows(v) PROVE Element(w, r, c) = Element(v, c, r)
  <2>1. r * v.m_col_stride \in Nat /\ c * v.m_row_stride \in Nat
    BY <1>1, ProductNat DEF Rows, Cols
  <2> QED
    BY <1>1, <1>2, <2>1 DEF Element
<1> QED
  BY <1>2, <1>3 DEF w

\* A row of a strided view is a row of the view it was made from.
LEMMA StepOf ==
  ASSUME NEW n \in Nat, NEW step \in Nat \ {0}, NEW r \in Nat, r < Grids!Steps(n, step)
  PROVE  r * step \in 0 .. n - 1
<1>1. r * step < n /\ r * step \in Nat
  BY Ceiling, ProductNat DEF Grids!Steps
<1> QED
  BY <1>1

\* The arguments that Stride accepts, and the size of the view it makes, if no sum wrapped.
Strides(v, row_step, col_step, rows, cols) ==
  /\ v \in Views /\ Inside(v) /\ row_step \in Nat \ {0} /\ col_step \in Nat \ {0}
  /\ rows = Grids!Steps(v.m_rows, row_step) /\ cols = Grids!Steps(v.m_cols, col_step)

LEMMA StrideElements ==
  ASSUME NEW v, NEW row_step, NEW col_step, NEW rows, NEW cols,
         Strides(v, row_step, col_step, rows, cols)
  PROVE  LET w == Make(v.m_data, rows, cols,
                       Size(v.m_row_stride * row_step), Size(v.m_col_stride * col_step))
         IN  /\ w \in Views
             /\ w.m_rows = rows /\ w.m_cols = cols
             /\ \A r \in 0 .. rows - 1, c \in 0 .. cols - 1 :
                  /\ r * row_step \in Rows(v) /\ c * col_step \in Cols(v)
                  /\ Element(w, r, c) = Element(v, r * row_step, c * col_step)
<1> DEFINE w == Make(v.m_data, rows, cols,
                     Size(v.m_row_stride * row_step), Size(v.m_col_stride * col_step))
<1>0. /\ v \in Views /\ Inside(v) /\ row_step \in Nat \ {0} /\ col_step \in Nat \ {0}
      /\ rows = Grids!Steps(v.m_rows, row_step) /\ cols = Grids!Steps(v.m_cols, col_step)
  BY DEF Strides
<1>1. /\ v.m_data \in Nat /\ v.m_rows \in Nat /\ v.m_cols \in Nat
      /\ v.m_row_stride \in Nat /\ v.m_col_stride \in Nat
  BY <1>0 DEF Views
<1>2. rows \in Nat /\ cols \in Nat
  <2>1. v.m_rows + row_step - 1 \in Nat /\ v.m_cols + col_step - 1 \in Nat
    BY <1>0, <1>1
  <2> QED
    BY <1>0, <2>1, Divided DEF Grids!Steps
<1>3. Size(v.m_row_stride * row_step) \in Nat /\ Size(v.m_col_stride * col_step) \in Nat
  BY <1>0, <1>1, ProductNat, Held
<1>4. /\ w \in Views /\ w.m_data = v.m_data
      /\ w.m_rows = rows /\ w.m_cols = cols
      /\ w.m_row_stride = Size(v.m_row_stride * row_step)
      /\ w.m_col_stride = Size(v.m_col_stride * col_step)
  BY <1>1, <1>2, <1>3 DEF Make, Views
<1> HIDE DEF w
<1>6. ASSUME NEW r \in 0 .. rows - 1, NEW c \in 0 .. cols - 1
      PROVE  /\ r * row_step \in Rows(v) /\ c * col_step \in Cols(v)
             /\ Element(w, r, c) = Element(v, r * row_step, c * col_step)
  <2>1. r \in Nat /\ r < rows /\ c \in Nat /\ c < cols
    BY <1>0, <1>2
  <2>2. r * row_step \in Rows(v) /\ c * col_step \in Cols(v)
    BY <1>0, <1>1, <2>1, StepOf DEF Rows, Cols
  <2>3. 0 \in Rows(v) /\ 0 \in Cols(v)
    BY <1>1, <2>2 DEF Rows, Cols
  <2>4. r * Size(v.m_row_stride * row_step) = (r * row_step) * v.m_row_stride
    <3>1. r = 0 \/ Size(v.m_row_stride * row_step) = v.m_row_stride * row_step
      <4> SUFFICES ASSUME r # 0 PROVE Size(v.m_row_stride * row_step) = v.m_row_stride * row_step
        OBVIOUS
      <4>1. 1 \in Nat /\ 1 < rows /\ 1 * row_step = row_step
        BY <1>0, <1>2, <2>1
      <4>2. row_step \in Rows(v)
        BY <1>0, <1>1, <4>1, StepOf DEF Rows
      <4>3. row_step * v.m_row_stride < SizeValues
        BY <1>0, <2>3, <4>2, AddressOf
      <4>4. v.m_row_stride * row_step < SizeValues /\ v.m_row_stride * row_step \in Nat
        BY <1>0, <1>1, <4>3, Commute, ProductNat
      <4> QED
        BY <4>4, MatrixAssumption, Held DEF Wraps
    <3>2. r * (v.m_row_stride * row_step) = (r * row_step) * v.m_row_stride
      BY <1>0, <1>1, <2>1, Associate, Commute
    <3>3. CASE r = 0
      BY <1>0, <1>1, <1>3, <3>3
    <3> QED
      BY <3>1, <3>2, <3>3
  <2>5. c * Size(v.m_col_stride * col_step) = (c * col_step) * v.m_col_stride
    <3>1. c = 0 \/ Size(v.m_col_stride * col_step) = v.m_col_stride * col_step
      <4> SUFFICES ASSUME c # 0 PROVE Size(v.m_col_stride * col_step) = v.m_col_stride * col_step
        OBVIOUS
      <4>1. 1 \in Nat /\ 1 < cols /\ 1 * col_step = col_step
        BY <1>0, <1>2, <2>1
      <4>2. col_step \in Cols(v)
        BY <1>0, <1>1, <4>1, StepOf DEF Cols
      <4>3. col_step * v.m_col_stride < SizeValues
        BY <1>0, <2>3, <4>2, AddressOf
      <4>4. v.m_col_stride * col_step < SizeValues /\ v.m_col_stride * col_step \in Nat
        BY <1>0, <1>1, <4>3, Commute, ProductNat
      <4> QED
        BY <4>4, MatrixAssumption, Held DEF Wraps
    <3>2. c * (v.m_col_stride * col_step) = (c * col_step) * v.m_col_stride
      BY <1>0, <1>1, <2>1, Associate, Commute
    <3>3. CASE c = 0
      BY <1>0, <1>1, <1>3, <3>3
    <3> QED
      BY <3>1, <3>2, <3>3
  <2> QED
    BY <1>4, <2>2, <2>4, <2>5 DEF Element
<1> QED
  BY <1>4, <1>6 DEF w

LEMMA CropElements ==
  ASSUME NEW v \in Views, NEW rows \in Nat, NEW cols \in Nat, rows <= v.m_rows, cols <= v.m_cols
  PROVE  LET w == Make(v.m_data, rows, cols, v.m_row_stride, v.m_col_stride)
         IN  /\ w \in Views /\ w.m_rows = rows /\ w.m_cols = cols
             /\ w.m_col_stride = v.m_col_stride
             /\ \A r \in 0 .. rows - 1, c \in 0 .. cols - 1 :
                  /\ r \in Rows(v) /\ c \in Cols(v)
                  /\ Element(w, r, c) = Element(v, r, c)
<1> DEFINE w == Make(v.m_data, rows, cols, v.m_row_stride, v.m_col_stride)
<1>1. /\ w \in Views /\ w.m_data = v.m_data /\ w.m_rows = rows /\ w.m_cols = cols
      /\ w.m_row_stride = v.m_row_stride /\ w.m_col_stride = v.m_col_stride
      /\ v.m_rows \in Nat /\ v.m_cols \in Nat
  BY DEF Views, Make
<1> HIDE DEF w
<1>2. \A r \in 0 .. rows - 1, c \in 0 .. cols - 1 : r \in Rows(v) /\ c \in Cols(v)
  BY <1>1 DEF Rows, Cols
<1>3. \A r, c : Element(w, r, c) = Element(v, r, c)
  BY <1>1 DEF Element
<1> QED
  BY <1>1, <1>2, <1>3 DEF w

\* The row and the column of the e-th field of v, counted row by row.
RowOf(v, e) == e \div v.m_cols
ColOf(v, e) == e % v.m_cols

\* Reshaping keeps the fields in their order, row by row.
LEMMA ReshapeElements ==
  ASSUME NEW v \in Views, NEW rows \in Nat, NEW cols \in Nat, rows * cols = v.m_rows * v.m_cols,
         v.m_row_stride = v.m_cols, v.m_col_stride = 1
  PROVE  LET w == Make(v.m_data, rows, cols, cols, 1)
         IN  /\ w \in Views /\ w.m_rows = rows /\ w.m_cols = cols /\ w.m_col_stride = 1
             /\ \A r \in 0 .. rows - 1, c \in 0 .. cols - 1 :
                  /\ v.m_cols # 0 /\ r * cols + c \in Nat
                  /\ RowOf(v, r * cols + c) \in Rows(v) /\ ColOf(v, r * cols + c) \in Cols(v)
                  /\ Element(w, r, c) = Element(v, RowOf(v, r * cols + c), ColOf(v, r * cols + c))
<1> DEFINE w == Make(v.m_data, rows, cols, cols, 1)
<1>1. v.m_data \in Nat /\ v.m_rows \in Nat /\ v.m_cols \in Nat
  BY DEF Views
<1>2. /\ w \in Views /\ w.m_data = v.m_data /\ w.m_rows = rows /\ w.m_cols = cols
      /\ w.m_row_stride = cols /\ w.m_col_stride = 1
  BY <1>1 DEF Make, Views
<1> HIDE DEF w
<1>3. ASSUME NEW r \in 0 .. rows - 1, NEW c \in 0 .. cols - 1
      PROVE  /\ v.m_cols # 0 /\ r * cols + c \in Nat
             /\ RowOf(v, r * cols + c) \in Rows(v) /\ ColOf(v, r * cols + c) \in Cols(v)
             /\ Element(w, r, c) = Element(v, RowOf(v, r * cols + c), ColOf(v, r * cols + c))
  <2> DEFINE e == r * cols + c
             q == RowOf(v, e)
             m == ColOf(v, e)
  <2>1. r \in Nat /\ c \in Nat /\ r + 1 <= rows /\ c + 1 <= cols
    OBVIOUS
  <2>2. r * cols \in Nat /\ rows * cols \in Nat
    BY <2>1, ProductNat
  <2>3. (r + 1) * cols <= rows * cols /\ (r + 1) * cols = r * cols + cols
    <3>1. (r + 1) * cols = r * cols + 1 * cols
      BY <2>1, Distribute
    <3> QED
      BY <2>1, <3>1, Monotone
  <2>4. e \in Nat /\ e < rows * cols
    BY <2>1, <2>2, <2>3
  <2>5. v.m_cols # 0
    <3> SUFFICES ASSUME v.m_cols = 0 PROVE FALSE
      OBVIOUS
    <3>1. v.m_rows * 0 = 0
      BY <1>1
    <3> QED
      BY <2>2, <2>4, <3>1
  <2>6. q \in Nat /\ m \in 0 .. v.m_cols - 1 /\ e = q * v.m_cols + m
    BY <1>1, <2>4, <2>5, Divided DEF RowOf, ColOf
  <2> HIDE DEF e, q, m
  <2>7. q * v.m_cols \in Nat
    BY <1>1, <2>6, ProductNat
  <2>8. q < v.m_rows
    <3> SUFFICES ASSUME v.m_rows <= q PROVE FALSE
      BY <1>1, <2>6
    <3>1. v.m_rows * v.m_cols <= q * v.m_cols
      BY <1>1, <2>6, Monotone
    <3> QED
      BY <2>2, <2>4, <2>6, <2>7, <3>1
  <2>9. Element(v, q, m) = v.m_data + e
    BY <1>1, <2>6, <2>7 DEF Element
  <2>10. Element(w, r, c) = v.m_data + e
    BY <1>1, <1>2, <2>1, <2>2 DEF Element, e
  <2>11. q \in Rows(v) /\ m \in Cols(v)
    BY <1>1, <2>6, <2>8 DEF Rows, Cols
  <2> QED
    BY <2>4, <2>5, <2>9, <2>10, <2>11 DEF e, q, m
<1> QED
  BY <1>2, <1>3 DEF w

\* The inductive invariant: the columns of a plain view are one apart, which is what reshape
\* relies on.  It is lost where a test passes because a number in it wrapped.
ViewInv ==
  /\ view \in Views
  /\ ~strided => view.m_col_stride = 1
  /\ Inside(view)

MatrixInv == ~overflowed => ViewInv

Gridded(v) ==
  [rows |-> v.m_rows, cols |-> v.m_cols,
   cell |-> [r \in Rows(v) |-> [c \in Cols(v) |-> Element(v, r, c)]]]

LEMMA DistinctFields ==
  ASSUME NEW v, Inside(v),
         NEW r \in Rows(v), NEW c \in Cols(v), NEW s \in Rows(v), NEW d \in Cols(v),
         Element(v, r, c) = Element(v, s, d)
  PROVE  r = s /\ c = d
BY DEF Inside

\* The field of w in row r and column c is the field of v in row R[r][c] and
\* column C[r][c], a different one for every field of w.
Picks(w, v, R, C) ==
  /\ \A r \in Rows(w), c \in Cols(w) :
       /\ R[r][c] \in Rows(v) /\ C[r][c] \in Cols(v)
       /\ Element(w, r, c) = Element(v, R[r][c], C[r][c])
  /\ \A r \in Rows(w), c \in Cols(w), s \in Rows(w), d \in Cols(w) :
       R[r][c] = R[s][d] /\ C[r][c] = C[s][d] => r = s /\ c = d

\* A view of different fields of a view inside the matrix is inside the matrix.
LEMMA PickedInside ==
  ASSUME NEW v, NEW w, NEW R, NEW C, Inside(v), Picks(w, v, R, C)
  PROVE  Inside(w)
<1>1. ASSUME NEW r \in Rows(w), NEW c \in Cols(w)
      PROVE  Element(w, r, c) \in 0 .. MatrixRows * MatrixCols - 1
  BY DEF Inside, Picks
<1>2. ASSUME NEW r \in Rows(w), NEW c \in Cols(w), NEW s \in Rows(w), NEW d \in Cols(w),
             Element(w, r, c) = Element(w, s, d)
      PROVE  r = s /\ c = d
  <2>1. /\ R[r][c] \in Rows(v) /\ C[r][c] \in Cols(v)
        /\ R[s][d] \in Rows(v) /\ C[s][d] \in Cols(v)
        /\ Element(v, R[r][c], C[r][c]) = Element(v, R[s][d], C[s][d])
    BY <1>2 DEF Picks
  <2>2. R[r][c] = R[s][d] /\ C[r][c] = C[s][d]
    BY <2>1, DistinctFields
  <2> QED
    BY <2>2 DEF Picks
<1> QED
  BY <1>1, <1>2 DEF Inside

LEMMA WholeInside == Whole \in Views /\ Inside(Whole) /\ Whole.m_col_stride = 1
<1>1. MatrixRows \in Nat /\ MatrixCols \in Nat
  BY MatrixAssumption
<1>2. /\ Whole \in Views /\ Whole.m_rows = MatrixRows /\ Whole.m_cols = MatrixCols
      /\ Whole.m_col_stride = 1 /\ Whole.m_row_stride = MatrixCols /\ Whole.m_data = 0
  BY <1>1 DEF Whole, Make, Views
<1>3. ASSUME NEW r \in Rows(Whole), NEW c \in Cols(Whole)
      PROVE  /\ Element(Whole, r, c) = r * MatrixCols + c
             /\ r * MatrixCols + c \in 0 .. MatrixRows * MatrixCols - 1
             /\ r \in Nat /\ c \in 0 .. MatrixCols - 1 /\ MatrixCols # 0
  <2>1. r \in Nat /\ c \in Nat /\ r + 1 <= MatrixRows /\ c + 1 <= MatrixCols
    BY <1>1, <1>2 DEF Rows, Cols
  <2>2. r * MatrixCols \in Nat /\ MatrixRows * MatrixCols \in Nat
    BY <1>1, <2>1, ProductNat
  <2>3. (r + 1) * MatrixCols <= MatrixRows * MatrixCols
    BY <1>1, <2>1, Monotone
  <2>4. (r + 1) * MatrixCols = r * MatrixCols + MatrixCols
    <3>1. (r + 1) * MatrixCols = r * MatrixCols + 1 * MatrixCols
      BY <1>1, <2>1, Distribute
    <3> QED
      BY <1>1, <3>1
  <2> QED
    BY <1>1, <1>2, <2>1, <2>2, <2>3, <2>4 DEF Element
<1>4. ASSUME NEW r \in Rows(Whole), NEW c \in Cols(Whole),
             NEW s \in Rows(Whole), NEW d \in Cols(Whole),
             Element(Whole, r, c) = Element(Whole, s, d)
      PROVE  r = s /\ c = d
  <2>1. r * MatrixCols + c = s * MatrixCols + d
    BY <1>3, <1>4
  <2>2. /\ r \in Nat /\ s \in Nat /\ c \in 0 .. MatrixCols - 1 /\ d \in 0 .. MatrixCols - 1
        /\ MatrixCols \in Nat \ {0}
    BY <1>1, <1>3
  <2> QED
    BY <2>1, <2>2, Unique
<1> QED
  BY <1>2, <1>3, <1>4 DEF Inside

\* A subview is inside the matrix, and is the subview of the grid.
LEMMA SubviewKeeps ==
  ASSUME NEW v, NEW row, NEW col, NEW rows, NEW cols, NEW data,
         Subviews(v, row, col, rows, cols, data)
  PROVE  LET w == Make(data, rows, cols, v.m_row_stride, v.m_col_stride)
         IN  /\ w \in Views /\ Inside(w)
             /\ w.m_col_stride = v.m_col_stride
             /\ Gridded(w) = [rows |-> rows, cols |-> cols,
                              cell |-> [r \in 0 .. rows - 1 |-> [c \in 0 .. cols - 1 |->
                                          Gridded(v).cell[row + r][col + c]]]]
<1> DEFINE w == Make(data, rows, cols, v.m_row_stride, v.m_col_stride)
           R == [r \in 0 .. rows - 1 |-> [c \in 0 .. cols - 1 |-> row + r]]
           C == [r \in 0 .. rows - 1 |-> [c \in 0 .. cols - 1 |-> col + c]]
<1>1. /\ w \in Views /\ w.m_rows = rows /\ w.m_cols = cols
      /\ w.m_col_stride = v.m_col_stride
      /\ \A r \in 0 .. rows - 1, c \in 0 .. cols - 1 :
           /\ row + r \in Rows(v) /\ col + c \in Cols(v)
           /\ Element(w, r, c) = Element(v, row + r, col + c)
  BY SubviewElements
<1> HIDE DEF w
<1>2. Rows(w) = 0 .. rows - 1 /\ Cols(w) = 0 .. cols - 1
  BY <1>1 DEF Rows, Cols
<1>3. \A r \in Rows(w), c \in Cols(w) : R[r][c] = row + r /\ C[r][c] = col + c
  BY <1>2
<1> HIDE DEF R, C
<1>4. ASSUME NEW r \in Rows(w), NEW c \in Cols(w), NEW s \in Rows(w), NEW d \in Cols(w),
             R[r][c] = R[s][d], C[r][c] = C[s][d]
      PROVE  r = s /\ c = d
  <2>1. r \in Nat /\ c \in Nat /\ s \in Nat /\ d \in Nat
    BY <1>2
  <2>2. row + r = row + s /\ col + c = col + d
    BY <1>3, <1>4
  <2>3. row \in Nat /\ col \in Nat
    BY DEF Subviews
  <2> QED
    BY <2>1, <2>2, <2>3
<1>5. Picks(w, v, R, C)
  BY <1>1, <1>2, <1>3, <1>4 DEF Picks
<1>6. Inside(w)
  BY <1>5, PickedInside DEF Subviews
<1>7. \A r \in Rows(w), c \in Cols(w) :
        Element(w, r, c) = Gridded(v).cell[row + r][col + c]
  BY <1>1, <1>2 DEF Gridded
<1>8. Gridded(w) = [rows |-> rows, cols |-> cols,
                    cell |-> [r \in 0 .. rows - 1 |-> [c \in 0 .. cols - 1 |->
                                Gridded(v).cell[row + r][col + c]]]]
  BY <1>1, <1>2, <1>7 DEF Gridded
<1> QED
  BY <1>1, <1>6, <1>8 DEF w

\* So does Crop.
LEMMA CropKeeps ==
  ASSUME NEW v \in Views, Inside(v), NEW rows \in Nat, NEW cols \in Nat,
         rows <= v.m_rows, cols <= v.m_cols
  PROVE  LET w == Make(v.m_data, rows, cols, v.m_row_stride, v.m_col_stride)
         IN  /\ w \in Views /\ Inside(w)
             /\ w.m_col_stride = v.m_col_stride
             /\ Gridded(w) = [rows |-> rows, cols |-> cols,
                              cell |-> [r \in 0 .. rows - 1 |-> [c \in 0 .. cols - 1 |->
                                          Gridded(v).cell[r][c]]]]
<1> DEFINE w == Make(v.m_data, rows, cols, v.m_row_stride, v.m_col_stride)
           R == [r \in 0 .. rows - 1 |-> [c \in 0 .. cols - 1 |-> r]]
           C == [r \in 0 .. rows - 1 |-> [c \in 0 .. cols - 1 |-> c]]
<1>1. /\ w \in Views /\ w.m_rows = rows /\ w.m_cols = cols
      /\ w.m_col_stride = v.m_col_stride
      /\ \A r \in 0 .. rows - 1, c \in 0 .. cols - 1 :
           /\ r \in Rows(v) /\ c \in Cols(v)
           /\ Element(w, r, c) = Element(v, r, c)
  BY CropElements
<1> HIDE DEF w
<1>2. Rows(w) = 0 .. rows - 1 /\ Cols(w) = 0 .. cols - 1
  BY <1>1 DEF Rows, Cols
<1>3. \A r \in Rows(w), c \in Cols(w) : R[r][c] = r /\ C[r][c] = c
  BY <1>2
<1> HIDE DEF R, C
<1>4. ASSUME NEW r \in Rows(w), NEW c \in Cols(w), NEW s \in Rows(w), NEW d \in Cols(w),
             R[r][c] = R[s][d], C[r][c] = C[s][d]
      PROVE  r = s /\ c = d
  BY <1>2, <1>3, <1>4
<1>5. Picks(w, v, R, C)
  BY <1>1, <1>2, <1>3, <1>4 DEF Picks
<1>6. Inside(w)
  BY <1>5, PickedInside
<1>7. \A r \in Rows(w), c \in Cols(w) :
        Element(w, r, c) = Gridded(v).cell[r][c]
  BY <1>1, <1>2 DEF Gridded
<1>8. Gridded(w) = [rows |-> rows, cols |-> cols,
                    cell |-> [r \in 0 .. rows - 1 |-> [c \in 0 .. cols - 1 |->
                                Gridded(v).cell[r][c]]]]
  BY <1>1, <1>2, <1>7 DEF Gridded
<1> QED
  BY <1>1, <1>6, <1>8 DEF w

\* So does Transpose.
LEMMA TransposeKeeps ==
  ASSUME NEW v \in Views, Inside(v)
  PROVE  LET w == Make(v.m_data, v.m_cols, v.m_rows, v.m_col_stride, v.m_row_stride)
         IN  /\ w \in Views /\ Inside(w)
             /\ Gridded(w) = [rows |-> v.m_cols, cols |-> v.m_rows,
                              cell |-> [r \in 0 .. v.m_cols - 1 |-> [c \in 0 .. v.m_rows - 1 |->
                                          Gridded(v).cell[c][r]]]]
<1> DEFINE w == Make(v.m_data, v.m_cols, v.m_rows, v.m_col_stride, v.m_row_stride)
           R == [r \in 0 .. v.m_cols - 1 |-> [c \in 0 .. v.m_rows - 1 |-> c]]
           C == [r \in 0 .. v.m_cols - 1 |-> [c \in 0 .. v.m_rows - 1 |-> r]]
<1>1. /\ w \in Views /\ w.m_rows = v.m_cols /\ w.m_cols = v.m_rows
      /\ \A r \in 0 .. v.m_cols - 1, c \in 0 .. v.m_rows - 1 :
           /\ c \in Rows(v) /\ r \in Cols(v)
           /\ Element(w, r, c) = Element(v, c, r)
  BY TransposeElements DEF Rows, Cols
<1> HIDE DEF w
<1>2. Rows(w) = 0 .. v.m_cols - 1 /\ Cols(w) = 0 .. v.m_rows - 1
  BY <1>1 DEF Rows, Cols
<1>3. \A r \in Rows(w), c \in Cols(w) : R[r][c] = c /\ C[r][c] = r
  BY <1>2
<1> HIDE DEF R, C
<1>4. ASSUME NEW r \in Rows(w), NEW c \in Cols(w), NEW s \in Rows(w), NEW d \in Cols(w),
             R[r][c] = R[s][d], C[r][c] = C[s][d]
      PROVE  r = s /\ c = d
  BY <1>2, <1>3, <1>4
<1>5. Picks(w, v, R, C)
  BY <1>1, <1>2, <1>3, <1>4 DEF Picks
<1>6. Inside(w)
  BY <1>5, PickedInside
<1>7. \A r \in Rows(w), c \in Cols(w) :
        Element(w, r, c) = Gridded(v).cell[c][r]
  BY <1>1, <1>2 DEF Gridded
<1>8. Gridded(w) = [rows |-> v.m_cols, cols |-> v.m_rows,
                    cell |-> [r \in 0 .. v.m_cols - 1 |-> [c \in 0 .. v.m_rows - 1 |->
                                Gridded(v).cell[c][r]]]]
  BY <1>1, <1>2, <1>7 DEF Gridded
<1> QED
  BY <1>1, <1>6, <1>8 DEF w

\* So does Reshape.
LEMMA ReshapeKeeps ==
  ASSUME NEW v \in Views, Inside(v), NEW rows \in Nat, NEW cols \in Nat,
         rows * cols = v.m_rows * v.m_cols, v.m_row_stride = v.m_cols, v.m_col_stride = 1
  PROVE  LET w == Make(v.m_data, rows, cols, cols, 1)
         IN  /\ w \in Views /\ Inside(w)
             /\ w.m_col_stride = 1
             /\ Gridded(w) = [rows |-> rows, cols |-> cols,
                              cell |-> [r \in 0 .. rows - 1 |-> [c \in 0 .. cols - 1 |->
                                          Gridded(v).cell[RowOf(v, r * cols + c)]
                                                        [ColOf(v, r * cols + c)]]]]
<1> DEFINE w == Make(v.m_data, rows, cols, cols, 1)
           R == [r \in 0 .. rows - 1 |-> [c \in 0 .. cols - 1 |-> RowOf(v, r * cols + c)]]
           C == [r \in 0 .. rows - 1 |-> [c \in 0 .. cols - 1 |-> ColOf(v, r * cols + c)]]
<1>1. /\ w \in Views /\ w.m_rows = rows /\ w.m_cols = cols
      /\ w.m_col_stride = 1
      /\ \A r \in 0 .. rows - 1, c \in 0 .. cols - 1 :
           /\ RowOf(v, r * cols + c) \in Rows(v) /\ ColOf(v, r * cols + c) \in Cols(v)
           /\ Element(w, r, c) = Element(v, RowOf(v, r * cols + c), ColOf(v, r * cols + c))
  BY ReshapeElements
<1> HIDE DEF w
<1>2. Rows(w) = 0 .. rows - 1 /\ Cols(w) = 0 .. cols - 1
  BY <1>1 DEF Rows, Cols
<1>3. \A r \in Rows(w), c \in Cols(w) :
        R[r][c] = RowOf(v, r * cols + c) /\ C[r][c] = ColOf(v, r * cols + c)
  BY <1>2
<1> HIDE DEF R, C
<1>4. ASSUME NEW r \in Rows(w), NEW c \in Cols(w), NEW s \in Rows(w), NEW d \in Cols(w),
             R[r][c] = R[s][d], C[r][c] = C[s][d]
      PROVE  r = s /\ c = d
  <2>1. /\ r \in Nat /\ s \in Nat /\ c \in 0 .. cols - 1 /\ d \in 0 .. cols - 1
        /\ cols \in Nat \ {0}
    BY <1>2
  <2>2. v.m_cols \in Nat \ {0} /\ r * cols + c \in Nat /\ s * cols + d \in Nat
    <3>1. v.m_cols \in Nat
      BY DEF Views
    <3>2. v.m_cols # 0 /\ r * cols + c \in Nat /\ s * cols + d \in Nat
      BY <1>2, ReshapeElements
    <3> QED
      BY <3>1, <3>2
  <2>3. /\ RowOf(v, r * cols + c) = RowOf(v, s * cols + d)
        /\ ColOf(v, r * cols + c) = ColOf(v, s * cols + d)
    BY <1>3, <1>4
  <2>4. r * cols + c = s * cols + d
    <3> DEFINE e == r * cols + c
               f == s * cols + d
    <3>1. e = RowOf(v, e) * v.m_cols + ColOf(v, e)
      BY <2>2, Divided DEF RowOf, ColOf
    <3>2. f = RowOf(v, f) * v.m_cols + ColOf(v, f)
      BY <2>2, Divided DEF RowOf, ColOf
    <3>3. RowOf(v, e) = RowOf(v, f) /\ ColOf(v, e) = ColOf(v, f)
      BY <2>3
    <3> HIDE DEF e, f
    <3>4. e = f
      BY <3>1, <3>2, <3>3
    <3> QED
      BY <3>4 DEF e, f
  <2> QED
    BY <2>1, <2>4, Unique
<1>5. Picks(w, v, R, C)
  BY <1>1, <1>2, <1>3, <1>4 DEF Picks
<1>6. Inside(w)
  BY <1>5, PickedInside
<1>7. \A r \in Rows(w), c \in Cols(w) :
        Element(w, r, c) = Gridded(v).cell[RowOf(v, r * cols + c)][ColOf(v, r * cols + c)]
  BY <1>1, <1>2 DEF Gridded
<1>8. Gridded(w) = [rows |-> rows, cols |-> cols,
                    cell |-> [r \in 0 .. rows - 1 |-> [c \in 0 .. cols - 1 |->
                                Gridded(v).cell[RowOf(v, r * cols + c)][ColOf(v, r * cols + c)]]]]
  BY <1>1, <1>2, <1>7 DEF Gridded
<1> QED
  BY <1>1, <1>6, <1>8 DEF w

LEMMA Cancelled ==
  ASSUME NEW n \in Nat \ {0}, NEW a \in Nat, NEW b \in Nat, a * n = b * n
  PROVE  a = b
<1>1. 0 \in 0 .. n - 1 /\ a * n + 0 = b * n + 0
  OBVIOUS
<1> QED
  BY <1>1, Unique

\* So does Stride.
LEMMA StrideKeeps ==
  ASSUME NEW v, NEW row_step, NEW col_step, NEW rows, NEW cols,
         Strides(v, row_step, col_step, rows, cols)
  PROVE  LET w == Make(v.m_data, rows, cols,
                       Size(v.m_row_stride * row_step), Size(v.m_col_stride * col_step))
         IN  /\ w \in Views /\ Inside(w)
             /\ Gridded(w) = [rows |-> rows, cols |-> cols,
                              cell |-> [r \in 0 .. rows - 1 |-> [c \in 0 .. cols - 1 |->
                                          Gridded(v).cell[r * row_step][c * col_step]]]]
<1> DEFINE w == Make(v.m_data, rows, cols,
                     Size(v.m_row_stride * row_step), Size(v.m_col_stride * col_step))
           R == [r \in 0 .. rows - 1 |-> [c \in 0 .. cols - 1 |-> r * row_step]]
           C == [r \in 0 .. rows - 1 |-> [c \in 0 .. cols - 1 |-> c * col_step]]
<1>1. /\ w \in Views /\ w.m_rows = rows /\ w.m_cols = cols
      /\ \A r \in 0 .. rows - 1, c \in 0 .. cols - 1 :
           /\ r * row_step \in Rows(v) /\ c * col_step \in Cols(v)
           /\ Element(w, r, c) = Element(v, r * row_step, c * col_step)
  BY StrideElements
<1> HIDE DEF w
<1>2. Rows(w) = 0 .. rows - 1 /\ Cols(w) = 0 .. cols - 1
  BY <1>1 DEF Rows, Cols
<1>3. \A r \in Rows(w), c \in Cols(w) : R[r][c] = r * row_step /\ C[r][c] = c * col_step
  BY <1>2
<1> HIDE DEF R, C
<1>4. ASSUME NEW r \in Rows(w), NEW c \in Cols(w), NEW s \in Rows(w), NEW d \in Cols(w),
             R[r][c] = R[s][d], C[r][c] = C[s][d]
      PROVE  r = s /\ c = d
  <2>1. r \in Nat /\ s \in Nat /\ c \in Nat /\ d \in Nat
    BY <1>2 DEF Strides
  <2>2. r * row_step = s * row_step /\ c * col_step = d * col_step
    BY <1>3, <1>4
  <2>3. r = s
    BY <2>1, <2>2, Cancelled DEF Strides
  <2>4. c = d
    BY <2>1, <2>2, Cancelled DEF Strides
  <2> QED
    BY <2>3, <2>4
<1>5. Picks(w, v, R, C)
  BY <1>1, <1>2, <1>3, <1>4 DEF Picks
<1>6. Inside(w)
  BY <1>5, PickedInside DEF Strides
<1>7. \A r \in Rows(w), c \in Cols(w) :
        Element(w, r, c) = Gridded(v).cell[r * row_step][c * col_step]
  BY <1>1, <1>2 DEF Gridded
<1>8. Gridded(w) = [rows |-> rows, cols |-> cols,
                    cell |-> [r \in 0 .. rows - 1 |-> [c \in 0 .. cols - 1 |->
                                Gridded(v).cell[r * row_step][c * col_step]]]]
  BY <1>1, <1>2, <1>7 DEF Gridded
<1> QED
  BY <1>1, <1>6, <1>8 DEF w

\* The mapping to the grid, in the terms of the lemmas above.
LEMMA GridOfView ==
  ASSUME view \in Views, Inside(view)
  PROVE  AsGrid = Gridded(view)
<1>1. ASSUME NEW r \in Rows(view), NEW c \in Cols(view)
      PROVE  FieldAt(r, c) = Element(view, r, c)
  BY AddressOf DEF FieldAt, index
<1> QED
  BY <1>1 DEF AsGrid, Gridded, Rows, Cols

LEMMA GridNext ==
  ASSUME view' \in Views, Inside(view')
  PROVE  AsGrid' = Gridded(view')
<1>1. ASSUME NEW r \in Rows(view'), NEW c \in Cols(view')
      PROVE  FieldAt(r, c)' = Element(view', r, c)
  BY AddressOf DEF FieldAt, index
<1> QED
  BY <1>1 DEF AsGrid, Gridded, Rows, Cols

LEMMA GridSize ==
  AsGrid.rows = view.m_rows /\ AsGrid.cols = view.m_cols
BY DEF AsGrid

\* The invariant looks at nothing but the view and the flag.
LEMMA Became ==
  ASSUME view' \in Views, Inside(view'), ~strided' => view'.m_col_stride = 1
  PROVE  ViewInv'
BY DEF ViewInv, Inside, Rows, Cols, Element

\* No number that an accepted call tested has wrapped.
LEMMA Accepted ==
  ASSUME NEW v, NEW what, NEW tested, Become(v, what, tested), ~overflowed'
  PROVE  \A n \in tested : ~Wraps(n)
BY DEF Become

LEMMA Refused ==
  ASSUME ViewInv, NEW error, Refuse(error)
  PROVE  ViewInv' /\ Grids!Refuse(error)
<1>1. ViewInv'
  BY DEF ViewInv, Inside, Rows, Cols, Element, Refuse
<1>2. Grids!Refuse(error)
  BY DEF Grids!Refuse, Refuse, AsGrid, FieldAt, index
<1> QED
  BY <1>1, <1>2

\* The crop of the code assigns two members; it is the view made of all five.
LEMMA Cropped ==
  ASSUME NEW v \in Views, NEW rows \in Nat, NEW cols \in Nat
  PROVE  [v EXCEPT !.m_rows = rows, !.m_cols = cols]
           = Make(v.m_data, rows, cols, v.m_row_stride, v.m_col_stride)
<1>1. v = [m_data |-> v.m_data, m_rows |-> v.m_rows, m_cols |-> v.m_cols,
           m_row_stride |-> v.m_row_stride, m_col_stride |-> v.m_col_stride]
  BY DEF Views
<1> DEFINE w == [v EXCEPT !.m_rows = rows, !.m_cols = cols]
<1>2. w = [m_data |-> w.m_data, m_rows |-> w.m_rows, m_cols |-> w.m_cols,
           m_row_stride |-> w.m_row_stride, m_col_stride |-> w.m_col_stride]
  <2>1. w \in Views
    BY DEF Views
  <2> HIDE DEF w
  <2> QED
    BY <2>1 DEF Views
<1>3. /\ w.m_data = v.m_data /\ w.m_rows = rows /\ w.m_cols = cols
      /\ w.m_row_stride = v.m_row_stride /\ w.m_col_stride = v.m_col_stride
  BY <1>1
<1> QED
  BY <1>2, <1>3 DEF Make

LEMMA WholeGrid == Gridded(Whole) = Grids!Whole
<1>1. /\ MatrixRows \in Nat /\ MatrixCols \in Nat
      /\ Whole.m_data = 0 /\ Whole.m_rows = MatrixRows /\ Whole.m_cols = MatrixCols
      /\ Whole.m_row_stride = MatrixCols /\ Whole.m_col_stride = 1
  BY MatrixAssumption DEF Whole, Make
<1>2. ASSUME NEW r \in 0 .. MatrixRows - 1, NEW c \in 0 .. MatrixCols - 1
      PROVE  Element(Whole, r, c) = r * MatrixCols + c
  BY <1>1, ProductNat DEF Element
<1> QED
  BY <1>1, <1>2 DEF Gridded, Rows, Cols, Grids!Whole, Grids!Grid

\* Each operation keeps the invariant and is the operation of the grid, or the same refusal.
LEMMA ViewStep ==
  ASSUME View
  PROVE  ViewInv' /\ Grids!View
<1>1. view' = Whole /\ view_result' = "view"
  BY DEF View
<1>2. ViewInv'
  BY <1>1, WholeInside, Became
<1>3. AsGrid' = Grids!Whole
  BY <1>1, WholeInside, WholeGrid, GridNext
<1> QED
  BY <1>1, <1>2, <1>3 DEF Grids!View, Grids!Become

LEMMA TransposeStep ==
  ASSUME ViewInv, Transpose
  PROVE  ViewInv' /\ Grids!Transpose
<1>1. /\ strided' /\ view_result' = "transpose"
      /\ view' = Make(view.m_data, view.m_cols, view.m_rows, view.m_col_stride, view.m_row_stride)
  BY DEF Transpose, Become
<1>2. /\ view' \in Views /\ Inside(view')
      /\ Gridded(view') = [rows |-> view.m_cols, cols |-> view.m_rows,
                           cell |-> [r \in 0 .. view.m_cols - 1 |-> [c \in 0 .. view.m_rows - 1 |->
                                       Gridded(view).cell[c][r]]]]
  BY <1>1, TransposeKeeps DEF ViewInv
<1>3. ViewInv'
  BY <1>1, <1>2, Became
<1>4. AsGrid' = Grids!Grid(AsGrid.cols, AsGrid.rows, LAMBDA r, c : AsGrid.cell[c][r])
  BY <1>2, GridOfView, GridNext, GridSize DEF ViewInv, Grids!Grid
<1> QED
  BY <1>1, <1>3, <1>4 DEF Grids!Transpose, Grids!Become

LEMMA CropStep ==
  ASSUME ViewInv, ~overflowed', NEW rows \in Sizes, NEW cols \in Sizes, Crop(rows, cols)
  PROVE  ViewInv' /\ Grids!Crop(rows, cols)
<1>1. CASE (rows > view.m_rows \/ cols > view.m_cols) /\ Refuse("length_error")
  BY <1>1, Refused, GridSize DEF Grids!Crop
<1>2. CASE /\ rows <= view.m_rows /\ cols <= view.m_cols
           /\ Become([view EXCEPT !.m_rows = rows, !.m_cols = cols], "crop", {})
  <2>1. rows \in Nat /\ cols \in Nat /\ view \in Views
    BY MatrixAssumption DEF ViewInv
  <2>2. /\ strided' = strided /\ view_result' = "crop" /\ ~strided
        /\ view' = Make(view.m_data, rows, cols, view.m_row_stride, view.m_col_stride)
    BY <1>2, <2>1, Cropped DEF Become, Crop
  <2>3. /\ view' \in Views /\ Inside(view') /\ view'.m_col_stride = view.m_col_stride
        /\ Gridded(view') = [rows |-> rows, cols |-> cols,
                             cell |-> [r \in 0 .. rows - 1 |-> [c \in 0 .. cols - 1 |->
                                         Gridded(view).cell[r][c]]]]
    BY <1>2, <2>1, <2>2, CropKeeps DEF ViewInv
  <2>4. ViewInv'
    BY <2>2, <2>3, Became DEF ViewInv
  <2>5. AsGrid' = Grids!Grid(rows, cols, LAMBDA r, c : AsGrid.cell[r][c])
    BY <2>3, GridOfView, GridNext DEF ViewInv, Grids!Grid
  <2> QED
    BY <1>2, <2>2, <2>4, <2>5, GridSize DEF Grids!Crop, Grids!Become
<1> QED
  BY <1>1, <1>2 DEF Crop

LEMMA SubviewStep ==
  ASSUME ViewInv, ~overflowed', NEW rows \in Sizes, NEW cols \in Sizes, NEW row \in Sizes, NEW col \in Sizes,
         Subview(row, col, rows, cols)
  PROVE  ViewInv' /\ Grids!Subview(row, col, rows, cols)
<1>1. CASE /\ Size(row + rows) > view.m_rows \/ Size(col + cols) > view.m_cols
           /\ Refuse("out_of_range")
  <2>1. row + rows \in Nat /\ col + cols \in Nat /\ view.m_rows \in Nat /\ view.m_cols \in Nat
    BY MatrixAssumption DEF ViewInv, Views
  <2>2. row + rows > view.m_rows \/ col + cols > view.m_cols
    BY <1>1, <2>1, Held
  <2> QED
    BY <1>1, <2>2, Refused, GridSize DEF Grids!Subview
<1>2. CASE /\ Size(row + rows) <= view.m_rows /\ Size(col + cols) <= view.m_cols
           /\ Become(Make(Size(view.m_data + index(row, col)), rows, cols,
                          view.m_row_stride, view.m_col_stride),
                     "subview", {row + rows, col + cols})
  <2> DEFINE data == Size(view.m_data + index(row, col))
             w == Make(data, rows, cols, view.m_row_stride, view.m_col_stride)
  <2>1. rows \in Nat /\ cols \in Nat /\ row \in Nat /\ col \in Nat /\ view \in Views
    BY MatrixAssumption DEF ViewInv
  <2>2. strided' = strided /\ view_result' = "subview" /\ view' = w
    BY <1>2 DEF Become
  <2>3. row + rows <= view.m_rows /\ col + cols <= view.m_cols
    <3>1. ~Wraps(row + rows) /\ ~Wraps(col + cols)
      BY <1>2, Accepted
    <3>2. row + rows \in Nat /\ col + cols \in Nat
      BY <2>1
    <3> QED
      BY <1>2, <3>1, <3>2, Held
  <2>4. Subviews(view, row, col, rows, cols, data)
    <3>1. data \in Nat
      <4>1. /\ view.m_data \in Nat /\ row * view.m_row_stride \in Nat
            /\ col * view.m_col_stride \in Nat
        BY <2>1, ProductNat DEF Views
      <4>2. view.m_data + index(row, col) \in Nat
        BY <4>1, Held DEF index
      <4> QED
        BY <4>2, Held
    <3>2. ASSUME rows # 0, cols # 0 PROVE data = Element(view, row, col)
      <4>1. view.m_rows \in Nat /\ view.m_cols \in Nat
        BY <2>1 DEF Views
      <4>2. row \in Rows(view) /\ col \in Cols(view)
        BY <2>1, <2>3, <3>2, <4>1 DEF Rows, Cols
      <4> QED
        BY <2>1, <4>2, AddressOf DEF ViewInv, index
    <3> HIDE DEF data
    <3> QED
      BY <2>1, <2>3, <3>1, <3>2 DEF ViewInv, Subviews
  <2> HIDE DEF data
  <2>5. /\ w \in Views /\ Inside(w) /\ w.m_col_stride = view.m_col_stride
        /\ Gridded(w) = [rows |-> rows, cols |-> cols,
                         cell |-> [r \in 0 .. rows - 1 |-> [c \in 0 .. cols - 1 |->
                                     Gridded(view).cell[row + r][col + c]]]]
    BY <2>4, SubviewKeeps
  <2> HIDE DEF w
  <2>6. ViewInv'
    BY <2>2, <2>5, Became DEF ViewInv
  <2>7. AsGrid' = Grids!Grid(rows, cols, LAMBDA r, c : AsGrid.cell[row + r][col + c])
    BY <2>2, <2>5, GridOfView, GridNext DEF ViewInv, Grids!Grid
  <2> QED
    BY <2>2, <2>3, <2>6, <2>7, GridSize DEF Grids!Subview, Grids!Become
<1> QED
  BY <1>1, <1>2 DEF Subview

LEMMA ReshapeStep ==
  ASSUME ViewInv, ~overflowed', NEW rows \in Sizes, NEW cols \in Sizes, Reshape(rows, cols)
  PROVE  ViewInv' /\ Grids!Reshape(rows, cols)
<1>1. CASE Refuse("logic_error")
  BY <1>1, Refused DEF Grids!Reshape
<1>2. CASE Size(rows * cols) # Size(view.m_rows * view.m_cols) /\ Refuse("length_error")
  BY <1>2, Refused, GridSize DEF Grids!Reshape
<1>3. CASE /\ is_contiguous /\ Size(rows * cols) = Size(view.m_rows * view.m_cols)
           /\ Become(Make(view.m_data, rows, cols, cols, 1), "reshape",
                     {rows * cols, view.m_rows * view.m_cols})
  <2>0. rows * cols = view.m_rows * view.m_cols
    <3>1. ~Wraps(rows * cols) /\ ~Wraps(view.m_rows * view.m_cols)
      BY <1>3, Accepted
    <3>2. rows * cols \in Nat /\ view.m_rows * view.m_cols \in Nat
      BY ProductNat, MatrixAssumption DEF ViewInv, Views
    <3> QED
      BY <1>3, <3>1, <3>2, Held
  <2>1. /\ rows \in Nat /\ cols \in Nat /\ view \in Views
        /\ view.m_row_stride = view.m_cols /\ view.m_col_stride = 1
    BY <1>3, MatrixAssumption DEF ViewInv, is_contiguous, Reshape
  <2>2. /\ strided' = strided /\ view_result' = "reshape"
        /\ view' = Make(view.m_data, rows, cols, cols, 1)
    BY <1>3 DEF Become
  <2>3. /\ view' \in Views /\ Inside(view') /\ view'.m_col_stride = 1
        /\ Gridded(view') = [rows |-> rows, cols |-> cols,
                             cell |-> [r \in 0 .. rows - 1 |-> [c \in 0 .. cols - 1 |->
                                         Gridded(view).cell[RowOf(view, r * cols + c)]
                                                           [ColOf(view, r * cols + c)]]]]
    BY <2>0, <2>1, <2>2, ReshapeKeeps DEF ViewInv
  <2>4. ViewInv'
    BY <2>2, <2>3, Became
  <2>5. AsGrid' = Grids!Grid(rows, cols, LAMBDA r, c :
                    AsGrid.cell[(r * cols + c) \div AsGrid.cols][(r * cols + c) % AsGrid.cols])
    BY <2>3, GridOfView, GridNext, GridSize DEF ViewInv, Grids!Grid, RowOf, ColOf
  <2> QED
    BY <2>0, <2>2, <2>4, <2>5, GridSize DEF Grids!Reshape, Grids!Become
<1> QED
  BY <1>1, <1>2, <1>3 DEF Reshape

LEMMA StrideStep ==
  ASSUME ViewInv, ~overflowed', NEW row_step \in Sizes, NEW col_step \in Sizes, Stride(row_step, col_step)
  PROVE  ViewInv' /\ Grids!Stride(row_step, col_step)
<1>1. CASE (row_step = 0 \/ col_step = 0) /\ Refuse("invalid_argument")
  BY <1>1, Refused DEF Grids!Stride
<1>2. CASE /\ row_step # 0 /\ col_step # 0
           /\ Become(Make(view.m_data, Steps(view.m_rows, row_step), Steps(view.m_cols, col_step),
                          Size(view.m_row_stride * row_step), Size(view.m_col_stride * col_step)),
                     "stride", {view.m_rows + row_step - 1, view.m_cols + col_step - 1})
  <2> DEFINE rows == Steps(view.m_rows, row_step)
             cols == Steps(view.m_cols, col_step)
  <2>1. row_step \in Nat \ {0} /\ col_step \in Nat \ {0} /\ view \in Views
    BY <1>2, MatrixAssumption DEF ViewInv
  <2>2. /\ strided' /\ view_result' = "stride"
        /\ view' = Make(view.m_data, rows, cols,
                        Size(view.m_row_stride * row_step), Size(view.m_col_stride * col_step))
    BY <1>2 DEF Become, Stride
  <2>7. rows = Grids!Steps(view.m_rows, row_step) /\ cols = Grids!Steps(view.m_cols, col_step)
    <3>1. ~Wraps(view.m_rows + row_step - 1) /\ ~Wraps(view.m_cols + col_step - 1)
      BY <1>2, Accepted
    <3>2. view.m_rows + row_step - 1 \in Nat /\ view.m_cols + col_step - 1 \in Nat
      BY <2>1 DEF Views
    <3>3. /\ Size(view.m_rows + row_step - 1) = view.m_rows + row_step - 1
          /\ Size(view.m_cols + col_step - 1) = view.m_cols + col_step - 1
      BY <3>1, <3>2, Held
    <3> QED
      BY <3>3 DEF Steps, Grids!Steps
  <2> HIDE DEF rows, cols
  <2>3. /\ view' \in Views /\ Inside(view')
        /\ Gridded(view') = [rows |-> rows, cols |-> cols,
                             cell |-> [r \in 0 .. rows - 1 |-> [c \in 0 .. cols - 1 |->
                                         Gridded(view).cell[r * row_step][c * col_step]]]]
    <3>1. Strides(view, row_step, col_step, rows, cols)
      BY <2>1, <2>7 DEF ViewInv, Strides
    <3> QED
      BY <2>2, <3>1, StrideKeeps
  <2>4. ViewInv'
    BY <2>2, <2>3, Became
  <2>5. rows = Grids!Steps(AsGrid.rows, row_step) /\ cols = Grids!Steps(AsGrid.cols, col_step)
    BY <2>7, GridSize
  <2>6. AsGrid' = Grids!Grid(rows, cols, LAMBDA r, c : AsGrid.cell[r * row_step][c * col_step])
    BY <2>3, GridOfView, GridNext DEF ViewInv, Grids!Grid
  <2> QED
    BY <1>2, <2>2, <2>4, <2>5, <2>6 DEF Grids!Stride, Grids!Become
<1> QED
  BY <1>1, <1>2 DEF Stride

LEMMA MatrixInitInv == MatrixInit => MatrixInv /\ Grids!Init
<1> SUFFICES ASSUME MatrixInit PROVE MatrixInv /\ Grids!Init
  OBVIOUS
<1>1. ViewInv
  BY WholeInside DEF MatrixInit, ViewInv
<1>2. AsGrid = Grids!Whole
  BY <1>1, GridOfView, WholeGrid DEF MatrixInit, ViewInv
<1> QED
  BY <1>1, <1>2 DEF MatrixInit, MatrixInv, Grids!Init

LEMMA MatrixNextStep ==
  MatrixInv /\ [MatrixNext]_matrixVars
    => MatrixInv' /\ [~overflowed' => Grids!Next]_(Grids!vars)
<1> SUFFICES ASSUME MatrixInv, [MatrixNext]_matrixVars
             PROVE  MatrixInv' /\ [~overflowed' => Grids!Next]_(Grids!vars)
  OBVIOUS
<1>1. CASE overflowed'
  BY <1>1 DEF MatrixInv
<1>2. CASE ~overflowed' /\ View
  BY <1>2, ViewStep DEF Grids!Next, MatrixInv
<1>3. CASE ~overflowed' /\ ~View /\ MatrixNext
  <2>1. ~overflowed
    BY <1>3 DEF MatrixNext, Transpose, Crop, Reshape, Stride, Subview, Become, Refuse
  <2>2. ViewInv
    BY <2>1 DEF MatrixInv
  <2>3. CASE Transpose
    BY <2>2, <2>3, TransposeStep DEF Grids!Next, MatrixInv
  <2>4. ASSUME NEW rows \in Sizes, NEW cols \in Sizes, Crop(rows, cols)
        PROVE  ViewInv' /\ Grids!Next
    BY <1>3, <2>2, <2>4, CropStep DEF Grids!Next
  <2>5. ASSUME NEW rows \in Sizes, NEW cols \in Sizes, Reshape(rows, cols)
        PROVE  ViewInv' /\ Grids!Next
    BY <1>3, <2>2, <2>5, ReshapeStep DEF Grids!Next
  <2>6. ASSUME NEW rows \in Sizes, NEW cols \in Sizes, Stride(rows, cols)
        PROVE  ViewInv' /\ Grids!Next
    BY <1>3, <2>2, <2>6, StrideStep DEF Grids!Next
  <2>7. ASSUME NEW rows \in Sizes, NEW cols \in Sizes, NEW row \in Sizes, NEW col \in Sizes,
               Subview(row, col, rows, cols)
        PROVE  ViewInv' /\ Grids!Next
    BY <1>3, <2>2, <2>7, SubviewStep DEF Grids!Next
  <2> QED
    BY <1>3, <2>3, <2>4, <2>5, <2>6, <2>7 DEF MatrixNext, MatrixInv
<1>4. CASE UNCHANGED matrixVars
  BY <1>4 DEF matrixVars, MatrixInv, ViewInv, Inside, Element, Rows, Cols, Grids!vars, AsGrid,
              FieldAt, index
<1> QED
  BY <1>1, <1>2, <1>3, <1>4

LEMMA MatrixInvInside == MatrixInv => InsideMatrix
<1> SUFFICES ASSUME ViewInv, ~overflowed PROVE InsideMatrix
  BY DEF MatrixInv, InsideMatrix
<1> DEFINE fields == Rows(view) \X Cols(view)
           element(f) == FieldAt(f[1], f[2])
<1>0. ASSUME NEW f \in fields
      PROVE  /\ f[1] \in Rows(view) /\ f[2] \in Cols(view) /\ f = <<f[1], f[2]>>
             /\ element(f) = Element(view, f[1], f[2])
  <2>1. f[1] \in Rows(view) /\ f[2] \in Cols(view) /\ f = <<f[1], f[2]>>
    OBVIOUS
  <2> QED
    BY <2>1, AddressOf DEF FieldAt, index, ViewInv
<1>1. ASSUME NEW f \in fields
      PROVE  element(f) \in 0 .. MatrixRows * MatrixCols - 1
  BY <1>0 DEF ViewInv, Inside
<1>2. ASSUME NEW f \in fields, NEW g \in fields, element(f) = element(g)
      PROVE  f = g
  <2>1. f[1] = g[1] /\ f[2] = g[2]
    BY <1>0, <1>2, DistinctFields DEF ViewInv
  <2> QED
    BY <1>0, <2>1
<1> QED
  BY <1>1, <1>2 DEF InsideMatrix, Rows, Cols

\* The fields of a view are distinct elements of the matrix, for every size of the matrix and
\* of std::size_t and after any sequence of accepted and refused operations: what subview,
\* stride, crop, transpose and reshape check is enough, as long as no number in those checks
\* wrapped and let a call pass.
THEOREM FieldsAreElements == MatrixSpec => []InsideMatrix
<1>1. MatrixInit => MatrixInv
  BY MatrixInitInv
<1>2. MatrixInv /\ [MatrixNext]_matrixVars => MatrixInv'
  BY MatrixNextStep
<1> QED
  BY <1>1, <1>2, MatrixInvInside, PTL DEF MatrixSpec

\* A view, which is an offset and two strides that may wrap, stands for the grid that the same
\* operations make of a copy of the matrix, and refuses only operations that the grid refuses.
\* An operation accepted because a number in its check wrapped, as the code does not exclude,
\* is excepted, with what is made from its view.
THEOREM ViewsAreGrids == MatrixSpec => ImplementsGrid
<1>1. MatrixInit => MatrixInv /\ Grids!Init
  BY MatrixInitInv
<1>2. MatrixInv /\ [MatrixNext]_matrixVars
        => MatrixInv' /\ [~overflowed' => Grids!Next]_(Grids!vars)
  BY MatrixNextStep
<1> QED
  BY <1>1, <1>2, PTL DEF MatrixSpec, ImplementsGrid

================================================================================
