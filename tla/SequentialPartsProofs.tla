------------------------- MODULE SequentialPartsProofs -------------------------
(***************************************************************************)
(* Proofs about the small parts that own or count something: the queue of   *)
(* fixed capacity, Optional, Function, the lifetime tracker of the tests    *)
(* and the signal handlers.  Each has a section, with its inductive         *)
(* invariant and what it proves, for every value of its constants.         *)
(***************************************************************************)
EXTENDS FixedCapacityQueue, Optional, Function, ThreadLocalLifetimeTracker,
        SignalHandling, SequenceTheorems, FiniteSetTheorems, TLAPS

(* FixedCapacityQueue, for every capacity: the indices stay in the ring, the live  *)
(* slots are the m_size slots from the head on, and the ring implements the bounded *)
(* queue of SequentialQueue.                                                        *)

IInv == TypeOK /\ LiveSlots

LEMMA InitIInv == Init => IInv
BY CapacityAssumption DEF Init, IInv, TypeOK, LiveSlots, Slots, SlotOf, Wrap

\* Slots of the queue's positions are slots of the ring, and two positions
\* share one only when they are the same.
LEMMA SlotOfInjective ==
  ASSUME TypeOK
  PROVE  /\ \A i \in 0 .. m_capacity : SlotOf(i) \in Slots
         /\ \A i, j \in 0 .. m_capacity - 1 : SlotOf(i) = SlotOf(j) => i = j
BY CapacityAssumption DEF TypeOK, Slots, SlotOf, Wrap

\* Once the head has advanced, a position is what the next one was.
LEMMA AdvanceShiftsPositions ==
  ASSUME TypeOK, m_head_index' = Wrap(m_head_index + 1)
  PROVE  \A i \in 0 .. m_capacity - 1 : SlotOf(i)' = SlotOf(i + 1)
BY CapacityAssumption DEF TypeOK, Slots, SlotOf, Wrap

LEMMA NextIInv == IInv /\ [Next]_vars => IInv'
<1> SUFFICES ASSUME IInv, [Next]_vars PROVE IInv'
  OBVIOUS
<1> USE CapacityAssumption DEF IInv
<1>1. ASSUME NEW v \in Values, Emplace(v) PROVE IInv'
  <2>1. CASE m_size = m_capacity
    BY <1>1, <2>1 DEF Emplace, TypeOK, LiveSlots, SlotOf, Wrap
  <2>2. CASE m_size # m_capacity
    <3>1. SlotOf(m_size) \in Slots
      BY <2>2, SlotOfInjective DEF TypeOK
    <3>2. TypeOK'
      BY <1>1, <2>2, <3>1 DEF Emplace, TypeOK
    <3>3. LiveSlots'
      <4> SUFFICES ASSUME NEW s \in Slots
                   PROVE  m_data'[s] # Raw <=> \E i \in 0 .. m_size' - 1 : s = SlotOf(i)'
        BY DEF LiveSlots
      <4>1. \A i : SlotOf(i)' = SlotOf(i)
        BY <1>1, <2>2 DEF Emplace, SlotOf, Wrap
      <4>2. m_size' - 1 = m_size /\ m_size \in Nat
        BY <1>1, <2>2 DEF Emplace, TypeOK
      <4>3. (\E i \in 0 .. m_size : s = SlotOf(i))
              <=> (\E i \in 0 .. m_size - 1 : s = SlotOf(i)) \/ s = SlotOf(m_size)
        BY <4>2
      <4>4. m_data'[s] # Raw <=> m_data[s] # Raw \/ s = SlotOf(m_size)
        BY <1>1, <2>2, <3>1 DEF Emplace, TypeOK
      <4> QED
        BY <4>1, <4>2, <4>3, <4>4 DEF LiveSlots
    <3> QED
      BY <3>2, <3>3
  <2> QED
    BY <2>1, <2>2
<1>2. ASSUME Throw PROVE IInv'
  BY <1>2 DEF Throw, TypeOK, LiveSlots, SlotOf, Wrap
<1>3. ASSUME Pop PROVE IInv'
  <2>1. CASE m_size = 0
    BY <1>3, <2>1 DEF Pop, TypeOK, LiveSlots, SlotOf, Wrap
  <2>2. CASE m_size # 0
    <3>1. TypeOK'
      BY <1>3, <2>2 DEF Pop, TypeOK, Slots, Wrap
    <3>2. LiveSlots'
      <4> SUFFICES ASSUME NEW s \in Slots
                   PROVE  m_data'[s] # Raw <=> \E i \in 0 .. m_size' - 1 : s = SlotOf(i)'
        BY DEF LiveSlots
      <4>1. m_size' = m_size - 1 /\ m_size \in 1 .. m_capacity
        BY <1>3, <2>2 DEF Pop, TypeOK
      <4>2. \A i \in 0 .. m_size - 2 : SlotOf(i)' = SlotOf(i + 1)
        BY <1>3, <2>2, <4>1, AdvanceShiftsPositions DEF Pop
      <4>3. (\E i \in 0 .. m_size - 2 : s = SlotOf(i + 1))
              <=> (\E i \in 1 .. m_size - 1 : s = SlotOf(i))
        <5>1. \A i \in 1 .. m_size - 1 : i - 1 \in 0 .. m_size - 2 /\ (i - 1) + 1 = i
          BY <4>1
        <5>2. \A i \in 0 .. m_size - 2 : i + 1 \in 1 .. m_size - 1
          BY <4>1
        <5> QED
          BY <5>1, <5>2
      <4>4. SlotOf(0) = m_head_index
        BY DEF SlotOf, Wrap, TypeOK, Slots
      <4>5. m_data'[s] # Raw <=> m_data[s] # Raw /\ s # SlotOf(0)
        BY <1>3, <2>2, <4>4 DEF Pop, TypeOK
      <4>6. \A i \in 1 .. m_size - 1 : SlotOf(i) # SlotOf(0)
        BY <4>1, SlotOfInjective
      <4>7. (\E i \in 0 .. m_size - 1 : s = SlotOf(i)) /\ s # SlotOf(0)
              <=> \E i \in 1 .. m_size - 1 : s = SlotOf(i)
        BY <4>1, <4>6
      <4> QED
        BY <4>1, <4>2, <4>3, <4>5, <4>7 DEF LiveSlots
    <3> QED
      BY <3>1, <3>2
  <2> QED
    BY <2>1, <2>2
<1>4. ASSUME Clear PROVE IInv'
  <2>1. SlotOf(m_size) \in Slots
    BY SlotOfInjective DEF TypeOK
  <2>2. \A s \in Slots : m_data'[s] = Raw
    BY <1>4 DEF Clear, LiveSlots
  <2> QED
    BY <1>4, <2>1, <2>2 DEF Clear, TypeOK, LiveSlots
<1>5. CASE UNCHANGED vars
  BY <1>5 DEF vars, TypeOK, LiveSlots, SlotOf, Wrap
<1> QED
  BY <1>1, <1>2, <1>3, <1>4, <1>5 DEF Next

--------------------------------------------------------------------------------
\* The elements are a sequence as long as the size says.
LEMMA ElementsSeq ==
  ASSUME IInv
  PROVE  /\ Elements \in Seq(Values)
         /\ Len(Elements) = m_size
         /\ \A i \in 1 .. m_size : Elements[i] = m_data[SlotOf(i - 1)]
<1>1. m_size \in Nat
  BY CapacityAssumption DEF IInv, TypeOK
<1>2. ASSUME NEW i \in 1 .. m_size PROVE m_data[SlotOf(i - 1)] \in Values
  <2>1. i - 1 \in 0 .. m_size - 1 /\ i - 1 \in 0 .. m_capacity
    BY <1>1, CapacityAssumption DEF IInv, TypeOK
  <2>2. SlotOf(i - 1) \in Slots
    BY <2>1, SlotOfInjective DEF IInv
  <2> QED
    BY <2>1, <2>2, CapacityAssumption DEF IInv, TypeOK, LiveSlots
<1>3. Elements \in [1 .. m_size -> Values]
  BY <1>2 DEF Elements
<1> QED
  BY <1>1, <1>3 DEF Elements

\* Every step of the ring is a step of the queue, or changes nothing.
LEMMA NextImplementsQueue ==
  IInv /\ IInv' /\ [Next]_vars => [Queue!Next]_(Queue!vars)
<1> SUFFICES ASSUME IInv, IInv', [Next]_vars PROVE [Queue!Next]_(Queue!vars)
  OBVIOUS
<1> USE CapacityAssumption
<1>seq. /\ Elements \in Seq(Values) /\ Len(Elements) = m_size
        /\ \A i \in 1 .. m_size : Elements[i] = m_data[SlotOf(i - 1)]
  BY ElementsSeq
<1>size. m_size \in 0 .. m_capacity /\ m_size' \in 0 .. m_capacity
  BY DEF IInv, TypeOK
<1>seq2. /\ Elements' \in Seq(Values) /\ Len(Elements') = m_size'
         /\ \A i \in 1 .. m_size' : Elements'[i] = m_data'[SlotOf(i - 1)']
  <2>1. \A i \in 1 .. m_size' : Elements'[i] = m_data'[SlotOf(i - 1)']
    BY DEF Elements
  <2>2. (/\ Elements \in Seq(Values) /\ Len(Elements) = m_size)'
    BY ElementsSeq, PTL
  <2> QED
    BY <2>1, <2>2
<1>same. ASSUME UNCHANGED <<m_data, m_head_index, m_size>> PROVE Elements' = Elements
  BY <1>same DEF Elements, SlotOf, Wrap
<1>1. ASSUME NEW v \in Values, Emplace(v) PROVE Queue!Push(v)
  <2>1. CASE m_size = m_capacity
    BY <1>1, <2>1, <1>same, <1>seq DEF Emplace, Queue!Push
  <2>2. CASE m_size # m_capacity
    <3>1. m_size' = m_size + 1 /\ result' = "true"
      BY <1>1, <2>2 DEF Emplace
    <3>2. SlotOf(m_size) \in Slots
      BY <1>size, SlotOfInjective DEF IInv
    <3>3. ASSUME NEW i \in 1 .. m_size
          PROVE  m_data'[SlotOf(i - 1)'] = m_data[SlotOf(i - 1)]
      <4>1. i - 1 \in 0 .. m_capacity - 1 /\ m_size \in 0 .. m_capacity - 1
            /\ i - 1 # m_size
        BY <1>size, <2>2
      <4>2. SlotOf(i - 1) # SlotOf(m_size)
        BY <4>1, SlotOfInjective DEF IInv
      <4>3. SlotOf(i - 1)' = SlotOf(i - 1)
        BY <1>1, <2>2 DEF Emplace, SlotOf, Wrap
      <4> QED
        BY <1>1, <2>2, <3>2, <4>2, <4>3, SlotOfInjective DEF Emplace, IInv, TypeOK
    <3>4. ASSUME NEW i \in 1 .. m_size', i = m_size + 1
          PROVE  m_data'[SlotOf(i - 1)'] = v
      <4>1. SlotOf(i - 1)' = SlotOf(i - 1)
        BY <1>1, <2>2 DEF Emplace, SlotOf, Wrap
      <4>2. i - 1 = m_size
        BY <3>4, <1>size
      <4> QED
        BY <1>1, <2>2, <3>2, <4>1, <4>2 DEF Emplace, IInv, TypeOK
    <3>5. Elements' = Append(Elements, v)
      <4>1. \A i \in 1 .. m_size : Elements'[i] = Elements[i]
        BY <1>seq, <1>seq2, <3>1, <3>3, <1>size
      <4>2. Elements'[m_size + 1] = v
        BY <1>seq2, <3>1, <3>4, <1>size
      <4>3. Len(Append(Elements, v)) = m_size + 1 /\ Append(Elements, v) \in Seq(Values)
            /\ \A i \in 1 .. m_size + 1 :
                 Append(Elements, v)[i] = IF i <= m_size THEN Elements[i] ELSE v
        BY <1>seq, <1>size
      <4> QED
        BY <4>1, <4>2, <4>3, <1>seq2, <3>1, <1>size, SeqEqual
    <3> QED
      BY <3>1, <3>5, <2>2, <1>seq, <1>size DEF Queue!Push
  <2> QED
    BY <2>1, <2>2
<1>2. ASSUME Throw PROVE Queue!Throw
  BY <1>2, <1>same DEF Throw, Queue!Throw
<1>3. ASSUME Pop PROVE Queue!Pop
  <2>1. CASE m_size = 0
    BY <1>3, <2>1, <1>same, <1>seq DEF Pop, Queue!Pop
  <2>2. CASE m_size # 0
    <3>1. m_size' = m_size - 1 /\ result' = m_data[m_head_index]
      BY <1>3, <2>2 DEF Pop
    <3>2. Elements # <<>> /\ Head(Elements) = m_data[m_head_index]
      <4>1. SlotOf(0) = m_head_index
        BY DEF SlotOf, Wrap, IInv, TypeOK, Slots
      <4> QED
        BY <4>1, <2>2, <1>seq, <1>size
    <3>3. ASSUME NEW i \in 1 .. m_size - 1
          PROVE  m_data'[SlotOf(i - 1)'] = m_data[SlotOf(i)]
      <4>1. i - 1 \in 0 .. m_capacity - 1 /\ i \in 0 .. m_capacity - 1 /\ i # 0
            /\ 0 \in 0 .. m_capacity - 1 /\ (i - 1) + 1 = i
        BY <1>size
      <4>2. SlotOf(i - 1)' = SlotOf(i)
        <5>1. m_head_index' = Wrap(m_head_index + 1)
          BY <1>3, <2>2 DEF Pop
        <5> QED
          BY <4>1, <5>1, AdvanceShiftsPositions DEF IInv
      <4>3. SlotOf(i) # SlotOf(0) /\ SlotOf(i) \in Slots
        BY <4>1, SlotOfInjective DEF IInv
      <4>4. SlotOf(0) = m_head_index
        BY DEF SlotOf, Wrap, IInv, TypeOK, Slots
      <4> QED
        BY <1>3, <2>2, <4>2, <4>3, <4>4 DEF Pop, IInv, TypeOK
    <3>4. Elements' = Tail(Elements)
      <4>1. Len(Tail(Elements)) = m_size - 1 /\ Tail(Elements) \in Seq(Values)
            /\ \A i \in 1 .. m_size - 1 : Tail(Elements)[i] = Elements[i + 1]
        BY <1>seq, <1>size, <2>2, <3>2
      <4>2. ASSUME NEW i \in 1 .. m_size - 1 PROVE Elements'[i] = Elements[i + 1]
        <5>1. i \in 1 .. m_size' /\ i + 1 \in 1 .. m_size /\ (i + 1) - 1 = i
          BY <3>1, <1>size
        <5>2. Elements[i + 1] = m_data[SlotOf(i)]
          BY <1>seq, <5>1
        <5> QED
          BY <1>seq2, <3>3, <5>1, <5>2
      <4> QED
        BY <4>1, <4>2, <1>seq2, <3>1, SeqEqual
    <3> QED
      BY <3>1, <3>2, <3>4 DEF Queue!Pop
  <2> QED
    BY <2>1, <2>2
<1>4. ASSUME Clear PROVE Queue!Clear
  <2>1. m_size' = 0 /\ result' = "none"
    BY <1>4 DEF Clear
  <2>2. Elements' = <<>>
    BY <2>1, <1>seq2
  <2> QED
    BY <2>1, <2>2 DEF Queue!Clear
<1>5. CASE UNCHANGED vars
  BY <1>5, <1>same DEF vars, Queue!vars
<1> QED
  BY <1>1, <1>2, <1>3, <1>4, <1>5 DEF Next, Queue!Next

--------------------------------------------------------------------------------
\* The types hold for every capacity: no index ever leaves the ring.
THEOREM TypeCorrect == Spec => []TypeOK
BY InitIInv, NextIInv, PTL DEF Spec, IInv

\* An object lives in a slot exactly while the slot is one of the queue's, also
\* when constructing or moving elements throws.
THEOREM LifetimesMatchSize == Spec => []LiveSlots
BY InitIInv, NextIInv, PTL DEF Spec, IInv

\* The ring of every capacity is a bounded FIFO queue.
THEOREM RingIsQueue == Spec => ImplementsQueue
<1>1. Init => Queue!Init
  BY DEF Init, Queue!Init, Elements
<1> QED
  BY <1>1, InitIInv, NextIInv, NextImplementsQueue, PTL
  DEF Spec, ImplementsQueue, Queue!Spec

--------------------------------------------------------------------------------
(* Optional *)

OptionalTyped ==
  /\ opt_alive \subseteq Optionals
  /\ m_storage \in [Optionals -> OptionalValues \cup {MovedFrom, NoObject}]
  /\ m_has_value \in [Optionals -> BOOLEAN]

OptionalInv == OptionalTyped /\ LiveIffHasValue

LEMMA OptionalInitInv == OptionalInit => OptionalInv
BY DEF OptionalInit, OptionalInv, OptionalTyped, LiveIffHasValue

\* When an object is moved, both optionals hold one.
LEMMA MovedBothHold ==
  ASSUME OptionalInv, NEW o \in Optionals, NEW p \in Optionals, o # p,
         m_has_value[p], HoldMoved(o, p), {o, p} \subseteq opt_alive'
  PROVE  /\ m_storage' \in [Optionals -> OptionalValues \cup {MovedFrom, NoObject}]
         /\ m_has_value' \in [Optionals -> BOOLEAN]
         /\ \A q \in Optionals :
              m_storage'[q] # NoObject <=> m_has_value[q] \/ q \in {o, p}
         /\ \A q \in Optionals : m_has_value'[q] <=> m_has_value[q] \/ q \in {o, p}
<1> USE OptionalAssumption DEF OptionalInv, OptionalTyped, LiveIffHasValue
<1>1. m_storage[p] # NoObject /\ m_storage[p] \in OptionalValues \cup {MovedFrom, NoObject}
  OBVIOUS
<1>2. m_storage' = [q \in Optionals |-> IF q = p THEN MovedFrom
                                       ELSE IF q = o THEN m_storage[p] ELSE m_storage[q]]
  BY DEF HoldMoved
<1>3. m_has_value' = [q \in Optionals |-> IF q = o THEN TRUE ELSE m_has_value[q]]
  BY DEF HoldMoved
<1> QED
  BY <1>1, <1>2, <1>3

LEMMA OptionalNextInv == OptionalInv /\ [OptionalNext]_optionalVars => OptionalInv'
<1> SUFFICES ASSUME OptionalInv, [OptionalNext]_optionalVars PROVE OptionalInv'
  OBVIOUS
<1> USE OptionalAssumption DEF OptionalInv, OptionalTyped, LiveIffHasValue
<1>1. ASSUME NEW o \in Optionals, ConstructOptional(o) PROVE OptionalInv'
  BY <1>1 DEF ConstructOptional, Nothing, Hold, ThrowsUnchanged, Exists, Same
<1>2. ASSUME NEW o \in Optionals, DestructOptional(o) PROVE OptionalInv'
  BY <1>2 DEF DestructOptional, DestroyValue, Nothing, Same
<1>3. ASSUME NEW o \in Optionals, Value(o) PROVE OptionalInv'
  BY <1>3 DEF Value, Same
<1>4. ASSUME NEW o \in Optionals, NEW p \in Optionals, CopyConstruct(o, p) PROVE OptionalInv'
  BY <1>4 DEF CopyConstruct, Nothing, Hold, ThrowsUnchanged, Exists, Same
<1>5. ASSUME NEW o \in Optionals, NEW p \in Optionals, MoveConstruct(o, p) PROVE OptionalInv'
  <2>1. CASE m_has_value[p] /\ HoldMoved(o, p)
    <3>1. opt_alive' = opt_alive \cup {o} /\ p \in opt_alive /\ o # p
      BY <1>5, <2>1 DEF MoveConstruct, HoldMoved, Exists
    <3> QED
      BY <2>1, <3>1, MovedBothHold
  <2>2. CASE Nothing \/ ThrowsUnchanged
    BY <1>5, <2>2 DEF MoveConstruct, Nothing, ThrowsUnchanged, Exists, Same
  <2> QED
    BY <1>5, <2>1, <2>2 DEF MoveConstruct
<1>6. ASSUME NEW o \in Optionals, NEW p \in Optionals, CopyAssign(o, p) PROVE OptionalInv'
  BY <1>6 DEF CopyAssign, Nothing, Hold, DestroyValue, ThrowsUnchanged, Same
<1>7. ASSUME NEW o \in Optionals, NEW p \in Optionals, MoveAssign(o, p) PROVE OptionalInv'
  <2>1. CASE o # p /\ m_has_value[p] /\ HoldMoved(o, p)
    <3>1. opt_alive' = opt_alive /\ {o, p} \subseteq opt_alive
      BY <1>7 DEF MoveAssign
    <3> QED
      BY <2>1, <3>1, MovedBothHold
  <2>2. CASE Nothing \/ DestroyValue(o) \/ ThrowsUnchanged
    BY <1>7, <2>2 DEF MoveAssign, Nothing, DestroyValue, ThrowsUnchanged, Same
  <2> QED
    BY <1>7, <2>1, <2>2 DEF MoveAssign
<1>8. CASE UNCHANGED optionalVars
  BY <1>8 DEF optionalVars
<1> QED
  BY <1>1, <1>2, <1>3, <1>4, <1>5, <1>6, <1>7, <1>8 DEF OptionalNext

\* For any number of optionals, whatever throws, an object lives in the storage
\* of one exactly while m_has_value is set: it is destroyed once.
THEOREM ValueLivesWithFlag == OptionalSpec => []LiveIffHasValue
BY OptionalInitInv, OptionalNextInv, PTL DEF OptionalSpec, OptionalInv

--------------------------------------------------------------------------------
(* Function *)

FunctionTyped ==
  /\ heap \subseteq Callables
  /\ m_callable \in [Functions -> heap \cup {NoCallable}]
  /\ running \in Seq(Callables)

FunctionInv == FunctionTyped /\ CallablesOwnedOnce /\ RunningExists

LEMMA FunctionInitInv == FunctionInit => FunctionInv
BY DEF FunctionInit, FunctionInv, FunctionTyped, CallablesOwnedOnce, RunningExists

LEMMA FunctionNextInv == FunctionInv /\ [FunctionNext]_functionVars => FunctionInv'
<1> SUFFICES ASSUME FunctionInv, [FunctionNext]_functionVars PROVE FunctionInv'
  OBVIOUS
<1> USE FunctionAssumption DEF FunctionInv, FunctionTyped, CallablesOwnedOnce, RunningExists
<1>1. ASSUME NEW f \in Functions, AssignCallable(f) PROVE FunctionInv'
  BY <1>1 DEF AssignCallable, MayReplace
<1>2. ASSUME NEW f \in Functions, DestructFunction(f) PROVE FunctionInv'
  BY <1>2 DEF DestructFunction, MayReplace
<1>3. ASSUME NEW f \in Functions, Invoke(f) PROVE FunctionInv'
  BY <1>3 DEF Invoke
<1>4. ASSUME NEW f \in Functions, NEW g \in Functions, Move(f, g) PROVE FunctionInv'
  BY <1>4 DEF Move, MayReplace
<1>5. ASSUME Leave PROVE FunctionInv'
  BY <1>5 DEF Leave
<1>6. CASE UNCHANGED functionVars
  BY <1>6 DEF functionVars
<1> QED
  BY <1>1, <1>2, <1>3, <1>4, <1>5, <1>6 DEF FunctionNext

\* Of any number of functions one owns a callable, as long as it exists, and moves
\* and assignments neither share nor lose it.
THEOREM OneFunctionOwns == FunctionSpec => []CallablesOwnedOnce
BY FunctionInitInv, FunctionNextInv, PTL DEF FunctionSpec, FunctionInv

\* However calls are nested, a callable that runs is not destroyed, if none replaces or
\* destroys the function that is calling it.
THEOREM RunningIsAlive == FunctionSpec => []RunningExists
BY FunctionInitInv, FunctionNextInv, PTL DEF FunctionSpec, FunctionInv

--------------------------------------------------------------------------------
(* ThreadLocalLifetimeTracker: the counters of a thread's test account, since their *)
(* latest reset, for its own objects; the invariant adds that each thread has        *)
(* finitely many.                                                                   *)

TrackerTyped ==
  /\ counters \in [TestThreads -> [Counters -> Nat]]
  /\ testing \subseteq TestThreads
  /\ maker \in [Objects -> TestThreads \cup {NoOne}]
  /\ baseline \in [TestThreads -> Nat]

MadeInTests == \A t \in TestThreads : IsFiniteSet(Made(t))

TrackerInv == TrackerTyped /\ MadeInTests /\ TestsDoNotInterfere

LEMMA TrackerInitInv == TrackerInit => TrackerInv
BY TrackerAssumption, FS_EmptySet
DEF TrackerInit, TrackerInv, TrackerTyped, MadeInTests, TestsDoNotInterfere, Made, Zero

\* What the property says of one thread.
Accounted(t) ==
  LET of == counters[t]
  IN  /\ of["num_constructions"] - of["num_destructions"] = Cardinality(Made(t)) - baseline[t]
      /\ of["num_constructions"] = of["num_default_constructions"]
           + of["num_copy_constructions"] + of["num_move_constructions"]

\* After a reset the counters say nothing of what was before, whichever objects there are.
LEMMA ResetKeeps ==
  ASSUME TrackerInv, NEW t \in TestThreads, Reset(t), UNCHANGED maker,
         testing' \subseteq testing \cup {t}
  PROVE  TrackerInv'
<1> USE DEF TrackerInv
<1>1. \A u \in TestThreads : Made(u)' = Made(u)
  BY DEF Made
<1>2. Cardinality(Made(t)) \in Nat
  BY FS_CardinalityType DEF MadeInTests
<1>3. /\ counters' = [counters EXCEPT ![t] = Zero]
      /\ baseline' = [baseline EXCEPT ![t] = Cardinality(Made(t))]
      /\ crossed' = crossed \ {t}
  BY DEF Reset, Remember
<1>4. TrackerTyped'
  BY <1>2, <1>3 DEF TrackerTyped, Zero
<1>5. MadeInTests'
  BY <1>1 DEF MadeInTests
<1>6. Accounted(t)'
  <2>1. counters'[t] = Zero /\ baseline'[t] = Cardinality(Made(t)')
    BY <1>1, <1>3 DEF TrackerTyped
  <2>2. \A k \in Counters : Zero[k] = 0
    BY DEF Zero
  <2>3. Cardinality(Made(t)') \in Nat
    BY <1>1, <1>2
  <2> QED
    BY <2>1, <2>2, <2>3 DEF Accounted, Counters
<1>7. ASSUME NEW u \in testing' \ crossed' PROVE Accounted(u)'
  <2>1. CASE u = t
    BY <1>6, <2>1
  <2>2. CASE u # t
    <3>1. u \in testing \ crossed /\ u \in TestThreads
      BY <1>3, <2>2 DEF TrackerTyped
    <3>2. counters'[u] = counters[u] /\ baseline'[u] = baseline[u] /\ Made(u)' = Made(u)
      BY <1>1, <1>3, <2>2, <3>1 DEF TrackerTyped
    <3> QED
      BY <3>1, <3>2 DEF Accounted, TestsDoNotInterfere
  <2> QED
    BY <2>1, <2>2
<1>8. TestsDoNotInterfere'
  BY <1>7 DEF TestsDoNotInterfere, Accounted
<1> QED
  BY <1>4, <1>5, <1>8

\* Counting changes the counters of one thread, and of these the named ones.
LEMMA CountsOwn ==
  ASSUME TrackerTyped, NEW t \in TestThreads, NEW names, Count(t, names)
  PROVE  /\ counters' \in [TestThreads -> [Counters -> Nat]]
         /\ \A u \in TestThreads \ {t} : counters'[u] = counters[u]
         /\ \A k \in Counters :
              counters'[t][k] = IF k \in names THEN counters[t][k] + 1 ELSE counters[t][k]
BY DEF TrackerTyped, Count

LEMMA TrackerNextInv == TrackerInv /\ [TrackerNext]_trackerVars => TrackerInv'
<1> SUFFICES ASSUME TrackerInv, [TrackerNext]_trackerVars PROVE TrackerInv'
  OBVIOUS
<1> USE TrackerAssumption DEF TrackerInv
<1>1. ASSUME NEW t \in TestThreads, BeginFixture(t) PROVE TrackerInv'
  BY <1>1, ResetKeeps DEF BeginFixture
<1>2. ASSUME NEW t \in TestThreads, EndFixture(t) PROVE TrackerInv'
  BY <1>2, ResetKeeps DEF EndFixture
<1>3. ASSUME NEW t \in TestThreads, NEW o \in Objects, ConstructTracker(t, o) PROVE TrackerInv'
  <2>1. PICK k \in {"num_default_constructions", "num_copy_constructions",
                    "num_move_constructions"} : Count(t, {k, "num_constructions"})
    BY <1>3 DEF ConstructTracker
  <2>2. /\ t \in testing /\ maker[o] = NoOne /\ maker' = [maker EXCEPT ![o] = t]
        /\ testing' = testing /\ crossed' = crossed /\ baseline' = baseline
    BY <1>3 DEF ConstructTracker
  <2>3. TrackerTyped'
    BY <2>1, <2>2, CountsOwn DEF TrackerTyped
  <2>4. Made(t)' = Made(t) \cup {o} /\ o \notin Made(t)
    BY <2>2 DEF Made, TrackerTyped
  <2>5. \A u \in TestThreads \ {t} : Made(u)' = Made(u)
    BY <2>2 DEF Made, TrackerTyped
  <2>6. IsFiniteSet(Made(t)) /\ Cardinality(Made(t)) \in Nat
    BY FS_CardinalityType DEF MadeInTests
  <2>7. IsFiniteSet(Made(t)') /\ Cardinality(Made(t)') = Cardinality(Made(t)) + 1
    BY <2>4, <2>6, FS_AddElement
  <2>8. MadeInTests'
    BY <2>2, <2>5, <2>7 DEF MadeInTests
  <2>9. ASSUME NEW u \in testing' \ crossed'
        PROVE  Accounted(u)'
    <3>1. CASE u = t
      BY <2>1, <2>2, <2>6, <2>7, <3>1, CountsOwn DEF TestsDoNotInterfere, Accounted, TrackerTyped, Counters
    <3>2. CASE u # t
      BY <2>1, <2>2, <2>5, <3>2, CountsOwn DEF TestsDoNotInterfere, Accounted, TrackerTyped
    <3> QED
      BY <3>1, <3>2
  <2> QED
    BY <2>3, <2>8, <2>9 DEF TestsDoNotInterfere, Accounted
<1>4. ASSUME NEW t \in TestThreads, NEW o \in Objects, DestroyTracker(t, o) PROVE TrackerInv'
  <2>1. /\ t \in testing /\ maker[o] # NoOne /\ maker' = [maker EXCEPT ![o] = NoOne]
        /\ testing' = testing /\ baseline' = baseline /\ Count(t, {"num_destructions"})
        /\ crossed' = IF maker[o] = t THEN crossed ELSE crossed \cup {t, maker[o]}
    BY <1>4 DEF DestroyTracker
  <2>2. TrackerTyped'
    BY <2>1, CountsOwn DEF TrackerTyped
  <2>3. \A u \in TestThreads : Made(u)' = Made(u) \ {o} /\ (o \in Made(u) <=> u = maker[o])
    BY <2>1 DEF Made, TrackerTyped
  <2>4. \A u \in TestThreads : IsFiniteSet(Made(u)')
    BY <2>3, FS_Subset DEF MadeInTests
  <2>5. MadeInTests'
    BY <2>1, <2>3, <2>4 DEF MadeInTests
  <2>6. ASSUME NEW u \in testing' \ crossed'
        PROVE  Accounted(u)'
    <3>1. CASE u = t
      <4>1. maker[o] = t /\ u \in testing \ crossed
        BY <2>1, <3>1
      <4>2. IsFiniteSet(Made(t)) /\ o \in Made(t)
        BY <2>3, <4>1 DEF MadeInTests
      <4>3. Cardinality(Made(t)) \in Nat /\ Cardinality(Made(t)') = Cardinality(Made(t)) - 1
        BY <2>3, <4>2, FS_CardinalityType, FS_RemoveElement
      <4> QED
        BY <2>1, <3>1, <4>1, <4>3, CountsOwn DEF TestsDoNotInterfere, Accounted, TrackerTyped, Counters
    <3>2. CASE u # t
      <4>1. u # maker[o] /\ u \in testing \ crossed
        BY <2>1, <3>2
      <4>2. Made(u)' = Made(u)
        BY <2>1, <2>3, <4>1 DEF TrackerTyped
      <4> QED
        BY <2>1, <3>2, <4>1, <4>2, CountsOwn DEF TestsDoNotInterfere, Accounted, TrackerTyped
    <3> QED
      BY <3>1, <3>2
  <2> QED
    BY <2>2, <2>5, <2>6 DEF TestsDoNotInterfere, Accounted
<1>5. ASSUME NEW t \in TestThreads, NEW o \in Objects, NEW p \in Objects, AssignTracker(t, o, p)
      PROVE  TrackerInv'
  <2>1. UNCHANGED <<testing, maker, crossed, baseline>> /\ \A u \in TestThreads : Made(u)' = Made(u)
    BY <1>5 DEF AssignTracker, Made
  <2>2. CASE UNCHANGED counters
    BY <2>1, <2>2 DEF TrackerTyped, MadeInTests, TestsDoNotInterfere
  <2>3. ASSUME NEW k \in {"num_copy_assignments", "num_move_assignments"}, Count(t, {k})
        PROVE  TrackerInv'
    <3>1. TrackerTyped' /\ MadeInTests'
      BY <2>1, <2>3, CountsOwn DEF TrackerTyped, MadeInTests
    <3>2. \A u \in TestThreads :
            \A n \in {"num_constructions", "num_destructions", "num_default_constructions",
                      "num_copy_constructions", "num_move_constructions"} :
              counters'[u][n] = counters[u][n]
      BY <2>3, CountsOwn DEF TrackerTyped, Counters
    <3>3. TestsDoNotInterfere'
      BY <2>1, <3>2 DEF TestsDoNotInterfere, Accounted, TrackerTyped
    <3> QED
      BY <3>1, <3>3
  <2> QED
    BY <1>5, <2>2, <2>3 DEF AssignTracker
<1>6. ASSUME NEW t \in TestThreads, ResetInTest(t) PROVE TrackerInv'
  BY <1>6, ResetKeeps DEF ResetInTest
<1>7. CASE UNCHANGED trackerVars
  <2>1. UNCHANGED trackerVars /\ \A t \in TestThreads : Made(t)' = Made(t)
    BY <1>7 DEF trackerVars, Made
  <2> QED
    BY <2>1 DEF trackerVars, TrackerTyped, MadeInTests, TestsDoNotInterfere
<1> QED
  BY <1>1, <1>2, <1>3, <1>4, <1>5, <1>6, <1>7 DEF TrackerNext

\* On any number of threads, tests that keep their objects to themselves do not
\* see each other in the counters, also when they reset them with objects alive.
THEOREM CountersAreOwn == TrackerSpec => []TestsDoNotInterfere
BY TrackerInitInv, TrackerNextInv, PTL DEF TrackerSpec, TrackerInv

--------------------------------------------------------------------------------
(* SignalHandling *)

\* Where main may be, the handler apart.
MainPlaces == {"greeting", "setup", "open", "waiting", "report", "perror"}

SignalTyped == handled \in BOOLEAN /\ blocked \in BOOLEAN

\* Once the handler is installed main only waits, so it interrupts no printing;
\* and while it runs the signal is blocked, so it is not interrupted either.
SignalPlaces ==
  /\ stack \in Seq(MainPlaces \cup {"handler"})
  /\ handled => program = "traditional"
  /\ \/ stack = <<>> /\ ~handled
     \/ /\ Len(stack) = 1 /\ stack[1] \in MainPlaces
        /\ handled => stack[1] = "waiting"
     \/ /\ Len(stack) = 2 /\ stack[1] = "waiting" /\ stack[2] = "handler"
        /\ handled /\ blocked

SignalInv == SignalTyped /\ SignalPlaces

LEMMA SignalInitInv == SignalInit => SignalInv
<1>1. SignalInit => SignalTyped
  BY DEF SignalInit, SignalTyped
<1>2. SignalInit => SignalPlaces
  BY DEF SignalInit, SignalPlaces
<1> QED
  BY <1>1, <1>2 DEF SignalInv

LEMMA SignalNextInv == SignalInv /\ [SignalNext]_signalVars => SignalInv'
<1> SUFFICES ASSUME SignalInv, [SignalNext]_signalVars PROVE SignalInv'
  OBVIOUS
<1> USE DEF SignalInv, MainPlaces, At, Goto, SignalTyped, SignalPlaces
<1>0. SignalTyped'
  BY DEF SignalNext, Start, Greeted, SetUp, Open, Read, Reported, Exit, Send, Deliver,
         HandlerReturns, signalVars
<1>1. ASSUME Start PROVE SignalPlaces'
  BY <1>1 DEF Start
<1>2. ASSUME Greeted PROVE SignalPlaces'
  BY <1>2 DEF Greeted
<1>3. ASSUME SetUp PROVE SignalPlaces'
  BY <1>3 DEF SetUp
<1>4. ASSUME Open PROVE SignalPlaces'
  BY <1>4 DEF Open
<1>5. ASSUME Read PROVE SignalPlaces'
  BY <1>5 DEF Read
<1>6. ASSUME Reported PROVE SignalPlaces'
  BY <1>6 DEF Reported
<1>7. ASSUME Exit PROVE SignalPlaces'
  BY <1>7 DEF Exit
<1>8. ASSUME Send PROVE SignalPlaces'
  BY <1>8 DEF Send
<1>9. ASSUME Deliver PROVE SignalPlaces'
  <2>1. CASE ~handled
    <3>1. stack' = <<>> /\ ~handled'
      BY <1>9, <2>1 DEF Deliver
    <3> QED
      BY <3>1
  <2>2. CASE handled
    BY <1>9, <2>2 DEF Deliver
  <2> QED
    BY <2>1, <2>2
<1>10. ASSUME HandlerReturns PROVE SignalPlaces'
  BY <1>10 DEF HandlerReturns
<1>11. CASE UNCHANGED signalVars
  BY <1>11 DEF signalVars
<1> QED
  BY <1>0, <1>1, <1>2, <1>3, <1>4, <1>5, <1>6, <1>7, <1>8, <1>9, <1>10, <1>11 DEF SignalNext

\* Wherever the signal strikes, at most one place is in the middle of printing.
THEOREM HandlerInterruptsNoPrinting == SignalSpec => []StreamsNotReentered
<1>1. SignalInv => StreamsNotReentered
  <2> DEFINE printing == {i \in 1 .. Len(stack) : stack[i] \in Printing}
  <2> SUFFICES ASSUME SignalInv PROVE Cardinality(printing) <= 1
    BY DEF StreamsNotReentered
  <2>1. PICK j : printing \subseteq {j}
    <3>1. CASE Len(stack) <= 1
      <4>1. printing \subseteq {1}
        BY <3>1 DEF SignalInv, SignalPlaces
      <4> QED
        BY <4>1
    <3>2. CASE Len(stack) = 2
      <4>1. printing \subseteq {2}
        <5>1. stack[1] = "waiting"
          BY <3>2 DEF SignalInv, SignalPlaces
        <5>2. stack[1] \notin Printing
          BY <5>1 DEF Printing
        <5>3. \A i \in 1 .. Len(stack) : i = 1 \/ i = 2
          BY <3>2
        <5> QED
          BY <5>2, <5>3
      <4> QED
        BY <4>1
    <3> QED
      BY <3>1, <3>2 DEF SignalInv, SignalPlaces
  <2>2. IsFiniteSet({j}) /\ Cardinality({j}) = 1
    BY FS_Singleton
  <2> HIDE DEF printing
  <2> QED
    BY <2>1, <2>2, FS_Subset
<1> QED
  BY <1>1, SignalInitInv, SignalNextInv, PTL DEF SignalSpec

================================================================================
