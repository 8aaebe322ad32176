----------------------- MODULE FixedCapacityVectorProofs -----------------------
(***************************************************************************)
(* Proofs about FixedCapacityVector, for any number of vectors, capacities  *)
(* and values, and elements that throw: which slots hold elements, and that *)
(* the vectors are the sequences of SequenceVectors.                       *)
(***************************************************************************)
EXTENDS FixedCapacityVector, SequenceTheorems, TLAPS

\* A buffer b of capacity c, of which n elements are counted.
Sound(b, n, c) ==
  /\ b \in [0 .. c - 1 -> Values \cup {Raw}]
  /\ n \in 0 .. c
  /\ \A s \in 0 .. c - 1 : b[s] # Raw => s < n
  /\ ~move_may_throw => \A s \in 0 .. c - 1 : s < n => b[s] # Raw

\* The types without those of the buffers' elements.
VectorsTyped ==
  /\ alive \subseteq Vectors
  /\ m_buffer = [v \in Vectors |-> m_buffer[v]]
  /\ m_size = [v \in Vectors |-> m_size[v]]

Inv ==
  /\ VectorsTyped
  /\ \A v \in Vectors : Sound(m_buffer[v], m_size[v], Capacity[v])
  /\ \A v \in Vectors \ alive : m_size[v] = 0

\* A step that gives sound buffers to some of the vectors and leaves the others alone.
LEMMA BuffersStaySound ==
  ASSUME Inv, UNCHANGED move_may_throw,
         VectorsTyped',
         \A v \in Vectors :
           \/ m_buffer'[v] = m_buffer[v] /\ m_size'[v] = m_size[v]
           \/ Sound(m_buffer'[v], m_size'[v], Capacity[v]),
         \A v \in Vectors \ alive' : m_size'[v] = 0
  PROVE  Inv'
<1>1. \A v \in Vectors : Sound(m_buffer[v], m_size[v], Capacity[v])'
  BY DEF Inv, Sound
<1> QED
  BY <1>1 DEF Inv, Sound

LEMMA InitInv == Init => Inv
<1> SUFFICES ASSUME Init PROVE Inv
  OBVIOUS
<1>1. VectorsTyped
  BY DEF Init, VectorsTyped
<1>2. ASSUME NEW v \in Vectors PROVE Sound(m_buffer[v], m_size[v], Capacity[v])
  BY VectorAssumption DEF Init, Sound, Empty, Slots
<1> QED
  BY <1>1, <1>2 DEF Init, Inv

LEMMA SoundByElements ==
  ASSUME NEW b, NEW c \in Nat, NEW n \in 0 .. c,
         b = [s \in 0 .. c - 1 |-> b[s]],
         \A s \in 0 .. c - 1 :
           \/ s < n /\ b[s] \in Values \cup {Raw} /\ (~move_may_throw => b[s] # Raw)
           \/ ~(s < n) /\ b[s] = Raw
  PROVE  Sound(b, n, c)
<1>1. b \in [0 .. c - 1 -> Values \cup {Raw}]
  OBVIOUS
<1> QED
  BY <1>1 DEF Sound

LEMMA EmptySound == ASSUME NEW v \in Vectors PROVE Sound(Empty(v), 0, Capacity[v])
BY VectorAssumption DEF Sound, Empty, Slots

LEMMA FilledSound ==
  ASSUME Inv, NEW v \in Vectors, NEW w \in Vectors, ~TooLarge(v, w), NEW k \in 0 .. m_size[w]
  PROVE  Sound(Filled(v, w, k), k, Capacity[v])
<1>1. Capacity[v] \in Nat /\ Capacity[w] \in Nat /\ Raw \notin Values
  BY VectorAssumption
<1>2. m_size[w] \in 0 .. Capacity[w] /\ m_size[v] \in 0 .. Capacity[v]
  BY DEF Inv, Sound
<1>3. k <= Capacity[v] /\ k <= Capacity[w] /\ k \in Nat
  BY <1>1, <1>2 DEF TooLarge
<1>4. ASSUME NEW s \in Slots(v), s < k
      PROVE  Filled(v, w, k)[s] = m_buffer[w][s] /\ s \in Slots(w) /\ s < m_size[w]
  BY <1>1, <1>2, <1>3, <1>4 DEF Filled, Slots
<1>5. ASSUME NEW s \in Slots(v), ~(s < k) PROVE Filled(v, w, k)[s] = Raw
  <2>1. Filled(v, w, k)[s] = IF s < m_size[v] THEN Raw ELSE m_buffer[v][s]
    BY <1>5 DEF Filled, Without, Slots
  <2>2. m_buffer[v][s] # Raw => s < m_size[v]
    BY DEF Inv, Sound, Slots
  <2> QED
    BY <2>1, <2>2
<1>6. DOMAIN Filled(v, w, k) = Slots(v) /\ Filled(v, w, k) = [s \in Slots(v) |-> Filled(v, w, k)[s]]
  BY DEF Filled
<1>7. ASSUME NEW s \in Slots(w), s < m_size[w]
      PROVE  m_buffer[w][s] \in Values \cup {Raw} /\ (~move_may_throw => m_buffer[w][s] # Raw)
  BY <1>7 DEF Inv, Sound, Slots
<1>8. Filled(v, w, k) = [s \in 0 .. Capacity[v] - 1 |-> Filled(v, w, k)[s]]
  BY <1>6 DEF Slots
<1>9. ASSUME NEW s \in 0 .. Capacity[v] - 1
      PROVE  \/ /\ s < k /\ Filled(v, w, k)[s] \in Values \cup {Raw}
                /\ ~move_may_throw => Filled(v, w, k)[s] # Raw
             \/ ~(s < k) /\ Filled(v, w, k)[s] = Raw
  <2>1. s \in Slots(v)
    BY DEF Slots
  <2> QED
    BY <1>4, <1>5, <1>7, <2>1
<1>10. k \in 0 .. Capacity[v]
  BY <1>1, <1>3
<1> QED
  <2> QED
    BY <1>1, <1>8, <1>9, <1>10, SoundByElements

LEMMA WithoutSound ==
  ASSUME Inv, NEW w \in Vectors
  PROVE  /\ Sound(Without(w, m_size[w]), 0, Capacity[w])
         /\ move_may_throw => \A k \in 0 .. m_size[w] : Sound(Without(w, k), m_size[w], Capacity[w])
<1>1. Capacity[w] \in Nat /\ Raw \notin Values
  BY VectorAssumption
<1>2. Sound(m_buffer[w], m_size[w], Capacity[w])
  BY DEF Inv
<1>3. \A k \in 0 .. m_size[w], s \in Slots(w) :
        Without(w, k)[s] = IF s < k THEN Raw ELSE m_buffer[w][s]
  BY DEF Without
<1>4. \A k \in 0 .. m_size[w] : Without(w, k) = [s \in Slots(w) |-> Without(w, k)[s]]
  BY DEF Without
<1> QED
  BY <1>1, <1>2, <1>3, <1>4 DEF Sound, Slots

LEMMA ResizedSound ==
  ASSUME Inv, NEW v \in Vectors, NEW n \in 0 .. Capacity[v]
  PROVE  Sound(ResizedTo(v, n), n, Capacity[v])
<1>1. Capacity[v] \in Nat /\ Raw \notin Values /\ Default \in Values
  BY VectorAssumption
<1>2. Sound(m_buffer[v], m_size[v], Capacity[v])
  BY DEF Inv
<1>3. ASSUME NEW s \in Slots(v)
      PROVE  ResizedTo(v, n)[s] = IF s \in n .. m_size[v] - 1 THEN Raw
                                  ELSE IF s \in m_size[v] .. n - 1 THEN Default ELSE m_buffer[v][s]
  BY DEF ResizedTo
<1>4. ResizedTo(v, n) = [s \in Slots(v) |-> ResizedTo(v, n)[s]]
  BY DEF ResizedTo
<1>5. m_size[v] \in 0 .. Capacity[v]
  BY <1>2 DEF Sound
<1>6. ASSUME NEW s \in Slots(v)
      PROVE  \/ /\ s < n /\ ResizedTo(v, n)[s] \in Values \cup {Raw}
                /\ ~move_may_throw => ResizedTo(v, n)[s] # Raw
             \/ ~(s < n) /\ ResizedTo(v, n)[s] = Raw
  <2>1. s \in Nat /\ s < Capacity[v] /\ n \in Nat /\ m_size[v] \in Nat
    BY <1>1, <1>5 DEF Slots
  <2>2. /\ m_buffer[v][s] \in Values \cup {Raw}
        /\ m_buffer[v][s] # Raw => s < m_size[v]
        /\ ~move_may_throw => (s < m_size[v] => m_buffer[v][s] # Raw)
    BY <1>2 DEF Sound, Slots
  <2>3. CASE s < n /\ s < m_size[v]
    BY <1>3, <2>1, <2>2, <2>3
  <2>4. CASE s < n /\ ~(s < m_size[v])
    BY <1>1, <1>3, <2>1, <2>4
  <2>5. CASE ~(s < n)
    BY <1>3, <2>1, <2>2, <2>5
  <2> QED
    BY <2>3, <2>4, <2>5
<1>7. ResizedTo(v, n) = [s \in 0 .. Capacity[v] - 1 |-> ResizedTo(v, n)[s]]
  BY <1>4 DEF Slots
<1> QED
  BY <1>1, <1>6, <1>7, SoundByElements DEF Slots


LEMMA NextKeepsTypes == Inv /\ Step => VectorsTyped'
<1> SUFFICES ASSUME Inv, Step PROVE VectorsTyped'
  OBVIOUS
<1>1. VectorsTyped
  BY DEF Inv
<1>2. PICK v \in Vectors :
        \/ \E list \in Lists : Construct(v, list)
        \/ \E w \in Vectors :
             \/ CopyConstruct(v, w) \/ MoveConstruct(v, w)
             \/ CopyAssign(v, w) \/ MoveAssign(v, w)
        \/ \E n \in Sizes : Resize(v, n) \/ At(v, n)
        \/ \E x \in Values : PushBack(v, x)
        \/ PopBack(v) \/ Clear(v) \/ Destroy(v)
  BY DEF Step
<1>3. CASE \E list \in Lists : Construct(v, list)
  BY <1>1, <1>3 DEF Construct, Refuse, VectorsTyped
<1>4. ASSUME NEW w \in Vectors,
             CopyConstruct(v, w) \/ MoveConstruct(v, w) \/ CopyAssign(v, w) \/ MoveAssign(v, w)
      PROVE  VectorsTyped'
  <2>1. CASE CopyConstruct(v, w)
    BY <1>1, <2>1 DEF CopyConstruct, Refuse, VectorsTyped
  <2>2. CASE MoveConstruct(v, w)
    BY <1>1, <2>2 DEF MoveConstruct, TakeElements, Refuse, VectorsTyped
  <2>3. CASE CopyAssign(v, w)
    BY <1>1, <2>3 DEF CopyAssign, Refuse, VectorsTyped
  <2>4. CASE MoveAssign(v, w)
    BY <1>1, <2>4 DEF MoveAssign, TakeElements, Refuse, VectorsTyped
  <2> QED
    BY <1>4, <2>1, <2>2, <2>3, <2>4
<1>5. CASE \E n \in Sizes : Resize(v, n) \/ At(v, n)
  BY <1>1, <1>5 DEF Resize, At, Refuse, VectorsTyped
<1>6. CASE (\E x \in Values : PushBack(v, x)) \/ PopBack(v) \/ Clear(v) \/ Destroy(v)
  BY <1>1, <1>6 DEF PushBack, PopBack, Clear, Destroy, Refuse, VectorsTyped
<1> QED
  BY <1>2, <1>3, <1>4, <1>5, <1>6

\* A constructor or an assignment between two vectors.
LEMMA BetweenVectorsInv ==
  ASSUME Inv, UNCHANGED move_may_throw, VectorsTyped', NEW v \in Vectors, NEW w \in Vectors,
         CopyConstruct(v, w) \/ MoveConstruct(v, w) \/ CopyAssign(v, w) \/ MoveAssign(v, w)
  PROVE  Inv'
<1>1. m_size[w] \in Nat
  BY VectorAssumption DEF Inv, Sound
<1>2. CASE UNCHANGED <<alive, m_buffer, m_size>>
  BY <1>2, BuffersStaySound DEF Inv
<1>3. CASE CopyConstruct(v, w) /\ ~UNCHANGED <<alive, m_buffer, m_size>>
  <2>1. /\ v \notin alive /\ ~TooLarge(v, w)
        /\ m_buffer' = [m_buffer EXCEPT ![v] = Filled(v, w, m_size[w])]
        /\ m_size' = [m_size EXCEPT ![v] = m_size[w]]
        /\ alive' = alive \cup {v}
    BY <1>3 DEF CopyConstruct, Refuse
  <2>2. Sound(m_buffer'[v], m_size'[v], Capacity[v])
    BY <1>1, <2>1, FilledSound DEF Inv, VectorsTyped
  <2>3. \A u \in Vectors \ {v} : m_buffer'[u] = m_buffer[u] /\ m_size'[u] = m_size[u]
    BY <2>1 DEF Inv, VectorsTyped
  <2>4. \A u \in Vectors \ alive' : m_size'[u] = 0
    BY <2>1, <2>3 DEF Inv
  <2> QED
    BY <2>2, <2>3, <2>4, BuffersStaySound
<1>4. CASE /\ ~UNCHANGED <<alive, m_buffer, m_size>>
           /\ ~TooLarge(v, w) /\ w \in alive /\ v # w /\ TakeElements(v, w)
           /\ alive' = alive \cup {v}
  <2>1. /\ m_buffer' = [m_buffer EXCEPT ![v] = Filled(v, w, m_size[w]),
                                         ![w] = Without(w, m_size[w])]
        /\ m_size' = [m_size EXCEPT ![v] = m_size[w], ![w] = 0]
    BY <1>4 DEF TakeElements
  <2>2. \A u \in Vectors :
          /\ m_buffer'[u] = IF u = w THEN Without(w, m_size[w])
                            ELSE IF u = v THEN Filled(v, w, m_size[w]) ELSE m_buffer[u]
          /\ m_size'[u] = IF u = w THEN 0 ELSE IF u = v THEN m_size[w] ELSE m_size[u]
    BY <2>1 DEF Inv, VectorsTyped
  <2>3. Sound(m_buffer'[v], m_size'[v], Capacity[v])
    BY <1>1, <1>4, <2>2, FilledSound
  <2>4. Sound(m_buffer'[w], m_size'[w], Capacity[w])
    BY <2>2, WithoutSound
  <2>5. \A u \in Vectors \ {v, w} : m_buffer'[u] = m_buffer[u] /\ m_size'[u] = m_size[u]
    BY <2>2
  <2>6. \A u \in Vectors \ alive' : m_size'[u] = 0
    BY <1>4, <2>5 DEF Inv
  <2> QED
    BY <2>3, <2>4, <2>5, <2>6, BuffersStaySound
<1>5. CASE MoveConstruct(v, w) /\ ~UNCHANGED <<alive, m_buffer, m_size>> /\ alive' = alive
  <2>1. PICK k \in 0 .. m_size[w] - 1 : m_buffer' = [m_buffer EXCEPT ![w] = Without(w, k)]
    BY <1>5 DEF MoveConstruct, Refuse
  <2>2. move_may_throw /\ UNCHANGED <<alive, m_size>>
    BY <1>5 DEF MoveConstruct, Refuse
  <2>3. k \in 0 .. m_size[w]
    BY <1>1
  <2>4. Sound(m_buffer'[w], m_size'[w], Capacity[w])
    BY <2>1, <2>2, <2>3, WithoutSound DEF Inv, VectorsTyped
  <2>5. \A u \in Vectors \ {w} : m_buffer'[u] = m_buffer[u] /\ m_size'[u] = m_size[u]
    BY <2>1, <2>2 DEF Inv, VectorsTyped
  <2>6. \A u \in Vectors \ alive' : m_size'[u] = 0
    BY <2>2 DEF Inv
  <2> QED
    BY <2>4, <2>5, <2>6, BuffersStaySound
<1>6. CASE CopyAssign(v, w) /\ ~UNCHANGED <<alive, m_buffer, m_size>>
  <2>1. PICK k \in 0 .. m_size[w] :
          /\ m_buffer' = [m_buffer EXCEPT ![v] = Filled(v, w, k)]
          /\ m_size' = [m_size EXCEPT ![v] = k]
    BY <1>6 DEF CopyAssign, Refuse
  <2>2. ~TooLarge(v, w) /\ alive' = alive /\ v \in alive
    BY <1>6 DEF CopyAssign, Refuse
  <2>3. Sound(m_buffer'[v], m_size'[v], Capacity[v])
    BY <2>1, <2>2, FilledSound DEF Inv, VectorsTyped
  <2>4. \A u \in Vectors \ {v} : m_buffer'[u] = m_buffer[u] /\ m_size'[u] = m_size[u]
    BY <2>1 DEF Inv, VectorsTyped
  <2>5. \A u \in Vectors \ alive' : m_size'[u] = 0
    BY <2>2, <2>4 DEF Inv
  <2> QED
    BY <2>3, <2>4, <2>5, BuffersStaySound
<1>7. CASE /\ MoveAssign(v, w) /\ ~UNCHANGED <<alive, m_buffer, m_size>> /\ ~TakeElements(v, w)
  <2>1. PICK k \in 0 .. m_size[w] - 1 :
          /\ m_buffer' = [m_buffer EXCEPT ![v] = Filled(v, w, k), ![w] = Without(w, k)]
          /\ m_size' = [m_size EXCEPT ![v] = k]
    BY <1>7 DEF MoveAssign, Refuse
  <2>2. move_may_throw /\ ~TooLarge(v, w) /\ alive' = alive /\ v \in alive /\ v # w
    BY <1>7 DEF MoveAssign, Refuse
  <2>3. k \in 0 .. m_size[w]
    BY <1>1
  <2>4. \A u \in Vectors :
          /\ m_buffer'[u] = IF u = w THEN Without(w, k)
                            ELSE IF u = v THEN Filled(v, w, k) ELSE m_buffer[u]
          /\ m_size'[u] = IF u = v THEN k ELSE m_size[u]
    BY <2>1 DEF Inv, VectorsTyped
  <2>5. Sound(m_buffer'[v], m_size'[v], Capacity[v])
    BY <2>2, <2>3, <2>4, FilledSound
  <2>6. Sound(m_buffer'[w], m_size'[w], Capacity[w])
    BY <2>2, <2>3, <2>4, WithoutSound
  <2>7. \A u \in Vectors \ {v, w} : m_buffer'[u] = m_buffer[u] /\ m_size'[u] = m_size[u]
    BY <2>4
  <2>8. \A u \in Vectors \ alive' : m_size'[u] = 0
    BY <2>2, <2>4 DEF Inv
  <2> QED
    BY <2>5, <2>6, <2>7, <2>8, BuffersStaySound
<1> QED
  <2>1. alive \cup {v} = alive \/ v \notin alive
    OBVIOUS
  <2>2. CASE MoveConstruct(v, w)
    BY <1>2, <1>4, <1>5, <2>2 DEF MoveConstruct, Refuse
  <2>3. CASE MoveAssign(v, w)
    BY <1>2, <1>4, <1>7, <2>1, <2>3 DEF MoveAssign, Refuse
  <2> QED
    BY <1>2, <1>3, <1>6, <2>2, <2>3

LEMMA NextInv == Inv /\ [Next]_vars => Inv'
<1> SUFFICES ASSUME Inv, Next PROVE Inv'
  BY DEF vars, Inv, VectorsTyped, Sound
<1>1. VectorsTyped' /\ UNCHANGED move_may_throw
  BY NextKeepsTypes DEF Next
<1>2. PICK v \in Vectors :
        \/ \E list \in Lists : Construct(v, list)
        \/ \E w \in Vectors :
             \/ CopyConstruct(v, w) \/ MoveConstruct(v, w)
             \/ CopyAssign(v, w) \/ MoveAssign(v, w)
        \/ \E n \in Sizes : Resize(v, n) \/ At(v, n)
        \/ \E x \in Values : PushBack(v, x)
        \/ PopBack(v) \/ Clear(v) \/ Destroy(v)
  BY DEF Next, Step
<1>3. /\ Sound(m_buffer[v], m_size[v], Capacity[v])
      /\ Capacity[v] \in Nat \ {0} /\ m_size[v] \in 0 .. Capacity[v]
      /\ Raw \notin Values
  BY VectorAssumption DEF Inv, Sound
<1>4. ASSUME NEW b, NEW n, Sound(b, n, Capacity[v]),
             m_buffer' = [m_buffer EXCEPT ![v] = b], m_size' = [m_size EXCEPT ![v] = n],
             v \notin alive' => n = 0, alive \ {v} \subseteq alive'
      PROVE  Inv'
  <2>1. m_buffer'[v] = b /\ m_size'[v] = n
    BY <1>4 DEF Inv, VectorsTyped
  <2>2. \A u \in Vectors \ {v} : m_buffer'[u] = m_buffer[u] /\ m_size'[u] = m_size[u]
    BY <1>4 DEF Inv, VectorsTyped
  <2>3. \A u \in Vectors \ alive' : m_size'[u] = 0
    BY <1>4, <2>1, <2>2 DEF Inv
  <2> QED
    BY <1>1, <1>4, <2>1, <2>2, <2>3, BuffersStaySound
<1>5. CASE UNCHANGED <<alive, m_buffer, m_size>>
  BY <1>1, <1>5, BuffersStaySound DEF Inv
<1>6. ASSUME NEW list \in Lists, Construct(v, list), ~UNCHANGED <<alive, m_buffer, m_size>>
      PROVE  Inv'
  <2> DEFINE b == [s \in Slots(v) |-> IF s < Len(list) THEN list[s + 1] ELSE Raw]
  <2>1. /\ Len(list) <= Capacity[v] /\ alive' = alive \cup {v}
        /\ m_buffer' = [m_buffer EXCEPT ![v] = b] /\ m_size' = [m_size EXCEPT ![v] = Len(list)]
    BY <1>6 DEF Construct, Refuse
  <2>2. list \in Seq(Values) /\ Len(list) \in Nat
    BY VectorAssumption
  <2>3. Sound(b, Len(list), Capacity[v])
    <3>1. b = [s \in 0 .. Capacity[v] - 1 |-> b[s]]
      BY DEF Slots
    <3>2. Len(list) \in 0 .. Capacity[v]
      BY <1>3, <2>1, <2>2
    <3>3. ASSUME NEW s \in 0 .. Capacity[v] - 1
          PROVE  \/ s < Len(list) /\ b[s] \in Values /\ b[s] # Raw
                 \/ ~(s < Len(list)) /\ b[s] = Raw
      <4>1. b[s] = IF s < Len(list) THEN list[s + 1] ELSE Raw
        BY DEF Slots
      <4>2. ASSUME s < Len(list) PROVE list[s + 1] \in Values
        <5>1. s + 1 \in 1 .. Len(list)
          BY <1>3, <2>2, <4>2
        <5> QED
          BY <2>2, <5>1
      <4> QED
        BY <1>3, <4>1, <4>2
    <3> QED
      <4> HIDE DEF b
      <4> QED
        BY <1>3, <3>1, <3>2, <3>3, SoundByElements
  <2> HIDE DEF b
  <2> QED
    BY <1>4, <2>1, <2>3
<1>7. ASSUME NEW n \in Sizes, Resize(v, n) PROVE Inv'
  <2>1. PICK k \in 0 .. Capacity[v] :
          /\ m_buffer' = [m_buffer EXCEPT ![v] = ResizedTo(v, k)]
          /\ m_size' = [m_size EXCEPT ![v] = k]
    BY <1>7 DEF Resize
  <2>2. v \in alive /\ alive' = alive
    BY <1>7 DEF Resize
  <2> QED
    BY <1>4, <2>1, <2>2, ResizedSound
<1>8. ASSUME NEW x \in Values, PushBack(v, x), ~UNCHANGED <<alive, m_buffer, m_size>>
      PROVE  Inv'
  <2>1. /\ v \in alive /\ alive' = alive /\ m_size[v] # Capacity[v]
        /\ m_buffer' = [m_buffer EXCEPT ![v][m_size[v]] = x]
        /\ m_size' = [m_size EXCEPT ![v] = @ + 1]
    BY <1>8 DEF PushBack, Refuse
  <2> DEFINE b == [m_buffer[v] EXCEPT ![m_size[v]] = x]
  <2>2. m_buffer' = [m_buffer EXCEPT ![v] = b] /\ m_size' = [m_size EXCEPT ![v] = m_size[v] + 1]
    BY <2>1 DEF Inv, VectorsTyped
  <2>3. Sound(b, m_size[v] + 1, Capacity[v])
    BY <1>3, <2>1 DEF Sound
  <2> HIDE DEF b
  <2> QED
    BY <1>4, <2>1, <2>2, <2>3
<1>9. CASE PopBack(v) /\ ~UNCHANGED <<alive, m_buffer, m_size>>
  <2>1. /\ v \in alive /\ alive' = alive /\ m_size[v] # 0
        /\ m_buffer' = [m_buffer EXCEPT ![v][m_size[v] - 1] = Raw]
        /\ m_size' = [m_size EXCEPT ![v] = @ - 1]
    BY <1>9 DEF PopBack, Refuse
  <2> DEFINE b == [m_buffer[v] EXCEPT ![m_size[v] - 1] = Raw]
  <2>2. m_buffer' = [m_buffer EXCEPT ![v] = b] /\ m_size' = [m_size EXCEPT ![v] = m_size[v] - 1]
    BY <2>1 DEF Inv, VectorsTyped
  <2>3. Sound(b, m_size[v] - 1, Capacity[v])
    BY <1>3, <2>1 DEF Sound
  <2> HIDE DEF b
  <2> QED
    BY <1>4, <2>1, <2>2, <2>3
<1>10. CASE Clear(v)
  BY <1>4, <1>10, WithoutSound DEF Clear
<1>11. CASE Destroy(v)
  BY <1>4, <1>11, EmptySound DEF Destroy
<1>12. CASE \E n \in Sizes : At(v, n)
  BY <1>5, <1>12 DEF At, Refuse
<1> QED
  BY <1>1, <1>2, <1>5, <1>6, <1>7, <1>8, <1>9, <1>10, <1>11, <1>12, BetweenVectorsInv

\* For every capacity, if moves do not throw, the slots below m_size hold elements and the
\* others do not, whatever other operation of an element throws.
THEOREM ElementsLiveToTheSize == Spec => []LivePrefix
<1>1. Inv => LivePrefix
  <2> SUFFICES ASSUME Inv, ~move_may_throw, NEW v \in Vectors, NEW s \in Slots(v)
               PROVE  m_buffer[v][s] # Raw <=> s < m_size[v]
    BY DEF LivePrefix, SizesRight
  <2> QED
    BY DEF Inv, Sound, Slots
<1> QED
  BY <1>1, InitInv, NextInv, PTL DEF Spec

\* Whatever throws, moves included, no element lives in a slot that is not counted.
THEOREM NothingLivesBeyondTheSize == Spec => []NoStrayElement
<1>1. Inv => NoStrayElement
  BY DEF Inv, Sound, Slots, NoStrayElement
<1> QED
  BY <1>1, InitInv, NextInv, PTL DEF Spec

--------------------------------------------------------------------------------
(* The vectors are sequences. *)

LEMMA ContentsOf ==
  ASSUME Inv, SizesRight, NEW v \in Vectors, v \in alive
  PROVE  /\ Contents[v] \in Seq(Values)
         /\ Len(Contents[v]) = m_size[v]
         /\ \A i \in 1 .. m_size[v] : Contents[v][i] = m_buffer[v][i - 1]
         /\ Abstract!Exists(v)
<1> DEFINE c == [i \in 1 .. m_size[v] |-> m_buffer[v][i - 1]]
<1>1. Contents[v] = c
  BY DEF Contents
<1>2. Capacity[v] \in Nat /\ m_size[v] \in 0 .. Capacity[v]
  BY VectorAssumption DEF Inv, Sound
<1>3. ASSUME NEW i \in 1 .. m_size[v] PROVE m_buffer[v][i - 1] \in Values
  <2>1. i - 1 \in Slots(v) /\ i - 1 < m_size[v]
    BY <1>2 DEF Slots
  <2> QED
    BY <2>1 DEF Inv, Sound, SizesRight, Slots
<1>4. c \in Seq(Values) /\ Len(c) = m_size[v]
  BY <1>2, <1>3
<1> QED
  BY <1>1, <1>4, VectorAssumption DEF Abstract!Exists

ContentsAre ==
  \A v \in alive : /\ Contents[v] \in Seq(Values)
                  /\ Len(Contents[v]) = m_size[v]
                  /\ \A i \in 1 .. m_size[v] : Contents[v][i] = m_buffer[v][i - 1]

LEMMA SoundContents == Inv /\ SizesRight => ContentsAre
<1>1. Inv => alive \subseteq Vectors
  BY DEF Inv, VectorsTyped
<1> QED
  BY <1>1, ContentsOf DEF ContentsAre

LEMMA ContentsAfter ==
  ASSUME Inv', SizesRight', NEW v \in Vectors, v \in alive'
  PROVE  /\ Contents'[v] \in Seq(Values)
         /\ Len(Contents'[v]) = m_size'[v]
         /\ \A i \in 1 .. m_size'[v] : Contents'[v][i] = m_buffer'[v][i - 1]
<1>1. ContentsAre'
  BY SoundContents, PTL
<1> QED
  BY <1>1 DEF ContentsAre

LEMMA DeadHasNoContents ==
  ASSUME NEW v \in Vectors, v \notin alive
  PROVE  Contents[v] = Absent /\ ~Abstract!Exists(v)
BY DEF Contents, Abstract!Exists

LEMMA ContentsUnchanged ==
  ASSUME UNCHANGED <<alive, m_buffer, m_size>>
  PROVE  UNCHANGED Contents
BY DEF Contents

\* The contents of the vectors that a step leaves alone.
LEMMA OthersKeepContents ==
  ASSUME NEW u \in Vectors, m_buffer'[u] = m_buffer[u], m_size'[u] = m_size[u],
         u \in alive' <=> u \in alive
  PROVE  Contents'[u] = Contents[u]
BY DEF Contents

\* The vector v has the elements of s after the step and the others are as before.
LEMMA BecomesSequence ==
  ASSUME Inv, Inv', SizesRight', NEW v \in Vectors, NEW s \in Seq(Values),
         alive' = alive \cup {v},
         \A u \in Vectors \ {v} : m_buffer'[u] = m_buffer[u] /\ m_size'[u] = m_size[u],
         m_size'[v] = Len(s),
         \A i \in 1 .. Len(s) : m_buffer'[v][i - 1] = s[i]
  PROVE  Abstract!Become(v, s)
<1>1. /\ Contents'[v] \in Seq(Values) /\ Len(Contents'[v]) = m_size'[v]
      /\ \A i \in 1 .. m_size'[v] : Contents'[v][i] = m_buffer'[v][i - 1]
  BY ContentsAfter
<1>2. Contents'[v] = s
  BY <1>1, SeqEqual
<1>3. \A u \in Vectors \ {v} : Contents'[u] = Contents[u]
  BY OthersKeepContents
<1>4. Contents = [u \in Vectors |-> Contents[u]] /\ Contents' = [u \in Vectors |-> Contents'[u]]
  BY DEF Contents
<1> QED
  BY <1>2, <1>3, <1>4 DEF Abstract!Become

\* A refused operation changes no contents.
LEMMA RefusedKeeps ==
  ASSUME NEW what, Refuse(what)
  PROVE  Abstract!Refuse(what)
BY ContentsUnchanged DEF Refuse, Abstract!Refuse

LEMMA FitsOrNot ==
  ASSUME Inv, SizesRight, NEW v \in Vectors, NEW w \in alive
  PROVE  /\ TooLarge(v, w) => Len(Contents[w]) > Capacity[v]
         /\ ~TooLarge(v, w) => Len(Contents[w]) <= Capacity[v]
<1>1. w \in Vectors
  BY DEF Inv, VectorsTyped
<1>2. Len(Contents[w]) = m_size[w] /\ m_size[w] \in 0 .. Capacity[w]
  BY <1>1, ContentsOf DEF Inv, Sound
<1>3. Capacity[v] \in Nat /\ Capacity[w] \in Nat
  BY <1>1, VectorAssumption
<1> QED
  BY <1>2, <1>3 DEF TooLarge

\* Filled, read as contents: the first k elements of w.
LEMMA FilledBecomesPrefix ==
  ASSUME Inv, Inv', SizesRight, SizesRight', NEW v \in Vectors, NEW w \in alive,
         ~TooLarge(v, w), NEW k \in 0 .. m_size[w],
         alive' = alive \cup {v},
         m_buffer'[v] = Filled(v, w, k), m_size'[v] = k,
         \A u \in Vectors \ {v} : m_buffer'[u] = m_buffer[u] /\ m_size'[u] = m_size[u]
  PROVE  /\ Abstract!Become(v, SubSeq(Contents[w], 1, k))
         /\ k = m_size[w] => Abstract!Become(v, Contents[w])
<1>1. w \in Vectors
  BY DEF Inv, VectorsTyped
<1>2. /\ Contents[w] \in Seq(Values) /\ Len(Contents[w]) = m_size[w]
      /\ \A i \in 1 .. m_size[w] : Contents[w][i] = m_buffer[w][i - 1]
  BY <1>1, ContentsOf
<1>3. /\ m_size[w] \in Nat /\ k \in Nat /\ k <= m_size[w]
      /\ m_size[w] <= Capacity[v] /\ Capacity[v] \in Nat
  BY <1>2, FitsOrNot, VectorAssumption
<1>4. ASSUME NEW i \in 1 .. k PROVE m_buffer'[v][i - 1] = Contents[w][i]
  <2>1. i - 1 \in Slots(v) /\ i - 1 < k /\ i \in 1 .. m_size[w]
    BY <1>3 DEF Slots
  <2>2. Filled(v, w, k)[i - 1] = m_buffer[w][i - 1]
    BY <2>1 DEF Filled
  <2> QED
    BY <1>2, <2>1, <2>2
<1> DEFINE p == SubSeq(Contents[w], 1, k)
<1>5. p \in Seq(Values) /\ Len(p) = k /\ \A i \in 1 .. k : p[i] = Contents[w][i]
  <2>1. \A i \in 1 .. k : Contents[w][i] \in Values
    BY <1>2, <1>3, ElementOfSeq
  <2>2. /\ p \in Seq(Values) /\ Len(p) = IF 1 <= k THEN k - 1 + 1 ELSE 0
        /\ \A i \in 1 .. k - 1 + 1 : p[i] = Contents[w][1 + i - 1]
    BY <1>3, <2>1, SubSeqProperties
  <2> QED
    BY <1>3, <2>2
<1> HIDE DEF p
<1>6. Abstract!Become(v, p)
  BY <1>4, <1>5, BecomesSequence
<1>7. ASSUME k = m_size[w] PROVE p = Contents[w]
  BY <1>2, <1>5, <1>7, SeqEqual
<1> QED
  BY <1>6, <1>7 DEF p

\* An empty vector, read as contents.
LEMMA BecomesEmpty ==
  ASSUME Inv, Inv', SizesRight', NEW v \in Vectors,
         alive' = alive \cup {v}, m_size'[v] = 0,
         \A u \in Vectors \ {v} : m_buffer'[u] = m_buffer[u] /\ m_size'[u] = m_size[u]
  PROVE  Abstract!Become(v, <<>>)
<1>1. <<>> \in Seq(Values) /\ Len(<<>>) = 0
  OBVIOUS
<1>2. \A i \in 1 .. Len(<<>>) : m_buffer'[v][i - 1] = <<>>[i]
  BY <1>1
<1> QED
  BY <1>1, <1>2, BecomesSequence

LEMMA ConstructRefines ==
  ASSUME Inv, Inv', SizesRight, SizesRight', NEW v \in Vectors, NEW list \in Lists,
         Construct(v, list)
  PROVE  Abstract!Construct(v, list) \/ Abstract!ElementThrows(v)
<1>1. ~Abstract!Exists(v) /\ list \in Seq(Values)
  BY DeadHasNoContents, VectorAssumption DEF Construct
<1>2. CASE Len(list) > Capacity[v] /\ Refuse("length_error")
  BY <1>1, <1>2, RefusedKeeps DEF Abstract!Construct, Abstract!Assign
<1>3. CASE Refuse("exception")
  BY <1>3, RefusedKeeps DEF Abstract!ElementThrows, Abstract!Refuse
<1>4. CASE Len(list) <= Capacity[v] /\ result' = "ok" /\ alive' = alive \cup {v}
  <2> DEFINE b == [s \in Slots(v) |-> IF s < Len(list) THEN list[s + 1] ELSE Raw]
  <2>1. /\ m_buffer' = [m_buffer EXCEPT ![v] = b]
        /\ m_size' = [m_size EXCEPT ![v] = Len(list)]
    BY <1>4 DEF Construct, Refuse
  <2>2. m_buffer'[v] = b /\ m_size'[v] = Len(list)
    BY <2>1 DEF Inv, VectorsTyped
  <2>3. \A u \in Vectors \ {v} : m_buffer'[u] = m_buffer[u] /\ m_size'[u] = m_size[u]
    BY <2>1 DEF Inv, VectorsTyped
  <2>4. ASSUME NEW i \in 1 .. Len(list) PROVE b[i - 1] = list[i]
    <3>1. i - 1 \in Slots(v) /\ i - 1 < Len(list) /\ (i - 1) + 1 = i
      BY <1>1, <1>4, VectorAssumption DEF Slots
    <3> QED
      BY <3>1
  <2> HIDE DEF b
  <2>5. Abstract!Become(v, list)
    BY <1>1, <1>4, <2>2, <2>3, <2>4, BecomesSequence
  <2> QED
    BY <1>1, <1>4, <2>5 DEF Abstract!Construct, Abstract!Assign
<1> QED
  BY <1>2, <1>3, <1>4 DEF Construct, Refuse

LEMMA CopyRefines ==
  ASSUME Inv, Inv', SizesRight, SizesRight', NEW v \in Vectors, NEW w \in Vectors,
         CopyConstruct(v, w) \/ CopyAssign(v, w)
  PROVE  Abstract!Copy(v, w) \/ Abstract!ElementThrows(v)
<1>1. w \in alive
  BY DEF CopyConstruct, CopyAssign
<1>2. /\ Abstract!Exists(w) /\ Len(Contents[w]) = m_size[w]
      /\ m_size[w] \in Nat /\ Contents[w] \in Seq(Values)
  BY <1>1, ContentsOf, LenProperties
<1>3. CASE Refuse("exception")
  BY <1>3, RefusedKeeps DEF Abstract!ElementThrows, Abstract!Refuse
<1>4. CASE TooLarge(v, w) /\ Refuse("length_error")
  BY <1>1, <1>2, <1>4, FitsOrNot, RefusedKeeps DEF Abstract!Copy, Abstract!Assign
<1>5. CASE v = w /\ Refuse("ok")
  <2>1. Contents' = Contents /\ result' = "ok"
    BY <1>5, ContentsUnchanged DEF Refuse
  <2>2. Contents = [Contents EXCEPT ![v] = Contents[w]]
    BY <1>5 DEF Contents
  <2>3. ~TooLarge(v, w)
    BY <1>5 DEF TooLarge
  <2> QED
    BY <1>1, <1>2, <2>1, <2>2, <2>3, FitsOrNot
    DEF Abstract!Copy, Abstract!Assign, Abstract!Become
<1>6. CASE \E k \in 0 .. m_size[w] :
             /\ ~TooLarge(v, w)
             /\ m_buffer' = [m_buffer EXCEPT ![v] = Filled(v, w, k)]
             /\ m_size' = [m_size EXCEPT ![v] = k]
             /\ alive' = alive \cup {v}
             /\ \/ k = m_size[w] /\ result' = "ok"
                \/ result' = "exception" /\ v \in alive
  <2>1. PICK k \in 0 .. m_size[w] :
          /\ ~TooLarge(v, w)
          /\ m_buffer' = [m_buffer EXCEPT ![v] = Filled(v, w, k)]
          /\ m_size' = [m_size EXCEPT ![v] = k]
          /\ alive' = alive \cup {v}
          /\ \/ k = m_size[w] /\ result' = "ok"
             \/ result' = "exception" /\ v \in alive
    BY <1>6
  <2>2. m_buffer'[v] = Filled(v, w, k) /\ m_size'[v] = k
    BY <2>1 DEF Inv, VectorsTyped
  <2>3. \A u \in Vectors \ {v} : m_buffer'[u] = m_buffer[u] /\ m_size'[u] = m_size[u]
    BY <2>1 DEF Inv, VectorsTyped
  <2>4. /\ Abstract!Become(v, SubSeq(Contents[w], 1, k))
        /\ k = m_size[w] => Abstract!Become(v, Contents[w])
    BY <1>1, <2>1, <2>2, <2>3, FilledBecomesPrefix
  <2>5. CASE k = m_size[w] /\ result' = "ok"
    BY <1>1, <1>2, <2>1, <2>4, <2>5, FitsOrNot DEF Abstract!Copy, Abstract!Assign
  <2>6. CASE result' = "exception" /\ v \in alive
    <3>1. Abstract!Exists(v)
      BY <2>6, ContentsOf
    <3> QED
      BY <1>2, <2>4, <2>6, <3>1 DEF Abstract!ElementThrows
  <2> QED
    BY <2>1, <2>5, <2>6
<1>7. CASE CopyConstruct(v, w)
  <2>1. m_size[w] \in 0 .. m_size[w]
    BY <1>2
  <2> QED
    BY <1>3, <1>4, <1>6, <1>7, <2>1 DEF CopyConstruct
<1>8. CASE CopyAssign(v, w)
  <2>1. v \in alive => alive = alive \cup {v}
    OBVIOUS
  <2> QED
    BY <1>4, <1>5, <1>6, <1>8, <2>1 DEF CopyAssign
<1> QED
  BY <1>7, <1>8

LEMMA MoveRefines ==
  ASSUME Inv, Inv', SizesRight, SizesRight', NEW v \in Vectors, NEW w \in Vectors,
         MoveConstruct(v, w) \/ MoveAssign(v, w)
  PROVE  Abstract!Move(v, w) \/ Abstract!ElementThrows(v)
<1>1. w \in alive
  BY DEF MoveConstruct, MoveAssign
<1>2. /\ Abstract!Exists(w) /\ Len(Contents[w]) = m_size[w]
      /\ m_size[w] \in Nat /\ Contents[w] \in Seq(Values)
      /\ \A i \in 1 .. m_size[w] : Contents[w][i] = m_buffer[w][i - 1]
  BY <1>1, ContentsOf, VectorAssumption DEF Inv, Sound
<1>3. CASE TooLarge(v, w) /\ Refuse("length_error")
  BY <1>1, <1>2, <1>3, FitsOrNot, RefusedKeeps DEF Abstract!Move
<1>4. CASE v = w /\ Refuse("ok")
  BY <1>2, <1>4, RefusedKeeps DEF Abstract!Move
<1>5. CASE v # w /\ ~TooLarge(v, w) /\ TakeElements(v, w) /\ alive' = alive \cup {v}
  <2>1. /\ m_buffer' = [m_buffer EXCEPT ![v] = Filled(v, w, m_size[w]),
                                         ![w] = Without(w, m_size[w])]
        /\ m_size' = [m_size EXCEPT ![v] = m_size[w], ![w] = 0]
        /\ result' = "ok"
    BY <1>5 DEF TakeElements
  <2>2. \A u \in Vectors :
          /\ m_buffer'[u] = IF u = w THEN Without(w, m_size[w])
                            ELSE IF u = v THEN Filled(v, w, m_size[w]) ELSE m_buffer[u]
          /\ m_size'[u] = IF u = w THEN 0 ELSE IF u = v THEN m_size[w] ELSE m_size[u]
    BY <2>1 DEF Inv, VectorsTyped
  <2>3. \A u \in Vectors \ {v, w} : Contents'[u] = Contents[u]
    BY <1>5, <2>2, OthersKeepContents
  <2>4. Contents'[w] = <<>>
    <3>1. w \in alive' /\ m_size'[w] = 0
      BY <1>1, <1>5, <2>2
    <3>2. Contents'[w] \in Seq(Values) /\ Len(Contents'[w]) = 0
      BY <3>1, ContentsAfter
    <3> QED
      BY <3>2, EmptySeq
  <2>5. Contents'[v] = Contents[w]
    <3>1. v \in alive' /\ m_size'[v] = m_size[w] /\ m_buffer'[v] = Filled(v, w, m_size[w])
      BY <1>5, <2>2
    <3>3. /\ Contents'[v] \in Seq(Values) /\ Len(Contents'[v]) = m_size[w]
          /\ \A i \in 1 .. m_size[w] : Contents'[v][i] = Filled(v, w, m_size[w])[i - 1]
      BY <3>1, ContentsAfter
    <3>4. m_size[w] <= Capacity[v] /\ Capacity[v] \in Nat
      BY <1>1, <1>2, <1>5, FitsOrNot, VectorAssumption
    <3>5. ASSUME NEW i \in 1 .. m_size[w] PROVE Contents'[v][i] = Contents[w][i]
      <4>1. i - 1 \in Slots(v) /\ i - 1 < m_size[w]
        BY <1>2, <3>4 DEF Slots
      <4>2. Filled(v, w, m_size[w])[i - 1] = m_buffer[w][i - 1]
        BY <4>1 DEF Filled
      <4> QED
        BY <1>2, <3>3, <4>2
    <3> QED
      BY <1>2, <3>3, <3>5, SeqEqual
  <2>6. Contents' = [Contents EXCEPT ![v] = Contents[w], ![w] = <<>>]
    <3>1. Contents = [u \in Vectors |-> Contents[u]] /\ Contents' = [u \in Vectors |-> Contents'[u]]
      BY DEF Contents
    <3> QED
      BY <1>5, <2>3, <2>4, <2>5, <3>1
  <2> QED
    BY <1>1, <1>2, <1>5, <2>1, <2>6, FitsOrNot DEF Abstract!Move
<1>6. ASSUME NEW k \in 0 .. m_size[w] - 1, m_buffer'[w] = Without(w, k), m_size'[w] = m_size[w]
      PROVE  k = 0
  <2>1. 0 \in Slots(w) /\ 0 < m_size[w]
    BY <1>2, VectorAssumption DEF Slots
  <2>2. m_buffer'[w][0] # Raw
    BY <1>6, <2>1 DEF SizesRight
  <2>3. Without(w, k)[0] = IF 0 < k THEN Raw ELSE m_buffer[w][0]
    BY <2>1 DEF Without
  <2> QED
    BY <1>6, <2>2, <2>3
<1>7. Without(w, 0) = m_buffer[w]
  <2>1. m_buffer[w] = [s \in Slots(w) |-> m_buffer[w][s]]
    BY DEF Inv, Sound, Slots
  <2>2. ASSUME NEW s \in Slots(w) PROVE Without(w, 0)[s] = m_buffer[w][s]
    BY VectorAssumption DEF Without, Slots
  <2>3. Without(w, 0) = [s \in Slots(w) |-> Without(w, 0)[s]]
    BY DEF Without
  <2> QED
    BY <2>1, <2>2, <2>3
<1>8. CASE MoveConstruct(v, w)
  <2>1. CASE /\ move_may_throw /\ result' = "exception" /\ UNCHANGED <<alive, m_size>>
             /\ \E k \in 0 .. m_size[w] - 1 : m_buffer' = [m_buffer EXCEPT ![w] = Without(w, k)]
    <3>1. PICK k \in 0 .. m_size[w] - 1 : m_buffer' = [m_buffer EXCEPT ![w] = Without(w, k)]
      BY <2>1
    <3>2. m_buffer'[w] = Without(w, k) /\ m_size'[w] = m_size[w]
      BY <2>1, <3>1 DEF Inv, VectorsTyped
    <3>3. k = 0
      BY <1>6, <3>2
    <3>4. m_buffer' = m_buffer
      BY <1>7, <3>1, <3>3 DEF Inv, VectorsTyped
    <3>5. UNCHANGED Contents
      BY <2>1, <3>4, ContentsUnchanged
    <3> QED
      BY <2>1, <3>5 DEF Abstract!ElementThrows
  <2>2. v \notin alive
    BY <1>8 DEF MoveConstruct
  <2> QED
    BY <1>1, <1>3, <1>5, <1>8, <2>1, <2>2 DEF MoveConstruct
<1>9. CASE MoveAssign(v, w)
  <2>1. CASE /\ v # w /\ ~TooLarge(v, w) /\ result' = "exception" /\ alive' = alive
             /\ \E k \in 0 .. m_size[w] - 1 :
                  /\ m_buffer' = [m_buffer EXCEPT ![v] = Filled(v, w, k), ![w] = Without(w, k)]
                  /\ m_size' = [m_size EXCEPT ![v] = k]
    <3>1. PICK k \in 0 .. m_size[w] - 1 :
            /\ m_buffer' = [m_buffer EXCEPT ![v] = Filled(v, w, k), ![w] = Without(w, k)]
            /\ m_size' = [m_size EXCEPT ![v] = k]
      BY <2>1
    <3>2. \A u \in Vectors :
            /\ m_buffer'[u] = IF u = w THEN Without(w, k)
                              ELSE IF u = v THEN Filled(v, w, k) ELSE m_buffer[u]
            /\ m_size'[u] = IF u = v THEN k ELSE m_size[u]
      BY <3>1 DEF Inv, VectorsTyped
    <3>3. k = 0
      BY <1>6, <2>1, <3>2
    <3>4. \A u \in Vectors \ {v} : m_buffer'[u] = m_buffer[u] /\ m_size'[u] = m_size[u]
      BY <1>7, <3>2, <3>3
    <3>5. m_buffer'[v] = Filled(v, w, 0) /\ m_size'[v] = 0
      BY <2>1, <3>2, <3>3
    <3>6. v \in alive /\ alive' = alive \cup {v} /\ 0 \in 0 .. m_size[w]
      BY <1>2, <1>9, <2>1 DEF MoveAssign
    <3>7. Abstract!Become(v, SubSeq(Contents[w], 1, 0))
      BY <1>1, <2>1, <3>4, <3>5, <3>6, FilledBecomesPrefix
    <3>8. Abstract!Exists(v) /\ 0 \in 0 .. Len(Contents[w])
      BY <1>2, <3>6, ContentsOf
    <3> QED
      BY <1>2, <2>1, <3>7, <3>8 DEF Abstract!ElementThrows
  <2>2. v \in alive /\ alive \cup {v} = alive
    BY <1>9 DEF MoveAssign
  <2> QED
    BY <1>1, <1>3, <1>4, <1>5, <1>9, <2>1, <2>2 DEF MoveAssign
<1> QED
  BY <1>8, <1>9

LEMMA ElementsRefine ==
  ASSUME Inv, Inv', SizesRight, SizesRight', NEW v \in Vectors
  PROVE  /\ \A n \in Sizes : Resize(v, n) => Abstract!Resize(v, n) \/ Abstract!ElementThrows(v)
         /\ \A n \in Sizes : At(v, n) => Abstract!At(v, n)
         /\ \A x \in Values : PushBack(v, x) => Abstract!PushBack(v, x) \/ Abstract!ElementThrows(v)
         /\ PopBack(v) => Abstract!PopBack(v)
         /\ Clear(v) => Abstract!Clear(v)
         /\ Destroy(v) => Abstract!Destroy(v)
<1>1. Capacity[v] \in Nat \ {0} /\ m_size[v] \in 0 .. Capacity[v] /\ m_size[v] \in Nat
  BY VectorAssumption DEF Inv, Sound
<1>2. ASSUME v \in alive
      PROVE  /\ Abstract!Exists(v) /\ Len(Contents[v]) = m_size[v] /\ Contents[v] \in Seq(Values)
             /\ \A i \in 1 .. m_size[v] : Contents[v][i] = m_buffer[v][i - 1]
  BY <1>2, ContentsOf
<1>3. ASSUME NEW b, NEW n, m_buffer' = [m_buffer EXCEPT ![v] = b],
             m_size' = [m_size EXCEPT ![v] = n]
      PROVE  /\ m_buffer'[v] = b /\ m_size'[v] = n
             /\ \A u \in Vectors \ {v} : m_buffer'[u] = m_buffer[u] /\ m_size'[u] = m_size[u]
  BY <1>3 DEF Inv, VectorsTyped
<1>4. ASSUME NEW n \in Sizes, Resize(v, n)
      PROVE  Abstract!Resize(v, n) \/ Abstract!ElementThrows(v)
  <2>1. PICK k \in 0 .. Capacity[v] :
          /\ m_buffer' = [m_buffer EXCEPT ![v] = ResizedTo(v, k)]
          /\ m_size' = [m_size EXCEPT ![v] = k]
          /\ \/ k = n /\ result' = "ok"
             \/ k = Capacity[v] /\ k < n /\ result' = "length_error"
             \/ k >= m_size[v] /\ result' = "exception"
    BY <1>4 DEF Resize
  <2>2. v \in alive /\ alive' = alive \cup {v} /\ n \in Nat
    BY <1>4, VectorAssumption DEF Resize
  <2> DEFINE r == Abstract!Resized(v, k)
  <2>3. r \in Seq(Values) /\ Len(r) = k
        /\ \A i \in 1 .. k : r[i] = IF i <= m_size[v] THEN Contents[v][i] ELSE Default
    <3>1. ASSUME NEW i \in 1 .. k
          PROVE  (IF i <= Len(Contents[v]) THEN Contents[v][i] ELSE Default) \in Values
      <4>1. i <= m_size[v] => i \in 1 .. Len(Contents[v])
        BY <1>1, <1>2, <2>2
      <4> QED
        BY <1>2, <2>2, <4>1, ElementOfSeq, VectorAssumption
    <3>2. k \in Nat
      BY <1>1
    <3> QED
      BY <1>2, <2>2, <3>1, <3>2 DEF Abstract!Resized
  <2>4. ASSUME NEW i \in 1 .. k PROVE ResizedTo(v, k)[i - 1] = r[i]
    <3>1. i - 1 \in Slots(v) /\ i \in Nat /\ k \in Nat /\ i <= k
      BY <1>1 DEF Slots
    <3>2. ResizedTo(v, k)[i - 1] =
            IF i - 1 \in m_size[v] .. k - 1 THEN Default ELSE m_buffer[v][i - 1]
      BY <1>1, <3>1 DEF ResizedTo
    <3>3. i <= m_size[v] => i \in 1 .. m_size[v]
      BY <1>1, <3>1
    <3> QED
      BY <1>1, <1>2, <2>2, <2>3, <3>1, <3>2, <3>3
  <2> HIDE DEF r
  <2>5. Abstract!Become(v, r)
    <3>1. /\ m_buffer'[v] = ResizedTo(v, k) /\ m_size'[v] = k
          /\ \A u \in Vectors \ {v} : m_buffer'[u] = m_buffer[u] /\ m_size'[u] = m_size[u]
      BY <1>3, <2>1
    <3>2. \A i \in 1 .. Len(r) : m_buffer'[v][i - 1] = r[i]
      BY <2>3, <2>4, <3>1
    <3> QED
      BY <2>2, <2>3, <3>1, <3>2, BecomesSequence
  <2>6. CASE k = n /\ result' = "ok"
    <3>1. n <= Capacity[v]
      BY <1>1, <2>6
    <3> QED
      BY <1>2, <2>2, <2>5, <2>6, <3>1 DEF Abstract!Resize, r
  <2>7. CASE k = Capacity[v] /\ k < n /\ result' = "length_error"
    <3>1. n > Capacity[v]
      BY <1>1, <2>2, <2>7
    <3> QED
      BY <1>2, <2>2, <2>5, <2>7, <3>1 DEF Abstract!Resize, r
  <2>8. CASE k >= m_size[v] /\ result' = "exception"
    <3>1. k \in Len(Contents[v]) .. Capacity[v]
      BY <1>1, <1>2, <2>2, <2>8
    <3> QED
      BY <1>2, <2>2, <2>5, <2>8, <3>1 DEF Abstract!ElementThrows, r
  <2> QED
    BY <2>1, <2>6, <2>7, <2>8
<1>5. ASSUME NEW n \in Sizes, At(v, n) PROVE Abstract!At(v, n)
  <2>1. v \in alive /\ n \in Nat
    BY <1>5, VectorAssumption DEF At
  <2>2. CASE n >= m_size[v] /\ Refuse("out_of_range")
    BY <1>2, <2>1, <2>2, RefusedKeeps DEF Abstract!At
  <2>3. CASE n < m_size[v] /\ Refuse(m_buffer[v][n])
    <3>1. n + 1 \in 1 .. m_size[v] /\ (n + 1) - 1 = n
      BY <1>1, <2>1, <2>3
    <3>2. Contents[v][n + 1] = m_buffer[v][n]
      BY <1>2, <2>1, <3>1
    <3>3. result' = m_buffer[v][n] /\ UNCHANGED Contents
      BY <2>3, ContentsUnchanged DEF Refuse
    <3> QED
      BY <1>2, <2>1, <2>3, <3>2, <3>3 DEF Abstract!At, Abstract!Refuse
  <2> QED
    BY <1>5, <2>2, <2>3 DEF At
<1>6. ASSUME NEW x \in Values, PushBack(v, x)
      PROVE  Abstract!PushBack(v, x) \/ Abstract!ElementThrows(v)
  <2> DEFINE a == Append(Contents[v], x)
  <2>1. v \in alive /\ alive = alive \cup {v}
    BY <1>6 DEF PushBack
  <2>2. /\ a \in Seq(Values) /\ Len(a) = m_size[v] + 1
        /\ \A i \in 1 .. m_size[v] : a[i] = Contents[v][i]
        /\ a[m_size[v] + 1] = x
    BY <1>2, <2>1, AppendProperties
  <2> HIDE DEF a
  <2>3. CASE Refuse("exception")
    BY <2>3, RefusedKeeps DEF Abstract!ElementThrows, Abstract!Refuse
  <2>4. CASE m_size[v] = Capacity[v] /\ Refuse("length_error")
    <3>1. Len(a) > Capacity[v]
      BY <1>1, <2>2, <2>4
    <3> QED
      BY <1>2, <2>1, <2>4, <3>1, RefusedKeeps DEF Abstract!PushBack, Abstract!Assign, a
  <2>5. CASE m_size[v] # Capacity[v] /\ result' = "ok" /\ alive' = alive
             /\ m_buffer' = [m_buffer EXCEPT ![v][m_size[v]] = x]
             /\ m_size' = [m_size EXCEPT ![v] = @ + 1]
    <3>1. /\ m_buffer' = [m_buffer EXCEPT ![v] = [m_buffer[v] EXCEPT ![m_size[v]] = x]]
          /\ m_size' = [m_size EXCEPT ![v] = m_size[v] + 1]
      BY <2>5 DEF Inv, VectorsTyped
    <3>2. m_buffer[v] = [s \in Slots(v) |-> m_buffer[v][s]]
      BY DEF Inv, Sound, Slots
    <3>3. ASSUME NEW i \in 1 .. Len(a) PROVE [m_buffer[v] EXCEPT ![m_size[v]] = x][i - 1] = a[i]
      <4>1. i - 1 \in Slots(v) /\ i \in Nat /\ (i <= m_size[v] \/ i = m_size[v] + 1)
        BY <1>1, <2>2, <2>5 DEF Slots
      <4>2. CASE i = m_size[v] + 1
        <5>1. i - 1 = m_size[v]
          BY <1>1, <4>2
        <5> QED
          BY <2>2, <3>2, <4>1, <4>2, <5>1
      <4>3. CASE i <= m_size[v]
        <5>1. i \in 1 .. m_size[v] /\ i - 1 # m_size[v]
          BY <1>1, <4>1, <4>3
        <5>2. a[i] = m_buffer[v][i - 1]
          BY <1>2, <2>1, <2>2, <5>1
        <5> QED
          BY <3>2, <4>1, <5>1, <5>2
      <4> QED
        BY <4>1, <4>2, <4>3
    <3>4. Abstract!Become(v, a)
      <4>1. /\ m_buffer'[v] = [m_buffer[v] EXCEPT ![m_size[v]] = x] /\ m_size'[v] = m_size[v] + 1
            /\ \A u \in Vectors \ {v} : m_buffer'[u] = m_buffer[u] /\ m_size'[u] = m_size[u]
        BY <1>3, <3>1
      <4>2. \A i \in 1 .. Len(a) : m_buffer'[v][i - 1] = a[i]
        BY <3>3, <4>1
      <4>3. a \in Seq(Values) /\ m_size'[v] = Len(a) /\ alive' = alive \cup {v}
        BY <2>1, <2>5, <2>2, <4>1
      <4> QED
        BY <4>1, <4>2, <4>3, BecomesSequence
    <3>5. Len(a) <= Capacity[v]
      BY <1>1, <2>2, <2>5
    <3> QED
      BY <1>2, <2>1, <2>5, <3>4, <3>5 DEF Abstract!PushBack, Abstract!Assign, a
  <2> QED
    BY <1>6, <2>3, <2>4, <2>5 DEF PushBack
<1>7. ASSUME PopBack(v) PROVE Abstract!PopBack(v)
  <2>1. v \in alive /\ alive = alive \cup {v}
    BY <1>7 DEF PopBack
  <2>2. Contents[v] = <<>> <=> m_size[v] = 0
    BY <1>2, <2>1, EmptySeq
  <2>3. CASE m_size[v] = 0 /\ Refuse("out_of_range")
    BY <1>2, <2>1, <2>2, <2>3, RefusedKeeps DEF Abstract!PopBack
  <2>4. CASE m_size[v] # 0 /\ result' = "ok" /\ alive' = alive
             /\ m_buffer' = [m_buffer EXCEPT ![v][m_size[v] - 1] = Raw]
             /\ m_size' = [m_size EXCEPT ![v] = @ - 1]
    <3> DEFINE p == SubSeq(Contents[v], 1, Len(Contents[v]) - 1)
    <3>1. /\ m_buffer' = [m_buffer EXCEPT ![v] = [m_buffer[v] EXCEPT ![m_size[v] - 1] = Raw]]
          /\ m_size' = [m_size EXCEPT ![v] = m_size[v] - 1]
      BY <2>4 DEF Inv, VectorsTyped
    <3>2. m_buffer[v] = [s \in Slots(v) |-> m_buffer[v][s]]
      BY DEF Inv, Sound, Slots
    <3>3. p \in Seq(Values) /\ Len(p) = m_size[v] - 1
          /\ \A i \in 1 .. m_size[v] - 1 : p[i] = Contents[v][i]
      <4> DEFINE n == m_size[v] - 1
      <4>1. n \in Nat /\ p = SubSeq(Contents[v], 1, n)
        BY <1>1, <1>2, <2>1, <2>4
      <4>2. \A i \in 1 .. n : Contents[v][i] \in Values
        <5>1. \A i \in 1 .. n : i \in 1 .. Len(Contents[v])
          BY <1>1, <1>2, <2>1
        <5> QED
          BY <1>2, <2>1, <5>1, ElementOfSeq
      <4> HIDE DEF n, p
      <4>3. /\ p \in Seq(Values) /\ Len(p) = IF 1 <= n THEN n - 1 + 1 ELSE 0
            /\ \A i \in 1 .. n - 1 + 1 : p[i] = Contents[v][1 + i - 1]
        BY <4>1, <4>2, SubSeqProperties
      <4> QED
        BY <4>1, <4>3 DEF n
    <3> HIDE DEF p
    <3>4. ASSUME NEW i \in 1 .. Len(p)
          PROVE  [m_buffer[v] EXCEPT ![m_size[v] - 1] = Raw][i - 1] = p[i]
      <4>1. i - 1 \in Slots(v) /\ i - 1 # m_size[v] - 1 /\ i \in 1 .. m_size[v]
        BY <1>1, <3>3 DEF Slots
      <4>2. p[i] = m_buffer[v][i - 1]
        BY <1>2, <2>1, <3>3, <4>1
      <4> QED
        BY <3>2, <4>1, <4>2
    <3>5. Abstract!Become(v, p)
      <4>1. /\ m_buffer'[v] = [m_buffer[v] EXCEPT ![m_size[v] - 1] = Raw]
            /\ m_size'[v] = m_size[v] - 1
            /\ \A u \in Vectors \ {v} : m_buffer'[u] = m_buffer[u] /\ m_size'[u] = m_size[u]
        BY <1>3, <3>1
      <4>2. \A i \in 1 .. Len(p) : m_buffer'[v][i - 1] = p[i]
        BY <3>4, <4>1
      <4>3. p \in Seq(Values) /\ m_size'[v] = Len(p) /\ alive' = alive \cup {v}
        BY <2>1, <2>4, <3>3, <4>1
      <4> QED
        BY <4>1, <4>2, <4>3, BecomesSequence
    <3> QED
      BY <1>2, <2>1, <2>2, <2>4, <3>5 DEF Abstract!PopBack, p
  <2> QED
    BY <1>7, <2>3, <2>4 DEF PopBack
<1>8. ASSUME Clear(v) PROVE Abstract!Clear(v)
  <2>1. /\ v \in alive /\ alive' = alive \cup {v} /\ result' = "none"
        /\ m_buffer' = [m_buffer EXCEPT ![v] = Without(v, m_size[v])]
        /\ m_size' = [m_size EXCEPT ![v] = 0]
    BY <1>8 DEF Clear
  <2>2. Abstract!Become(v, <<>>)
    BY <1>3, <2>1, BecomesEmpty
  <2> QED
    BY <1>2, <2>1, <2>2 DEF Abstract!Clear
<1>9. ASSUME Destroy(v) PROVE Abstract!Destroy(v)
  <2>1. /\ v \in alive /\ alive' = alive \ {v} /\ result' = "none"
        /\ m_buffer' = [m_buffer EXCEPT ![v] = Empty(v)]
        /\ m_size' = [m_size EXCEPT ![v] = 0]
    BY <1>9 DEF Destroy
  <2>2. \A u \in Vectors \ {v} : Contents'[u] = Contents[u]
    BY <1>3, <2>1, OthersKeepContents
  <2>3. Contents'[v] = Absent
    BY <2>1 DEF Contents
  <2>4. Contents = [u \in Vectors |-> Contents[u]] /\ Contents' = [u \in Vectors |-> Contents'[u]]
    BY DEF Contents
  <2> QED
    BY <1>2, <2>1, <2>2, <2>3, <2>4 DEF Abstract!Destroy, Abstract!Become
<1> QED
  BY <1>4, <1>5, <1>6, <1>7, <1>8, <1>9

\* While every counted slot holds an element, each operation does to the vectors what it
\* does to sequences of at most that capacity.
THEOREM VectorsAreSequences == Spec => ImplementsVectors
<1>1. Init => Abstract!Init
  <2> SUFFICES ASSUME Init PROVE Abstract!Init
    OBVIOUS
  <2> QED
    BY DEF Init, Abstract!Init, Contents
<1>2. ASSUME Inv, [Next]_vars, Inv'
      PROVE  [SizesRight /\ SizesRight' => Abstract!Next]_(Abstract!vars)
  <2>1. CASE UNCHANGED vars
    <3>1. UNCHANGED <<alive, m_buffer, m_size, result>>
      BY <2>1 DEF vars
    <3> QED
      BY <3>1, ContentsUnchanged DEF Abstract!vars
  <2>2. CASE Next
    <3> SUFFICES ASSUME SizesRight, SizesRight' PROVE Abstract!Next
      OBVIOUS
    <3>1. PICK v \in Vectors :
            \/ \E list \in Lists : Construct(v, list)
            \/ \E w \in Vectors :
                 \/ CopyConstruct(v, w) \/ MoveConstruct(v, w)
                 \/ CopyAssign(v, w) \/ MoveAssign(v, w)
            \/ \E n \in Sizes : Resize(v, n) \/ At(v, n)
            \/ \E x \in Values : PushBack(v, x)
            \/ PopBack(v) \/ Clear(v) \/ Destroy(v)
      BY <2>2 DEF Next, Step
    <3>2. \/ \E list \in Lists : Abstract!Construct(v, list)
          \/ \E w \in Vectors : Abstract!Copy(v, w) \/ Abstract!Move(v, w)
          \/ \E n \in Sizes : Abstract!Resize(v, n) \/ Abstract!At(v, n)
          \/ \E x \in Values : Abstract!PushBack(v, x)
          \/ Abstract!PopBack(v) \/ Abstract!Clear(v) \/ Abstract!Destroy(v)
          \/ Abstract!ElementThrows(v)
      BY <1>2, <3>1, ConstructRefines, CopyRefines, MoveRefines, ElementsRefine
    <3> QED
      BY <3>2 DEF Abstract!Next
  <2> QED
    BY <1>2, <2>1, <2>2
<1> QED
  BY <1>1, <1>2, InitInv, NextInv, PTL DEF Spec, ImplementsVectors

================================================================================
