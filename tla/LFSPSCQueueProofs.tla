--------------------------- MODULE LFSPSCQueueProofs ---------------------------
(***************************************************************************)
(* Proofs about LFSPSCQueue, for every capacity and any number of pushes:   *)
(* the threads never access a slot concurrently, and elements are           *)
(* constructed in raw storage and destroyed once, however stale the indices *)
(* are that the threads load.  The argument counts pushes and pops: the     *)
(* slot of push number k is k % Size, and what each thread has seen of the  *)
(* other's count, though old, bounds how far apart the two can be.          *)
(***************************************************************************)
EXTENDS LFSPSCQueue, Integers, SequenceTheorems, TLAPS

--------------------------------------------------------------------------------
(* Remainders *)

LEMMA Division ==
  ASSUME NEW a \in Int, NEW n \in Int, n > 0
  PROVE  a = n * (a \div n) + (a % n) /\ a \div n \in Int /\ a % n \in 0 .. n - 1
<1>1. a = n * (a \div n) + (a % n)
  BY SMTT(30)
<1>2. a \div n \in Int /\ a % n \in 0 .. n - 1
  OBVIOUS
<1> QED
  BY <1>1, <1>2

LEMMA Remainder ==
  ASSUME NEW n \in Nat \ {0}, NEW q \in Int, NEW r \in 0 .. n - 1
  PROVE  (n * q + r) % n = r
OBVIOUS

\* Two numbers less than n apart have different remainders.
LEMMA RemaindersDiffer ==
  ASSUME NEW n \in Nat \ {0}, NEW a \in Nat, NEW b \in Nat, a - b \in 1 .. n - 1
  PROVE  a % n # b % n
<1> SUFFICES ASSUME a % n = b % n PROVE FALSE
  OBVIOUS
<1> DEFINE x == a \div n  y == b \div n  r == a % n
<1>1. a = n * x + r /\ b = n * y + r /\ x \in Int /\ y \in Int /\ r \in Int
  BY Division
<1> HIDE DEF x, y, r
<1>2. n * (x - y) = n * x - n * y
  BY <1>1, SMTT(30)
<1>3. CASE x - y <= 0
  <2>1. n * (x - y) <= 0
    BY <1>1, <1>3
  <2> QED
    BY <1>1, <1>2, <2>1
<1>4. CASE x - y >= 1
  <2>1. n * (x - y) >= n
    BY <1>1, <1>4
  <2> QED
    BY <1>1, <1>2, <2>1
<1> QED
  BY <1>1, <1>3, <1>4

LEMMA AddToRemainder ==
  ASSUME NEW a \in Nat, NEW b \in Nat, NEW n \in Nat \ {0}
  PROVE  ((a % n) + b) % n = (a + b) % n
<1> DEFINE x == a \div n  r == a % n  y == (r + b) \div n  t == (r + b) % n
<1>1. a = n * x + r /\ x \in Int /\ r \in Int
  BY Division
<1>2. r + b = n * y + t /\ y \in Int /\ t \in 0 .. n - 1
  BY <1>1, Division
<1>3. (a + b) % n = t
  <2> HIDE DEF x, r, y, t
  <2>1. a + b = n * (x + y) + t /\ x + y \in Int
    BY <1>1, <1>2
  <2> QED
    BY <1>2, <2>1, Remainder
<1> QED
  BY <1>3

LEMMA WholeTurn ==
  ASSUME NEW a \in Nat, NEW n \in Nat \ {0}
  PROVE  (a + n) % n = a % n
<1> DEFINE x == a \div n  r == a % n
<1>1. a = n * x + r /\ x \in Int /\ r \in 0 .. n - 1
  BY Division
<1> HIDE DEF x, r
<1>2. a + n = n * (x + 1) + r
  BY <1>1
<1>3. (a + n) % n = r
  BY <1>1, <1>2, Remainder
<1> QED
  BY <1>3 DEF r

--------------------------------------------------------------------------------
(* The inductive invariant *)

\* Store number k of an index is the slot of push (pop) number k.
Indices ==
  /\ m_write_index \in Seq(Slots) /\ m_read_index \in Seq(Slots)
  /\ pushed \in Nat /\ popped \in Nat
  /\ \A k \in 0 .. pushed : m_write_index[k + 1] = k % Size
  /\ \A k \in 0 .. popped : m_read_index[k + 1] = k % Size

\* What each thread knows of the other's count, and what follows from it for the
\* operation it is in.
Knowledge ==
  /\ saw \in [producer : Nat, consumer : Nat] /\ synced = saw
  /\ saw.producer <= popped /\ popped <= saw.consumer /\ saw.consumer <= pushed
  /\ pushed - saw.producer <= Capacity /\ pushed <= MaxPushes
  /\ p_pc \in {"load", "construct", "publish"} => pushed < MaxPushes /\ p_value \in Values
  /\ p_pc \in {"construct", "publish"} => pushed - saw.producer < Capacity
  /\ c_pc \in {"move", "destroy", "publish"} => popped < saw.consumer

\* The accesses to a slot are those of its own pushes and pops, and a pop only
\* gets to slots whose push the consumer has seen.
Accesses ==
  \A s \in Slots :
    /\ lastPush[s] \in 0 .. pushed + 1 /\ lastPop[s] \in 0 .. popped + 1
    /\ lastPush[s] # 0 => (lastPush[s] - 1) % Size = s
    /\ lastPop[s] # 0 => (lastPop[s] - 1) % Size = s /\ lastPop[s] <= saw.consumer

\* The pushes whose elements are alive.
First == IF c_pc = "publish" THEN popped + 1 ELSE popped
Last  == IF p_pc = "publish" THEN pushed ELSE pushed - 1

Elements ==
  /\ \A i \in First .. Last : m_ring_buffer[i % Size] \in Values
  /\ \A s \in Slots : m_ring_buffer[s] = NoValue \/ \E i \in First .. Last : s = i % Size
  /\ p_pc = "publish" => m_ring_buffer[pushed % Size] = p_value

Typed ==
  /\ m_ring_buffer \in [Slots -> Values \cup {NoValue}]
  /\ lastPush \in [Slots -> Nat] /\ lastPop \in [Slots -> Nat]
  /\ may_throw \in BOOLEAN
  /\ p_pc \in {"idle", "load", "construct", "publish", "return"}
  /\ p_value \in Values \cup {NoValue}
  /\ c_pc \in {"idle", "load", "move", "destroy", "publish"}
  /\ c_result \in Values \cup {NoValue}

IInv == Typed /\ Indices /\ Knowledge /\ Accesses /\ Elements

LEMMA Ring == Size \in Nat \ {0} /\ \A k \in Nat : k % Size \in Slots
<1>1. Size \in Nat \ {0}
  BY RingAssumption DEF Size
<1>2. ASSUME NEW k \in Nat PROVE k % Size \in Slots
  <2> HIDE DEF Size
  <2> QED
    BY <1>1, Division DEF Slots
<1> QED
  BY <1>1, <1>2

\* The values of the indices are the slots of the next push and the next pop.
LEMMA Current ==
  ASSUME Indices
  PROVE  /\ write = pushed % Size /\ read = popped % Size
         /\ Succ(write) = (pushed + 1) % Size /\ Succ(read) = (popped + 1) % Size
         /\ {write, read, Succ(write), Succ(read)} \subseteq Slots
<1>1. write = pushed % Size /\ read = popped % Size
  <2>1. write = m_write_index[pushed + 1] /\ read = m_read_index[popped + 1]
    BY DEF Indices, write, read, pushed, popped
  <2> QED
    BY <2>1 DEF Indices
<1>2. Succ(write) = (pushed + 1) % Size /\ Succ(read) = (popped + 1) % Size
  BY <1>1, Ring, AddToRemainder DEF Succ, Indices
<1>3. pushed + 1 \in Nat /\ popped + 1 \in Nat /\ pushed \in Nat /\ popped \in Nat
  BY DEF Indices
<1> QED
  BY <1>1, <1>2, <1>3, Ring

LEMMA InitIInv == Init => IInv
<1> SUFFICES ASSUME Init PROVE IInv
  OBVIOUS
<1>1. pushed = 0 /\ popped = 0
  BY DEF Init, pushed, popped
<1>2. 0 % Size = 0 /\ 0 \in Slots
  BY Ring, Division DEF Slots
<1>3. Typed
  BY DEF Init, Typed
<1>4. Indices
  BY <1>1, <1>2 DEF Init, Indices
<1>5. Knowledge
  BY <1>1, RingAssumption DEF Init, Knowledge
<1>6. Accesses
  BY <1>1 DEF Init, Accesses
<1>7. Elements
  BY <1>1 DEF Init, Elements, First, Last
<1> QED
  BY <1>3, <1>4, <1>5, <1>6, <1>7 DEF IInv

LEMMA Counts ==
  ASSUME IInv
  PROVE  /\ {pushed, popped, saw.producer, saw.consumer, Capacity, MaxPushes} \subseteq Nat
         /\ Size = Capacity + 1
         /\ saw.producer <= popped /\ popped <= saw.consumer /\ saw.consumer <= pushed
         /\ pushed - saw.producer <= Capacity /\ pushed - popped <= Capacity
         /\ pushed <= MaxPushes
<1>1. {saw.producer, saw.consumer, Capacity, MaxPushes} \subseteq Nat
  BY RingAssumption DEF IInv, Knowledge
<1> QED
  BY <1>1 DEF IInv, Knowledge, Indices, Size

LEMMA SameIndices ==
  ASSUME Indices, UNCHANGED indexVars
  PROVE  /\ Indices' /\ pushed' = pushed /\ popped' = popped
         /\ write' = write /\ read' = read
BY DEF Indices, indexVars, pushed, popped, write, read

\* A step that leaves the slots alone and the range of the living elements.
LEMMA SameSlots ==
  ASSUME IInv, UNCHANGED indexVars, UNCHANGED slotVars, saw.consumer <= saw'.consumer,
         saw'.consumer \in Nat, First' = First, Last' = Last,
         p_pc' # "publish" \/ UNCHANGED producerVars
  PROVE  Accesses' /\ Elements'
<1>1. pushed' = pushed /\ popped' = popped
  BY SameIndices DEF IInv
<1>2. Accesses'
  <2>1. /\ Slots' = Slots /\ Size' = Size
        /\ lastPush' = lastPush /\ lastPop' = lastPop
    BY DEF slotVars, Slots, Size
  <2>2. lastPop \in [Slots -> Nat] /\ saw.consumer \in Nat /\ Accesses
    BY DEF IInv, Typed, Knowledge
  <2> HIDE DEF Slots, Size, IInv
  <2> QED
    BY <1>1, <2>1, <2>2 DEF Accesses
<1>3. Elements'
  BY <1>1 DEF IInv, Elements, slotVars, Slots, Size, producerVars
<1> QED
  BY <1>2, <1>3

LEMMA ProducerCalls ==
  ASSUME IInv, may_throw' = may_throw,
         (\E v \in Values : CallPush(v)) \/ (\E k \in 0 .. popped : LoadRead(k)) \/ ReturnTrue
  PROVE  IInv'
<1> USE DEF indexVars, orderVars, consumerVars, slotVars, PushReturns
<1>1. UNCHANGED indexVars /\ UNCHANGED slotVars /\ UNCHANGED consumerVars
  BY DEF CallPush, LoadRead, ReturnTrue
<1>2. Indices' /\ pushed' = pushed /\ popped' = popped
  BY <1>1, SameIndices DEF IInv
<1>3. Typed'
  BY <1>1 DEF CallPush, LoadRead, ReturnTrue, IInv, Typed
<1>4. Knowledge'
  <2>1. ASSUME NEW v \in Values, CallPush(v) PROVE Knowledge'
    BY <1>2, <2>1 DEF CallPush, IInv, Knowledge, Indices
  <2>2. ASSUME NEW k \in 0 .. popped, LoadRead(k) PROVE Knowledge'
    <3>1. /\ k \in Nat /\ saw.producer <= k /\ k <= popped
          /\ saw' = [saw EXCEPT !.producer = k] /\ synced' = [synced EXCEPT !.producer = k]
          /\ p_pc = "load"
      BY <2>2 DEF LoadRead, IInv, Knowledge, Indices
    <3>2. p_pc' = "construct" => pushed - k < Capacity
      <4> SUFFICES ASSUME p_pc' = "construct" PROVE pushed - k < Capacity
        OBVIOUS
      <4>1. Succ(write) # m_read_index[k + 1]
        BY <2>2 DEF LoadRead
      <4>2. (pushed + 1) % Size # k % Size
        BY <3>1, <4>1, Current DEF IInv, Indices
      <4>3. pushed + 1 # k + Size
        BY <3>1, <4>2, WholeTurn, Ring
      <4> QED
        BY <3>1, <4>3, Counts
    <3>3. p_pc' \in {"idle", "construct"} /\ (p_pc' = "construct" => p_value' = p_value)
      BY <2>2 DEF LoadRead
    <3>4. /\ saw' \in [producer : Nat, consumer : Nat] /\ synced' = saw'
          /\ saw'.producer = k /\ saw'.consumer = saw.consumer
      BY <3>1 DEF IInv, Knowledge
    <3>5. pushed - k <= Capacity
      BY <3>1, Counts
    <3> QED
      BY <1>1, <1>2, <3>1, <3>2, <3>3, <3>4, <3>5, Counts DEF IInv, Knowledge
  <2>3. CASE ReturnTrue
    BY <1>2, <2>3 DEF ReturnTrue, IInv, Knowledge, Indices
  <2> QED
    BY <2>1, <2>2, <2>3
<1>5. First' = First /\ Last' = Last
  BY <1>1, <1>2 DEF First, Last, CallPush, LoadRead, ReturnTrue
<1>6. saw'.consumer = saw.consumer /\ saw.consumer \in Nat /\ p_pc' # "publish"
  BY DEF CallPush, LoadRead, ReturnTrue, IInv, Knowledge
<1> QED
  BY <1>1, <1>2, <1>3, <1>4, <1>5, <1>6, SameSlots DEF IInv

LEMMA ConsumerCalls ==
  ASSUME IInv, may_throw' = may_throw,
         CallPop \/ \E k \in 0 .. pushed : LoadWrite(k)
  PROVE  IInv'
<1> USE DEF indexVars, orderVars, producerVars, slotVars, PopReturns
<1>1. UNCHANGED indexVars /\ UNCHANGED slotVars /\ UNCHANGED producerVars
  BY DEF CallPop, LoadWrite
<1>2. Indices' /\ pushed' = pushed /\ popped' = popped
  BY <1>1, SameIndices DEF IInv
<1>3. Typed'
  BY <1>1 DEF CallPop, LoadWrite, IInv, Typed
<1>4. Knowledge' /\ saw.consumer <= saw'.consumer /\ saw'.consumer \in Nat
  <2>1. CASE CallPop
    BY <1>2, <2>1 DEF CallPop, IInv, Knowledge, Indices
  <2>2. ASSUME NEW k \in 0 .. pushed, LoadWrite(k)
        PROVE  Knowledge' /\ saw.consumer <= saw'.consumer /\ saw'.consumer \in Nat
    <3>1. /\ k \in Nat /\ saw.consumer <= k /\ k <= pushed
          /\ saw' = [saw EXCEPT !.consumer = k] /\ synced' = [synced EXCEPT !.consumer = k]
      BY <2>2 DEF LoadWrite, IInv, Knowledge, Indices
    <3>2. c_pc' = "move" => popped < k
      <4> SUFFICES ASSUME c_pc' = "move" PROVE popped < k
        OBVIOUS
      <4>1. read # m_write_index[k + 1]
        BY <2>2 DEF LoadWrite
      <4>2. popped % Size # k % Size
        BY <3>1, <4>1, Current DEF IInv, Indices
      <4> QED
        BY <3>1, <4>2 DEF IInv, Knowledge, Indices
    <3>3. c_pc' \in {"idle", "move"}
      BY <2>2 DEF LoadWrite
    <3>4. /\ saw' \in [producer : Nat, consumer : Nat] /\ synced' = saw'
          /\ saw'.consumer = k /\ saw'.producer = saw.producer
      BY <3>1 DEF IInv, Knowledge
    <3>5. Knowledge
      BY DEF IInv
    <3>6. saw.consumer \in Nat /\ popped \in Nat /\ popped <= k
      BY <3>1, Counts
    <3>7. Knowledge'
      BY <1>1, <1>2, <3>1, <3>2, <3>3, <3>4, <3>5, <3>6 DEF Knowledge
    <3> QED
      BY <3>1, <3>4, <3>6, <3>7
  <2> QED
    BY <2>1, <2>2
<1>5. First' = First /\ Last' = Last
  BY <1>1, <1>2 DEF First, Last, CallPop, LoadWrite
<1> QED
  BY <1>1, <1>2, <1>3, <1>4, <1>5, SameSlots DEF IInv

\* Slots of pushes that can be in the ring together are different.
LEMMA SlotsDiffer ==
  ASSUME IInv, NEW i \in Nat, NEW j \in Nat, i < j, j - i <= Capacity
  PROVE  i % Size # j % Size
<1>1. j - i \in 1 .. Size - 1
  BY Counts
<1> QED
  BY <1>1, Ring, RemaindersDiffer

LEMMA ConstructStep ==
  ASSUME IInv, may_throw' = may_throw, Construct
  PROVE  IInv'
<1> USE DEF indexVars, orderVars, consumerVars, PushReturns
<1>1. /\ p_pc = "construct" /\ UNCHANGED <<c_pc, c_result, lastPop, saw, synced>>
      /\ UNCHANGED indexVars /\ lastPush' = [lastPush EXCEPT ![write] = pushed + 1]
  BY DEF Construct
<1>2. Indices' /\ pushed' = pushed /\ popped' = popped
  BY <1>1, SameIndices DEF IInv
<1>3. write = pushed % Size /\ write \in Slots
  BY Current DEF IInv
<1>4. Typed'
  BY <1>1, <1>3, Counts DEF Construct, IInv, Typed, Knowledge
<1>5. Knowledge'
  BY <1>1, <1>2 DEF Construct, IInv, Knowledge
<1>6. Accesses'
  <2> SUFFICES ASSUME NEW s \in Slots
               PROVE  /\ lastPush'[s] \in 0 .. pushed + 1 /\ lastPop'[s] \in 0 .. popped + 1
                      /\ lastPush'[s] # 0 => (lastPush'[s] - 1) % Size = s
                      /\ lastPop'[s] # 0 =>
                           (lastPop'[s] - 1) % Size = s /\ lastPop'[s] <= saw.consumer
    BY <1>1, <1>2 DEF Accesses, Slots, Size
  <2>1. lastPush'[s] = IF s = write THEN pushed + 1 ELSE lastPush[s]
    BY <1>1, <1>3 DEF IInv, Typed
  <2>2. (pushed + 1) - 1 = pushed /\ pushed + 1 \in 0 .. pushed + 1
    BY Counts
  <2> QED
    BY <1>1, <1>3, <2>1, <2>2 DEF IInv, Accesses
<1>7. Elements'
  <2>1. CASE UNCHANGED m_ring_buffer /\ p_pc' = "idle"
    BY <1>1, <1>2, <2>1 DEF IInv, Elements, First, Last, Slots, Size
  <2>2. CASE /\ m_ring_buffer' = [m_ring_buffer EXCEPT ![write] = p_value]
             /\ p_pc' = "publish" /\ p_value' = p_value
    <3>1. /\ First' = First /\ First \in Nat /\ popped <= First
          /\ Last = pushed - 1 /\ Last' = pushed
      BY <1>1, <1>2, <2>2, Counts DEF First, Last
    <3>2. \A s \in Slots : m_ring_buffer'[s] = IF s = write THEN p_value ELSE m_ring_buffer[s]
      BY <2>2, <1>3 DEF IInv, Typed
    <3>3. p_value \in Values
      BY <1>1 DEF IInv, Knowledge
    <3>4. ASSUME NEW i \in First .. pushed PROVE m_ring_buffer'[i % Size] \in Values
      <4>1. i \in Nat /\ i % Size \in Slots
        BY <3>1, Ring, Counts
      <4>2. CASE i = pushed
        BY <4>1, <4>2, <3>2, <3>3, <1>3
      <4>3. CASE i # pushed
        <5>1. i < pushed /\ pushed - i <= Capacity /\ pushed \in Nat /\ i \in First .. Last
          BY <4>1, <4>3, <3>1, Counts
        <5>2. i % Size # write
          BY <4>1, <5>1, <1>3, SlotsDiffer
        <5>3. m_ring_buffer[i % Size] \in Values
          BY <5>1 DEF IInv, Elements
        <5> QED
          BY <4>1, <5>2, <5>3, <3>2
      <4> QED
        BY <4>2, <4>3
    <3>5. ASSUME NEW s \in Slots, m_ring_buffer'[s] # NoValue
          PROVE  \E i \in First .. pushed : s = i % Size
      <4>1. CASE s = write
        <5>1. pushed \in First .. pushed
          BY <1>1, <3>1, Counts DEF First, IInv, Knowledge
        <5> QED
          BY <4>1, <5>1, <1>3
      <4>2. CASE s # write
        <5>1. PICK i \in First .. Last : s = i % Size
          BY <4>2, <3>2, <3>5 DEF IInv, Elements
        <5>2. i \in First .. pushed
          BY <3>1, Counts
        <5> QED
          BY <5>1, <5>2
      <4> QED
        BY <4>1, <4>2
    <3>6. m_ring_buffer'[pushed % Size] = p_value
      BY <3>2, <1>3
    <3> QED
      BY <3>1, <3>4, <3>5, <3>6, <1>2, <2>2 DEF Elements, Slots, Size
  <2> QED
    BY <2>1, <2>2 DEF Construct
<1> QED
  BY <1>2, <1>4, <1>5, <1>6, <1>7 DEF IInv

\* An index that is stored gets the number of one push (pop) more.
LEMMA StoreNumbers ==
  ASSUME NEW m, NEW n \in Nat, m \in Seq(Slots), Len(m) = n + 1,
         \A k \in 0 .. n : m[k + 1] = k % Size, NEW m1, m1 = Append(m, (n + 1) % Size)
  PROVE  /\ m1 \in Seq(Slots) /\ Len(m1) = n + 2
         /\ \A k \in 0 .. n + 1 : m1[k + 1] = k % Size
<1>1. (n + 1) % Size \in Slots
  BY Ring
<1>2. /\ m1 \in Seq(Slots) /\ Len(m1) = n + 2
      /\ \A j \in 1 .. n + 1 : m1[j] = m[j]
      /\ m1[n + 2] = (n + 1) % Size
  <2> DEFINE x == (n + 1) % Size
  <2>1. m1 = Append(m, x) /\ x \in Slots
    BY <1>1
  <2> HIDE DEF x
  <2>2. m1 \in Seq(Slots) /\ Len(m1) = n + 2 /\ m1[n + 2] = x
    BY <2>1
  <2>3. \A j \in 1 .. n + 1 : m1[j] = m[j]
    BY <2>1
  <2> QED
    BY <2>2, <2>3 DEF x
<1>3. ASSUME NEW k \in 0 .. n + 1 PROVE m1[k + 1] = k % Size
  <2>1. CASE k = n + 1
    BY <2>1, <1>2
  <2>2. CASE k # n + 1
    <3>1. k \in 0 .. n /\ k + 1 \in 1 .. n + 1
      BY <2>2
    <3> QED
      BY <3>1, <1>2
  <2> QED
    BY <2>1, <2>2
<1> QED
  BY <1>2, <1>3

LEMMA StoreWriteStep ==
  ASSUME IInv, may_throw' = may_throw, StoreWrite
  PROVE  IInv' /\ pushed' = pushed + 1 /\ popped' = popped
<1> USE DEF orderVars, consumerVars, slotVars
<1>1. /\ p_pc = "publish" /\ p_pc' = "return" /\ p_value' = p_value
      /\ m_write_index' = Append(m_write_index, Succ(write))
      /\ UNCHANGED <<c_pc, c_result, m_read_index, saw, synced,
                     m_ring_buffer, lastPush, lastPop>>
  BY DEF StoreWrite
<1>2. /\ m_write_index' \in Seq(Slots) /\ Len(m_write_index') = pushed + 2
      /\ \A k \in 0 .. pushed + 1 : m_write_index'[k + 1] = k % Size
  <2>1. m_write_index' = Append(m_write_index, (pushed + 1) % Size)
    BY <1>1, Current DEF IInv
  <2>2. /\ m_write_index \in Seq(Slots) /\ Len(m_write_index) = pushed + 1 /\ pushed \in Nat
        /\ \A k \in 0 .. pushed : m_write_index[k + 1] = k % Size
    BY DEF IInv, Indices, pushed
  <2> QED
    BY <2>1, <2>2, StoreNumbers
<1>3. pushed' = pushed + 1 /\ popped' = popped
  <2>1. pushed' = Len(m_write_index') - 1 /\ popped' = popped
    BY <1>1 DEF pushed, popped
  <2>2. Len(m_write_index') = pushed + 2
    BY <1>2
  <2>3. pushed \in Nat
    BY Counts
  <2>4. Len(m_write_index') - 1 = pushed + 1
    BY <2>2, <2>3
  <2> QED
    BY <2>1, <2>4
<1>4. Indices'
  <2>1. Slots' = Slots /\ Size' = Size
    BY DEF Slots, Size
  <2>2. \A k \in 0 .. pushed' : m_write_index'[k + 1] = k % Size
    BY <1>2, <1>3
  <2>3. pushed' \in Nat /\ popped' \in Nat
    BY <1>3, Counts
  <2>4. m_read_index' \in Seq(Slots) /\ \A k \in 0 .. popped' : m_read_index'[k + 1] = k % Size
    BY <1>1, <1>3 DEF IInv, Indices
  <2> QED
    BY <1>2, <2>1, <2>2, <2>3, <2>4 DEF Indices
<1>5. Typed'
  BY <1>1 DEF IInv, Typed
<1>6. Knowledge'
  BY <1>1, <1>3, Counts DEF IInv, Knowledge
<1>7. Accesses'
  BY <1>1, <1>3, Counts DEF IInv, Accesses, Slots, Size
<1>8. Elements'
  <2>1. First' = First /\ Last' = Last
    BY <1>1, <1>3, Counts DEF First, Last
  <2> QED
    BY <1>1, <2>1 DEF IInv, Elements, Slots, Size
<1> QED
  BY <1>3, <1>4, <1>5, <1>6, <1>7, <1>8 DEF IInv

\* Both accesses of a pop leave its number behind.
LEMMA PopAccesses ==
  ASSUME IInv, c_pc \in {"move", "destroy"}, UNCHANGED <<indexVars, orderVars, lastPush>>,
         lastPop' = [lastPop EXCEPT ![read] = popped + 1]
  PROVE  lastPop' \in [Slots -> Nat] /\ Accesses'
<1>1. pushed' = pushed /\ popped' = popped /\ saw' = saw
  BY SameIndices DEF IInv, orderVars
<1>2. read = popped % Size /\ read \in Slots
  BY Current DEF IInv
<1>3. \A s \in Slots : lastPop'[s] = IF s = read THEN popped + 1 ELSE lastPop[s]
  BY <1>2 DEF IInv, Typed
<1>4. popped + 1 <= saw.consumer /\ (popped + 1) - 1 = popped /\ popped + 1 \in 0 .. popped + 1
  BY Counts DEF IInv, Knowledge
<1>5. Accesses'
  <2> SUFFICES ASSUME NEW s \in Slots
               PROVE  /\ lastPush[s] \in 0 .. pushed + 1 /\ lastPop'[s] \in 0 .. popped + 1
                      /\ lastPush[s] # 0 => (lastPush[s] - 1) % Size = s
                      /\ lastPop'[s] # 0 =>
                           (lastPop'[s] - 1) % Size = s /\ lastPop'[s] <= saw.consumer
    BY <1>1 DEF Accesses, Slots, Size
  <2> QED
    BY <1>2, <1>3, <1>4 DEF IInv, Accesses
<1>6. lastPop' \in [Slots -> Nat]
  BY <1>2, Counts DEF IInv, Typed
<1> QED
  BY <1>5, <1>6

LEMMA MoveOutStep ==
  ASSUME IInv, may_throw' = may_throw, MoveOut
  PROVE  IInv' /\ m_ring_buffer[read] \in Values
<1> USE DEF indexVars, orderVars, producerVars, PopReturns
<1>1. /\ c_pc = "move" /\ UNCHANGED <<m_ring_buffer, lastPush, p_pc, p_value, saw, synced>>
      /\ UNCHANGED indexVars /\ lastPop' = [lastPop EXCEPT ![read] = popped + 1]
      /\ \/ c_result' = m_ring_buffer[read] /\ c_pc' = "destroy"
         \/ c_result' = NoValue /\ c_pc' = "idle"
  BY DEF MoveOut
<1>2. Indices' /\ pushed' = pushed /\ popped' = popped
  BY <1>1, SameIndices DEF IInv
<1>3. lastPop' \in [Slots -> Nat] /\ Accesses'
  BY <1>1, PopAccesses
<1>4. m_ring_buffer[read] \in Values
  <2>1. popped \in First .. Last
    BY <1>1, Counts DEF First, Last, IInv, Knowledge
  <2> QED
    BY <2>1, Current DEF IInv, Elements
<1>5. Typed'
  BY <1>1, <1>3, <1>4 DEF IInv, Typed
<1>6. Knowledge'
  BY <1>1, <1>2 DEF IInv, Knowledge
<1>7. Elements'
  <2>1. First' = First /\ Last' = Last
    BY <1>1, <1>2 DEF First, Last
  <2> QED
    BY <1>1, <1>2, <2>1 DEF IInv, Elements, Slots, Size
<1> QED
  BY <1>2, <1>3, <1>4, <1>5, <1>6, <1>7 DEF IInv

LEMMA DestroyStep ==
  ASSUME IInv, may_throw' = may_throw, Destroy
  PROVE  IInv'
<1> USE DEF indexVars, orderVars, producerVars
<1>1. /\ c_pc = "destroy" /\ c_pc' = "publish"
      /\ UNCHANGED <<c_result, lastPush, p_pc, p_value, saw, synced>>
      /\ UNCHANGED indexVars /\ lastPop' = [lastPop EXCEPT ![read] = popped + 1]
      /\ m_ring_buffer' = [m_ring_buffer EXCEPT ![read] = NoValue]
  BY DEF Destroy
<1>2. Indices' /\ pushed' = pushed /\ popped' = popped
  BY <1>1, SameIndices DEF IInv
<1>3. lastPop' \in [Slots -> Nat] /\ Accesses'
  BY <1>1, PopAccesses
<1>4. read = popped % Size /\ read \in Slots
  BY Current DEF IInv
<1>5. Typed'
  BY <1>1, <1>3, <1>4 DEF IInv, Typed
<1>6. Knowledge'
  BY <1>1, <1>2 DEF IInv, Knowledge
<1>7. Elements'
  <2>1. /\ First = popped /\ First' = popped + 1 /\ Last' = Last
        /\ Last \in Int /\ Last <= pushed
        /\ (p_pc = "publish" => Last = pushed) /\ (p_pc # "publish" => Last = pushed - 1)
    BY <1>1, <1>2, Counts DEF First, Last
  <2>2. \A s \in Slots : m_ring_buffer'[s] = IF s = read THEN NoValue ELSE m_ring_buffer[s]
    BY <1>1, <1>4 DEF IInv, Typed
  <2>3. ASSUME NEW i \in popped + 1 .. pushed PROVE i % Size # read /\ i % Size \in Slots
    <3>1. i \in Nat /\ popped \in Nat /\ popped < i /\ i - popped <= Capacity
      BY Counts
    <3> QED
      BY <3>1, <1>4, Ring, SlotsDiffer
  <2>4. ASSUME NEW i \in popped + 1 .. Last PROVE m_ring_buffer'[i % Size] \in Values
    <3>1. i \in popped + 1 .. pushed /\ i \in First .. Last
      BY <2>1, Counts
    <3> QED
      BY <3>1, <2>2, <2>3 DEF IInv, Elements
  <2>5. ASSUME NEW s \in Slots, m_ring_buffer'[s] # NoValue
        PROVE  \E i \in popped + 1 .. Last : s = i % Size
    <3>1. PICK i \in First .. Last : s = i % Size
      BY <2>2, <2>5 DEF IInv, Elements
    <3>2. i # popped
      BY <2>2, <2>5, <3>1, <1>4
    <3>3. i \in popped + 1 .. Last
      BY <2>1, <3>2, Counts
    <3> QED
      BY <3>1, <3>3
  <2>6. p_pc = "publish" => m_ring_buffer'[pushed % Size] = p_value
    <3> SUFFICES ASSUME p_pc = "publish" PROVE m_ring_buffer'[pushed % Size] = p_value
      OBVIOUS
    <3>1. pushed \in popped + 1 .. pushed
      BY <1>1, Counts DEF IInv, Knowledge
    <3> QED
      BY <3>1, <2>2, <2>3 DEF IInv, Elements
  <2> QED
    BY <1>1, <1>2, <2>1, <2>4, <2>5, <2>6 DEF Elements, Slots, Size
<1> QED
  BY <1>2, <1>3, <1>5, <1>6, <1>7 DEF IInv

LEMMA StoreReadStep ==
  ASSUME IInv, may_throw' = may_throw, StoreRead
  PROVE  IInv' /\ popped' = popped + 1 /\ pushed' = pushed
<1> USE DEF orderVars, producerVars, slotVars, PopReturns
<1>1. /\ c_pc = "publish" /\ c_pc' = "idle" /\ c_result' = NoValue
      /\ m_read_index' = Append(m_read_index, Succ(read))
      /\ UNCHANGED <<p_pc, p_value, m_write_index, saw, synced,
                     m_ring_buffer, lastPush, lastPop>>
  BY DEF StoreRead
<1>2. /\ m_read_index' \in Seq(Slots) /\ Len(m_read_index') = popped + 2
      /\ \A k \in 0 .. popped + 1 : m_read_index'[k + 1] = k % Size
  <2>1. m_read_index' = Append(m_read_index, (popped + 1) % Size)
    BY <1>1, Current DEF IInv
  <2>2. /\ m_read_index \in Seq(Slots) /\ Len(m_read_index) = popped + 1 /\ popped \in Nat
        /\ \A k \in 0 .. popped : m_read_index[k + 1] = k % Size
    BY DEF IInv, Indices, popped
  <2> QED
    BY <2>1, <2>2, StoreNumbers
<1>3. popped' = popped + 1 /\ pushed' = pushed
  <2>1. popped' = Len(m_read_index') - 1 /\ pushed' = pushed
    BY <1>1 DEF pushed, popped
  <2>2. Len(m_read_index') = popped + 2
    BY <1>2
  <2>3. popped \in Nat
    BY Counts
  <2>4. Len(m_read_index') - 1 = popped + 1
    BY <2>2, <2>3
  <2> QED
    BY <2>1, <2>4
<1>4. Indices'
  <2>1. Slots' = Slots /\ Size' = Size
    BY DEF Slots, Size
  <2>2. \A k \in 0 .. popped' : m_read_index'[k + 1] = k % Size
    BY <1>2, <1>3
  <2>3. popped' \in Nat /\ pushed' \in Nat
    BY <1>3, Counts
  <2>4. m_write_index' \in Seq(Slots) /\ \A k \in 0 .. pushed' : m_write_index'[k + 1] = k % Size
    BY <1>1, <1>3 DEF IInv, Indices
  <2> QED
    BY <1>2, <2>1, <2>2, <2>3, <2>4 DEF Indices
<1>5. Typed'
  BY <1>1 DEF IInv, Typed
<1>6. Knowledge'
  BY <1>1, <1>3, Counts DEF IInv, Knowledge
<1>7. Accesses'
  BY <1>1, <1>3, Counts DEF IInv, Accesses, Slots, Size
<1>8. Elements'
  <2>1. First' = First /\ Last' = Last
    BY <1>1, <1>3, Counts DEF First, Last
  <2> QED
    BY <1>1, <1>3, <2>1 DEF IInv, Elements, Slots, Size
<1> QED
  BY <1>3, <1>4, <1>5, <1>6, <1>7, <1>8 DEF IInv

LEMMA NextIInv == IInv /\ [Next]_vars => IInv'
<1> SUFFICES ASSUME IInv, [Next]_vars PROVE IInv'
  OBVIOUS
<1>1. CASE ProducerStep /\ UNCHANGED may_throw
  BY <1>1, ProducerCalls, ConstructStep, StoreWriteStep DEF ProducerStep
<1>2. CASE ConsumerStep /\ UNCHANGED may_throw
  BY <1>2, ConsumerCalls, MoveOutStep, DestroyStep, StoreReadStep DEF ConsumerStep
<1>3. CASE UNCHANGED vars
  <2>1. First' = First /\ Last' = Last /\ UNCHANGED indexVars /\ UNCHANGED slotVars
        /\ UNCHANGED producerVars /\ saw' = saw
    BY <1>3 DEF vars, producerVars, consumerVars, indexVars, orderVars, slotVars,
                First, Last, pushed, popped
  <2>2. Indices' /\ pushed' = pushed /\ popped' = popped
    BY <2>1, SameIndices DEF IInv
  <2>3. saw.consumer <= saw'.consumer /\ saw'.consumer \in Nat
    BY <2>1, Counts
  <2>4. Accesses' /\ Elements'
    BY <2>1, <2>3, SameSlots
  <2> QED
    BY <1>3, <2>2, <2>4 DEF vars, producerVars, consumerVars, indexVars, orderVars, slotVars,
                            IInv, Typed, Knowledge, Slots, Size
<1> QED
  BY <1>1, <1>2, <1>3 DEF Next

--------------------------------------------------------------------------------
(* What follows from it *)

LEMMA TypesFollow == IInv => TypeOK
<1> SUFFICES ASSUME IInv PROVE TypeOK
  OBVIOUS
<1>1. saw \in [producer : 0 .. popped, consumer : 0 .. pushed] /\ synced = saw
  BY Counts DEF IInv, Knowledge
<1>2. lastPush \in [Slots -> 0 .. pushed + 1] /\ lastPop \in [Slots -> 0 .. popped + 1]
  BY DEF IInv, Typed, Accesses
<1>3. /\ pushed \in 0 .. MaxPushes /\ popped \in 0 .. pushed
      /\ pushed - popped <= Capacity
  BY Counts
<1>4. m_write_index \in Seq(Slots) /\ m_read_index \in Seq(Slots)
  BY DEF IInv, Indices
<1> QED
  BY <1>1, <1>2, <1>3, <1>4 DEF IInv, Typed, TypeOK

LEMMA NoRaceFollows == IInv => NoDataRace
<1> SUFFICES ASSUME IInv PROVE NoDataRace
  OBVIOUS
<1>1. /\ write = pushed % Size /\ read = popped % Size /\ {write, read} \subseteq Slots
  BY Current DEF IInv
<1>2. ASSUME p_pc = "construct", lastPop[write] > saw.producer PROVE FALSE
  <2> DEFINE j == lastPop[write] - 1
  <2>1. /\ lastPop[write] \in Nat /\ lastPop[write] # 0 /\ j % Size = write
        /\ lastPop[write] <= saw.consumer
    BY <1>1, <1>2, Counts DEF IInv, Accesses, Typed
  <2>2. pushed - saw.producer < Capacity
    BY <1>2 DEF IInv, Knowledge
  <2>3. j \in Nat /\ pushed \in Nat /\ j < pushed /\ pushed - j <= Capacity
    BY <1>2, <2>1, <2>2, Counts
  <2> HIDE DEF j
  <2> QED
    BY <1>1, <2>1, <2>3, SlotsDiffer
<1>3. ASSUME c_pc \in {"move", "destroy"}, lastPush[read] > saw.consumer PROVE FALSE
  <2> DEFINE j == lastPush[read] - 1
  <2>1. /\ lastPush[read] \in 0 .. pushed + 1 /\ lastPush[read] # 0 /\ j % Size = read
    BY <1>1, <1>3, Counts DEF IInv, Accesses
  <2>2. popped < saw.consumer
    BY <1>3 DEF IInv, Knowledge
  <2>3. j \in Nat /\ popped \in Nat /\ popped < j /\ j - popped <= Capacity
    BY <1>3, <2>1, <2>2, Counts
  <2> HIDE DEF j
  <2> QED
    BY <1>1, <2>1, <2>3, SlotsDiffer
<1>4. lastPop[write] \in Nat /\ lastPush[read] \in Nat /\ synced = saw
  BY <1>1 DEF IInv, Typed, Knowledge
<1> QED
  BY <1>2, <1>3, <1>4, Counts DEF NoDataRace

LEMMA LifetimesFollow == IInv => LifetimesRespected
<1> SUFFICES ASSUME IInv PROVE LifetimesRespected
  OBVIOUS
<1>1. /\ write = pushed % Size /\ read = popped % Size /\ {write, read} \subseteq Slots
  BY Current DEF IInv
<1>2. ASSUME p_pc = "construct", NEW i \in First .. Last PROVE i % Size # write
  <2>1. i \in Nat /\ pushed \in Nat /\ i < pushed /\ pushed - i <= Capacity
    BY <1>2, Counts DEF First, Last
  <2> QED
    BY <1>1, <2>1, SlotsDiffer
<1>3. p_pc = "construct" => m_ring_buffer[write] = NoValue
  BY <1>1, <1>2 DEF IInv, Elements
<1>4. c_pc \in {"move", "destroy"} => popped \in First .. Last
  BY Counts DEF First, Last, IInv, Knowledge
<1>5. c_pc \in {"move", "destroy"} => m_ring_buffer[read] \in Values
  BY <1>1, <1>4 DEF IInv, Elements
<1> QED
  BY <1>3, <1>5 DEF LifetimesRespected

\* Types, for every capacity: the indices stay in the ring, and neither thread gets
\* ahead of the other.
THEOREM TypeCorrect == Spec => []TypeOK
BY InitIInv, NextIInv, TypesFollow, PTL DEF Spec

\* No two accesses to a slot are concurrent, whatever the threads load.
THEOREM RaceFree == Spec => []NoDataRace
BY InitIInv, NextIInv, NoRaceFollows, PTL DEF Spec

\* Elements are constructed in raw storage, and moved from and destroyed alive.
THEOREM ElementsLiveOnce == Spec => []LifetimesRespected
BY InitIInv, NextIInv, LifetimesFollow, PTL DEF Spec

--------------------------------------------------------------------------------
(* The refinement *)

\* The number of the oldest push whose element is in the queue.
Oldest == IF PopTookEffect THEN popped + 1 ELSE popped

LEMMA ItemsSeq ==
  ASSUME IInv
  PROVE  /\ Oldest \in Nat /\ Oldest <= pushed
         /\ Items \in Seq(Values) /\ Len(Items) = pushed - Oldest
         /\ \A i \in 1 .. pushed - Oldest : Items[i] = m_ring_buffer[(Oldest + i - 1) % Size]
<1>1. Oldest \in Nat /\ Oldest <= pushed /\ First <= Oldest /\ pushed - 1 <= Last
      /\ Last \in Int /\ First \in Nat
  BY Counts DEF Oldest, PopTookEffect, First, Last, IInv, Knowledge
<1> DEFINE gone == Oldest - popped
<1>2. gone \in {0, 1} /\ gone = IF PopTookEffect THEN 1 ELSE 0
  BY Counts DEF Oldest
<1>3. pushed - popped - gone = pushed - Oldest
  BY <1>1, Counts
<1>4. Items = [i \in 1 .. pushed - Oldest |-> m_ring_buffer[(read + gone + i - 1) % Size]]
  BY <1>2, <1>3 DEF Items
<1>5. ASSUME NEW i \in 1 .. pushed - Oldest
      PROVE  /\ (read + gone + i - 1) % Size = (Oldest + i - 1) % Size
             /\ Oldest + i - 1 \in First .. Last
  <2>1. read = popped % Size /\ read \in Nat
    BY Current DEF IInv, Slots
  <2>2. gone + i - 1 \in Nat /\ popped \in Nat /\ i \in Nat /\ gone \in Nat
    BY <1>1, <1>2, Counts
  <2>3. ((popped % Size) + (gone + i - 1)) % Size = (popped + (gone + i - 1)) % Size
    <3> HIDE DEF gone
    <3> QED
      BY <2>2, Ring, AddToRemainder
  <2>4. /\ read + gone + i - 1 = read + (gone + i - 1)
        /\ Oldest + i - 1 = popped + (gone + i - 1)
    BY <1>1, <2>1, <2>2, Counts
  <2>5. Oldest + i - 1 \in First .. Last
    BY <1>1, Counts
  <2> QED
    BY <2>1, <2>3, <2>4, <2>5
<1>6. \A i \in 1 .. pushed - Oldest :
        Items[i] = m_ring_buffer[(Oldest + i - 1) % Size] /\ Items[i] \in Values
  BY <1>4, <1>5 DEF IInv, Elements
<1>7. pushed - Oldest \in Nat
  BY <1>1, Counts
<1>8. Items \in Seq(Values) /\ Len(Items) = pushed - Oldest
  <2>1. Items = [i \in 1 .. pushed - Oldest |-> Items[i]]
    BY <1>4
  <2> QED
    BY <1>6, <1>7, <2>1
<1> QED
  BY <1>1, <1>6, <1>8

\* The queue holds the same when its counts and the slots of its elements do.
LEMMA SameItems ==
  ASSUME IInv, IInv', pushed' = pushed, Oldest' = Oldest,
         \A k \in Oldest .. pushed - 1 : m_ring_buffer'[k % Size] = m_ring_buffer[k % Size]
  PROVE  Items' = Items
<1>1. /\ Items \in Seq(Values) /\ Len(Items) = pushed - Oldest
      /\ \A i \in 1 .. pushed - Oldest : Items[i] = m_ring_buffer[(Oldest + i - 1) % Size]
      /\ Oldest \in Nat /\ Oldest <= pushed
  BY ItemsSeq
<1>2. (/\ Items \in Seq(Values) /\ Len(Items) = pushed - Oldest
       /\ \A i \in 1 .. pushed - Oldest : Items[i] = m_ring_buffer[(Oldest + i - 1) % Size])'
  BY ItemsSeq, PTL
<1>3. Size' = Size
  BY DEF Size
<1>4. ASSUME NEW i \in 1 .. pushed - Oldest PROVE Items'[i] = Items[i]
  <2>1. Oldest + i - 1 \in Oldest .. pushed - 1
    BY <1>1, Counts
  <2> QED
    BY <1>1, <1>2, <1>3, <2>1
<1> QED
  BY <1>1, <1>2, <1>4, SeqEqual

\* What the refinement mapping makes of where the threads are.
LEMMA Views ==
  ASSUME Typed
  PROVE  /\ Seen = [t \in {"producer", "consumer"} |-> Seen[t]]
         /\ p_pc = "idle" => Seen["producer"] = Fifo!Idle
         /\ p_pc = "return" => Seen["producer"] = Fifo!Pushed
         /\ p_pc \in {"load", "construct", "publish"} =>
              Seen["producer"] = Fifo!Pushing(p_value)
         /\ c_pc = "idle" => Seen["consumer"] = Fifo!Idle
         /\ c_pc \in {"load", "move"} => Seen["consumer"] = Fifo!Popping
         /\ c_pc \in {"destroy", "publish"} => Seen["consumer"] = Fifo!Popped(c_result)
<1> USE DEF Seen, PopTookEffect
<1>1. Seen = [t \in {"producer", "consumer"} |-> Seen[t]]
  OBVIOUS
<1>2. p_pc = "idle" => Seen["producer"] = Fifo!Idle
  BY DEF Fifo!Idle
<1>3. p_pc = "return" => Seen["producer"] = Fifo!Pushed
  BY DEF Fifo!Pushed
<1>4. p_pc \in {"load", "construct", "publish"} => Seen["producer"] = Fifo!Pushing(p_value)
  BY DEF Fifo!Pushing
<1>5. c_pc = "idle" => Seen["consumer"] = Fifo!Idle
  BY DEF Fifo!Idle
<1>6. c_pc \in {"load", "move"} => Seen["consumer"] = Fifo!Popping
  BY DEF Fifo!Popping
<1>7. c_pc \in {"destroy", "publish"} => Seen["consumer"] = Fifo!Popped(c_result)
  BY DEF Fifo!Popped
<1> QED
  BY <1>1, <1>2, <1>3, <1>4, <1>5, <1>6, <1>7

\* A step of one thread changes the view of that thread only.
LEMMA OneView ==
  ASSUME Typed, Typed', NEW t \in {"producer", "consumer"},
         \A u \in {"producer", "consumer"} : u # t => Seen'[u] = Seen[u]
  PROVE  Seen' = [Seen EXCEPT ![t] = Seen'[t]]
<1>1. Seen = [u \in {"producer", "consumer"} |-> Seen[u]]
  BY Views
<1>2. Seen' = [u \in {"producer", "consumer"} |-> Seen'[u]]
  BY DEF Seen, PopTookEffect
<1> QED
  BY <1>1, <1>2

LEMMA ProducerView ==
  ASSUME Typed, Typed', UNCHANGED consumerVars
  PROVE  Seen' = [Seen EXCEPT !["producer"] = Seen'["producer"]]
<1>1. Seen'["consumer"] = Seen["consumer"]
  BY DEF consumerVars, Seen, PopTookEffect
<1> QED
  BY <1>1, OneView

LEMMA ConsumerView ==
  ASSUME Typed, Typed', UNCHANGED producerVars
  PROVE  Seen' = [Seen EXCEPT !["consumer"] = Seen'["consumer"]]
<1>1. Seen'["producer"] = Seen["producer"]
  BY DEF producerVars, Seen
<1> QED
  BY <1>1, OneView

LEMMA ViewsPrimed ==
  ASSUME Typed'
  PROVE  /\ p_pc' = "idle" => Seen'["producer"] = Fifo!Idle
         /\ p_pc' = "return" => Seen'["producer"] = Fifo!Pushed
         /\ p_pc' \in {"load", "construct", "publish"} =>
              Seen'["producer"] = Fifo!Pushing(p_value')
         /\ c_pc' = "idle" => Seen'["consumer"] = Fifo!Idle
         /\ c_pc' \in {"load", "move"} => Seen'["consumer"] = Fifo!Popping
         /\ c_pc' \in {"destroy", "publish"} => Seen'["consumer"] = Fifo!Popped(c_result')
<1> USE DEF Seen, PopTookEffect
<1>1. p_pc' = "idle" => Seen'["producer"] = Fifo!Idle
  BY DEF Fifo!Idle
<1>2. p_pc' = "return" => Seen'["producer"] = Fifo!Pushed
  BY DEF Fifo!Pushed
<1>3. p_pc' \in {"load", "construct", "publish"} => Seen'["producer"] = Fifo!Pushing(p_value')
  BY DEF Fifo!Pushing
<1>4. c_pc' = "idle" => Seen'["consumer"] = Fifo!Idle
  BY DEF Fifo!Idle
<1>5. c_pc' \in {"load", "move"} => Seen'["consumer"] = Fifo!Popping
  BY DEF Fifo!Popping
<1>6. c_pc' \in {"destroy", "publish"} => Seen'["consumer"] = Fifo!Popped(c_result')
  BY DEF Fifo!Popped
<1> QED
  BY <1>1, <1>2, <1>3, <1>4, <1>5, <1>6

\* What a call that comes back without any effect is: a return.
LEMMA ReturnMapped ==
  ASSUME NEW t \in {"producer", "consumer"}, Items' = Items, Seen[t] # Fifo!Idle,
         Seen' = [Seen EXCEPT ![t] = Fifo!Idle]
  PROVE  Fifo!Next
BY DEF Fifo!Next, Fifo!Return

LEMMA PhasesDiffer ==
  \A v : /\ Fifo!Pushing(v) # Fifo!Idle /\ Fifo!Popped(v) # Fifo!Idle
        /\ Fifo!Popping # Fifo!Idle /\ Fifo!Pushed # Fifo!Idle
        /\ Fifo!Pushing(v).phase = "push" /\ Fifo!Pushing(v).val = v
<1>1. Fifo!Idle.phase = "idle" /\ Fifo!Popping.phase = "pop" /\ Fifo!Pushed.phase = "pushed"
  BY DEF Fifo!Idle, Fifo!Popping, Fifo!Pushed
<1>2. \A v : Fifo!Pushing(v).phase = "push" /\ Fifo!Pushing(v).val = v
            /\ Fifo!Popped(v).phase = "popped"
  BY DEF Fifo!Pushing, Fifo!Popped
<1> QED
  BY <1>1, <1>2

LEMMA ProducerIsFifo ==
  ASSUME IInv, IInv', ProducerStep, may_throw' = may_throw
  PROVE  [Fifo!Next]_(Fifo!vars)
<1> USE DEF Fifo!vars
<1>1. Typed /\ Typed' /\ UNCHANGED consumerVars
  BY DEF IInv, ProducerStep, CallPush, LoadRead, Construct, StoreWrite, ReturnTrue
<1>2. /\ Seen' = [Seen EXCEPT !["producer"] = Seen'["producer"]]
      /\ Seen = [Seen EXCEPT !["producer"] = Seen["producer"]]
  BY <1>1, ProducerView, Views
<1>3. Oldest' = IF PopTookEffect THEN popped' + 1 ELSE popped'
  BY <1>1 DEF Oldest, PopTookEffect, consumerVars
<1>4. ASSUME UNCHANGED <<m_ring_buffer, m_write_index, m_read_index>> PROVE Items' = Items
  <2>1. pushed' = pushed /\ popped' = popped
    BY <1>4 DEF pushed, popped
  <2>2. Oldest' = Oldest
    BY <1>3, <2>1 DEF Oldest
  <2> QED
    BY <1>4, <2>1, <2>2, SameItems
<1>5. ASSUME NEW v \in Values, CallPush(v) PROVE Fifo!Next
  <2>1. /\ p_pc = "idle" /\ p_pc' = "load" /\ p_value' = v
        /\ UNCHANGED <<m_ring_buffer, m_write_index, m_read_index>>
    BY <1>5 DEF CallPush, indexVars, slotVars
  <2>2. Seen["producer"] = Fifo!Idle /\ Seen'["producer"] = Fifo!Pushing(v)
    BY <1>1, <2>1, Views, ViewsPrimed
  <2> QED
    BY <1>2, <1>4, <2>1, <2>2 DEF Fifo!Next, Fifo!CallPush
<1>6. ASSUME UNCHANGED <<m_ring_buffer, m_write_index, m_read_index>>,
             p_pc \in {"load", "construct", "publish", "return"}, p_pc' = "idle"
      PROVE  Fifo!Next
  <2>1. Seen["producer"] # Fifo!Idle /\ Seen'["producer"] = Fifo!Idle
    BY <1>1, <1>6, Views, ViewsPrimed, PhasesDiffer
  <2> QED
    BY <1>2, <1>4, <1>6, <2>1, ReturnMapped
<1>7. ASSUME Items' = Items, p_pc \in {"load", "construct"}, p_value' = p_value,
             p_pc' \in {"construct", "publish"}
      PROVE  UNCHANGED Fifo!vars
  <2>1. Seen'["producer"] = Seen["producer"]
    BY <1>1, <1>7, Views, ViewsPrimed
  <2> QED
    BY <1>2, <1>7, <2>1
<1>8. ASSUME NEW k, LoadRead(k) PROVE [Fifo!Next]_(Fifo!vars)
  <2>1. /\ UNCHANGED <<m_ring_buffer, m_write_index, m_read_index>> /\ p_pc = "load"
        /\ p_pc' = "idle" \/ (p_pc' = "construct" /\ p_value' = p_value)
    BY <1>8 DEF LoadRead, indexVars, slotVars, PushReturns
  <2> QED
    BY <1>4, <1>6, <1>7, <2>1
<1>9. ASSUME Construct PROVE [Fifo!Next]_(Fifo!vars)
  <2>1. UNCHANGED indexVars /\ p_pc = "construct" /\ pushed' = pushed /\ popped' = popped
    BY <1>9 DEF Construct, indexVars, pushed, popped
  <2>2. CASE p_pc' = "idle" /\ UNCHANGED m_ring_buffer
    BY <1>6, <2>1, <2>2 DEF indexVars
  <2>3. CASE /\ m_ring_buffer' = [m_ring_buffer EXCEPT ![write] = p_value]
             /\ p_pc' = "publish" /\ p_value' = p_value
    <3>1. ASSUME NEW k \in Oldest .. pushed - 1
          PROVE  m_ring_buffer'[k % Size] = m_ring_buffer[k % Size]
      <4>1. k \in Nat /\ k < pushed /\ pushed - k <= Capacity /\ pushed \in Nat
        BY Counts DEF Oldest
      <4>2. k % Size # write /\ k % Size \in Slots
        BY <4>1, SlotsDiffer, Ring, Current DEF IInv
      <4> QED
        BY <2>3, <4>2 DEF IInv, Typed
    <3>2. Items' = Items
      BY <1>3, <2>1, <3>1, SameItems DEF Oldest
    <3> QED
      BY <1>7, <2>1, <2>3, <3>2
  <2> QED
    BY <1>9, <2>2, <2>3 DEF Construct, PushReturns
<1>10. ASSUME StoreWrite PROVE Fifo!Next
  <2>1. /\ p_pc = "publish" /\ p_pc' = "return" /\ UNCHANGED m_ring_buffer
        /\ pushed' = pushed + 1 /\ popped' = popped
    BY <1>10, StoreWriteStep DEF StoreWrite, slotVars
  <2>2. Oldest' = Oldest
    BY <1>3, <2>1 DEF Oldest
  <2>3. Seen["producer"] = Fifo!Pushing(p_value) /\ Seen'["producer"] = Fifo!Pushed
    BY <1>1, <2>1, Views, ViewsPrimed
  <2>4. /\ Items \in Seq(Values) /\ Len(Items) = pushed - Oldest
        /\ \A i \in 1 .. pushed - Oldest : Items[i] = m_ring_buffer[(Oldest + i - 1) % Size]
        /\ Oldest \in Nat /\ Oldest <= pushed
    BY ItemsSeq
  <2>5. (/\ Items \in Seq(Values) /\ Len(Items) = pushed - Oldest
         /\ \A i \in 1 .. pushed - Oldest :
              Items[i] = m_ring_buffer[(Oldest + i - 1) % Size])'
    BY ItemsSeq, PTL
  <2>6. Len(Items) < Capacity
    <3>1. pushed - saw.producer < Capacity
      BY <2>1 DEF IInv, Knowledge
    <3>2. popped <= Oldest
      BY Counts DEF Oldest
    <3> QED
      BY <2>4, <3>1, <3>2, Counts
  <2>7. p_value \in Values /\ m_ring_buffer[pushed % Size] = p_value
    BY <2>1 DEF IInv, Knowledge, Elements
  <2>8. Items' = Append(Items, p_value)
    <3> DEFINE n == pushed - Oldest
    <3>1. n \in Nat /\ pushed' - Oldest' = n + 1 /\ Oldest + (n + 1) - 1 = pushed
      <4>1. pushed \in Nat /\ Oldest \in Nat /\ Oldest <= pushed
        BY <2>4, Counts
      <4>2. pushed' = pushed + 1 /\ Oldest' = Oldest
        BY <2>1, <2>2
      <4> QED
        BY <4>1, <4>2
    <3>2. Size' = Size
      BY DEF Size
    <3>3. /\ Items \in Seq(Values) /\ Len(Items) = n
          /\ \A i \in 1 .. n : Items[i] = m_ring_buffer[(Oldest + i - 1) % Size]
      BY <2>4
    <3>4. /\ Items' \in Seq(Values) /\ Len(Items') = n + 1
          /\ \A i \in 1 .. n + 1 : Items'[i] = m_ring_buffer[(Oldest + i - 1) % Size]
      BY <2>1, <2>2, <2>5, <3>1, <3>2
    <3> HIDE DEF n
    <3>5. /\ Append(Items, p_value) \in Seq(Values) /\ Len(Append(Items, p_value)) = n + 1
          /\ \A i \in 1 .. n + 1 :
               Append(Items, p_value)[i] = IF i <= n THEN Items[i] ELSE p_value
      BY <2>7, <3>1, <3>3
    <3>6. Items'[n + 1] = p_value
      BY <2>7, <3>1, <3>4
    <3>7. ASSUME NEW i \in 1 .. n + 1 PROVE Items'[i] = Append(Items, p_value)[i]
      <4>1. CASE i = n + 1
        BY <4>1, <3>1, <3>5, <3>6
      <4>2. CASE i # n + 1
        <5>1. i \in 1 .. n /\ i <= n
          BY <4>2, <3>1
        <5> QED
          BY <5>1, <3>3, <3>4, <3>5
      <4> QED
        BY <4>1, <4>2
    <3> QED
      BY <3>4, <3>5, <3>7, SeqEqual
  <2>9. Seen["producer"].phase = "push" /\ Seen["producer"].val = p_value
    BY <2>3, PhasesDiffer
  <2>10. Seen' = [Seen EXCEPT !["producer"] = Fifo!Pushed]
    BY <1>2, <2>3
  <2> QED
    BY <2>6, <2>8, <2>9, <2>10 DEF Fifo!Next, Fifo!PushEffect
<1>11. ASSUME ReturnTrue PROVE Fifo!Next
  BY <1>6, <1>11 DEF ReturnTrue, PushReturns, indexVars, slotVars
<1> QED
  BY <1>5, <1>8, <1>9, <1>10, <1>11 DEF ProducerStep

LEMMA ConsumerIsFifo ==
  ASSUME IInv, IInv', ConsumerStep, may_throw' = may_throw
  PROVE  [Fifo!Next]_(Fifo!vars)
<1> USE DEF Fifo!vars
<1>1. Typed /\ Typed' /\ UNCHANGED producerVars
  BY DEF IInv, ConsumerStep, CallPop, LoadWrite, MoveOut, Destroy, StoreRead
<1>2. /\ Seen' = [Seen EXCEPT !["consumer"] = Seen'["consumer"]]
      /\ Seen = [Seen EXCEPT !["consumer"] = Seen["consumer"]]
  BY <1>1, ConsumerView, Views
<1>3. /\ Oldest = IF c_pc \in {"destroy", "publish"} THEN popped + 1 ELSE popped
      /\ Oldest' = IF c_pc' \in {"destroy", "publish"} THEN popped' + 1 ELSE popped'
  BY DEF Oldest, PopTookEffect
<1>4. ASSUME UNCHANGED m_ring_buffer, pushed' = pushed, Oldest' = Oldest PROVE Items' = Items
  BY <1>4, SameItems
<1>5. ASSUME UNCHANGED indexVars PROVE pushed' = pushed /\ popped' = popped
  BY <1>5 DEF indexVars, pushed, popped
<1>6. ASSUME CallPop PROVE Fifo!Next
  <2>1. c_pc = "idle" /\ c_pc' = "load" /\ UNCHANGED m_ring_buffer /\ UNCHANGED indexVars
    BY <1>6 DEF CallPop, slotVars
  <2>2. Items' = Items
    BY <1>3, <1>4, <1>5, <2>1
  <2>3. Seen["consumer"] = Fifo!Idle /\ Seen'["consumer"] = Fifo!Popping
    BY <1>1, <2>1, Views, ViewsPrimed
  <2> QED
    BY <1>2, <2>2, <2>3 DEF Fifo!Next, Fifo!CallPop
<1>7. ASSUME Items' = Items, c_pc # "idle", c_pc' = "idle" PROVE Fifo!Next
  <2>1. c_pc \in {"load", "move", "destroy", "publish"}
    BY <1>1, <1>7 DEF Typed
  <2>2. Seen["consumer"] # Fifo!Idle /\ Seen'["consumer"] = Fifo!Idle
    BY <1>1, <1>7, <2>1, Views, ViewsPrimed, PhasesDiffer
  <2> QED
    BY <1>2, <1>7, <2>2, ReturnMapped
<1>8. ASSUME NEW k, LoadWrite(k) PROVE [Fifo!Next]_(Fifo!vars)
  <2>1. /\ c_pc = "load" /\ UNCHANGED m_ring_buffer /\ UNCHANGED indexVars
        /\ c_pc' \in {"idle", "move"}
    BY <1>8 DEF LoadWrite, slotVars, PopReturns
  <2>2. Items' = Items
    BY <1>3, <1>4, <1>5, <2>1
  <2>3. c_pc' = "move" => Seen'["consumer"] = Seen["consumer"]
    BY <1>1, <2>1, Views, ViewsPrimed
  <2> QED
    BY <1>2, <1>7, <2>1, <2>2, <2>3
<1>9. ASSUME MoveOut PROVE [Fifo!Next]_(Fifo!vars)
  <2>1. /\ c_pc = "move" /\ UNCHANGED m_ring_buffer /\ UNCHANGED indexVars
        /\ pushed' = pushed /\ popped' = popped
    BY <1>5, <1>9 DEF MoveOut, indexVars
  <2>2. CASE c_pc' = "idle"
    <3>1. Items' = Items
      BY <1>3, <1>4, <2>1, <2>2
    <3> QED
      BY <1>7, <2>1, <2>2, <3>1
  <2>3. CASE c_pc' = "destroy" /\ c_result' = m_ring_buffer[read]
    <3>1. Oldest = popped /\ Oldest' = popped + 1 /\ popped < pushed /\ popped \in Nat
      BY <1>3, <2>1, <2>3, Counts DEF IInv, Knowledge
    <3> DEFINE n == pushed - popped
    <3>2. n \in Nat \ {0} /\ pushed' - Oldest' = n - 1
      BY <2>1, <3>1, Counts
    <3>3. /\ Items \in Seq(Values) /\ Len(Items) = n
          /\ \A i \in 1 .. n : Items[i] = m_ring_buffer[(popped + i - 1) % Size]
      BY <3>1, ItemsSeq
    <3>4. (/\ Items \in Seq(Values) /\ Len(Items) = pushed - Oldest
           /\ \A i \in 1 .. pushed - Oldest :
                Items[i] = m_ring_buffer[(Oldest + i - 1) % Size])'
      BY ItemsSeq, PTL
    <3>5. Size' = Size
      BY DEF Size
    <3>6. /\ Items' \in Seq(Values) /\ Len(Items') = n - 1
          /\ \A i \in 1 .. n - 1 : Items'[i] = m_ring_buffer[((popped + 1) + i - 1) % Size]
      BY <2>1, <3>1, <3>2, <3>4, <3>5
    <3>7. Items # <<>> /\ Head(Items) = c_result'
      <4>1. 1 \in 1 .. n /\ popped + 1 - 1 = popped
        BY <3>1, <3>2
      <4>2. Items[1] = m_ring_buffer[popped % Size]
        BY <3>3, <4>1
      <4>3. Items # <<>> /\ Head(Items) = Items[1]
        <5> HIDE DEF n
        <5> QED
          BY <3>2, <3>3
      <4> QED
        BY <2>3, <4>2, <4>3, Current DEF IInv
    <3>8. Items' = Tail(Items)
      <4> HIDE DEF n
      <4>1. /\ Tail(Items) \in Seq(Values) /\ Len(Tail(Items)) = n - 1
            /\ \A i \in 1 .. n - 1 : Tail(Items)[i] = Items[i + 1]
        BY <3>2, <3>3, <3>7
      <4>2. ASSUME NEW i \in 1 .. n - 1 PROVE Items'[i] = Items[i + 1]
        <5>1. i + 1 \in 1 .. n /\ (popped + 1) + i - 1 = popped + (i + 1) - 1
          BY <3>1, <3>2
        <5>2. Items[i + 1] = m_ring_buffer[(popped + (i + 1) - 1) % Size]
          BY <3>3, <5>1
        <5>3. Items'[i] = m_ring_buffer[((popped + 1) + i - 1) % Size]
          BY <3>6
        <5> QED
          BY <5>1, <5>2, <5>3
      <4> QED
        BY <3>6, <4>1, <4>2, SeqEqual
    <3>9. Seen["consumer"] = Fifo!Popping /\ Seen'["consumer"] = Fifo!Popped(c_result')
      BY <1>1, <2>1, <2>3, Views, ViewsPrimed
    <3> QED
      BY <1>2, <3>7, <3>8, <3>9 DEF Fifo!Next, Fifo!PopEffect
  <2> QED
    BY <1>9, <2>2, <2>3 DEF MoveOut, PopReturns
<1>10. ASSUME Destroy PROVE UNCHANGED Fifo!vars
  <2>1. /\ c_pc = "destroy" /\ c_pc' = "publish" /\ c_result' = c_result
        /\ UNCHANGED indexVars /\ m_ring_buffer' = [m_ring_buffer EXCEPT ![read] = NoValue]
    BY <1>10 DEF Destroy
  <2>2. pushed' = pushed /\ popped' = popped /\ Oldest = popped + 1 /\ Oldest' = Oldest
    BY <1>3, <1>5, <2>1
  <2>3. ASSUME NEW k \in Oldest .. pushed - 1
        PROVE  m_ring_buffer'[k % Size] = m_ring_buffer[k % Size]
    <3>1. k \in Nat /\ popped \in Nat /\ popped < k /\ k - popped <= Capacity
      BY <2>2, Counts
    <3>2. k % Size # read /\ k % Size \in Slots
      BY <3>1, SlotsDiffer, Ring, Current DEF IInv
    <3> QED
      BY <2>1, <3>2 DEF IInv, Typed
  <2>4. Items' = Items
    BY <2>2, <2>3, SameItems
  <2>5. Seen'["consumer"] = Seen["consumer"]
    BY <1>1, <2>1, Views, ViewsPrimed
  <2> QED
    BY <1>2, <2>4, <2>5
<1>11. ASSUME StoreRead PROVE Fifo!Next
  <2>1. /\ c_pc = "publish" /\ c_pc' = "idle" /\ UNCHANGED m_ring_buffer
        /\ popped' = popped + 1 /\ pushed' = pushed
    BY <1>11, StoreReadStep DEF StoreRead, slotVars, PopReturns
  <2>2. Items' = Items
    BY <1>3, <1>4, <2>1
  <2> QED
    BY <1>7, <2>1, <2>2
<1> QED
  BY <1>6, <1>8, <1>9, <1>10, <1>11 DEF ConsumerStep

LEMMA InitFifo == Init => Fifo!Init
<1> SUFFICES ASSUME Init PROVE Fifo!Init
  OBVIOUS
<1>1. IInv
  BY InitIInv
<1>2. pushed = 0 /\ popped = 0
  BY DEF Init, pushed, popped
<1>3. Items = <<>>
  <2>1. Oldest = 0
    BY <1>2, Counts, <1>1, ItemsSeq DEF Oldest
  <2>2. Items \in Seq(Values) /\ Len(Items) = 0
    BY <1>1, <1>2, <2>1, ItemsSeq
  <2> QED
    BY <2>2
<1>4. Seen = [t \in {"producer", "consumer"} |-> Fifo!Idle]
  BY <1>1, Views DEF Init, IInv
<1> QED
  BY <1>3, <1>4 DEF Fifo!Init

LEMMA NextFifo == IInv /\ IInv' /\ [Next]_vars => [Fifo!Next]_(Fifo!vars)
<1> SUFFICES ASSUME IInv, IInv', [Next]_vars PROVE [Fifo!Next]_(Fifo!vars)
  OBVIOUS
<1>1. CASE Next
  BY <1>1, ProducerIsFifo, ConsumerIsFifo DEF Next
<1>2. CASE UNCHANGED vars
  <2>1. Seen' = Seen
    BY <1>2 DEF vars, producerVars, consumerVars, Seen, PopTookEffect
  <2>2. pushed' = pushed /\ Oldest' = Oldest /\ UNCHANGED m_ring_buffer
    BY <1>2 DEF vars, indexVars, consumerVars, slotVars, pushed, popped, Oldest, PopTookEffect
  <2>3. Items' = Items
    BY <2>2, SameItems
  <2> QED
    BY <2>1, <2>3 DEF Fifo!vars
<1> QED
  BY <1>1, <1>2

\* The ring with its wrapping indices and stale loads is a FIFO of at most Capacity
\* elements, for every capacity.
THEOREM RingIsFifo == Spec => ImplementsFifo
<1>1. IInv /\ [Next]_vars => IInv'
  BY NextIInv
<1> QED
  BY <1>1, InitIInv, InitFifo, NextFifo, PTL DEF Spec, ImplementsFifo, Fifo!Spec

================================================================================
