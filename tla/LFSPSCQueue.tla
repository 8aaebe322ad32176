----------------------------- MODULE LFSPSCQueue -----------------------------
(***************************************************************************)
(* LFSPSCQueue<T> (concurrency/lf_spsc_queue.hpp): a ring of capacity + 1   *)
(* slots, one producer that calls try_push, one consumer that calls         *)
(* try_pop, and two atomic indices that are stored with release and loaded *)
(* with acquire order by the other side.                                   *)
(*                                                                         *)
(* Memory model.  An atomic index is the sequence of its stores, all made   *)
(* by one thread: after the initial value, number k publishes the first k   *)
(* pushes (pops).  An acquire load of the other side's index returns any    *)
(* store from the latest one its thread has seen up to the newest           *)
(* (coherence), so it may be stale; it makes what that store published      *)
(* happen before the steps that follow it.  An access to a slot leaves the  *)
(* number of its push or pop behind, which tells whether two conflicting    *)
(* accesses are ordered.                                                    *)
(*                                                                         *)
(* Lines 45 and 58 lack an address-of; they are read as &slot.value.       *)
(***************************************************************************)
EXTENDS Naturals, Sequences

CONSTANTS
  Values,     \* the elements
  Capacity,   \* the constructor's argument
  NoValue,    \* "no object lives here"
  MaxPushes   \* bound: the producer makes at most this many successful pushes

\* m_ring_buffer.size(); that capacity + 1 does not wrap is assumed.
Size == Capacity + 1
Slots == 0 .. Size - 1

ASSUME RingAssumption ==
  /\ Capacity \in Nat
  /\ MaxPushes \in Nat
  /\ NoValue \notin Values

VARIABLES
  m_ring_buffer,   \* the object in each slot, or NoValue for raw storage
  m_write_index,   \* the producer's stores, the initial value first
  m_read_index,    \* the consumer's stores, the initial value first
  saw,             \* the newest store of the other's index each thread loaded
  synced,          \* the pushes (pops) that happen before the other's next step
  lastPush,        \* the push that accessed each slot last, 0 if none
  lastPop,         \* the pop that accessed each slot last, 0 if none
  may_throw,       \* whether T's move constructor may throw
  p_pc, p_value,   \* the producer: position, parameter `value'
  c_pc, c_result   \* the consumer: position, local `result'

producerVars == <<p_pc, p_value>>
consumerVars == <<c_pc, c_result>>
indexVars    == <<m_write_index, m_read_index>>
orderVars    == <<saw, synced>>
slotVars     == <<m_ring_buffer, lastPush, lastPop>>
vars == <<producerVars, consumerVars, indexVars, orderVars, slotVars, may_throw>>

\* The stores made so far, which are the completed pushes (pops), and the values
\* the threads that own the indices read back.
pushed == Len(m_write_index) - 1
popped == Len(m_read_index) - 1
write  == m_write_index[Len(m_write_index)]
read   == m_read_index[Len(m_read_index)]

Init ==
  /\ m_ring_buffer = [s \in Slots |-> NoValue]
  /\ m_write_index = <<0>>
  /\ m_read_index = <<0>>
  /\ saw = [producer |-> 0, consumer |-> 0]
  /\ synced = [producer |-> 0, consumer |-> 0]
  /\ lastPush = [s \in Slots |-> 0]
  /\ lastPop = [s \in Slots |-> 0]
  /\ may_throw \in BOOLEAN
  /\ p_pc = "idle" /\ p_value = NoValue
  /\ c_pc = "idle" /\ c_result = NoValue

\* The index after i.
Succ(i) == (i + 1) % Size

--------------------------------------------------------------------------------
(* try_push *)

CallPush(v) ==
  /\ p_pc = "idle"
  /\ pushed < MaxPushes
  /\ p_pc' = "load"
  /\ p_value' = v
  /\ UNCHANGED <<consumerVars, indexVars, orderVars, slotVars>>

PushReturns == p_pc' = "idle" /\ p_value' = NoValue

\* Mutant of LoadRead: m_read_index is not loaded again, the value last seen is
\* compared.
LoadReadCached(k) ==
  /\ p_pc = "load"
  /\ k = saw.producer
  /\ \/ Succ(write) = m_read_index[k + 1] /\ PushReturns
     \/ /\ Succ(write) # m_read_index[k + 1]
        /\ p_pc' = "construct"
        /\ UNCHANGED p_value
  /\ UNCHANGED <<consumerVars, indexVars, orderVars, slotVars>>

\* Loads its own index, then store k of m_read_index; full when next reaches it.
LoadRead(k) ==
  /\ p_pc = "load"
  /\ k \in saw.producer .. popped
  /\ saw' = [saw EXCEPT !.producer = k]
  /\ synced' = [synced EXCEPT !.producer = k]
  /\ \/ Succ(write) = m_read_index[k + 1] /\ PushReturns
     \/ /\ Succ(write) # m_read_index[k + 1]
        /\ p_pc' = "construct"
        /\ UNCHANGED p_value
  /\ UNCHANGED <<consumerVars, indexVars, slotVars>>

\* Mutant of Construct: the element goes to the slot after the one published.
ConstructAtNext ==
  /\ p_pc = "construct"
  /\ lastPush' = [lastPush EXCEPT ![Succ(write)] = pushed + 1]
  /\ m_ring_buffer' = [m_ring_buffer EXCEPT ![Succ(write)] = p_value]
  /\ p_pc' = "publish"
  /\ UNCHANGED <<p_value, consumerVars, indexVars, orderVars, lastPop>>

\* T(std::move(value)) in the slot; when it throws, the call is over and only
\* raw storage was touched.
Construct ==
  /\ p_pc = "construct"
  /\ lastPush' = [lastPush EXCEPT ![write] = pushed + 1]
  /\ \/ /\ m_ring_buffer' = [m_ring_buffer EXCEPT ![write] = p_value]
        /\ p_pc' = "publish"
        /\ UNCHANGED p_value
     \/ may_throw /\ PushReturns /\ UNCHANGED m_ring_buffer
  /\ UNCHANGED <<consumerVars, indexVars, orderVars, lastPop>>

StoreWrite ==
  /\ p_pc = "publish"
  /\ m_write_index' = Append(m_write_index, Succ(write))
  /\ p_pc' = "return"
  /\ UNCHANGED <<p_value, consumerVars, m_read_index, orderVars, slotVars>>

ReturnTrue ==
  /\ p_pc = "return"
  /\ PushReturns
  /\ UNCHANGED <<consumerVars, indexVars, orderVars, slotVars>>

--------------------------------------------------------------------------------
(* try_pop *)

CallPop ==
  /\ c_pc = "idle"
  /\ c_pc' = "load"
  /\ UNCHANGED <<c_result, producerVars, indexVars, orderVars, slotVars>>

PopReturns == c_pc' = "idle" /\ c_result' = NoValue

\* Mutant of LoadWrite: a relaxed load, which orders nothing.
LoadWriteRelaxed(k) ==
  /\ c_pc = "load"
  /\ k \in saw.consumer .. pushed
  /\ saw' = [saw EXCEPT !.consumer = k]
  /\ \/ read = m_write_index[k + 1] /\ PopReturns
     \/ read # m_write_index[k + 1] /\ c_pc' = "move" /\ UNCHANGED c_result
  /\ UNCHANGED <<synced, producerVars, indexVars, slotVars>>

\* Loads its own index, then store k of m_write_index; empty when they are equal.
LoadWrite(k) ==
  /\ c_pc = "load"
  /\ k \in saw.consumer .. pushed
  /\ saw' = [saw EXCEPT !.consumer = k]
  /\ synced' = [synced EXCEPT !.consumer = k]
  /\ \/ read = m_write_index[k + 1] /\ PopReturns
     \/ read # m_write_index[k + 1] /\ c_pc' = "move" /\ UNCHANGED c_result
  /\ UNCHANGED <<producerVars, indexVars, slotVars>>

\* Mutant of MoveOut: goes straight to the store, the destructor is forgotten.
MoveOutKeepsElement ==
  /\ c_pc = "move"
  /\ lastPop' = [lastPop EXCEPT ![read] = popped + 1]
  /\ \/ c_result' = m_ring_buffer[read] /\ c_pc' = "publish"
     \/ may_throw /\ PopReturns
  /\ UNCHANGED <<m_ring_buffer, lastPush, producerVars, indexVars, orderVars>>

\* result(std::move(*ptr)); when it throws, the element stays in the queue.
MoveOut ==
  /\ c_pc = "move"
  /\ lastPop' = [lastPop EXCEPT ![read] = popped + 1]
  /\ \/ c_result' = m_ring_buffer[read] /\ c_pc' = "destroy"
     \/ may_throw /\ PopReturns
  /\ UNCHANGED <<m_ring_buffer, lastPush, producerVars, indexVars, orderVars>>

\* ptr->~T()
Destroy ==
  /\ c_pc = "destroy"
  /\ m_ring_buffer' = [m_ring_buffer EXCEPT ![read] = NoValue]
  /\ lastPop' = [lastPop EXCEPT ![read] = popped + 1]
  /\ c_pc' = "publish"
  /\ UNCHANGED <<c_result, lastPush, producerVars, indexVars, orderVars>>

\* The store, and the return of result.
StoreRead ==
  /\ c_pc = "publish"
  /\ m_read_index' = Append(m_read_index, Succ(read))
  /\ PopReturns
  /\ UNCHANGED <<producerVars, m_write_index, orderVars, slotVars>>

--------------------------------------------------------------------------------
ProducerStep ==
  \/ \E v \in Values : CallPush(v)
  \/ \E k \in 0 .. popped : LoadRead(k)
  \/ Construct
  \/ StoreWrite
  \/ ReturnTrue

ConsumerStep ==
  \/ CallPop
  \/ \E k \in 0 .. pushed : LoadWrite(k)
  \/ MoveOut
  \/ Destroy
  \/ StoreRead

Next == (ProducerStep \/ ConsumerStep) /\ UNCHANGED may_throw

Spec == Init /\ [][Next]_vars

\* Both threads run, retry while refused, and a store becomes visible in finite
\* time: a load that is repeated for ever does not return old stores for ever.
SpinSpec ==
  /\ Spec
  /\ WF_vars(ProducerStep /\ UNCHANGED may_throw)
  /\ WF_vars(ConsumerStep /\ UNCHANGED may_throw)
  /\ SF_vars(LoadRead(popped) /\ UNCHANGED may_throw)
  /\ SF_vars(LoadWrite(pushed) /\ UNCHANGED may_throw)

--------------------------------------------------------------------------------
(* Properties *)

\* The variables keep their types: indices stay inside the ring, the consumer
\* never gets ahead of the producer, nor the producer a whole ring ahead.
TypeOK ==
  /\ m_ring_buffer \in [Slots -> Values \cup {NoValue}]
  /\ m_write_index \in Seq(Slots) /\ m_read_index \in Seq(Slots)
  /\ pushed \in 0 .. MaxPushes
  /\ popped \in 0 .. pushed /\ pushed - popped <= Capacity
  /\ saw \in [producer : 0 .. popped, consumer : 0 .. pushed]
  /\ synced \in [producer : 0 .. popped, consumer : 0 .. pushed]
  /\ lastPush \in [Slots -> 0 .. pushed + 1]
  /\ lastPop \in [Slots -> 0 .. popped + 1]
  /\ may_throw \in BOOLEAN
  /\ p_pc \in {"idle", "load", "construct", "publish", "return"}
  /\ p_value \in Values \cup {NoValue}
  /\ c_pc \in {"idle", "load", "move", "destroy", "publish"}
  /\ c_result \in Values \cup {NoValue}

\* No data race: when a thread accesses a slot, every access the other thread
\* made to it happens before, by an acquire load of the index stored after it.
NoDataRace ==
  /\ p_pc = "construct" => lastPop[write] <= synced.producer
  /\ c_pc \in {"move", "destroy"} => lastPush[read] <= synced.consumer

\* Lifetimes: an element is constructed in raw storage only, and only a living
\* element is moved from or destroyed.
LifetimesRespected ==
  /\ p_pc = "construct" => m_ring_buffer[write] = NoValue
  /\ c_pc \in {"move", "destroy"} => m_ring_buffer[read] \in Values

\* try_push takes effect when m_write_index is stored; try_pop when the element
\* has been moved out (from then on it cannot fail).
PopTookEffect == c_pc \in {"destroy", "publish"}

\* The elements in the queue, oldest first, read off the ring.
Items ==
  LET gone == IF PopTookEffect THEN 1 ELSE 0
  IN  [i \in 1 .. pushed - popped - gone |->
         m_ring_buffer[(read + gone + i - 1) % Size]]

Seen ==
  [t \in {"producer", "consumer"} |->
     CASE t = "producer" /\ p_pc = "idle"   -> [phase |-> "idle"]
       [] t = "producer" /\ p_pc = "return" -> [phase |-> "pushed"]
       [] t = "producer" /\ p_pc \notin {"idle", "return"} ->
            [phase |-> "push", val |-> p_value]
       [] t = "consumer" /\ c_pc = "idle"   -> [phase |-> "idle"]
       [] t = "consumer" /\ PopTookEffect   -> [phase |-> "popped", val |-> c_result]
       [] t = "consumer" /\ c_pc \notin {"idle", "destroy", "publish"} ->
            [phase |-> "pop"]]

Fifo ==
  INSTANCE BoundedFifo WITH
    Threads <- {"producer", "consumer"}, items <- Items, op <- Seen

\* The ring with its wrapping indices and stale loads is a FIFO of at most
\* Capacity elements: none is lost, duplicated, reordered or overwritten.
ImplementsFifo == Fifo!Spec

\* When both sides retry what is refused, every element gets through: no stale
\* index makes the ring look full, or empty, for ever.  (An element that throws
\* every time it is moved never gets through.)
EveryElementDelivered == ~may_throw ~> popped = MaxPushes

================================================================================
