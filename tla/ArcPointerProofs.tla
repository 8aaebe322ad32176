---------------------------- MODULE ArcPointerProofs ----------------------------
(***************************************************************************)
(* Proofs about ArcPointer, for any number of threads, handles and blocks:  *)
(* the count is exact, nothing is used after it was freed, nothing leaks,   *)
(* and disciplined callers meet no null dereference.  The count is taken    *)
(* apart into the handles that hold a reference, those whose reference was  *)
(* just dropped left out, and the references that copy assignments have     *)
(* counted in advance; a block is live as long as there are any, or the one *)
(* thread that dropped the last is about to delete it.                     *)
(***************************************************************************)
EXTENDS ArcPointer, Integers, FiniteSetTheorems, FunctionTheorems, TLAPS

\* The reference the handle h holds was dropped, though h still names the block.
Gone(h) == \E t \in Threads : task[t].to = h /\ task[t].step \in {"destroy", "delete", "finish"}

Holding(b) == {h \in Handles : handle[h].m_control_block = b /\ ~Gone(h)}

\* The thread t saw the count of b reach zero.
Destroys(t, b) == task[t].drops = b /\ task[t].step \in {"destroy", "delete"}

Typed ==
  /\ block \in [Blocks -> {"unused", "live", "deleted"}]
  /\ object \in [Blocks -> {"none", "alive", "destroyed"}]
  /\ count \in [Blocks -> Int]
  /\ handle \in [Handles -> [user : Threads \cup {Null},
                             m_control_block : Blocks \cup {Null},
                             m_ptr : Blocks \cup {Null}]]
  /\ task \in [Threads -> [step : {"idle", "release", "destroy", "delete", "finish"},
                           op : {"none", "copy", "move", "destruct"},
                           to : Handles \cup {Null}, from : Handles \cup {Null},
                           drops : Blocks \cup {Null}]]
  /\ {crashed, disciplined} \subseteq BOOLEAN

\* A thread in the middle of an operation uses both handles, the one it works on
\* still names the block, and a copy assignment is from a handle of another block.
Busy(t) ==
  /\ task[t].step # "idle" /\ task[t].op # "none"
  /\ task[t].to \in Handles /\ task[t].from \in Handles /\ task[t].drops \in Blocks
  /\ handle[task[t].to].user = t /\ handle[task[t].from].user = t
  /\ handle[task[t].to].m_control_block = task[t].drops
  /\ task[t].op = "copy" =>
       handle[task[t].from].m_control_block \in Blocks \ {task[t].drops}

Tasks == \A t \in Threads : task[t] # Idle => Busy(t)

Counted == \A b \in Blocks : count[b] = Cardinality(Holding(b)) + Cardinality(Pending(b))

\* What the count of a block says of the block, its object and its handles.
Living(b) ==
  /\ block[b] = "unused" => Sharing(b) = {} /\ object[b] = "none"
  /\ count[b] > 0 => block[b] = "live" /\ object[b] # "destroyed"
  /\ block[b] # "live" => object[b] # "alive"
  /\ block[b] = "live" => count[b] > 0 \/ \E t \in Threads : Destroys(t, b)
  /\ \A t \in Threads : Destroys(t, b) =>
       /\ count[b] = 0 /\ block[b] = "live"
       /\ task[t].step = "destroy" <=> object[b] = "alive"
  /\ \A t, u \in Threads : Destroys(t, b) /\ Destroys(u, b) => t = u
  /\ \A h \in Holding(b) : handle[h].m_ptr = IF object[b] = "alive" THEN b ELSE Null

Disciplined == disciplined => ~crashed

IInv == Typed /\ Tasks /\ Counted /\ (\A b \in Blocks : Living(b)) /\ Disciplined

LEMMA FiniteRefs ==
  \A b : IsFiniteSet(Holding(b)) /\ IsFiniteSet(Pending(b)) /\ IsFiniteSet(Sharing(b))
         /\ IsFiniteSet(Dropped(b))
<1>1. \A b : Holding(b) \in SUBSET Handles /\ Sharing(b) \in SUBSET Handles
             /\ Pending(b) \in SUBSET Threads /\ Dropped(b) \in SUBSET Threads
  BY DEF Holding, Sharing, Pending, Dropped
<1> QED
  BY <1>1, FS_Subset, ArcAssumption

LEMMA CountedPositive ==
  ASSUME Counted, NEW b \in Blocks
  PROVE  /\ count[b] \in Nat
         /\ Holding(b) # {} \/ Pending(b) # {} => count[b] > 0
<1>1. /\ IsFiniteSet(Holding(b)) /\ Cardinality(Holding(b)) \in Nat
      /\ IsFiniteSet(Pending(b)) /\ Cardinality(Pending(b)) \in Nat
  BY FiniteRefs, FS_CardinalityType
<1>2. /\ Holding(b) # {} => Cardinality(Holding(b)) # 0
      /\ Pending(b) # {} => Cardinality(Pending(b)) # 0
  BY <1>1, FS_EmptySet
<1>3. count[b] = Cardinality(Holding(b)) + Cardinality(Pending(b))
  BY DEF Counted
<1> QED
  BY <1>1, <1>2, <1>3

LEMMA InitIInv == Init => IInv
<1> SUFFICES ASSUME Init PROVE IInv
  OBVIOUS
<1> USE ArcAssumption DEF Init, Idle, NoHandle
<1>1. Typed
  <2>1. block \in [Blocks -> {"unused", "live", "deleted"}]
        /\ object \in [Blocks -> {"none", "alive", "destroyed"}] /\ count \in [Blocks -> Int]
    OBVIOUS
  <2>2. handle \in [Handles -> [user : Threads \cup {Null}, m_control_block : Blocks \cup {Null},
                               m_ptr : Blocks \cup {Null}]]
    OBVIOUS
  <2>3. Idle \in [step : {"idle", "release", "destroy", "delete", "finish"},
                 op : {"none", "copy", "move", "destruct"},
                 to : Handles \cup {Null}, from : Handles \cup {Null},
                 drops : Blocks \cup {Null}]
    OBVIOUS
  <2>4. task = [t \in Threads |-> Idle]
    OBVIOUS
  <2>5. {crashed, disciplined} \subseteq BOOLEAN
    OBVIOUS
  <2> HIDE DEF Idle, Init
  <2> QED
    BY <2>1, <2>2, <2>3, <2>4, <2>5 DEF Typed
<1>2. Tasks
  BY DEF Tasks
<1>3. \A b \in Blocks : Holding(b) = {} /\ Pending(b) = {} /\ Sharing(b) = {}
  BY DEF Holding, Pending, Sharing
<1>4. Counted
  <2>1. Cardinality({}) = 0
    BY FS_EmptySet
  <2>2. \A b \in Blocks : count[b] = 0
    OBVIOUS
  <2>3. \A b \in Blocks : Cardinality(Holding(b)) = 0 /\ Cardinality(Pending(b)) = 0
    BY <1>3, <2>1
  <2> HIDE DEF Init
  <2> QED
    BY <2>2, <2>3 DEF Counted
<1>5. \A b \in Blocks : Living(b)
  BY <1>3 DEF Living, Destroys
<1>6. Disciplined
  BY DEF Disciplined
<1> QED
  BY <1>1, <1>2, <1>4, <1>5, <1>6 DEF IInv

--------------------------------------------------------------------------------
(* Types, and what busy threads work on *)

\* A busy thread works on no handle of another thread.
LEMMA BusyHandles ==
  ASSUME Typed, Tasks, NEW u \in Threads, task[u] # Idle
  PROVE  /\ Busy(u)
         /\ \A t \in Threads, h \in Handles :
              handle[h].user = t /\ t # u => task[u].to # h /\ task[u].from # h
         /\ \A t \in Threads, h \in Handles :
              Uses(t, h) \/ Fresh(t, h) => t # u /\ task[u].to # h /\ task[u].from # h
<1>1. Busy(u)
  BY DEF Tasks
<1>2. Null \notin Threads
  BY ArcAssumption
<1> QED
  BY <1>1, <1>2 DEF Busy, Uses, Fresh, NoHandle

LEMMA StepIsBusy ==
  ASSUME Typed, Tasks, NEW t \in Threads, task[t].step # "idle"
  PROVE  Busy(t) /\ task[t] # Idle
BY DEF Tasks, Idle

\* What constructing, moving and giving away handles does to the types.
LEMMA HandlesTyped ==
  ASSUME Typed, Tasks, NEW t \in Threads, NEW h \in Handles, task[t] = Idle,
         UNCHANGED task, Typed',
         \A g \in Handles : handle[g].user \notin {t, Null} => handle'[g] = handle[g]
  PROVE  Tasks'
<1> SUFFICES ASSUME NEW u \in Threads, task'[u] # Idle PROVE Busy(u)'
  BY DEF Tasks
<1>1. Busy(u) /\ u # t
  BY DEF Tasks
<1>2. handle'[task[u].to] = handle[task[u].to] /\ handle'[task[u].from] = handle[task[u].from]
  BY <1>1, ArcAssumption DEF Busy
<1> QED
  BY <1>1, <1>2 DEF Busy

LEMMA ConstructTyped ==
  ASSUME IInv, NEW t \in Threads, NEW h \in Handles, NEW b \in Blocks,
         NEW content \in {"alive", "none"}, Construct(t, h, b, content), UNCHANGED disciplined
  PROVE  Typed' /\ Tasks'
<1>1. Typed'
  BY DEF IInv, Typed, Construct
<1>2. task[t] = Idle /\ UNCHANGED task /\ handle[h].user = Null
  BY DEF Construct, Fresh, NoHandle
<1>3. \A g \in Handles : handle[g].user # Null => handle'[g] = handle[g]
  BY <1>2 DEF Construct, IInv, Typed
<1> QED
  BY <1>1, <1>2, <1>3, HandlesTyped DEF IInv

LEMMA MoveConstructTyped ==
  ASSUME IInv, NEW t \in Threads, NEW h \in Handles, NEW o \in Handles,
         MoveConstruct(t, h, o), UNCHANGED disciplined
  PROVE  Typed' /\ Tasks'
<1>1. handle[o] \in [user : Threads \cup {Null}, m_control_block : Blocks \cup {Null},
                    m_ptr : Blocks \cup {Null}]
      /\ [NoHandle EXCEPT !.user = t] \in [user : Threads \cup {Null},
                    m_control_block : Blocks \cup {Null}, m_ptr : Blocks \cup {Null}]
  BY DEF IInv, Typed, NoHandle
<1>2. handle' = [handle EXCEPT ![h] = handle[o], ![o] = [NoHandle EXCEPT !.user = t]]
      /\ UNCHANGED <<block, object, count, task, crashed, disciplined>>
  BY DEF MoveConstruct
<1>3. Typed'
  BY <1>1, <1>2 DEF IInv, Typed
<1>4. task[t] = Idle /\ handle[h].user = Null /\ handle[o].user = t
  BY DEF MoveConstruct, Fresh, Uses, NoHandle
<1>5. \A g \in Handles : handle[g].user \notin {t, Null} => handle'[g] = handle[g]
  BY <1>2, <1>4 DEF IInv, Typed
<1> QED
  BY <1>2, <1>3, <1>4, <1>5, HandlesTyped DEF IInv

LEMMA HandOverTyped ==
  ASSUME IInv, NEW t \in Threads, NEW u \in Threads, NEW h \in Handles,
         HandOver(t, u, h), UNCHANGED disciplined
  PROVE  Typed' /\ Tasks'
<1>1. Typed'
  BY DEF IInv, Typed, HandOver
<1>2. task[t] = Idle /\ UNCHANGED task /\ handle[h].user = t
  BY DEF HandOver, Uses
<1>3. \A g \in Handles : handle[g].user # t => handle'[g] = handle[g]
  BY <1>2 DEF HandOver, IInv, Typed
<1> QED
  BY <1>1, <1>2, <1>3, HandlesTyped DEF IInv

\* An operation begins: the handles stay as they are.
LEMMA BeginTyped ==
  ASSUME IInv, NEW t \in Threads, NEW h \in Handles, NEW o \in Handles,
         NEW op \in {"copy", "move", "destruct"},
         Uses(t, h), Uses(t, o), handle[h].m_control_block # Null, Begin(t, op, h, o),
         op = "copy" => handle[o].m_control_block \notin {Null, handle[h].m_control_block},
         UNCHANGED <<block, object, handle, crashed, disciplined>>, count' \in [Blocks -> Int]
  PROVE  Typed' /\ Tasks'
<1> DEFINE new == [step |-> "release", op |-> op, to |-> h, from |-> o,
                   drops |-> handle[h].m_control_block]
<1>1. handle[h].m_control_block \in Blocks
  BY DEF IInv, Typed
<1>2. task' = [task EXCEPT ![t] = new]
  BY DEF Begin
<1>3. new \in [step : {"idle", "release", "destroy", "delete", "finish"},
              op : {"none", "copy", "move", "destruct"},
              to : Handles \cup {Null}, from : Handles \cup {Null}, drops : Blocks \cup {Null}]
  BY <1>1
<1>4. /\ new.step = "release" /\ new.op = op /\ new.to = h /\ new.from = o
      /\ new.drops = handle[h].m_control_block
  OBVIOUS
<1> HIDE DEF new
<1>5. Typed'
  BY <1>2, <1>3 DEF IInv, Typed
<1>6. task'[t] = new /\ \A u \in Threads : u # t => task'[u] = task[u]
  BY <1>2 DEF IInv, Typed
<1>7. Busy(t)'
  <2>1. handle[o].m_control_block \in Blocks \cup {Null}
    BY DEF IInv, Typed
  <2> QED
    BY <1>1, <1>4, <1>6, <2>1 DEF Busy, Uses
<1>8. ASSUME NEW u \in Threads, u # t, task'[u] # Idle PROVE Busy(u)'
  <2>1. task'[u] = task[u] /\ Busy(u)
    BY <1>6, <1>8 DEF IInv, Tasks
  <2> QED
    BY <2>1 DEF Busy
<1> QED
  BY <1>5, <1>7, <1>8 DEF Tasks

\* A busy thread goes to its next step.
LEMMA AdvanceTyped ==
  ASSUME IInv, NEW t \in Threads, NEW s \in {"destroy", "delete", "finish"},
         task[t].step # "idle", task' = [task EXCEPT ![t].step = s],
         UNCHANGED <<handle, crashed, disciplined>>,
         block' \in [Blocks -> {"unused", "live", "deleted"}],
         object' \in [Blocks -> {"none", "alive", "destroyed"}], count' \in [Blocks -> Int]
  PROVE  /\ Typed' /\ Tasks'
         /\ \A u \in Threads : u # t => task'[u] = task[u]
         /\ task'[t].step = s /\ task'[t].to = task[t].to /\ task'[t].from = task[t].from
         /\ task'[t].drops = task[t].drops /\ task'[t].op = task[t].op
<1>1. Typed'
  <2> DEFINE Task == [step : {"idle", "release", "destroy", "delete", "finish"},
                      op : {"none", "copy", "move", "destruct"},
                      to : Handles \cup {Null}, from : Handles \cup {Null},
                      drops : Blocks \cup {Null}]
  <2>1. task \in [Threads -> Task]
    BY DEF IInv, Typed
  <2>2. [task[t] EXCEPT !.step = s] \in Task
    BY <2>1
  <2>3. task' = [task EXCEPT ![t] = [task[t] EXCEPT !.step = s]]
    BY <2>1
  <2> HIDE DEF Task
  <2>4. task' \in [Threads -> Task]
    BY <2>1, <2>2, <2>3
  <2> QED
    BY <2>4 DEF IInv, Typed, Task
<1>2. /\ \A u \in Threads : u # t => task'[u] = task[u]
      /\ task'[t].step = s /\ task'[t].to = task[t].to /\ task'[t].from = task[t].from
      /\ task'[t].drops = task[t].drops /\ task'[t].op = task[t].op
  BY DEF IInv, Typed
<1>3. Busy(t)
  BY StepIsBusy DEF IInv
<1>4. Busy(t)'
  BY <1>2, <1>3 DEF Busy
<1>5. ASSUME NEW u \in Threads, u # t, task'[u] # Idle PROVE Busy(u)'
  <2>1. task'[u] = task[u] /\ Busy(u)
    BY <1>2, <1>5 DEF IInv, Tasks
  <2> QED
    BY <2>1 DEF Busy
<1> QED
  BY <1>1, <1>2, <1>4, <1>5 DEF Tasks

\* The handle a thread works on gets what it is meant to have.
LEMMA FinishTyped ==
  ASSUME IInv, NEW t \in Threads, Finish(t), UNCHANGED disciplined
  PROVE  /\ Typed' /\ Tasks' /\ Busy(t)
         /\ task' = [task EXCEPT ![t] = Idle]
         /\ \A g \in Handles : g \notin {task[t].to, task[t].from} => handle'[g] = handle[g]
<1> DEFINE h == task[t].to  o == task[t].from
           Record == [user : Threads \cup {Null}, m_control_block : Blocks \cup {Null},
                      m_ptr : Blocks \cup {Null}]
<1>1. Busy(t) /\ h \in Handles /\ o \in Handles /\ handle[h].user = t /\ handle[o].user = t
  BY StepIsBusy DEF IInv, Finish, Busy
<1>2. /\ UNCHANGED <<block, object, count, crashed, disciplined>>
      /\ task' = [task EXCEPT ![t] = Idle]
      /\ \/ handle' = [handle EXCEPT ![h] = NoHandle]
         \/ handle' = [handle EXCEPT ![h] = handle[o]]
         \/ handle' = [handle EXCEPT ![h] = handle[o], ![o].m_control_block = Null]
  BY DEF Finish
<1>3. NoHandle \in Record /\ handle[o] \in Record /\ handle \in [Handles -> Record]
      /\ [handle[o] EXCEPT !.m_control_block = Null] \in Record
  BY <1>1 DEF NoHandle, IInv, Typed
<1>4. handle' \in [Handles -> Record]
  <2> HIDE DEF Record, h, o
  <2>1. CASE handle' = [handle EXCEPT ![h] = NoHandle]
    BY <1>3, <2>1
  <2>2. CASE handle' = [handle EXCEPT ![h] = handle[o]]
    BY <1>3, <2>2
  <2>3. CASE handle' = [handle EXCEPT ![h] = handle[o], ![o].m_control_block = Null]
    <3> DEFINE f == [handle EXCEPT ![h] = handle[o]]
    <3>1. f \in [Handles -> Record] /\ f[o] = handle[o]
      BY <1>1, <1>3
    <3>2. handle' = [f EXCEPT ![o] = [handle[o] EXCEPT !.m_control_block = Null]]
      BY <1>1, <1>3, <2>3
    <3> QED
      BY <1>3, <3>1, <3>2
  <2> QED
    BY <1>2, <2>1, <2>2, <2>3
<1>5. Idle \in [step : {"idle", "release", "destroy", "delete", "finish"},
              op : {"none", "copy", "move", "destruct"},
              to : Handles \cup {Null}, from : Handles \cup {Null}, drops : Blocks \cup {Null}]
  BY DEF Idle
<1>6. Typed'
  BY <1>2, <1>4, <1>5 DEF IInv, Typed
<1>7. \A g \in Handles : g \notin {h, o} => handle'[g] = handle[g]
  BY <1>1, <1>2, <1>3
<1>8. ASSUME NEW u \in Threads, task'[u] # Idle PROVE Busy(u)'
  <2>1. u # t /\ task'[u] = task[u] /\ Busy(u)
    BY <1>2, <1>8 DEF IInv, Typed, Tasks
  <2>2. task[u].to \notin {h, o} /\ task[u].from \notin {h, o}
    BY <1>1, <2>1 DEF Busy
  <2>3. /\ handle'[task[u].to] = handle[task[u].to]
        /\ handle'[task[u].from] = handle[task[u].from]
    BY <1>7, <2>1, <2>2 DEF Busy
  <2> QED
    BY <2>1, <2>3 DEF Busy
<1> QED
  BY <1>1, <1>2, <1>6, <1>7, <1>8 DEF Tasks

--------------------------------------------------------------------------------
(* What an operation does to the references of each block *)

\* The references of c stay the same.
Kept(c) ==
  /\ Holding(c)' = Holding(c) /\ Pending(c)' = Pending(c)
  /\ count'[c] = count[c]

\* A handle that an idle thread uses holds its reference.
LEMMA UsedHolds ==
  ASSUME IInv, NEW t \in Threads, NEW h \in Handles, Uses(t, h) \/ Fresh(t, h)
  PROVE  ~Gone(h)
<1> SUFFICES ASSUME NEW u \in Threads, task[u].to = h, task[u].step # "idle" PROVE FALSE
  BY DEF Gone
<1> QED
  BY StepIsBusy, BusyHandles DEF IInv

\* Nobody copies from a handle that an idle thread uses.
LEMMA UsedNotCopied ==
  ASSUME IInv, NEW t \in Threads, NEW h \in Handles, Uses(t, h) \/ Fresh(t, h),
         NEW u \in Threads, task[u].op = "copy"
  PROVE  task[u].from # h /\ task[u].from \in Handles /\ u # t
<1>1. task[u] # Idle
  BY DEF Idle
<1> QED
  BY <1>1, BusyHandles DEF IInv, Busy

LEMMA CountsNat ==
  ASSUME IInv, Counted', NEW b \in Blocks
  PROVE  count[b] \in Nat /\ count'[b] \in Nat
<1>1. count[b] \in Nat
  BY CountedPositive DEF IInv
<1>2. count'[b] \in Nat
  <2>1. /\ IsFiniteSet(Holding(b)') /\ IsFiniteSet(Pending(b)')
    <3>1. Holding(b)' \in SUBSET Handles /\ Pending(b)' \in SUBSET Threads
      BY DEF Holding, Pending
    <3> QED
      BY <3>1, FS_Subset, ArcAssumption
  <2>2. count'[b] = Cardinality(Holding(b)') + Cardinality(Pending(b)')
    BY DEF Counted
  <2> QED
    BY <2>1, <2>2, FS_CardinalityType
<1> QED
  BY <1>1, <1>2

\* A block is as it was when nothing about it changed but, perhaps, how many
\* references there are.
LEMMA LivingKept ==
  ASSUME NEW b \in Blocks, Living(b), block'[b] = block[b], object'[b] = object[b],
         count[b] \in Nat, count'[b] \in Nat, count'[b] > 0 <=> count[b] > 0,
         block[b] = "unused" => Sharing(b)' = {},
         \A u \in Threads : Destroys(u, b)' <=> Destroys(u, b),
         \A u \in Threads : Destroys(u, b) => task'[u].step = task[u].step,
         \A h \in Holding(b)' : handle'[h].m_ptr = IF object[b] = "alive" THEN b ELSE Null
  PROVE  Living(b)'
BY DEF Living

\* An operation that leaves the tasks and the references of a block alone.
LEMMA UntouchedBlock ==
  ASSUME IInv, Counted', NEW b \in Blocks, Kept(b), UNCHANGED task,
         block'[b] = block[b], object'[b] = object[b],
         \A g \in Handles : handle'[g].m_control_block = b => handle[g].m_control_block = b,
         \A g \in Holding(b) : handle'[g].m_ptr = handle[g].m_ptr
  PROVE  Living(b)'
<1>1. Living(b) /\ count[b] \in Nat /\ count'[b] \in Nat
  BY CountsNat DEF IInv
<1>2. block[b] = "unused" => Sharing(b)' = {}
  BY <1>1 DEF Living, Sharing
<1>3. \A u \in Threads : Destroys(u, b)' <=> Destroys(u, b)
  BY DEF Destroys
<1>4. \A h \in Holding(b)' : handle'[h].m_ptr = IF object[b] = "alive" THEN b ELSE Null
  BY <1>1 DEF Kept, Living
<1> QED
  BY <1>1, <1>2, <1>3, <1>4, LivingKept DEF Kept

LEMMA ConstructCounts ==
  ASSUME IInv, NEW t \in Threads, NEW h \in Handles, NEW b \in Blocks,
         NEW content \in {"alive", "none"}, Construct(t, h, b, content), UNCHANGED disciplined
  PROVE  Counted' /\ \A c \in Blocks : Living(c)'
<1> USE ArcAssumption
<1>types. Typed /\ Counted /\ \A c \in Blocks : Living(c)
  BY DEF IInv
<1>1. /\ Fresh(t, h) /\ block[b] = "unused" /\ UNCHANGED task
      /\ block' = [block EXCEPT ![b] = "live"] /\ object' = [object EXCEPT ![b] = content]
      /\ count' = [count EXCEPT ![b] = 1]
  BY DEF Construct
<1>2. /\ handle'[h].m_control_block = b
      /\ handle'[h].m_ptr = IF content = "alive" THEN b ELSE Null
      /\ \A g \in Handles : g # h => handle'[g] = handle[g]
  BY <1>types DEF Construct, Typed
<1>3. handle[h].m_control_block = Null /\ ~Gone(h) /\ \A g : Gone(g)' <=> Gone(g)
  BY <1>1, UsedHolds DEF Fresh, NoHandle, Gone
<1>copies. \A u \in Threads : task[u].op = "copy" => task[u].from \in Handles /\ task[u].from # h
  BY <1>1, UsedNotCopied
<1>4. Sharing(b) = {} /\ Holding(b) = {} /\ Pending(b) = {}
  <2>1. Sharing(b) = {}
    BY <1>1, <1>types DEF Living
  <2> QED
    BY <2>1, <1>copies DEF Sharing, Holding, Pending
<1>5. \A c \in Blocks : Pending(c)' = Pending(c)
  BY <1>1, <1>2, <1>copies DEF Pending
<1>6. ASSUME NEW c \in Blocks, c # b PROVE Kept(c)
  <2>1. Holding(c)' = Holding(c)
    BY <1>2, <1>3, <1>6 DEF Holding
  <2> QED
    BY <1>1, <1>5, <1>6, <1>types, <2>1 DEF Kept, Typed
<1>7. Holding(b)' = {h} /\ count'[b] = 1 /\ block'[b] = "live" /\ object'[b] = content
  <2>1. Holding(b)' = {h}
    BY <1>2, <1>3, <1>4 DEF Holding, Sharing
  <2> QED
    BY <1>1, <1>types, <2>1 DEF Typed
<1>8. Counted'
  <2>1. count'[b] = Cardinality(Holding(b)') + Cardinality(Pending(b)')
    <3>1. Cardinality({h}) = 1 /\ Cardinality({}) = 0
      BY FS_Singleton, FS_EmptySet
    <3> QED
      BY <1>4, <1>5, <1>7, <3>1
  <2> QED
    BY <1>6, <1>types, <2>1 DEF Kept, Counted
<1>9. ASSUME NEW c \in Blocks, c # b PROVE Living(c)'
  <2>1. block'[c] = block[c] /\ object'[c] = object[c]
    BY <1>1, <1>9, <1>types DEF Typed
  <2>2. \A g \in Handles : handle'[g].m_control_block = c => handle[g].m_control_block = c
    BY <1>2, <1>9
  <2>3. \A g \in Holding(c) : handle'[g].m_ptr = handle[g].m_ptr
    BY <1>2, <1>3 DEF Holding
  <2> QED
    BY <1>1, <1>6, <1>8, <1>9, <2>1, <2>2, <2>3, UntouchedBlock
<1>10. Living(b)'
  <2>1. \A u \in Threads : ~Destroys(u, b)'
    BY <1>1, <1>types DEF Destroys, Living
  <2>2. \A g \in Holding(b)' :
          handle'[g].m_ptr = IF object'[b] = "alive" THEN b ELSE Null
    BY <1>2, <1>7
  <2> QED
    BY <1>7, <2>1, <2>2 DEF Living
<1> QED
  BY <1>8, <1>9, <1>10

\* The holders of a block are alive and what they point to is.
LEMMA HolderLives ==
  ASSUME IInv, NEW b \in Blocks, NEW h \in Holding(b)
  PROVE  /\ count[b] > 0 /\ block[b] = "live" /\ object[b] # "destroyed"
         /\ handle[h].m_ptr = IF object[b] = "alive" THEN b ELSE Null
         /\ \A u \in Threads : ~Destroys(u, b)
<1>1. Counted /\ Living(b)
  BY DEF IInv
<1>2. count[b] > 0 /\ count[b] \in Nat
  BY <1>1, CountedPositive
<1> QED
  BY <1>1, <1>2 DEF Living

LEMMA CopyConstructCounts ==
  ASSUME IInv, NEW t \in Threads, NEW h \in Handles, NEW o \in Handles,
         NEW b \in Blocks, b = handle[o].m_control_block,
         Fresh(t, h), Uses(t, o), count' = [count EXCEPT ![b] = @ + 1],
         handle' = [handle EXCEPT ![h] = handle[o]],
         UNCHANGED <<block, object, task, crashed, disciplined>>
  PROVE  Typed' /\ Tasks' /\ Counted' /\ \A c \in Blocks : Living(c)'
<1> USE ArcAssumption
<1>types. Typed /\ Tasks /\ Counted /\ \A c \in Blocks : Living(c)
  BY DEF IInv
<1>1. Typed' /\ Tasks'
  <2>1. handle' \in [Handles -> [user : Threads \cup {Null}, m_control_block : Blocks \cup {Null},
                                m_ptr : Blocks \cup {Null}]]
        /\ count' \in [Blocks -> Int]
    BY <1>types DEF Typed
  <2>2. Typed'
    BY <1>types, <2>1 DEF Typed
  <2>3. task[t] = Idle /\ handle[h].user = Null
    BY DEF Fresh, NoHandle
  <2>4. \A g \in Handles : handle[g].user \notin {t, Null} => handle'[g] = handle[g]
    BY <1>types, <2>3 DEF Typed
  <2> QED
    BY <1>types, <2>2, <2>3, <2>4, HandlesTyped
<1>2. handle'[h] = handle[o] /\ \A g \in Handles : g # h => handle'[g] = handle[g]
  BY <1>types DEF Typed
<1>3. handle[h].m_control_block = Null /\ ~Gone(h) /\ ~Gone(o) /\ \A g : Gone(g)' <=> Gone(g)
  BY UsedHolds DEF Fresh, NoHandle, Gone
<1>copies. \A u \in Threads : task[u].op = "copy" => task[u].from \in Handles /\ task[u].from # h
  BY UsedNotCopied
<1>4. \A c \in Blocks : Pending(c)' = Pending(c)
  BY <1>2, <1>copies DEF Pending
<1>5. ASSUME NEW c \in Blocks, c # b PROVE Kept(c)
  <2>1. Holding(c)' = Holding(c)
    BY <1>2, <1>3, <1>5 DEF Holding
  <2> QED
    BY <1>4, <1>5, <1>types, <2>1 DEF Kept, Typed
<1>6. /\ Holding(b)' = Holding(b) \cup {h} /\ h \notin Holding(b)
      /\ o \in Holding(b) /\ count'[b] = count[b] + 1
  <2>1. Holding(b)' = Holding(b) \cup {h} /\ h \notin Holding(b) /\ o \in Holding(b)
    BY <1>2, <1>3 DEF Holding
  <2> QED
    BY <1>types, <2>1 DEF Typed
<1>7. Counted'
  <2>1. count'[b] = Cardinality(Holding(b)') + Cardinality(Pending(b)')
    <3>1. Cardinality(Holding(b)') = Cardinality(Holding(b)) + 1
      BY <1>6, FiniteRefs, FS_AddElement
    <3>2. Cardinality(Holding(b)) \in Nat /\ Cardinality(Pending(b)) \in Nat
      BY FiniteRefs, FS_CardinalityType
    <3>3. count[b] = Cardinality(Holding(b)) + Cardinality(Pending(b))
      BY <1>types DEF Counted
    <3> QED
      BY <1>4, <1>6, <3>1, <3>2, <3>3
  <2> QED
    BY <1>5, <1>types, <2>1 DEF Kept, Counted
<1>8. ASSUME NEW c \in Blocks, c # b PROVE Living(c)'
  <2>1. \A g \in Handles : handle'[g].m_control_block = c => handle[g].m_control_block = c
    BY <1>2, <1>8
  <2>2. \A g \in Holding(c) : handle'[g].m_ptr = handle[g].m_ptr
    BY <1>2, <1>3 DEF Holding
  <2> QED
    BY <1>5, <1>7, <1>8, <2>1, <2>2, UntouchedBlock
<1>9. Living(b)'
  <2>1. /\ block[b] = "live" /\ count[b] > 0
        /\ handle[o].m_ptr = IF object[b] = "alive" THEN b ELSE Null
    BY <1>6, HolderLives
  <2>2. count[b] \in Nat /\ count'[b] \in Nat /\ (count'[b] > 0 <=> count[b] > 0)
    BY <1>6, <1>7, <2>1, CountsNat
  <2>3. \A g \in Holding(b)' : handle'[g].m_ptr = IF object[b] = "alive" THEN b ELSE Null
    BY <1>2, <1>6, <1>types, <2>1 DEF Living, Holding
  <2>4. \A u \in Threads : Destroys(u, b)' <=> Destroys(u, b)
    BY DEF Destroys
  <2> QED
    BY <1>types, <2>1, <2>2, <2>3, <2>4, LivingKept
<1> QED
  BY <1>1, <1>7, <1>8, <1>9

LEMMA MoveConstructCounts ==
  ASSUME IInv, NEW t \in Threads, NEW h \in Handles, NEW o \in Handles,
         MoveConstruct(t, h, o), UNCHANGED disciplined
  PROVE  Counted' /\ \A c \in Blocks : Living(c)'
<1> USE ArcAssumption
<1>types. Typed /\ Counted /\ \A c \in Blocks : Living(c)
  BY DEF IInv
<1>1. /\ Fresh(t, h) /\ Uses(t, o) /\ UNCHANGED <<block, object, count, task>>
      /\ handle' = [handle EXCEPT ![h] = handle[o], ![o] = [NoHandle EXCEPT !.user = t]]
  BY DEF MoveConstruct
<1>2. /\ h # o /\ handle'[h] = handle[o] /\ handle'[o].m_control_block = Null
      /\ \A g \in Handles : g \notin {h, o} => handle'[g] = handle[g]
  <2>1. h # o
    BY <1>1 DEF Fresh, Uses, NoHandle
  <2> QED
    BY <1>1, <1>types, <2>1 DEF Typed, NoHandle
<1>3. handle[h].m_control_block = Null /\ ~Gone(h) /\ ~Gone(o) /\ \A g : Gone(g)' <=> Gone(g)
  BY <1>1, UsedHolds DEF Fresh, NoHandle, Gone
<1>copies. \A u \in Threads : task[u].op = "copy" =>
             task[u].from \in Handles /\ task[u].from \notin {h, o}
  BY <1>1, UsedNotCopied
<1>4. \A c \in Blocks : Pending(c)' = Pending(c)
  BY <1>1, <1>2, <1>copies DEF Pending
<1>5. ASSUME NEW c \in Blocks, c # handle[o].m_control_block PROVE Kept(c)
  <2>1. Holding(c)' = Holding(c)
    BY <1>2, <1>3, <1>5 DEF Holding
  <2> QED
    BY <1>1, <1>4, <1>5, <2>1 DEF Kept
<1>6. ASSUME NEW b \in Blocks, b = handle[o].m_control_block
      PROVE  /\ Holding(b)' = (Holding(b) \ {o}) \cup {h}
             /\ o \in Holding(b) /\ h \notin Holding(b)
             /\ Cardinality(Holding(b)') = Cardinality(Holding(b))
  <2>1. /\ Holding(b)' = (Holding(b) \ {o}) \cup {h}
        /\ o \in Holding(b) /\ h \notin Holding(b)
    BY <1>2, <1>3, <1>6 DEF Holding
  <2>2. /\ IsFiniteSet(Holding(b) \ {o})
        /\ Cardinality(Holding(b) \ {o}) = Cardinality(Holding(b)) - 1
    BY <2>1, FiniteRefs, FS_RemoveElement
  <2>3. Cardinality(Holding(b)') = Cardinality(Holding(b) \ {o}) + 1
    BY <2>1, <2>2, FS_AddElement
  <2>4. Cardinality(Holding(b)) \in Nat
    BY FiniteRefs, FS_CardinalityType
  <2> QED
    BY <2>1, <2>2, <2>3, <2>4
<1>7. Counted'
  <2> SUFFICES ASSUME NEW c \in Blocks
               PROVE  count'[c] = Cardinality(Holding(c)') + Cardinality(Pending(c)')
    BY DEF Counted
  <2>1. count[c] = Cardinality(Holding(c)) + Cardinality(Pending(c))
    BY <1>types DEF Counted
  <2>2. Cardinality(Holding(c)') = Cardinality(Holding(c))
    BY <1>5, <1>6 DEF Kept
  <2> QED
    BY <1>1, <1>4, <2>1, <2>2
<1>8. ASSUME NEW c \in Blocks, c # handle[o].m_control_block PROVE Living(c)'
  <2>1. \A g \in Handles : handle'[g].m_control_block = c => handle[g].m_control_block = c
    BY <1>2, <1>8
  <2>2. \A g \in Holding(c) : handle'[g].m_ptr = handle[g].m_ptr
    BY <1>2, <1>3, <1>8 DEF Holding
  <2> QED
    BY <1>1, <1>5, <1>7, <1>8, <2>1, <2>2, UntouchedBlock
<1>9. ASSUME NEW b \in Blocks, b = handle[o].m_control_block PROVE Living(b)'
  <2>1. /\ block[b] = "live" /\ handle[o].m_ptr = IF object[b] = "alive" THEN b ELSE Null
    BY <1>6, <1>9, HolderLives
  <2>2. count[b] \in Nat /\ count'[b] \in Nat /\ (count'[b] > 0 <=> count[b] > 0)
    BY <1>1, <1>7, CountsNat
  <2>3. \A g \in Holding(b)' : handle'[g].m_ptr = IF object[b] = "alive" THEN b ELSE Null
    <3>1. \A g \in Holding(b) : handle[g].m_ptr = IF object[b] = "alive" THEN b ELSE Null
      BY <1>types DEF Living
    <3>2. \A g \in Holding(b)' : g = h \/ (g \in Holding(b) /\ g \notin {h, o} /\ g \in Handles)
      BY <1>6, <1>9 DEF Holding
    <3> QED
      BY <1>2, <2>1, <3>1, <3>2
  <2>4. \A u \in Threads : Destroys(u, b)' <=> Destroys(u, b)
    BY <1>1 DEF Destroys
  <2> QED
    BY <1>1, <1>types, <2>1, <2>2, <2>3, <2>4, LivingKept
<1> QED
  BY <1>7, <1>8, <1>9

LEMMA HandOverCounts ==
  ASSUME IInv, NEW t \in Threads, NEW u \in Threads, NEW h \in Handles,
         HandOver(t, u, h), UNCHANGED disciplined
  PROVE  Counted' /\ \A c \in Blocks : Living(c)'
<1>types. Typed /\ Counted /\ \A c \in Blocks : Living(c)
  BY DEF IInv
<1>1. /\ UNCHANGED <<block, object, count, task>>
      /\ \A g \in Handles : /\ handle'[g].m_control_block = handle[g].m_control_block
                            /\ handle'[g].m_ptr = handle[g].m_ptr
  BY <1>types DEF HandOver, Typed
<1>2. \A g : Gone(g)' <=> Gone(g)
  BY <1>1 DEF Gone
<1>3. \A v \in Threads : task[v].op = "copy" => task[v].from \in Handles
  BY DEF IInv, Tasks, Busy, Idle
<1>4. ASSUME NEW c \in Blocks PROVE Kept(c)
  BY <1>1, <1>2, <1>3 DEF Kept, Holding, Pending
<1>5. Counted'
  BY <1>4, <1>types DEF Kept, Counted
<1>6. ASSUME NEW c \in Blocks PROVE Living(c)'
  <2>1. \A g \in Holding(c) : handle'[g].m_ptr = handle[g].m_ptr
    BY <1>1 DEF Holding
  <2> QED
    BY <1>1, <1>4, <1>5, <2>1, UntouchedBlock
<1> QED
  BY <1>5, <1>6

\* The operations that begin on an idle thread t change no handle, and only a copy
\* assignment counts a reference.
LEMMA BeginCounts ==
  ASSUME IInv, NEW t \in Threads, NEW h \in Handles, NEW o \in Handles,
         NEW op \in {"copy", "move", "destruct"},
         Uses(t, h), Uses(t, o), handle[h].m_control_block # Null, Begin(t, op, h, o),
         op = "copy" => handle[o].m_control_block \notin {Null, handle[h].m_control_block},
         UNCHANGED <<block, object, handle, crashed, disciplined>>,
         count' = IF op = "copy" THEN [count EXCEPT ![handle[o].m_control_block] = @ + 1]
                  ELSE count
  PROVE  Typed' /\ Tasks' /\ Counted' /\ \A c \in Blocks : Living(c)'
<1> DEFINE b == handle[o].m_control_block
<1>types. Typed /\ Counted /\ \A c \in Blocks : Living(c)
  BY DEF IInv
<1>1. op = "copy" => b \in Blocks
  BY <1>types DEF Typed
<1>2. count' \in [Blocks -> Int]
  BY <1>1, <1>types DEF Typed
<1>3. Typed' /\ Tasks'
  BY <1>2, BeginTyped
<1>4. /\ task[t] = Idle /\ task'[t].step = "release" /\ task'[t].op = op /\ task'[t].from = o
      /\ \A u \in Threads : u # t => task'[u] = task[u]
  BY <1>types DEF Begin, Typed, Uses
<1>5. \A g : Gone(g)' <=> Gone(g)
  BY <1>4 DEF Gone, Idle
<1>6. \A c : Holding(c)' = Holding(c)
  BY <1>5 DEF Holding
<1>7. \A c : Pending(c)' = IF op = "copy" /\ c = b THEN Pending(c) \cup {t} ELSE Pending(c)
  BY <1>4 DEF Pending, Idle
<1>8. \A c : t \notin Pending(c)
  BY <1>4 DEF Pending, Idle
<1>9. Counted'
  <2> SUFFICES ASSUME NEW c \in Blocks
               PROVE  count'[c] = Cardinality(Holding(c)') + Cardinality(Pending(c)')
    BY DEF Counted
  <2> HIDE DEF b
  <2>1. count[c] = Cardinality(Holding(c)) + Cardinality(Pending(c))
    BY <1>types DEF Counted
  <2>2. Cardinality(Holding(c)) \in Nat /\ Cardinality(Pending(c)) \in Nat
        /\ IsFiniteSet(Pending(c))
    BY FiniteRefs, FS_CardinalityType
  <2>3. CASE op = "copy" /\ c = b
    <3>1. count'[c] = count[c] + 1
      BY <1>types, <2>3 DEF b, Typed
    <3>2. Cardinality(Pending(c)') = Cardinality(Pending(c)) + 1
      BY <1>7, <1>8, <2>2, <2>3, FS_AddElement
    <3> QED
      BY <1>6, <2>1, <2>2, <3>1, <3>2
  <2>4. CASE ~(op = "copy" /\ c = b)
    <3>1. count'[c] = count[c]
      BY <1>1, <1>types, <2>4 DEF b, Typed
    <3> QED
      BY <1>6, <1>7, <2>1, <2>4, <3>1
  <2> QED
    BY <2>3, <2>4
<1>10. ASSUME NEW c \in Blocks PROVE Living(c)'
  <2>1. count[c] \in Nat /\ count'[c] \in Nat
    BY <1>9, CountsNat
  <2>2. count'[c] > 0 <=> count[c] > 0
    <3>1. CASE op = "copy" /\ c = b
      <4>1. o \in Holding(c)
        BY <3>1, UsedHolds DEF Holding
      <4>2. count[c] > 0
        BY <4>1, HolderLives
      <4>3. count'[c] = count[c] + 1
        BY <1>types, <3>1 DEF Typed
      <4> QED
        BY <2>1, <4>2, <4>3
    <3>2. CASE ~(op = "copy" /\ c = b)
      <4>1. count'[c] = count[c]
        BY <1>1, <1>types, <3>2 DEF Typed
      <4> QED
        BY <4>1
    <3> QED
      BY <3>1, <3>2
  <2>3. \A u \in Threads : Destroys(u, c)' <=> Destroys(u, c)
    BY <1>4 DEF Destroys, Idle
  <2>4. \A u \in Threads : Destroys(u, c) => task'[u].step = task[u].step
    BY <1>4 DEF Destroys, Idle
  <2>5. \A g \in Holding(c)' : handle'[g].m_ptr = IF object[c] = "alive" THEN c ELSE Null
    BY <1>6, <1>types DEF Living
  <2>6. block[c] = "unused" => Sharing(c)' = {}
    BY <1>types DEF Living, Sharing
  <2> QED
    BY <1>types, <2>1, <2>2, <2>3, <2>4, <2>5, <2>6, LivingKept
<1> QED
  BY <1>3, <1>9, <1>10

--------------------------------------------------------------------------------
(* Dropping a reference *)

LEMMA ReleaseCounts ==
  ASSUME IInv, NEW t \in Threads, Release(t), UNCHANGED disciplined
  PROVE  Typed' /\ Tasks' /\ Counted' /\ \A c \in Blocks : Living(c)'
<1>types. Typed /\ Tasks /\ Counted /\ \A c \in Blocks : Living(c)
  BY DEF IInv
<1>busy. Busy(t)
  BY <1>types, StepIsBusy DEF Release
<1>drops. PICK b \in Blocks : task[t].drops = b
  BY <1>busy DEF Busy
<1>to. PICK h \in Handles : task[t].to = h
  BY <1>busy DEF Busy
<1> DEFINE s == IF count'[b] # 0 THEN "finish"
                ELSE IF object[b] = "none" THEN "delete" ELSE "destroy"
<1>1. /\ task[t].step = "release" /\ task' = [task EXCEPT ![t].step = s]
      /\ count' = [count EXCEPT ![b] = @ - 1]
      /\ UNCHANGED <<block, object, handle, crashed, disciplined>>
  BY <1>drops DEF Release
<1>2. handle[h].m_control_block = b /\ handle[h].user = t
  BY <1>busy, <1>drops, <1>to DEF Busy
<1>3. s \in {"destroy", "delete", "finish"}
  OBVIOUS
<1>4. count' \in [Blocks -> Int] /\ count'[b] = count[b] - 1
      /\ \A c \in Blocks : c # b => count'[c] = count[c]
  BY <1>1, <1>2, <1>types DEF Typed
<1>5. /\ Typed' /\ Tasks'
      /\ \A u \in Threads : u # t => task'[u] = task[u]
      /\ task'[t].step = s /\ task'[t].to = h /\ task'[t].from = task[t].from
      /\ task'[t].drops = b /\ task'[t].op = task[t].op
  <2> HIDE DEF s
  <2> QED
    BY <1>1, <1>3, <1>4, <1>types, <1>drops, <1>to, AdvanceTyped DEF Typed
<1> HIDE DEF s
<1>6. ~Gone(h)
  <2> SUFFICES ASSUME NEW u \in Threads, task[u].to = h,
                      task[u].step \in {"destroy", "delete", "finish"} PROVE FALSE
    BY DEF Gone
  <2>1. Busy(u)
    BY <1>types, StepIsBusy
  <2> QED
    BY <1>1, <1>2, <2>1 DEF Busy
<1>7. \A g : g # h => (Gone(g)' <=> Gone(g))
  BY <1>1, <1>5, <1>to DEF Gone
<1>gone. Gone(h)'
  BY <1>3, <1>5 DEF Gone
<1>8. /\ Holding(b)' = Holding(b) \ {h} /\ h \in Holding(b)
      /\ \A c \in Blocks : c # b => Holding(c)' = Holding(c)
  BY <1>1, <1>2, <1>6, <1>7, <1>gone DEF Holding
<1>9. \A c \in Blocks : Pending(c)' = Pending(c)
  BY <1>1, <1>5 DEF Pending
<1>10. Counted'
  <2> SUFFICES ASSUME NEW c \in Blocks
               PROVE  count'[c] = Cardinality(Holding(c)') + Cardinality(Pending(c)')
    BY DEF Counted
  <2>1. count[c] = Cardinality(Holding(c)) + Cardinality(Pending(c))
    BY <1>types DEF Counted
  <2>2. Cardinality(Holding(c)) \in Nat /\ Cardinality(Pending(c)) \in Nat
        /\ IsFiniteSet(Holding(c))
    BY FiniteRefs, FS_CardinalityType
  <2>3. CASE c = b
    <3>1. Cardinality(Holding(b)') = Cardinality(Holding(b)) - 1
      BY <1>8, <2>2, <2>3, FS_RemoveElement
    <3> QED
      BY <1>4, <1>9, <2>1, <2>2, <2>3, <3>1
  <2>4. CASE c # b
    BY <1>4, <1>8, <1>9, <2>1, <2>4
  <2> QED
    BY <2>3, <2>4
<1>11. ASSUME NEW c \in Blocks, c # b PROVE Living(c)'
  <2>1. \A u \in Threads : Destroys(u, c)' <=> Destroys(u, c)
    BY <1>5, <1>11, <1>drops DEF Destroys
  <2>2. \A u \in Threads : Destroys(u, c) => task'[u].step = task[u].step
    BY <1>5, <1>11, <1>drops DEF Destroys
  <2>3. \A g \in Holding(c)' : handle'[g].m_ptr = IF object[c] = "alive" THEN c ELSE Null
    BY <1>1, <1>8, <1>11, <1>types DEF Living
  <2>4. block[c] = "unused" => Sharing(c)' = {}
    BY <1>1, <1>types DEF Living, Sharing
  <2>5. count[c] \in Nat /\ count'[c] \in Nat /\ (count'[c] > 0 <=> count[c] > 0)
    BY <1>4, <1>10, <1>11, CountsNat
  <2> QED
    BY <1>1, <1>types, <2>1, <2>2, <2>3, <2>4, <2>5, LivingKept
<1>12. Living(b)'
  <2>1. /\ count[b] > 0 /\ block[b] = "live" /\ object[b] \in {"none", "alive"}
        /\ \A u \in Threads : ~Destroys(u, b)
    BY <1>2, <1>8, <1>types, HolderLives DEF Typed
  <2>2. count[b] \in Nat /\ count'[b] \in Nat
    BY <1>2, <1>10, CountsNat
  <2>3. \A g \in Holding(b)' : handle'[g].m_ptr = IF object[b] = "alive" THEN b ELSE Null
    BY <1>1, <1>2, <1>8, <1>types DEF Living
  <2>4. \A u \in Threads : Destroys(u, b)' <=> u = t /\ s \in {"destroy", "delete"}
    BY <1>5, <2>1 DEF Destroys
  <2>5. CASE count'[b] # 0
    <3>1. count'[b] > 0 /\ s = "finish"
      BY <2>2, <2>5 DEF s
    <3> QED
      BY <1>1, <2>1, <2>3, <2>4, <3>1 DEF Living
  <2>6. CASE count'[b] = 0
    <3>1. s \in {"destroy", "delete"} /\ (s = "destroy" <=> object[b] = "alive")
      BY <2>1, <2>6 DEF s
    <3>2. ~(count'[b] > 0)
      BY <2>6
    <3> QED
      BY <1>1, <1>5, <2>1, <2>3, <2>4, <2>6, <3>1, <3>2 DEF Living
  <2> QED
    BY <2>5, <2>6
<1> QED
  BY <1>5, <1>10, <1>11, <1>12

\* Once the count is zero, destroying the object and the block changes no reference.
LEMMA CleanUpCounts ==
  ASSUME IInv, NEW t \in Threads, NEW b \in Blocks, b = task[t].drops,
         NEW s \in {"delete", "finish"},
         task[t].step \in {"destroy", "delete"}, task' = [task EXCEPT ![t].step = s],
         UNCHANGED <<count, handle, crashed, disciplined>>,
         block' \in [Blocks -> {"unused", "live", "deleted"}],
         object' \in [Blocks -> {"none", "alive", "destroyed"}],
         \A c \in Blocks : c # b => block'[c] = block[c] /\ object'[c] = object[c]
  PROVE  /\ Typed' /\ Tasks' /\ Counted'
         /\ \A c \in Blocks : c # b => Living(c)'
         /\ Holding(b)' = {} /\ count'[b] = 0 /\ b \in Blocks /\ Destroys(t, b)
         /\ \A u \in Threads : Destroys(u, b)' <=> u = t /\ s = "delete"
         /\ task'[t].step = s
<1>types. Typed /\ Tasks /\ Counted /\ \A c \in Blocks : Living(c)
  BY DEF IInv
<1>1. /\ Typed' /\ Tasks'
      /\ \A u \in Threads : u # t => task'[u] = task[u]
      /\ task'[t].step = s /\ task'[t].to = task[t].to /\ task'[t].from = task[t].from
      /\ task'[t].drops = b /\ task'[t].op = task[t].op
  <2>1. count' \in [Blocks -> Int] /\ s \in {"destroy", "delete", "finish"}
        /\ task[t].step # "idle"
    BY <1>types DEF Typed
  <2> QED
    BY <2>1, AdvanceTyped
<1>2. b \in Blocks /\ Destroys(t, b) /\ count[b] = 0
  <2>1. Busy(t)
    BY <1>types, StepIsBusy
  <2> QED
    BY <1>types, <2>1 DEF Busy, Destroys, Living
<1>3. \A g : Gone(g)' <=> Gone(g)
  BY <1>1 DEF Gone
<1>4. \A c : Holding(c)' = Holding(c) /\ Pending(c)' = Pending(c)
  BY <1>1, <1>3 DEF Holding, Pending
<1>5. Counted'
  BY <1>4, <1>types DEF Counted
<1>6. Holding(b)' = {}
  BY <1>2, <1>4, <1>types, CountedPositive
<1>7. \A u \in Threads : Destroys(u, b)' <=> u = t /\ s = "delete"
  BY <1>1, <1>2, <1>types DEF Destroys, Living
<1>8. ASSUME NEW c \in Blocks, c # b PROVE Living(c)'
  <2>1. \A u \in Threads : Destroys(u, c)' <=> Destroys(u, c)
    BY <1>1, <1>8 DEF Destroys
  <2>2. \A u \in Threads : Destroys(u, c) => task'[u].step = task[u].step
    BY <1>1, <1>8 DEF Destroys
  <2>3. \A g \in Holding(c)' : handle'[g].m_ptr = IF object[c] = "alive" THEN c ELSE Null
    BY <1>4, <1>types DEF Living
  <2>4. block[c] = "unused" => Sharing(c)' = {}
    BY <1>types DEF Living, Sharing
  <2>5. count[c] \in Nat /\ count'[c] \in Nat /\ (count'[c] > 0 <=> count[c] > 0)
    BY <1>5, CountsNat
  <2> QED
    BY <1>8, <1>types, <2>1, <2>2, <2>3, <2>4, <2>5, LivingKept
<1> QED
  BY <1>1, <1>2, <1>5, <1>6, <1>7, <1>8

LEMMA DestroyObjectCounts ==
  ASSUME IInv, NEW t \in Threads, DestroyObject(t), UNCHANGED disciplined
  PROVE  Typed' /\ Tasks' /\ Counted' /\ \A c \in Blocks : Living(c)'
<1>types. Typed /\ \A c \in Blocks : Living(c)
  BY DEF IInv
<1>drops. PICK b \in Blocks : b = task[t].drops
  BY StepIsBusy DEF DestroyObject, IInv, Busy
<1>1. /\ task[t].step = "destroy" /\ task' = [task EXCEPT ![t].step = "delete"]
      /\ object' = [object EXCEPT ![b] = "destroyed"]
      /\ UNCHANGED <<block, count, handle, crashed, disciplined>>
  BY <1>drops DEF DestroyObject
<1>2. /\ block' \in [Blocks -> {"unused", "live", "deleted"}]
      /\ object' \in [Blocks -> {"none", "alive", "destroyed"}]
      /\ \A c \in Blocks : c # b => block'[c] = block[c] /\ object'[c] = object[c]
  BY <1>1, <1>types DEF Typed
<1>3. /\ Typed' /\ Tasks' /\ Counted' /\ \A c \in Blocks : c # b => Living(c)'
      /\ Holding(b)' = {} /\ count'[b] = 0 /\ b \in Blocks /\ Destroys(t, b)
      /\ \A u \in Threads : Destroys(u, b)' <=> u = t
      /\ task'[t].step = "delete"
  <2>1. PICK s \in {"delete", "finish"} : s = "delete"
    OBVIOUS
  <2>2. /\ task[t].step \in {"destroy", "delete"} /\ task' = [task EXCEPT ![t].step = s]
        /\ UNCHANGED <<count, handle, crashed, disciplined>>
    BY <1>1, <2>1
  <2>3. /\ Typed' /\ Tasks' /\ Counted' /\ \A c \in Blocks : c # b => Living(c)'
        /\ Holding(b)' = {} /\ count'[b] = 0 /\ b \in Blocks /\ Destroys(t, b)
        /\ \A u \in Threads : Destroys(u, b)' <=> u = t /\ s = "delete"
        /\ task'[t].step = s
    BY <1>2, <1>drops, <2>2, CleanUpCounts
  <2> QED
    BY <2>1, <2>3
<1>4. block'[b] = "live" /\ object'[b] = "destroyed"
  BY <1>1, <1>3, <1>types DEF Typed, Living
<1>5. Living(b)'
  BY <1>3, <1>4 DEF Living
<1> QED
  BY <1>3, <1>5

LEMMA DeleteBlockCounts ==
  ASSUME IInv, NEW t \in Threads, DeleteBlock(t), UNCHANGED disciplined
  PROVE  Typed' /\ Tasks' /\ Counted' /\ \A c \in Blocks : Living(c)'
<1>types. Typed /\ \A c \in Blocks : Living(c)
  BY DEF IInv
<1>drops. PICK b \in Blocks : b = task[t].drops
  BY StepIsBusy DEF DeleteBlock, IInv, Busy
<1>1. /\ task[t].step = "delete" /\ task' = [task EXCEPT ![t].step = "finish"]
      /\ block' = [block EXCEPT ![b] = "deleted"]
      /\ UNCHANGED <<object, count, handle, crashed, disciplined>>
  BY <1>drops DEF DeleteBlock
<1>2. /\ block' \in [Blocks -> {"unused", "live", "deleted"}]
      /\ object' \in [Blocks -> {"none", "alive", "destroyed"}]
      /\ \A c \in Blocks : c # b => block'[c] = block[c] /\ object'[c] = object[c]
  BY <1>1, <1>types DEF Typed
<1>3. /\ Typed' /\ Tasks' /\ Counted' /\ \A c \in Blocks : c # b => Living(c)'
      /\ Holding(b)' = {} /\ count'[b] = 0 /\ b \in Blocks /\ Destroys(t, b)
      /\ \A u \in Threads : ~Destroys(u, b)'
  <2>1. PICK s \in {"delete", "finish"} : s = "finish"
    OBVIOUS
  <2>2. /\ task[t].step \in {"destroy", "delete"} /\ task' = [task EXCEPT ![t].step = s]
        /\ UNCHANGED <<count, handle, crashed, disciplined>>
    BY <1>1, <2>1
  <2>3. /\ Typed' /\ Tasks' /\ Counted' /\ \A c \in Blocks : c # b => Living(c)'
        /\ Holding(b)' = {} /\ count'[b] = 0 /\ b \in Blocks /\ Destroys(t, b)
        /\ \A u \in Threads : Destroys(u, b)' <=> u = t /\ s = "delete"
    BY <1>2, <1>drops, <2>2, CleanUpCounts
  <2> QED
    BY <2>1, <2>3
<1>4. block'[b] = "deleted" /\ object'[b] # "alive"
  BY <1>1, <1>3, <1>types DEF Typed, Living
<1>5. Living(b)'
  BY <1>3, <1>4 DEF Living
<1> QED
  BY <1>3, <1>5

\* A thread that finishes leaves the other tasks alone, and the handle it worked on
\* names its block again.
LEMMA FinishTasks ==
  ASSUME IInv, NEW t \in Threads, NEW h \in Handles, NEW o \in Handles,
         h = task[t].to, o = task[t].from, Finish(t), UNCHANGED disciplined
  PROVE  /\ Gone(h) /\ ~Gone(h)' /\ \A g : g # h => (Gone(g)' <=> Gone(g))
         /\ o # h => ~Gone(o)
         /\ \A u \in Threads, c \in Blocks :
              /\ Destroys(u, c)' <=> Destroys(u, c)
              /\ Destroys(u, c) => task'[u] = task[u]
         /\ \A u \in Threads : u # t =>
              /\ task'[u] = task[u]
              /\ task[u].op = "copy" =>
                   task[u].from \in Handles /\ handle'[task[u].from] = handle[task[u].from]
         /\ task'[t] = Idle
<1>types. Typed /\ Tasks
  BY DEF IInv
<1>1. /\ Busy(t) /\ task[t].step = "finish"
      /\ \A g \in Handles : g \notin {h, o} => handle'[g] = handle[g]
      /\ task'[t] = Idle /\ \A u \in Threads : u # t => task'[u] = task[u]
  <2>1. task' = [task EXCEPT ![t] = Idle] /\ task[t].step = "finish"
    BY DEF Finish
  <2> QED
    BY <1>types, <2>1, FinishTyped DEF Typed
<1>2. ASSUME NEW u \in Threads, u # t, task[u].step # "idle" \/ task[u].op # "none"
      PROVE  /\ Busy(u) /\ task[u].to \notin {h, o}
             /\ task[u].from \notin {h, o}
  <2>1. Busy(u)
    BY <1>types, <1>2 DEF Tasks, Idle
  <2> QED
    BY <1>1, <1>2, <2>1 DEF Busy
<1>3. Gone(h)
  BY <1>1 DEF Gone
<1>4. ~Gone(h)'
  BY <1>1, <1>2, ArcAssumption DEF Gone, Idle
<1>5. \A g : g # h => (Gone(g)' <=> Gone(g))
  BY <1>1 DEF Gone, Idle
<1>6. o # h => ~Gone(o)
  BY <1>1, <1>2 DEF Gone
<1>7. ASSUME NEW u \in Threads, NEW c \in Blocks
      PROVE  (Destroys(u, c)' <=> Destroys(u, c)) /\ (Destroys(u, c) => task'[u] = task[u])
  BY <1>1 DEF Destroys, Idle
<1>8. ASSUME NEW u \in Threads, u # t, task[u].op = "copy"
      PROVE  task[u].from \in Handles /\ handle'[task[u].from] = handle[task[u].from]
  BY <1>1, <1>2, <1>8 DEF Busy
<1> QED
  BY <1>1, <1>3, <1>4, <1>5, <1>6, <1>7, <1>8

\* What there is to show of a thread that finishes: the number of references stays,
\* and a holder of a block is one of before or took the place of one.
LEMMA FinishLiving ==
  ASSUME IInv, NEW t \in Threads, NEW h \in Handles, NEW o \in Handles,
         h = task[t].to, o = task[t].from, Finish(t), UNCHANGED disciplined,
         NEW c \in Blocks,
         Cardinality(Holding(c)') + Cardinality(Pending(c)')
           = Cardinality(Holding(c)) + Cardinality(Pending(c)),
         \A g \in Holding(c)' : \E k \in Holding(c) : handle'[g].m_ptr = handle[k].m_ptr,
         Sharing(c) = {} => Sharing(c)' = {}
  PROVE  count'[c] = Cardinality(Holding(c)') + Cardinality(Pending(c)') /\ Living(c)'
<1>types. Counted /\ Living(c)
  BY DEF IInv
<1>1. UNCHANGED <<block, object, count>>
  BY DEF Finish
<1>2. count'[c] = Cardinality(Holding(c)') + Cardinality(Pending(c)')
  BY <1>1, <1>types DEF Counted
<1>3. count[c] \in Nat
  BY <1>types, CountedPositive
<1>4. \A u \in Threads : /\ Destroys(u, c)' <=> Destroys(u, c)
                         /\ Destroys(u, c) => task'[u].step = task[u].step
  BY FinishTasks
<1>5. \A g \in Holding(c)' : handle'[g].m_ptr = IF object[c] = "alive" THEN c ELSE Null
  BY <1>types DEF Living
<1>6. block[c] = "unused" => Sharing(c)' = {}
  BY <1>types DEF Living
<1> QED
  BY <1>1, <1>2, <1>3, <1>4, <1>5, <1>6, <1>types, LivingKept

\* Replacing one element of a finite set by another.
LEMMA Replaced ==
  ASSUME NEW S, IsFiniteSet(S), NEW x \in S, NEW y, y \notin S
  PROVE  Cardinality((S \ {x}) \cup {y}) = Cardinality(S)
<1>1. IsFiniteSet(S \ {x}) /\ Cardinality(S \ {x}) = Cardinality(S) - 1
  BY FS_RemoveElement
<1>2. Cardinality((S \ {x}) \cup {y}) = Cardinality(S \ {x}) + 1
  BY <1>1, FS_AddElement
<1> QED
  BY <1>1, <1>2, FS_CardinalityType

LEMMA FinishCounts ==
  ASSUME IInv, NEW t \in Threads, Finish(t), UNCHANGED disciplined
  PROVE  Counted' /\ \A c \in Blocks : Living(c)'
<1> USE ArcAssumption
<1>types. Typed /\ Busy(t)
  BY FinishTyped DEF IInv
<1>h. PICK h \in Handles : h = task[t].to
  BY <1>types DEF Busy
<1>o. PICK o \in Handles : o = task[t].from
  BY <1>types DEF Busy
<1>gone. /\ Gone(h) /\ ~Gone(h)' /\ \A g : g # h => (Gone(g)' <=> Gone(g))
         /\ o # h => ~Gone(o)
  BY <1>h, <1>o, FinishTasks
<1>others. \A u \in Threads : u # t =>
             /\ task'[u] = task[u]
             /\ task[u].op = "copy" =>
                  task[u].from \in Handles /\ handle'[task[u].from] = handle[task[u].from]
  BY <1>h, <1>o, FinishTasks
<1>idle. task'[t].op = "none"
  BY <1>h, <1>o, FinishTasks DEF Idle
<1>1. \A c : \A u \in Threads : u # t => (u \in Pending(c)' <=> u \in Pending(c))
  BY <1>others DEF Pending
<1>2. \A c : t \notin Pending(c)'
  BY <1>idle DEF Pending
<1> SUFFICES ASSUME NEW c \in Blocks
             PROVE  count'[c] = Cardinality(Holding(c)') + Cardinality(Pending(c)') /\ Living(c)'
  BY DEF Counted
<1>3. IsFiniteSet(Holding(c)) /\ IsFiniteSet(Pending(c))
  BY FiniteRefs
<1>4. CASE task[t].op # "copy"
  <2>1. Pending(c)' = Pending(c)
    <3>1. t \notin Pending(c)
      BY <1>4 DEF Pending
    <3> QED
      BY <1>1, <1>2, <3>1 DEF Pending
  <2>2. CASE handle'[h].m_control_block = Null /\ \A g \in Handles : g # h => handle'[g] = handle[g]
    <3>1. Holding(c)' = Holding(c)
      BY <1>gone, <2>2 DEF Holding
    <3>2. \A g \in Holding(c)' : \E k \in Holding(c) : handle'[g].m_ptr = handle[k].m_ptr
      BY <1>gone, <2>2, <3>1 DEF Holding
    <3>3. Sharing(c) = {} => Sharing(c)' = {}
      BY <2>2 DEF Sharing
    <3> QED
      BY <1>h, <1>o, <2>1, <3>1, <3>2, <3>3, FinishLiving
  <2>3. CASE /\ o # h /\ handle'[h] = handle[o] /\ handle'[o].m_control_block = Null
             /\ \A g \in Handles : g \notin {h, o} => handle'[g] = handle[g]
    <3>1. CASE handle[o].m_control_block # c
      <4>1. Holding(c)' = Holding(c)
        BY <1>gone, <2>3, <3>1 DEF Holding
      <4>2. \A g \in Holding(c)' : \E k \in Holding(c) : handle'[g].m_ptr = handle[k].m_ptr
        BY <1>gone, <2>3, <3>1, <4>1 DEF Holding
      <4>3. Sharing(c) = {} => Sharing(c)' = {}
        BY <2>3, <3>1 DEF Sharing
      <4> QED
        BY <1>h, <1>o, <2>1, <4>1, <4>2, <4>3, FinishLiving
    <3>2. CASE handle[o].m_control_block = c
      <4>1. Holding(c)' = (Holding(c) \ {o}) \cup {h} /\ o \in Holding(c) /\ h \notin Holding(c)
        BY <1>gone, <2>3, <3>2 DEF Holding
      <4>2. Cardinality(Holding(c)') = Cardinality(Holding(c))
        BY <1>3, <4>1, Replaced
      <4>3. \A g \in Holding(c)' : \E k \in Holding(c) : handle'[g].m_ptr = handle[k].m_ptr
        BY <2>3, <4>1 DEF Holding
      <4>4. Sharing(c) # {}
        BY <3>2 DEF Sharing
      <4> QED
        BY <1>h, <1>o, <2>1, <4>2, <4>3, <4>4, FinishLiving
    <3> QED
      BY <3>1, <3>2
  <2> QED
    <3>1. \/ handle' = [handle EXCEPT ![h] = NoHandle]
          \/ handle' = [handle EXCEPT ![h] = handle[o], ![o].m_control_block = Null]
      BY <1>4, <1>h, <1>o DEF Finish
    <3>2. handle \in [Handles -> [user : Threads \cup {Null}, m_control_block : Blocks \cup {Null},
                                 m_ptr : Blocks \cup {Null}]]
      BY <1>types DEF Typed
    <3>3. CASE handle' = [handle EXCEPT ![h] = NoHandle]
      BY <2>2, <3>2, <3>3 DEF NoHandle
    <3>4. CASE handle' = [handle EXCEPT ![h] = handle[o], ![o].m_control_block = Null] /\ o = h
      <4>1. handle'[h].m_control_block = Null /\ \A g \in Handles : g # h => handle'[g] = handle[g]
        BY <3>2, <3>4
      <4> QED
        BY <2>2, <4>1
    <3>5. CASE handle' = [handle EXCEPT ![h] = handle[o], ![o].m_control_block = Null] /\ o # h
      <4>1. /\ handle'[h] = handle[o] /\ handle'[o].m_control_block = Null
            /\ \A g \in Handles : g \notin {h, o} => handle'[g] = handle[g]
        BY <3>2, <3>5
      <4> QED
        BY <2>3, <3>5, <4>1
    <3> QED
      BY <3>1, <3>3, <3>4, <3>5
<1>5. CASE task[t].op = "copy"
  <2>1. handle' = [handle EXCEPT ![h] = handle[o]]
    BY <1>5, <1>h, <1>o DEF Finish
  <2>2. handle[o].m_control_block \in Blocks /\ handle[h].m_control_block # handle[o].m_control_block
    BY <1>5, <1>h, <1>o, <1>types DEF Busy
  <2>3. /\ o # h /\ handle'[h] = handle[o]
        /\ \A g \in Handles : g # h => handle'[g] = handle[g]
    BY <1>types, <2>1, <2>2 DEF Typed
  <2>4. CASE handle[o].m_control_block # c
    <3>1. Holding(c)' = Holding(c)
      BY <1>gone, <2>3, <2>4 DEF Holding
    <3>2. Pending(c)' = Pending(c)
      <4>1. t \notin Pending(c)
        BY <1>o, <2>4 DEF Pending
      <4> QED
        BY <1>1, <1>2, <4>1 DEF Pending
    <3>3. \A g \in Holding(c)' : \E k \in Holding(c) : handle'[g].m_ptr = handle[k].m_ptr
      BY <1>gone, <2>3, <3>1 DEF Holding
    <3>4. Sharing(c) = {} => Sharing(c)' = {}
      BY <2>3, <2>4 DEF Sharing
    <3> QED
      BY <1>h, <1>o, <3>1, <3>2, <3>3, <3>4, FinishLiving
  <2>5. CASE handle[o].m_control_block = c
    <3>1. Holding(c)' = Holding(c) \cup {h} /\ o \in Holding(c) /\ h \notin Holding(c)
      BY <1>gone, <2>3, <2>5 DEF Holding
    <3>2. Pending(c)' = Pending(c) \ {t} /\ t \in Pending(c)
      <4>1. t \in Pending(c)
        BY <1>o, <1>5, <2>5 DEF Pending
      <4>2. Pending(c)' \subseteq Threads /\ Pending(c) \subseteq Threads
        BY DEF Pending
      <4> QED
        BY <1>1, <1>2, <4>1, <4>2
    <3>3. Cardinality(Holding(c)') = Cardinality(Holding(c)) + 1
      <4>1. Cardinality(Holding(c) \cup {h}) = Cardinality(Holding(c)) + 1
        BY <1>3, <3>1, FS_AddElement
      <4> QED
        BY <3>1, <4>1
    <3>4. Cardinality(Pending(c)') = Cardinality(Pending(c)) - 1
      BY <1>3, <3>2, FS_RemoveElement
    <3>5. Cardinality(Holding(c)) \in Nat /\ Cardinality(Pending(c)) \in Nat
      BY <1>3, FS_CardinalityType
    <3>6. Cardinality(Holding(c)') + Cardinality(Pending(c)')
            = Cardinality(Holding(c)) + Cardinality(Pending(c))
      BY <3>3, <3>4, <3>5
    <3>7. \A g \in Holding(c)' : \E k \in Holding(c) : handle'[g].m_ptr = handle[k].m_ptr
      BY <2>3, <3>1 DEF Holding
    <3>8. Sharing(c) # {}
      BY <2>5 DEF Sharing
    <3> QED
      BY <1>h, <1>o, <3>6, <3>7, <3>8, FinishLiving
  <2> QED
    BY <2>4, <2>5
<1> QED
  BY <1>4, <1>5

\* An empty handle is destroyed at once.
LEMMA EmptyDestructed ==
  ASSUME IInv, NEW t \in Threads, NEW h \in Handles, Uses(t, h),
         handle[h].m_control_block = Null, handle' = [handle EXCEPT ![h] = NoHandle],
         UNCHANGED <<block, object, count, task, crashed, disciplined>>
  PROVE  Typed' /\ Tasks' /\ Counted' /\ \A c \in Blocks : Living(c)'
<1> USE ArcAssumption
<1>types. Typed /\ Tasks /\ Counted /\ \A c \in Blocks : Living(c)
  BY DEF IInv
<1>1. /\ Typed' /\ handle'[h].m_control_block = Null /\ task[t] = Idle /\ handle[h].user = t
      /\ \A g \in Handles : g # h => handle'[g] = handle[g]
  BY <1>types DEF Typed, NoHandle, Uses
<1>2. Tasks'
  BY <1>1, <1>types, HandlesTyped
<1>3. \A g : Gone(g)' <=> Gone(g)
  BY DEF Gone
<1>copies. \A u \in Threads : task[u].op = "copy" => task[u].from \in Handles /\ task[u].from # h
  BY UsedNotCopied
<1>4. ASSUME NEW c \in Blocks PROVE Kept(c)
  <2>1. Holding(c)' = Holding(c)
    BY <1>1, <1>3 DEF Holding
  <2>2. Pending(c)' = Pending(c)
    BY <1>1, <1>copies DEF Pending
  <2> QED
    BY <2>1, <2>2 DEF Kept
<1>5. Counted'
  BY <1>4, <1>types DEF Kept, Counted
<1>6. ASSUME NEW c \in Blocks PROVE Living(c)'
  <2>1. \A g \in Handles : handle'[g].m_control_block = c => handle[g].m_control_block = c
    BY <1>1
  <2>2. \A g \in Holding(c) : handle'[g].m_ptr = handle[g].m_ptr
    BY <1>1 DEF Holding
  <2> QED
    BY <1>4, <1>5, <2>1, <2>2, UntouchedBlock
<1> QED
  BY <1>1, <1>2, <1>5, <1>6

--------------------------------------------------------------------------------
(* The invariant is inductive *)

\* Only a null m_control_block ends the program, and disciplined callers meet none.
LEMMA CrashIInv ==
  ASSUME IInv, Crash, UNCHANGED disciplined, ~disciplined
  PROVE  IInv'
<1>1. /\ crashed' = TRUE /\ UNCHANGED <<block, object, count, handle, task, disciplined>>
  BY DEF Crash
<1>2. Typed'
  BY <1>1 DEF IInv, Typed
<1>3. Tasks'
  BY <1>1 DEF IInv, Tasks, Busy
<1>4. \A g : Gone(g)' <=> Gone(g)
  BY <1>1 DEF Gone
<1>5. \A c : Holding(c)' = Holding(c) /\ Pending(c)' = Pending(c) /\ Sharing(c)' = Sharing(c)
  BY <1>1, <1>4 DEF Holding, Pending, Sharing
<1>6. Counted'
  BY <1>1, <1>5 DEF IInv, Counted
<1>7. ASSUME NEW c \in Blocks PROVE Living(c)'
  BY <1>1, <1>5 DEF IInv, Living, Destroys
<1>8. Disciplined'
  BY <1>1 DEF Disciplined
<1> QED
  BY <1>2, <1>3, <1>6, <1>7, <1>8 DEF IInv

LEMMA NextIInv == IInv /\ [Next]_vars => IInv'
<1> SUFFICES ASSUME IInv, [Next]_vars PROVE IInv'
  OBVIOUS
<1> USE ArcAssumption
<1>types. Typed /\ Tasks /\ Disciplined
  BY DEF IInv
<1>crash. ASSUME UNCHANGED <<crashed, disciplined>>, Typed', Tasks', Counted', \A c \in Blocks : Living(c)'
          PROVE  IInv'
  BY <1>crash, <1>types DEF IInv, Disciplined
<1>1. ASSUME NEW t \in Threads, NEW h \in Handles, NEW b \in Blocks,
             NEW content \in {"alive", "none"}, Construct(t, h, b, content), UNCHANGED disciplined
      PROVE  IInv'
  BY <1>1, <1>crash, ConstructTyped, ConstructCounts DEF Construct
<1>2. ASSUME NEW t \in Threads, NEW h \in Handles, NEW o \in Handles, CopyConstruct(t, h, o),
             UNCHANGED disciplined
      PROVE  IInv'
  <2>1. CASE handle[o].m_control_block = Null
    <3>1. Crash /\ ~disciplined
      BY <1>2, <2>1 DEF CopyConstruct, Sound
    <3> QED
      BY <1>2, <3>1, CrashIInv
  <2>2. CASE handle[o].m_control_block # Null
    <3>1. PICK b \in Blocks : b = handle[o].m_control_block
      BY <1>types, <2>2 DEF Typed
    <3>2. /\ Fresh(t, h) /\ Uses(t, o) /\ count' = [count EXCEPT ![b] = @ + 1]
          /\ handle' = [handle EXCEPT ![h] = handle[o]]
          /\ UNCHANGED <<block, object, task, crashed, disciplined>>
      BY <1>2, <2>2, <3>1 DEF CopyConstruct
    <3>3. Typed' /\ Tasks' /\ Counted' /\ \A c \in Blocks : Living(c)'
      BY <3>1, <3>2, CopyConstructCounts
    <3> QED
      BY <1>crash, <3>2, <3>3
  <2> QED
    BY <2>1, <2>2
<1>3. ASSUME NEW t \in Threads, NEW h \in Handles, NEW o \in Handles, MoveConstruct(t, h, o),
             UNCHANGED disciplined
      PROVE  IInv'
  BY <1>3, <1>crash, MoveConstructTyped, MoveConstructCounts DEF MoveConstruct
<1>4. ASSUME NEW t \in Threads, NEW h \in Handles, NEW o \in Handles, CopyAssign(t, h, o),
             UNCHANGED disciplined
      PROVE  IInv'
  <2>1. CASE Null \in {handle[h].m_control_block, handle[o].m_control_block}
    <3>1. Crash /\ ~disciplined
      BY <1>4, <2>1 DEF CopyAssign, Sound
    <3> QED
      BY <1>4, <3>1, CrashIInv
  <2>2. CASE Null \notin {handle[h].m_control_block, handle[o].m_control_block}
    <3>1. PICK op \in {"copy", "move", "destruct"} : op = "copy"
      OBVIOUS
    <3>2. /\ Uses(t, h) /\ Uses(t, o) /\ handle[h].m_control_block # Null /\ Begin(t, op, h, o)
          /\ handle[o].m_control_block \notin {Null, handle[h].m_control_block}
          /\ UNCHANGED <<block, object, handle, crashed, disciplined>>
          /\ count' = IF op = "copy" THEN [count EXCEPT ![handle[o].m_control_block] = @ + 1]
                      ELSE count
      BY <1>4, <2>2, <3>1 DEF CopyAssign
    <3>3. Typed' /\ Tasks' /\ Counted' /\ \A c \in Blocks : Living(c)'
      BY <3>2, BeginCounts
    <3> QED
      BY <1>crash, <3>2, <3>3
  <2> QED
    BY <2>1, <2>2
<1>begin. ASSUME NEW t \in Threads, NEW h \in Handles, NEW o \in Handles,
                 NEW op \in {"copy", "move", "destruct"}, op # "copy",
                 Uses(t, h), Uses(t, o), handle[h].m_control_block # Null, Begin(t, op, h, o),
                 UNCHANGED <<block, object, count, handle, crashed, disciplined>>
          PROVE  IInv'
  <2>1. Typed' /\ Tasks' /\ Counted' /\ \A c \in Blocks : Living(c)'
    BY <1>begin, BeginCounts
  <2> QED
    BY <1>begin, <1>crash, <2>1
<1>5. ASSUME NEW t \in Threads, NEW h \in Handles, NEW o \in Handles, MoveAssign(t, h, o),
             UNCHANGED disciplined
      PROVE  IInv'
  <2>1. CASE handle[h].m_control_block = Null
    <3>1. Crash /\ ~disciplined
      BY <1>5, <2>1 DEF MoveAssign, Sound
    <3> QED
      BY <1>5, <3>1, CrashIInv
  <2>2. CASE handle[h].m_control_block # Null
    <3>1. PICK op \in {"copy", "move", "destruct"} : op = "move"
      OBVIOUS
    <3> QED
      BY <1>5, <1>begin, <2>2, <3>1 DEF MoveAssign
  <2> QED
    BY <2>1, <2>2
<1>6. ASSUME NEW t \in Threads, NEW h \in Handles, Destruct(t, h), UNCHANGED disciplined
      PROVE  IInv'
  <2>1. CASE handle[h].m_control_block = Null
    BY <1>6, <1>crash, <2>1, EmptyDestructed DEF Destruct
  <2>2. CASE handle[h].m_control_block # Null
    <3>1. PICK op \in {"copy", "move", "destruct"} : op = "destruct"
      OBVIOUS
    <3> QED
      BY <1>6, <1>begin, <2>2, <3>1 DEF Destruct
  <2> QED
    BY <2>1, <2>2
<1>7. ASSUME NEW t \in Threads, NEW u \in Threads, NEW h \in Handles, HandOver(t, u, h),
             UNCHANGED disciplined
      PROVE  IInv'
  BY <1>7, <1>crash, HandOverTyped, HandOverCounts DEF HandOver
<1>8. ASSUME NEW t \in Threads, Release(t), UNCHANGED disciplined PROVE IInv'
  BY <1>8, <1>crash, ReleaseCounts DEF Release
<1>9. ASSUME NEW t \in Threads, DestroyObject(t), UNCHANGED disciplined PROVE IInv'
  BY <1>9, <1>crash, DestroyObjectCounts DEF DestroyObject
<1>10. ASSUME NEW t \in Threads, DeleteBlock(t), UNCHANGED disciplined PROVE IInv'
  BY <1>10, <1>crash, DeleteBlockCounts DEF DeleteBlock
<1>11. ASSUME NEW t \in Threads, Finish(t), UNCHANGED disciplined PROVE IInv'
  BY <1>11, <1>crash, FinishTyped, FinishCounts DEF Finish
<1>12. CASE UNCHANGED vars
  <2>1. UNCHANGED <<block, object, count, handle, task, crashed, disciplined>>
    BY <1>12 DEF vars
  <2>2. Typed' /\ Tasks' /\ Disciplined'
    BY <2>1 DEF IInv, Typed, Tasks, Busy, Disciplined
  <2>3. \A g : Gone(g)' <=> Gone(g)
    BY <2>1 DEF Gone
  <2>4. \A c : Holding(c)' = Holding(c) /\ Pending(c)' = Pending(c) /\ Sharing(c)' = Sharing(c)
    BY <2>1, <2>3 DEF Holding, Pending, Sharing
  <2>5. Counted'
    BY <2>1, <2>4 DEF IInv, Counted
  <2>6. ASSUME NEW c \in Blocks PROVE Living(c)'
    BY <2>1, <2>4 DEF IInv, Living, Destroys
  <2> QED
    BY <2>2, <2>5, <2>6 DEF IInv
<1> QED
  BY <1>1, <1>2, <1>3, <1>4, <1>5, <1>6, <1>7, <1>8, <1>9, <1>10, <1>11, <1>12 DEF Next, Step

LEMMA SpecIInv == Spec => []IInv
BY InitIInv, NextIInv, PTL DEF Spec

--------------------------------------------------------------------------------
(* What follows from the invariant *)

\* The handles that name b and hold no reference are those of the threads that have
\* just dropped it, one each.
LEMMA SharedOrDropped ==
  ASSUME IInv, NEW b \in Blocks
  PROVE  Cardinality(Sharing(b)) = Cardinality(Holding(b)) + Cardinality(Dropped(b))
<1> DEFINE Left == Sharing(b) \ Holding(b)
           to == [t \in Dropped(b) |-> task[t].to]
<1>1. \A t \in Threads : task[t].step # "idle" => Busy(t)
  BY StepIsBusy DEF IInv
<1>2. ASSUME NEW t \in Dropped(b) PROVE task[t].to \in Left
  BY <1>1 DEF Dropped, Busy, Sharing, Holding, Gone
<1>3. ASSUME NEW t \in Dropped(b), NEW u \in Dropped(b), task[t].to = task[u].to PROVE t = u
  BY <1>1, <1>3 DEF Dropped, Busy
<1>4. ASSUME NEW h \in Left PROVE \E t \in Dropped(b) : task[t].to = h
  <2>1. PICK t \in Threads : task[t].to = h /\ task[t].step \in {"destroy", "delete", "finish"}
    BY DEF Sharing, Holding, Gone
  <2>2. handle[h].m_control_block = b /\ Busy(t)
    BY <1>1, <2>1 DEF Sharing
  <2> QED
    BY <2>1, <2>2 DEF Dropped, Busy
<1>5. to \in Bijection(Dropped(b), Left)
  <2>1. to \in [Dropped(b) -> Left]
    BY <1>2
  <2>2. \A t, u \in Dropped(b) : to[t] = to[u] => t = u
    BY <1>3
  <2>3. \A h \in Left : \E t \in Dropped(b) : to[t] = h
    BY <1>4
  <2> HIDE DEF to, Left
  <2> QED
    BY <2>1, <2>2, <2>3, Fun_IsBij
<1>6. /\ IsFiniteSet(Sharing(b)) /\ IsFiniteSet(Holding(b)) /\ IsFiniteSet(Dropped(b))
      /\ IsFiniteSet(Left)
  BY FiniteRefs, FS_Difference
<1>7. Cardinality(Dropped(b)) = Cardinality(Left)
  BY <1>5, <1>6, FS_Bijection DEF ExistsBijection
<1>8. Sharing(b) = Holding(b) \cup Left /\ Holding(b) \cap Left = {}
  BY DEF Sharing, Holding
<1> HIDE DEF Left, to
<1>9. Cardinality(Sharing(b)) = Cardinality(Holding(b)) + Cardinality(Left) - Cardinality({})
  BY <1>6, <1>8, FS_Union
<1> QED
  BY <1>6, <1>7, <1>9, FS_CardinalityType, FS_EmptySet

\* Type correctness: no count exceeds what handles and threads together can hold, and
\* a thread in the middle of an operation is the user of both handles.
THEOREM TypeCorrect == Spec => []TypeOK
<1>1. IInv => TypeOK
  <2> SUFFICES ASSUME IInv PROVE TypeOK
    OBVIOUS
  <2>1. Typed /\ Tasks /\ Counted
    BY DEF IInv
  <2>2. ASSUME NEW b \in Blocks PROVE count[b] \in 0 .. Cardinality(Handles) + Cardinality(Threads)
    <3>1. Holding(b) \in SUBSET Handles /\ Pending(b) \in SUBSET Threads
      BY DEF Holding, Pending
    <3>2. Cardinality(Holding(b)) <= Cardinality(Handles)
          /\ Cardinality(Pending(b)) <= Cardinality(Threads)
      BY <3>1, FS_Subset, ArcAssumption
    <3>3. Cardinality(Handles) \in Nat /\ Cardinality(Threads) \in Nat
          /\ Cardinality(Holding(b)) \in Nat /\ Cardinality(Pending(b)) \in Nat
      BY FiniteRefs, FS_CardinalityType, ArcAssumption
    <3>4. count[b] = Cardinality(Holding(b)) + Cardinality(Pending(b))
      BY <2>1 DEF Counted
    <3> QED
      BY <3>2, <3>3, <3>4
  <2>3. count \in [Blocks -> 0 .. Cardinality(Handles) + Cardinality(Threads)]
    BY <2>1, <2>2 DEF Typed
  <2> QED
    BY <2>1, <2>3 DEF Typed, Tasks, Busy, TypeOK
<1> QED
  BY <1>1, SpecIInv, PTL

\* However the threads' steps interleave, m_num_shared is exact: it counts the
\* handles that name the block but those whose reference was just dropped, and the
\* references copy assignments have taken in advance.
THEOREM CountIsExact == Spec => []CountIsReferences
<1>1. IInv => CountIsReferences
  <2> SUFFICES ASSUME IInv, NEW b \in Blocks
               PROVE  count[b] + Cardinality(Dropped(b))
                        = Cardinality(Sharing(b)) + Cardinality(Pending(b))
    BY DEF CountIsReferences
  <2>1. count[b] = Cardinality(Holding(b)) + Cardinality(Pending(b))
    BY DEF IInv, Counted
  <2>2. /\ Cardinality(Holding(b)) \in Nat /\ Cardinality(Pending(b)) \in Nat
        /\ Cardinality(Dropped(b)) \in Nat
    BY FiniteRefs, FS_CardinalityType
  <2> QED
    BY <2>1, <2>2, SharedOrDropped
<1> QED
  BY <1>1, SpecIInv, PTL

\* A thread that touches a block, its object or its count finds them not freed, and
\* what get() returns of a handle that holds a reference is alive.
THEOREM UseBeforeFree == Spec => []NoUseAfterFree
<1>1. IInv => NoUseAfterFree
  <2> SUFFICES ASSUME IInv PROVE NoUseAfterFree
    OBVIOUS
  <2>types. Typed /\ \A b \in Blocks : Living(b)
    BY DEF IInv
  <2>1. ASSUME NEW t \in Threads, task[t].step \in {"release", "destroy", "delete"}
        PROVE  /\ block[task[t].drops] = "live"
               /\ task[t].step = "destroy" => object[task[t].drops] = "alive"
    <3>1. Busy(t)
      BY <2>1, StepIsBusy DEF IInv
    <3>2. CASE task[t].step = "release"
      <4>1. ~Gone(task[t].to)
        <5> SUFFICES ASSUME NEW u \in Threads, task[u].to = task[t].to,
                            task[u].step \in {"destroy", "delete", "finish"}
                     PROVE  FALSE
          BY DEF Gone
        <5>1. Busy(u)
          BY StepIsBusy DEF IInv
        <5> QED
          BY <3>1, <3>2, <5>1 DEF Busy
      <4>2. task[t].to \in Holding(task[t].drops)
        BY <3>1, <4>1 DEF Holding, Busy
      <4> QED
        BY <3>1, <3>2, <4>2, HolderLives DEF Busy
    <3>3. CASE task[t].step \in {"destroy", "delete"}
      BY <2>types, <3>1, <3>3 DEF Busy, Destroys, Living
    <3> QED
      BY <2>1, <3>2, <3>3
  <2>2. ASSUME NEW b \in Blocks, NEW h \in Sharing(b), \A t \in Dropped(b) : task[t].to # h
        PROVE  /\ block[b] = "live"
               /\ <<handle[h].m_ptr, object[b]>> \in {<<b, "alive">>, <<Null, "none">>}
    <3>1. ~Gone(h)
      <4> SUFFICES ASSUME NEW t \in Threads, task[t].to = h,
                          task[t].step \in {"destroy", "delete", "finish"}
                   PROVE  FALSE
        BY DEF Gone
      <4>1. Busy(t)
        BY StepIsBusy DEF IInv
      <4> QED
        BY <2>2, <4>1 DEF Busy, Sharing, Dropped
    <3>2. h \in Holding(b)
      BY <3>1 DEF Sharing, Holding
    <3>3. object[b] \in {"none", "alive", "destroyed"}
      BY <2>types DEF Typed
    <3> QED
      BY <3>2, <3>3, HolderLives
  <2> QED
    BY <2>1, <2>2 DEF NoUseAfterFree
<1> QED
  BY <1>1, SpecIInv, PTL

\* A block that no handle names has been deleted, and its object destroyed.
THEOREM NothingLeaks == Spec => []NoLeak
<1>1. IInv => NoLeak
  <2> SUFFICES ASSUME IInv, NEW b \in Blocks, Sharing(b) = {}
               PROVE  block[b] # "live" /\ object[b] # "alive"
    BY DEF NoLeak
  <2>1. Living(b) /\ Tasks
    BY DEF IInv
  <2>2. \A t \in Threads : ~Destroys(t, b)
    BY StepIsBusy DEF IInv, Destroys, Busy, Sharing
  <2>3. Holding(b) = {}
    BY DEF Holding, Sharing
  <2>4. Pending(b) = {}
    <3>1. \A t \in Threads : task[t].op = "copy" => task[t].from \in Handles
      BY <2>1 DEF Tasks, Busy, Idle
    <3> QED
      BY <3>1 DEF Pending, Sharing
  <2>5. ~(count[b] > 0)
    <3>1. count[b] = Cardinality({}) + Cardinality({})
      BY <2>3, <2>4 DEF IInv, Counted
    <3>2. Cardinality({}) = 0
      BY FS_EmptySet
    <3> QED
      BY <3>1, <3>2
  <2> QED
    BY <2>1, <2>2, <2>5 DEF Living
<1> QED
  BY <1>1, SpecIInv, PTL

\* Callers that use a moved-from handle only to destroy it, or construct another in
\* its place, meet no null m_control_block.
THEOREM DisciplineSuffices == Spec => []NoNullDereference
<1>1. IInv => NoNullDereference
  BY DEF IInv, Disciplined, NoNullDereference
<1> QED
  BY <1>1, SpecIInv, PTL

================================================================================
