------------------------------ MODULE ArcPointer ------------------------------
(***************************************************************************)
(* ArcPointer<T> (arc_pointer.hpp): handles that share an object through a *)
(* control block with an atomic count.  Each handle is used by one thread  *)
(* at a time and may be handed to another thread; the control blocks are   *)
(* shared, and dropping a reference takes several steps: the decrement,    *)
(* and for the one that reaches zero the destruction of the object and of  *)
(* the block.                                                              *)
(*                                                                         *)
(* A block stands for itself and for the object it manages.  Dereferencing *)
(* a null m_control_block ends the program (crashed).                      *)
(***************************************************************************)
EXTENDS Naturals, FiniteSets

CONSTANTS
  Threads,
  Handles,     \* storage for ArcPointer objects
  Blocks,      \* control blocks; bound: as many are allocated in a run
  Null

ASSUME ArcAssumption ==
  /\ IsFiniteSet(Handles) /\ IsFiniteSet(Threads)
  /\ Null \notin Blocks \cup Handles \cup Threads

VARIABLES
  block,     \* of each control block: "unused", "live", "deleted"
  object,    \* of the object it manages: "none", "alive", "destroyed"
  count,     \* m_num_shared
  handle,    \* of each handle: its user (Null if not constructed) and members
  task,      \* what each thread is in the middle of
  crashed,   \* whether a null pointer was dereferenced
  disciplined  \* whether callers copy, move and assign only non-empty handles,
               \* and none to itself

vars == <<block, object, count, handle, task, crashed, disciplined>>

NoHandle == [user |-> Null, m_control_block |-> Null, m_ptr |-> Null]

\* A thread works on handle `to', with `from' the right-hand side of an
\* assignment and `drops' the block whose reference is being dropped.
Idle == [step |-> "idle", op |-> "none", to |-> Null, from |-> Null, drops |-> Null]

Init ==
  /\ block = [b \in Blocks |-> "unused"]
  /\ object = [b \in Blocks |-> "none"]
  /\ count = [b \in Blocks |-> 0]
  /\ handle = [h \in Handles |-> NoHandle]
  /\ task = [t \in Threads |-> Idle]
  /\ crashed = FALSE
  /\ disciplined \in BOOLEAN

\* The thread is between two operations and may use the handle.
Uses(t, h) == ~crashed /\ task[t] = Idle /\ handle[h].user = t
Fresh(t, h) == ~crashed /\ task[t] = Idle /\ handle[h] = NoHandle

\* What disciplined callers require of the handles they copy, move or assign.
Sound(h) == disciplined => handle[h].m_control_block # Null

Crash == crashed' = TRUE /\ UNCHANGED <<block, object, count, handle, task>>

--------------------------------------------------------------------------------
(* Constructors *)

\* From a pointer to an object, or from nothing: a new control block.
Construct(t, h, b, content) ==
  /\ Fresh(t, h)
  /\ block[b] = "unused"
  /\ block' = [block EXCEPT ![b] = "live"]
  /\ object' = [object EXCEPT ![b] = content]
  /\ count' = [count EXCEPT ![b] = 1]
  /\ handle' = [handle EXCEPT ![h] =
       [user |-> t, m_control_block |-> b,
        m_ptr |-> IF content = "alive" THEN b ELSE Null]]
  /\ UNCHANGED <<task, crashed>>

CopyConstruct(t, h, o) ==
  /\ Fresh(t, h)
  /\ Uses(t, o)
  /\ Sound(o)
  /\ LET b == handle[o].m_control_block IN
     \/ b = Null /\ Crash
     \/ /\ b # Null
        /\ count' = [count EXCEPT ![b] = @ + 1]
        /\ handle' = [handle EXCEPT ![h] = handle[o]]
        /\ UNCHANGED <<block, object, task, crashed>>

MoveConstruct(t, h, o) ==
  /\ Fresh(t, h)
  /\ Uses(t, o)
  /\ handle' = [handle EXCEPT ![h] = handle[o],
                              ![o] = [NoHandle EXCEPT !.user = t]]
  /\ UNCHANGED <<block, object, count, task, crashed>>

--------------------------------------------------------------------------------
(* Assignments and the destructor: what comes before and after release_ref. *)

Begin(t, op, h, o) ==
  task' = [task EXCEPT ![t] =
             [step |-> "release", op |-> op, to |-> h, from |-> o,
              drops |-> handle[h].m_control_block]]

\* Mutant of CopyAssign: the new reference is not counted.
CopyAssignUncounted(t, h, o) ==
  /\ Uses(t, h) /\ Uses(t, o) /\ Sound(h) /\ Sound(o)
  /\ handle[h].m_control_block # handle[o].m_control_block
  /\ \/ Null \in {handle[h].m_control_block, handle[o].m_control_block} /\ Crash
     \/ /\ Null \notin {handle[h].m_control_block, handle[o].m_control_block}
        /\ Begin(t, "copy", h, o)
        /\ UNCHANGED <<block, object, count, handle, crashed>>

\* Handles that share the block already are left alone (a handle and itself do).
CopyAssign(t, h, o) ==
  /\ Uses(t, h) /\ Uses(t, o) /\ Sound(h) /\ Sound(o)
  /\ LET old == handle[h].m_control_block
         new == handle[o].m_control_block
     IN  /\ old # new
         /\ \/ (new = Null \/ old = Null) /\ Crash
            \/ /\ new # Null /\ old # Null
               /\ count' = [count EXCEPT ![new] = @ + 1]
               /\ Begin(t, "copy", h, o)
               /\ UNCHANGED <<block, object, handle, crashed>>

\* There is no test for self-assignment.
MoveAssign(t, h, o) ==
  /\ Uses(t, h) /\ Uses(t, o) /\ Sound(h) /\ Sound(o)
  /\ disciplined => h # o
  /\ \/ handle[h].m_control_block = Null /\ Crash
     \/ /\ handle[h].m_control_block # Null
        /\ Begin(t, "move", h, o)
        /\ UNCHANGED <<block, object, count, handle, crashed>>

\* Mutant of Destruct: the null test is dropped.
DestructUnchecked(t, h) ==
  /\ Uses(t, h)
  /\ \/ handle[h].m_control_block = Null /\ Crash
     \/ /\ handle[h].m_control_block # Null
        /\ Begin(t, "destruct", h, h)
        /\ UNCHANGED <<block, object, count, handle, crashed>>

Destruct(t, h) ==
  /\ Uses(t, h)
  /\ \/ /\ handle[h].m_control_block = Null
        /\ handle' = [handle EXCEPT ![h] = NoHandle]
        /\ UNCHANGED <<block, object, count, task, crashed>>
     \/ /\ handle[h].m_control_block # Null
        /\ Begin(t, "destruct", h, h)
        /\ UNCHANGED <<block, object, count, handle, crashed>>

\* The members are copied after the reference was dropped; a move leaves `from'
\* without control block but with its m_ptr (lines 111 and 112 are the same).
Finish(t) ==
  LET h == task[t].to
      o == task[t].from
  IN  /\ ~crashed
      /\ task[t].step = "finish"
      /\ \/ /\ task[t].op = "destruct"
            /\ handle' = [handle EXCEPT ![h] = NoHandle]
         \/ /\ task[t].op = "copy"
            /\ handle' = [handle EXCEPT ![h] = handle[o]]
         \/ /\ task[t].op = "move"
            /\ handle' = [handle EXCEPT ![h] = handle[o],
                                        ![o].m_control_block = Null]
      /\ task' = [task EXCEPT ![t] = Idle]
      /\ UNCHANGED <<block, object, count, crashed>>

--------------------------------------------------------------------------------
(* release_ref *)

\* Mutant of Release: the count is decremented, then read again for the test.
ReleaseInTwoSteps(t) ==
  LET b == task[t].drops IN
  /\ ~crashed
  /\ \/ /\ task[t].step = "release"
        /\ count' = [count EXCEPT ![b] = @ - 1]
        /\ task' = [task EXCEPT ![t].step = "test"]
     \/ /\ task[t].step = "test"
        /\ task' = [task EXCEPT ![t].step =
                      IF count[b] # 0 THEN "finish"
                      ELSE IF object[b] = "none" THEN "delete" ELSE "destroy"]
        /\ UNCHANGED count
  /\ UNCHANGED <<block, object, handle, crashed>>

\* The decrement and the test of its result are one atomic operation.
Release(t) ==
  LET b == task[t].drops IN
  /\ ~crashed
  /\ task[t].step = "release"
  /\ count' = [count EXCEPT ![b] = @ - 1]
  /\ task' = [task EXCEPT ![t].step =
                IF count'[b] # 0 THEN "finish"
                ELSE IF object[b] = "none" THEN "delete" ELSE "destroy"]
  /\ UNCHANGED <<block, object, handle, crashed>>

DestroyObject(t) ==
  /\ ~crashed
  /\ task[t].step = "destroy"
  /\ object' = [object EXCEPT ![task[t].drops] = "destroyed"]
  /\ task' = [task EXCEPT ![t].step = "delete"]
  /\ UNCHANGED <<block, count, handle, crashed>>

\* Mutant of DeleteBlock: the block is not deleted.
DeleteBlockForgotten(t) ==
  /\ ~crashed
  /\ task[t].step = "delete"
  /\ task' = [task EXCEPT ![t].step = "finish"]
  /\ UNCHANGED <<block, object, count, handle, crashed>>

DeleteBlock(t) ==
  /\ ~crashed
  /\ task[t].step = "delete"
  /\ block' = [block EXCEPT ![task[t].drops] = "deleted"]
  /\ task' = [task EXCEPT ![t].step = "finish"]
  /\ UNCHANGED <<object, count, handle, crashed>>

--------------------------------------------------------------------------------
\* The program gives a handle to another thread, which from then on is the only
\* one to use it.
HandOver(t, u, h) ==
  /\ Uses(t, h)
  /\ u # t
  /\ handle' = [handle EXCEPT ![h].user = u]
  /\ UNCHANGED <<block, object, count, task, crashed>>

Step ==
  \E t \in Threads :
    \/ \E h \in Handles :
         \/ \E b \in Blocks : \E content \in {"alive", "none"} :
              Construct(t, h, b, content)
         \/ \E o \in Handles :
              \/ CopyConstruct(t, h, o) \/ MoveConstruct(t, h, o)
              \/ CopyAssign(t, h, o) \/ MoveAssign(t, h, o)
         \/ Destruct(t, h)
         \/ \E u \in Threads : HandOver(t, u, h)
    \/ Release(t) \/ DestroyObject(t) \/ DeleteBlock(t) \/ Finish(t)

Next == Step /\ UNCHANGED disciplined

Spec == Init /\ [][Next]_vars

--------------------------------------------------------------------------------
(* Properties *)

\* Threads that have dropped the reference of a handle which still names b.
Dropped(b) ==
  {t \in Threads : task[t].drops = b /\ task[t].step \in {"destroy", "delete", "finish"}}

\* Threads that hold a counted reference to b for an unfinished copy assignment.
Pending(b) ==
  {t \in Threads : /\ task[t].op = "copy"
                   /\ handle[task[t].from].m_control_block = b}

Sharing(b) == {h \in Handles : handle[h].m_control_block = b}

\* The types, and no thread is in the middle of an operation on a handle that
\* another thread uses.
TypeOK ==
  /\ block \in [Blocks -> {"unused", "live", "deleted"}]
  /\ object \in [Blocks -> {"none", "alive", "destroyed"}]
  /\ count \in [Blocks -> 0 .. Cardinality(Handles) + Cardinality(Threads)]
  /\ handle \in [Handles -> [user : Threads \cup {Null},
                             m_control_block : Blocks \cup {Null},
                             m_ptr : Blocks \cup {Null}]]
  /\ \A t \in Threads :
       task[t] # Idle => /\ handle[task[t].to].user = t
                         /\ handle[task[t].from].user = t
  /\ {crashed, disciplined} \subseteq BOOLEAN

\* The count is the number of references: the handles that name the block, less
\* those just dropped, plus those an assignment has taken in advance.
CountIsReferences ==
  \A b \in Blocks :
    count[b] + Cardinality(Dropped(b))
      = Cardinality(Sharing(b)) + Cardinality(Pending(b))

\* No use after free: whoever is about to touch a block finds it live, destroys
\* its object at most once, and what get() returns of a handle that has a control
\* block and is not being dropped is that block's object, alive, or null.
NoUseAfterFree ==
  /\ \A t \in Threads :
       /\ task[t].step \in {"release", "destroy", "delete"}
            => block[task[t].drops] = "live"
       /\ task[t].step = "destroy" => object[task[t].drops] = "alive"
  /\ \A b \in Blocks : \A h \in Sharing(b) :
       (\A t \in Dropped(b) : task[t].to # h)
         => /\ block[b] = "live"
            /\ <<handle[h].m_ptr, object[b]>> \in {<<b, "alive">>, <<Null, "none">>}

\* No leak: a block that no handle names is gone, with its object.
NoLeak ==
  \A b \in Blocks :
    Sharing(b) = {} => block[b] # "live" /\ object[b] # "alive"

\* Callers that use no moved-from handle but to destroy it, or to construct one
\* in its place, never make the code dereference a null m_control_block.
NoNullDereference == disciplined => ~crashed

================================================================================
