----------------------------- MODULE OwningPointer -----------------------------
(***************************************************************************)
(* OwningPointer<T, D> (memory/owning_pointer.hpp): handles that own an     *)
(* object and the deleter it is given back with.  Deleters have a state     *)
(* (the pool an object came from, say), so which one is called matters;     *)
(* they do not throw.                                                      *)
(***************************************************************************)
CONSTANTS
  Handles,
  Objects,
  Deleters,
  NoObject,   \* the null pointer
  MovedFrom,  \* a deleter that has been moved from
  NoDeleter   \* "no deleter", as of an object that was not deleted

ASSUME PointerAssumption ==
  /\ NoObject \notin Objects
  /\ {MovedFrom, NoDeleter} \cap Deleters = {} /\ MovedFrom # NoDeleter

VARIABLES
  alive,       \* the handles that exist
  m_ptr,
  m_deleter,
  callers,     \* the objects in the hands of a caller: new, or released
  deleter_of,  \* the deleter each object came with
  deleted_by   \* the deleter each object was deleted with

vars == <<alive, m_ptr, m_deleter, callers, deleter_of, deleted_by>>

Init ==
  /\ alive = {}
  /\ m_ptr = [h \in Handles |-> NoObject]
  /\ m_deleter = [h \in Handles |-> NoDeleter]
  /\ callers = Objects
  /\ deleter_of \in [Objects -> Deleters]
  /\ deleted_by = [o \in Objects |-> NoDeleter]

--------------------------------------------------------------------------------
\* The object of h, if any, is deleted by the deleter d.
DeleteWith(h, d) ==
  deleted_by' = [o \in Objects |-> IF o = m_ptr[h] THEN d ELSE deleted_by[o]]

\* A handle that owns nothing; its deleter is default-constructed.
ConstructEmpty(h, d) ==
  /\ h \notin alive
  /\ alive' = alive \cup {h}
  /\ m_ptr' = [m_ptr EXCEPT ![h] = NoObject]
  /\ m_deleter' = [m_deleter EXCEPT ![h] = d]
  /\ UNCHANGED <<callers, deleter_of, deleted_by>>

\* A caller hands over an object together with the deleter it came with.
Construct(h, o) ==
  /\ h \notin alive /\ o \in callers
  /\ alive' = alive \cup {h}
  /\ m_ptr' = [m_ptr EXCEPT ![h] = o]
  /\ m_deleter' = [m_deleter EXCEPT ![h] = deleter_of[o]]
  /\ callers' = callers \ {o}
  /\ UNCHANGED <<deleter_of, deleted_by>>

\* Mutant of MoveConstruct: the other handle keeps its pointer.
MoveConstructShares(h, g) ==
  /\ h \notin alive /\ g \in alive
  /\ alive' = alive \cup {h}
  /\ m_ptr' = [m_ptr EXCEPT ![h] = m_ptr[g]]
  /\ m_deleter' = [m_deleter EXCEPT ![h] = m_deleter[g], ![g] = MovedFrom]
  /\ UNCHANGED <<callers, deleter_of, deleted_by>>

MoveConstruct(h, g) ==
  /\ h \notin alive /\ g \in alive
  /\ alive' = alive \cup {h}
  /\ m_ptr' = [m_ptr EXCEPT ![h] = m_ptr[g], ![g] = NoObject]
  /\ m_deleter' = [m_deleter EXCEPT ![h] = m_deleter[g], ![g] = MovedFrom]
  /\ UNCHANGED <<callers, deleter_of, deleted_by>>

Destruct(h) ==
  /\ h \in alive
  /\ DeleteWith(h, m_deleter[h])
  /\ alive' = alive \ {h}
  /\ m_ptr' = [m_ptr EXCEPT ![h] = NoObject]
  /\ m_deleter' = [m_deleter EXCEPT ![h] = NoDeleter]
  /\ UNCHANGED <<callers, deleter_of>>

\* Mutant of MoveAssign: the handle's own object is not deleted.
MoveAssignLeaks(h, g) ==
  /\ h \in alive /\ g \in alive /\ h # g
  /\ m_deleter' = [m_deleter EXCEPT ![h] = m_deleter[g], ![g] = MovedFrom]
  /\ m_ptr' = [m_ptr EXCEPT ![h] = m_ptr[g], ![g] = NoObject]
  /\ UNCHANGED <<alive, callers, deleter_of, deleted_by>>

\* Mutant of MoveAssign: the deleter stays with the other handle.
MoveAssignKeepsDeleter(h, g) ==
  /\ h \in alive /\ g \in alive /\ h # g
  /\ DeleteWith(h, m_deleter[h])
  /\ m_ptr' = [m_ptr EXCEPT ![h] = m_ptr[g], ![g] = NoObject]
  /\ UNCHANGED <<alive, callers, deleter_of, m_deleter>>

\* The other's deleter is taken over first, and deletes the handle's own object.
MoveAssign(h, g) ==
  /\ h \in alive /\ g \in alive
  /\ \/ h = g /\ UNCHANGED <<m_ptr, m_deleter, deleted_by>>
     \/ /\ h # g
        /\ m_deleter' = [m_deleter EXCEPT ![h] = m_deleter[g], ![g] = MovedFrom]
        /\ DeleteWith(h, m_deleter[g])
        /\ m_ptr' = [m_ptr EXCEPT ![h] = m_ptr[g], ![g] = NoObject]
  /\ UNCHANGED <<alive, callers, deleter_of>>

AssignNull(h) ==
  /\ h \in alive
  /\ DeleteWith(h, m_deleter[h])
  /\ m_ptr' = [m_ptr EXCEPT ![h] = NoObject]
  /\ UNCHANGED <<alive, m_deleter, callers, deleter_of>>

Release(h) ==
  /\ h \in alive
  /\ callers' = callers \cup ({m_ptr[h]} \ {NoObject})
  /\ m_ptr' = [m_ptr EXCEPT ![h] = NoObject]
  /\ UNCHANGED <<alive, m_deleter, deleter_of, deleted_by>>

Next ==
  \E h \in Handles :
    \/ \E d \in Deleters : ConstructEmpty(h, d)
    \/ \E o \in Objects : Construct(h, o)
    \/ \E g \in Handles : MoveConstruct(h, g) \/ MoveAssign(h, g)
    \/ Destruct(h) \/ AssignNull(h) \/ Release(h)

Spec == Init /\ [][Next]_vars

--------------------------------------------------------------------------------
(* Properties *)

\* The variables keep their types, and exactly the handles that exist
\* have a deleter and may own something.
TypeOK ==
  /\ alive \subseteq Handles
  /\ m_ptr \in [Handles -> Objects \cup {NoObject}]
  /\ \A h \in Handles \ alive : m_ptr[h] = NoObject
  /\ \A h \in Handles : m_deleter[h] = NoDeleter <=> h \notin alive
  /\ m_deleter \in [Handles -> Deleters \cup {MovedFrom, NoDeleter}]
  /\ callers \subseteq Objects
  /\ deleter_of \in [Objects -> Deleters]
  /\ deleted_by \in [Objects -> Deleters \cup {MovedFrom, NoDeleter}]

Owners(o) == {h \in alive : m_ptr[h] = o}

Deleted(o) == deleted_by[o] # NoDeleter

\* "Only one OwningPointer can own the object at any time": an object has one
\* owner, or is in a caller's hands, or was deleted, and never two of these, so
\* that it is deleted once and no pointer dangles.
UniqueOwnership ==
  \A o \in Objects :
    /\ \A g, h \in Owners(o) : g = h
    /\ Owners(o) # {} => o \notin callers /\ ~Deleted(o)
    /\ o \in callers => ~Deleted(o)

\* No object is lost: one that is neither deleted nor in a caller's hands has
\* an owner.
NoLeak == \A o \in Objects : Deleted(o) \/ o \in callers \/ Owners(o) # {}

\* A handle that owns an object has a deleter that was not moved away: the one
\* the object came with.
OwnerHasDeleter ==
  \A h \in alive : m_ptr[h] # NoObject => m_deleter[h] = deleter_of[m_ptr[h]]

================================================================================
