------------------------------- MODULE Optional -------------------------------
(***************************************************************************)
(* Optional<T> (utility/optional.hpp): storage that holds an object of T    *)
(* exactly while m_has_value says so.  Constructing, copying and moving a T *)
(* may throw.  Move assignment to an empty optional, which as it is written *)
(* moves the other's storage, is modelled as it is meant: its value.        *)
(***************************************************************************)
CONSTANTS
  Optionals,       \* the objects of Optional<T>
  OptionalValues,
  MovedFrom,       \* the value of a T that was moved from
  NoObject         \* "no object lives in the storage"

ASSUME OptionalAssumption ==
  MovedFrom \notin OptionalValues /\ NoObject \notin OptionalValues \cup {MovedFrom}

VARIABLES
  opt_alive,       \* the optionals that exist
  m_storage,
  m_has_value,
  opt_result,      \* what the latest operation returned
  assigns_nothrow  \* whether T is nothrow copy-assignable

optionalVars == <<opt_alive, m_storage, m_has_value, opt_result, assigns_nothrow>>

OptionalInit ==
  /\ opt_alive = {}
  /\ m_storage = [o \in Optionals |-> NoObject]
  /\ m_has_value = [o \in Optionals |-> FALSE]
  /\ opt_result = "none"
  /\ assigns_nothrow \in BOOLEAN

--------------------------------------------------------------------------------
Same == UNCHANGED <<m_storage, m_has_value>>

\* Constructing or assigning a T throws, before anything has changed.
ThrowsUnchanged == opt_result' = "exception" /\ Same

\* The object x is constructed in o, or assigned to the one there.
Hold(o, x) ==
  /\ m_storage' = [m_storage EXCEPT ![o] = x]
  /\ m_has_value' = [m_has_value EXCEPT ![o] = TRUE]
  /\ opt_result' = "ok"

\* The object of p is moved into o, which leaves an object in p.
HoldMoved(o, p) ==
  /\ m_storage' = [m_storage EXCEPT ![o] = m_storage[p], ![p] = MovedFrom]
  /\ m_has_value' = [m_has_value EXCEPT ![o] = TRUE]
  /\ opt_result' = "ok"

DestroyValue(o) ==
  /\ m_storage' = [m_storage EXCEPT ![o] = NoObject]
  /\ m_has_value' = [m_has_value EXCEPT ![o] = FALSE]
  /\ opt_result' = "ok"

Nothing == opt_result' = "ok" /\ Same

\* Of an optional whose constructor threw there is nothing left.
Exists(o) == opt_alive' = IF opt_result' = "ok" THEN opt_alive \cup {o} ELSE opt_alive

\* Default, from a value, and in place.
ConstructOptional(o) ==
  /\ o \notin opt_alive
  /\ Nothing \/ (\E x \in OptionalValues : Hold(o, x)) \/ ThrowsUnchanged
  /\ Exists(o)

CopyConstruct(o, p) ==
  /\ o \notin opt_alive /\ p \in opt_alive
  /\ \/ m_has_value[p] /\ (Hold(o, m_storage[p]) \/ ThrowsUnchanged)
     \/ ~m_has_value[p] /\ Nothing
  /\ Exists(o)

MoveConstruct(o, p) ==
  /\ o \notin opt_alive /\ p \in opt_alive
  /\ \/ m_has_value[p] /\ (HoldMoved(o, p) \/ ThrowsUnchanged)
     \/ ~m_has_value[p] /\ Nothing
  /\ Exists(o)

\* The object is destroyed with the optional, if there is one.
DestructOptional(o) ==
  /\ o \in opt_alive
  /\ (m_has_value[o] /\ DestroyValue(o)) \/ (~m_has_value[o] /\ Nothing)
  /\ opt_alive' = opt_alive \ {o}

\* Mutant of CopyAssign: m_has_value is set before the value is constructed.
CopyAssignSetsFirst(o, p) ==
  /\ {o, p} \subseteq opt_alive
  /\ \/ m_has_value[p] /\ Hold(o, m_storage[p])
     \/ /\ m_has_value[p]
        /\ m_has_value' = [m_has_value EXCEPT ![o] = TRUE]
        /\ opt_result' = "exception"
        /\ UNCHANGED m_storage
  /\ UNCHANGED opt_alive

\* When both have values they are assigned, which then does not throw; for any
\* other T nothing is done.
CopyAssign(o, p) ==
  /\ {o, p} \subseteq opt_alive
  /\ \/ o = p /\ Nothing
     \/ /\ o # p /\ m_has_value[o] /\ m_has_value[p]
        /\ (assigns_nothrow /\ Hold(o, m_storage[p])) \/ (~assigns_nothrow /\ Nothing)
     \/ o # p /\ m_has_value[o] /\ ~m_has_value[p] /\ DestroyValue(o)
     \/ ~m_has_value[o] /\ m_has_value[p] /\ (Hold(o, m_storage[p]) \/ ThrowsUnchanged)
     \/ o # p /\ ~m_has_value[o] /\ ~m_has_value[p] /\ Nothing
  /\ UNCHANGED opt_alive

MoveAssign(o, p) ==
  /\ {o, p} \subseteq opt_alive
  /\ \/ o = p /\ Nothing
     \/ o # p /\ m_has_value[p] /\ (HoldMoved(o, p) \/ ThrowsUnchanged)
     \/ o # p /\ m_has_value[o] /\ ~m_has_value[p] /\ DestroyValue(o)
     \/ o # p /\ ~m_has_value[o] /\ ~m_has_value[p] /\ Nothing
  /\ UNCHANGED opt_alive

Value(o) ==
  /\ o \in opt_alive
  /\ opt_result' = IF m_has_value[o] THEN m_storage[o] ELSE "bad_optional_access"
  /\ Same
  /\ UNCHANGED opt_alive

OptionalNext ==
  /\ \E o \in Optionals :
       \/ ConstructOptional(o) \/ DestructOptional(o) \/ Value(o)
       \/ \E p \in Optionals :
            CopyConstruct(o, p) \/ MoveConstruct(o, p) \/ CopyAssign(o, p) \/ MoveAssign(o, p)
  /\ UNCHANGED assigns_nothrow

OptionalSpec == OptionalInit /\ [][OptionalNext]_optionalVars

--------------------------------------------------------------------------------
(* Properties *)

\* Lifetimes: an object lives in the storage exactly while m_has_value is set,
\* and only in an optional that exists, whatever throws: it is destroyed once,
\* and value() never returns what is not there.
LiveIffHasValue ==
  \A o \in Optionals :
    /\ m_storage[o] # NoObject <=> m_has_value[o]
    /\ m_has_value[o] => o \in opt_alive

================================================================================
