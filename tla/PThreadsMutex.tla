---------------------------- MODULE PThreadsMutex ----------------------------
(***************************************************************************)
(* PThreadsMutex (threading/pthreads_mutex.hpp): a std::mutex look-alike   *)
(* on top of an error-checking pthread mutex.  The constructor makes        *)
(* several system calls of which each may fail; lock, try_lock and unlock   *)
(* turn error codes into results and exceptions.                           *)
(*                                                                         *)
(* The pthread library is modelled from how the class uses it: of a mutex   *)
(* of type ERRORCHECK, lock by the owner returns EDEADLK, trylock of an     *)
(* owned one EBUSY, unlock by anybody but the owner EPERM, and destroy of   *)
(* an owned one EBUSY; of type NORMAL, lock by the owner waits for ever and *)
(* unlock is not checked.                                                  *)
(***************************************************************************)
EXTENDS Naturals, FiniteSets

CONSTANTS
  Threads,
  Mutexes,      \* storage for PThreadsMutex objects
  NoOwner,     \* "nobody owns it"
  NoMutex,      \* "not in a call on any mutex"
  CallsMayFail  \* whether the system calls of the constructor may fail

ASSUME MutexAssumption ==
  /\ NoOwner \notin Threads
  /\ NoMutex \notin Mutexes
  /\ CallsMayFail \in BOOLEAN

VARIABLES
  object,   \* of each object: "none", "building" in its constructor, "alive"
  kind,     \* of each pthread_mutex_t: "uninit", "NORMAL" or "ERRORCHECK"
  owner,    \* its owner
  attr,     \* the constructor's attribute object: "none", "DEFAULT", "ERRORCHECK"
  position,       \* where each thread is
  on,       \* the mutex of the call it is in
  last,     \* how its latest call ended
  holds     \* the mutexes each thread was told it locked and not told it unlocked

libraryVars == <<kind, owner, attr>>
pthreadsVars == <<object, libraryVars, position, on, last, holds>>

PThreadsInit ==
  /\ object = [m \in Mutexes |-> "none"]
  /\ kind = [m \in Mutexes |-> "uninit"]
  /\ owner = [m \in Mutexes |-> NoOwner]
  /\ attr = [m \in Mutexes |-> "none"]
  /\ position = [t \in Threads |-> "idle"]
  /\ on = [t \in Threads |-> NoMutex]
  /\ last = [t \in Threads |-> "none"]
  /\ holds = [t \in Threads |-> {}]

Proceed(t, from, to) ==
  /\ position[t] = from
  /\ position' = [position EXCEPT ![t] = to]

Return(t, result) ==
  /\ position' = [position EXCEPT ![t] = "idle"]
  /\ on' = [on EXCEPT ![t] = NoMutex]
  /\ last' = [last EXCEPT ![t] = result]

--------------------------------------------------------------------------------
(* The constructor *)

Construct(t, m) ==
  /\ object[m] = "none"
  /\ Proceed(t, "idle", "attr_init")
  /\ object' = [object EXCEPT ![m] = "building"]
  /\ kind' = [kind EXCEPT ![m] = "uninit"]
  /\ owner' = [owner EXCEPT ![m] = NoOwner]
  /\ on' = [on EXCEPT ![t] = m]
  /\ UNCHANGED <<attr, last, holds>>

AttrInit(t) ==
  \/ /\ Proceed(t, "attr_init", "settype")
     /\ attr' = [attr EXCEPT ![on[t]] = "DEFAULT"]
     /\ UNCHANGED <<object, kind, owner, on, last, holds>>
  \/ /\ CallsMayFail
     /\ position[t] = "attr_init"
     /\ Return(t, "ctor_threw")
     /\ object' = [object EXCEPT ![on[t]] = "none"]
     /\ UNCHANGED <<libraryVars, holds>>

\* Mutant of SetType: the attribute keeps its default type.
SetTypeForgotten(t) ==
  /\ Proceed(t, "settype", "mutex_init")
  /\ UNCHANGED <<object, libraryVars, on, last, holds>>

SetType(t) ==
  \/ /\ Proceed(t, "settype", "mutex_init")
     /\ attr' = [attr EXCEPT ![on[t]] = "ERRORCHECK"]
     /\ UNCHANGED <<object, kind, owner, on, last, holds>>
  \/ /\ CallsMayFail
     /\ Proceed(t, "settype", "catch")
     /\ UNCHANGED <<object, libraryVars, on, last, holds>>

MutexInit(t) ==
  \/ /\ Proceed(t, "mutex_init", "attr_destroy")
     /\ kind' = [kind EXCEPT ![on[t]] =
                   IF attr[on[t]] = "ERRORCHECK" THEN "ERRORCHECK" ELSE "NORMAL"]
     /\ owner' = [owner EXCEPT ![on[t]] = NoOwner]
     /\ UNCHANGED <<object, attr, on, last, holds>>
  \/ /\ CallsMayFail
     /\ Proceed(t, "mutex_init", "catch")
     /\ UNCHANGED <<object, libraryVars, on, last, holds>>

\* Mutant of Catch: rethrows without destroying the attribute.
CatchLeaksAttr(t) ==
  /\ position[t] = "catch"
  /\ Return(t, "ctor_threw")
  /\ object' = [object EXCEPT ![on[t]] = "none"]
  /\ UNCHANGED <<kind, owner, attr, holds>>

\* catch (...): the attribute is destroyed and the exception goes on.
Catch(t) ==
  /\ position[t] = "catch"
  /\ Return(t, "ctor_threw")
  /\ attr' = [attr EXCEPT ![on[t]] = "none"]
  /\ object' = [object EXCEPT ![on[t]] = "none"]
  /\ UNCHANGED <<kind, owner, holds>>

AttrDestroy(t) ==
  /\ position[t] = "attr_destroy"
  /\ Return(t, "constructed")
  /\ attr' = [attr EXCEPT ![on[t]] = "none"]
  /\ object' = [object EXCEPT ![on[t]] = "alive"]
  /\ UNCHANGED <<kind, owner, holds>>

\* The destructor, run when no thread is in a call on m.  A mutex that is still
\* locked is not destroyed (EBUSY, ignored), but the object is gone all the same.
Destruct(t, m) ==
  /\ object[m] = "alive"
  /\ position[t] = "idle"
  /\ \A u \in Threads : on[u] # m
  /\ object' = [object EXCEPT ![m] = "none"]
  /\ kind' = [kind EXCEPT ![m] = IF owner[m] = NoOwner THEN "uninit" ELSE @]
  /\ holds' = [u \in Threads |-> holds[u] \ {m}]
  /\ UNCHANGED <<owner, attr, position, on, last>>

--------------------------------------------------------------------------------
(* lock, try_lock, unlock: any thread may call them on any living object. *)

Call(t, m, function) ==
  /\ object[m] = "alive"
  /\ Proceed(t, "idle", function)
  /\ on' = [on EXCEPT ![t] = m]
  /\ UNCHANGED <<object, libraryVars, last, holds>>

\* The pthread library gives on[t] to t.
Take(t) ==
  /\ owner' = [owner EXCEPT ![on[t]] = t]
  /\ holds' = [holds EXCEPT ![t] = @ \cup {on[t]}]
  /\ UNCHANGED <<object, kind, attr>>

Keep == UNCHANGED <<object, libraryVars, holds>>

lock(t) ==
  /\ position[t] = "lock"
  /\ \/ /\ owner[on[t]] = NoOwner
        /\ Return(t, "locked")
        /\ Take(t)
     \/ /\ owner[on[t]] = t /\ kind[on[t]] = "ERRORCHECK"
        /\ Return(t, "lock_threw")
        /\ Keep
     \/ /\ owner[on[t]] # NoOwner
        /\ owner[on[t]] # t \/ kind[on[t]] = "NORMAL"
        /\ Proceed(t, "lock", "waiting")
        /\ UNCHANGED <<on, last>>
        /\ Keep

\* pthread_mutex_lock wakes up when the mutex is free.
Granted(t) ==
  /\ position[t] = "waiting"
  /\ owner[on[t]] = NoOwner
  /\ Return(t, "locked")
  /\ Take(t)

\* Mutant of try_lock: EBUSY counts as success.
TryLockIgnoresBusy(t) ==
  /\ position[t] = "try_lock"
  /\ Return(t, "locked")
  /\ holds' = [holds EXCEPT ![t] = @ \cup {on[t]}]
  /\ owner' = [owner EXCEPT ![on[t]] = IF @ = NoOwner THEN t ELSE @]
  /\ UNCHANGED <<object, kind, attr>>

try_lock(t) ==
  /\ position[t] = "try_lock"
  /\ \/ /\ owner[on[t]] = NoOwner
        /\ Return(t, "locked")
        /\ Take(t)
     \/ /\ owner[on[t]] # NoOwner
        /\ Return(t, "false")
        /\ Keep

unlock(t) ==
  /\ position[t] = "unlock"
  /\ \/ /\ owner[on[t]] = t \/ kind[on[t]] = "NORMAL"
        /\ Return(t, "unlocked")
        /\ owner' = [owner EXCEPT ![on[t]] = NoOwner]
        /\ holds' = [holds EXCEPT ![t] = @ \ {on[t]}]
        /\ UNCHANGED <<object, kind, attr>>
     \/ /\ owner[on[t]] # t /\ kind[on[t]] = "ERRORCHECK"
        /\ Return(t, "unlock_threw")
        /\ Keep

--------------------------------------------------------------------------------
PThreadsNext ==
  \E t \in Threads :
    \/ \E m \in Mutexes :
         \/ Construct(t, m)
         \/ Destruct(t, m)
         \/ \E function \in {"lock", "try_lock", "unlock"} : Call(t, m, function)
    \/ AttrInit(t) \/ SetType(t) \/ MutexInit(t) \/ Catch(t) \/ AttrDestroy(t)
    \/ lock(t) \/ Granted(t) \/ try_lock(t) \/ unlock(t)

PThreadsSpec == PThreadsInit /\ [][PThreadsNext]_pthreadsVars

--------------------------------------------------------------------------------
(* Properties *)

Building == {"attr_init", "settype", "mutex_init", "catch", "attr_destroy"}

\* The variables keep their types: no mutex of another type than ERRORCHECK is
\* ever initialized, and a call is on a mutex exactly while it runs.
PThreadsTypeOK ==
  /\ object \in [Mutexes -> {"none", "building", "alive"}]
  /\ kind \in [Mutexes -> {"uninit", "ERRORCHECK"}]
  /\ owner \in [Mutexes -> Threads \cup {NoOwner}]
  /\ attr \in [Mutexes -> {"none", "DEFAULT", "ERRORCHECK"}]
  /\ position \in [Threads ->
               Building \cup {"idle", "lock", "waiting", "try_lock", "unlock"}]
  /\ on \in [Threads -> Mutexes \cup {NoMutex}]
  /\ last \in [Threads -> {"none", "ctor_threw", "constructed", "locked", "false",
                           "lock_threw", "unlocked", "unlock_threw"}]
  /\ holds \in [Threads -> SUBSET Mutexes]
  /\ \A t \in Threads : position[t] = "idle" <=> on[t] = NoMutex

\* Construction is all or nothing, whichever of the system calls failed: when it
\* is over its attribute object is destroyed, a living object has a usable mutex,
\* and no mutex outlives its object but one destroyed while locked.
ConstructionCleansUp ==
  \A m \in Mutexes :
    /\ object[m] # "building" => attr[m] = "none"
    /\ object[m] = "alive" => kind[m] = "ERRORCHECK"
    /\ object[m] = "none" => kind[m] = "uninit" \/ owner[m] # NoOwner

\* Mutual exclusion: of the threads that were told they locked a mutex there is
\* at most one, and it is the owner.
MutualExclusion ==
  \A t \in Threads : \A m \in holds[t] : owner[m] = t

\* Relocking is detected: no thread waits for a mutex that it owns itself.
NoSelfDeadlock ==
  \A t \in Threads : position[t] = "waiting" => owner[on[t]] # t

================================================================================
