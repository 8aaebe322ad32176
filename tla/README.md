# A TLA+ model of CppPlayground

CppPlayground is a collection of C++ experiments: two concurrent queues, a
thread start gate, a mutex, reference-counted and owning pointers, containers of
fixed capacity, a cache, matrix views and a few demonstrations. This directory
keeps TLA+ models of the parts that have state to get wrong, TLC
configurations that check them on small instances, and TLAPS proofs of the most
important results for every value of the constants.

`tlc -config X.cfg M` checks a run (the table below says which module a
configuration belongs to), `tlapm M.tla` a module of proofs. `PROJECT.json` maps
each definition to the lines it models, lists the hazards of the code and names,
for each property, a mutant: a variant of one definition, with a bug, that the
property refutes. The mutants stand next to the definitions they change.

## The system

The parts are independent of each other, except that `OwningPointer` and
`ArcPointer` share `deleter.hpp` and `concepts.hpp`. What interacts are the
*users* of a part: threads that call a queue, handles that share an object,
vectors that are assigned to one another.

| part | state | operations | what is hard | what makes it correct |
|---|---|---|---|---|
| `BoundedBlockingQueue` (`concurrency/mpsc_blocking_queue.hpp`) | a `std::queue`, a mutex, two condition variables | `push`, `emplace`, `pop`, from any thread | interleaving, spurious and stolen wakeups, notification after unlock, elements that throw | bounded, linearizable FIFO; no wakeup lost; every call returns |
| `LFSPSCQueue` (`concurrency/lf_spsc_queue.hpp`) | a ring of raw slots, two atomic indices | `try_push` (producer), `try_pop` (consumer) | weak memory: stale loads, publication; wrapping; throwing moves | no data race, element lifetimes, FIFO, delivery |
| `ThreadRacer` (`src/thread_racer.cpp`) | counter, mutex, condition variable, promises | create, wait at the gate, race, gather, join | notification without the mutex; creation that fails | nobody starts early; everybody starts |
| `PThreadsMutex` (`threading/pthreads_mutex.hpp`) | a `pthread_mutex_t` | constructor, destructor, `lock`, `try_lock`, `unlock` | three system calls that fail; misuse by callers | mutual exclusion, clean-up, relocking detected |
| `ArcPointer` (`arc_pointer.hpp`) | control blocks with an atomic count; handles | constructors, assignments, destructor | releases by several threads; moved-from handles | exact count, no use after free, no leak |
| `OwningPointer` (`memory/owning_pointer.hpp`) | pointer and deleter | constructors, assignments, `release`, destructor | moves in circles, stateful deleters | one owner, deleted once, right deleter |
| `FixedCapacityQueue` (`containers/fixed_capacity_queue.hpp`) | ring of raw slots, head, size | `emplace`, `push`, `pop`, `clear` | wrapping, lifetimes, throwing elements | live slots match head and size; FIFO |
| `FixedCapacityVector` (`containers/fixed_capacity_vector.hpp`) | raw buffer, size | constructors, assignments between capacities, `resize`, `push_back`, ... | an element that throws in the middle | live elements match the size; sequence semantics |
| `LRUCache` (`containers/lru_cache.hpp`) | list of entries, hash map of iterators | `insert`, `get` | two structures kept consistent by hand, with throws between | no dangling iterator; LRU semantics |
| matrix views (`src/matrix_view.cpp`) | offset, size, strides | subview, crop, reshape, transpose, stride | composition of views, index arithmetic that wraps | cells distinct and inside; each operation rearranges as promised |
| `MemoryPool` (`memory/pool_allocator.hpp`) | slots, free list in their bytes | `allocate`, `deallocate` | link and object share storage; constructors that throw or write | the free list is the free slots; none handed out twice |
| `Optional` (`utility/optional.hpp`) | storage, flag | constructors, assignments, `value`, destructor | constructions and assignments that throw | the flag says whether an object lives |
| `Function` (`functional/function.hpp`) | a `unique_ptr` to a callable | construct, assign, move, call, destroy | callables that use `Function`s while they run | each callable owned once, and alive while it runs |
| `compile_time_gcd` (`compile_time_gcd.hpp`) | template arguments | one instantiation after another | signs, zero, the smallest number | the greatest common divisor |
| Fibonacci generator (`src/coroutines_fibonacci.cpp`) | two numbers and the limit | find the limit, yield, resume | stopping before the sum wraps | the whole sequence that fits, and no more |
| `ThreadLocalLifetimeTracker` (`testing/thread_local_lifetime_tracker.hpp`) | counters per thread | special members, `reset`, fixture | tests on several threads, resets with live objects | since its latest reset a thread's counters tell of its own test |
| signal handling (`src/signal_handling/`) | the kernel's signal, blocked or pending | install, block, wait, print | a handler that prints, at any point | no stream is reentered |
| `CharString`, timerfd, printing demonstrations | | | | not modelled, see below |

## Modules

Each component is one module with its state, one action per operation (or per
step, where threads interleave), `Spec` and its properties; `MC...` gives TLC
small sets; `...Proofs` holds the theorems, of one component or of several small ones,
whose modules share no names. Abstract specifications are modules of their own, instantiated
with a refinement mapping.

| module | models | refines |
|---|---|---|
| `BoundedBlockingQueue` | the class, called freely by `Producers` and `Consumers` | `BoundedFifo` |
| `BoundedBlockingQueueWorkload` | the same under a finite number of calls, for liveness | |
| `LFSPSCQueue` | the class, one producer and one consumer | `BoundedFifo` |
| `ThreadRacer` | `main` and `thread_func` | |
| `PThreadsMutex` | the class, on a contract of the pthread library | |
| `ArcPointer` | handles, control blocks and the steps of `release_ref` | |
| `OwningPointer` | handles, objects and deleters | |
| `FixedCapacityQueue` | the class | `SequentialQueue` |
| `FixedCapacityVector` | several vectors of two capacities | `SequenceVectors` |
| `LRUCache` | list, nodes and map | `LRUMap` |
| `MatrixViews` | both view classes | `CellGrid` |
| `MemoryPool` | the class, and what its clients write into objects | `SlotPool` |
| `Optional` | several optionals of one T | |
| `Function` | several `Function`s and the stack of calls through them | |
| `CompileTimeGcd` | the sign handling and each instantiation | |
| `Fibonacci` | `fibonacci_limit` and the generator, for types with several largest numbers (`Maxima`) | |
| `ThreadLocalLifetimeTracker` | the tracker and its fixture in parallel tests | |
| `SignalHandling` | both programs and the kernel's side of SIGINT | |
| `MCSequentialParts` | eight parts that share nothing, one in each behaviour | |

| module of proofs | is about |
|---|---|
| `BoundedBlockingQueueProofs`, `LFSPSCQueueProofs`, `ArcPointerProofs`, `FixedCapacityVectorProofs`, `LRUCacheProofs` | the module of the name |
| `ThreadingProofs` | `ThreadRacer`, `PThreadsMutex` |
| `MemoryAndArithmeticProofs` | `OwningPointer`, `MemoryPool`, `CompileTimeGcd`, `Fibonacci`, `MatrixViews` |
| `SequentialPartsProofs` | `FixedCapacityQueue`, `Optional`, `Function`, `ThreadLocalLifetimeTracker`, `SignalHandling` |

How state and actions correspond to the code:

* **Variables** have the names of the members (`m_queue`, `m_cv_push`,
  `m_write_index`, `m_head_index`, `m_elements`, ...). Added to them are what a
  member function keeps in its locals (`value`, `pc`, `task`), what it returned
  (`result`, `last`), the lifetimes of objects in raw storage (a slot holds an
  element or `Raw`), and ghosts the properties speak about (`lastPush`,
  `synced`, `deleted_by`, `holds`).
* **Threads.** In the concurrent parts a step ends at each access to shared
  state: an acquisition, a predicate, a call to `wait`, an atomic load or
  store, a decrement. `std::mutex`, `std::condition_variable` and pthreads are
  modelled by their contract from how the code uses them: `wait` releases the
  mutex and goes to sleep at once, a sleeper may wake up for no reason,
  `notify_one` wakes any one sleeper.
* **Memory model** of `LFSPSCQueue`. An index is the sequence of its stores; an
  acquire load may return any store not older than the one last seen, and
  orders what was done before that store. Relaxed loads are of the thread's own
  index. A slot remembers who accessed it last, so a data race is a state.
* **One-thread parts** take a whole member function per action. Where an element
  may throw after k of n, the action has an outcome for each k.
* **Exceptions** come from the elements (`MayThrow`) or from allocations; a
  throwing element leaves exactly what the code leaves at that point. Flags
  that hold for a whole behaviour and under which some property is asked are
  variables chosen in `Init` (`may_throw` of the ring, `move_may_throw` of the
  vectors, `disciplined` of the handles), so one run covers both values.

Some code is read as it is meant, because it does not compile when used: `push`
of the blocking queue (`std::forward(value)`, line 28), lines 45 and 58 of the
ring (a missing address-of), `ArcPointer` (`DefaultDelete` is not defined).

## Runs

| run | configuration and module | question and answer |
|---|---|---|
| `blocking_queue` | `BoundedBlockingQueue.cfg`, `MCBoundedBlockingQueue` | two producers and two consumers with two calls each, spurious wakeups, elements that throw: the queue is bounded and linearizable as a FIFO, its mutex is released on every path, no wakeup is lost although `notify_one` follows the unlock, and, if nothing throws, every call returns |
| `spsc` | `LFSPSCQueue.cfg`, `MCLFSPSCQueue` | no data race, lifetimes, FIFO under stale loads and throwing moves; with elements that do not throw everything is delivered |
| `racer` | `ThreadRacer.cfg`, `ThreadRacer` | a fair start, with spurious wakeups and failing creation; whoever sleeps when the gate opens finishes |
| `racer_lost_wakeup` | `ThreadRacerLostWakeup.cfg`, `ThreadRacer` | **violated**: a thread can miss the start and sleep for ever |
| `mutex` | `PThreadsMutex.cfg`, `MCPThreadsMutex` | construction is all or nothing, mutual exclusion, no thread waits for itself |
| `arc` | `ArcPointer.cfg`, `MCArcPointer` | the count is exact at every step of every thread, no use after free, no leak; disciplined callers meet no null dereference |
| `sequential_parts` | `SequentialParts.cfg`, `MCSequentialParts` | the ring of `FixedCapacityQueue` (live slots, FIFO), the free list of `MemoryPool`, lifetimes in `Optional`, callables of `Function`, the gcd, the Fibonacci generator, the tracker in parallel tests, and signal handlers |
| `memory_pool_overwrite` | `MemoryPoolOverwrite.cfg`, `MemoryPool` | **violated**: a constructor that writes to the object destroys the free list |
| `fixed_capacity_vector` | `FixedCapacityVector.cfg`, `MCFixedCapacityVector` | live elements, no stray element even when a move throws, and the semantics of sequences |
| `lru_cache` | `LRUCache.cfg`, `MCLRUCache` | no dangling iterator, capacity respected, LRU semantics |
| `owning_pointer` | `OwningPointer.cfg`, `MCOwningPointer` | one owner, nothing lost, the owner's deleter |
| `matrix_views` | `MatrixViews.cfg`, `MCMatrixViews` | views stay inside the matrix and rearrange it as promised, and nothing is refused without reason, also with numbers near the end of `std::size_t`; excepted is what a call makes that passed because a number in its test wrapped |

### Bounds, and why they are enough

* Blocking queue: four threads, two calls each, and room for two elements. Two on
  each side are what it takes for one to steal the other's element or wakeup; room
  for two lets the queue be neither empty nor full. As many pushes as pops, so that
  everybody can return; one spurious wakeup. What is checked here for safety is also
  proved for every size and any number of calls.
* Ring: three slots and seven pushes (`MaxPushes`), so both indices go around
  twice and every slot is reused while old stores are still visible. Proved for every
  capacity and any number of pushes.
* Racer: four threads (three in the counterexample): the last one, one asleep, one
  between its test and its sleep, one still arriving. Proved for every number.
* Mutex: three threads and one mutex: an owner, a waiter and an intruder. Proved for
  every number of either.
* `ArcPointer`: two threads, three handles, two blocks: an assignment between blocks while
  the other thread drops its reference; moves in circles; handing over.
  `Blocks` bounds the allocations of a behaviour. Proved for every number.
* `OwningPointer`: three handles, three objects and two deleters; proved for every number.
* `sequential_parts` runs one part in each behaviour: `part` is chosen at the start
  and the variables of the others stay at their initial values, so its states are the
  sum of those of the parts and not their product, and each property is checked in the
  part it is about. Queue: four slots, so that head, tail and the end of the ring
  can be apart; proved for every capacity. Pool: four slots, so that they come back in
  another order and the list is in the middle of a mixture of free and used
  ones; proved for every capacity. Three optionals (two for the binary operations,
  one to stand by) of two values. Two functions, three callables and calls two
  deep (`MaxDepth`): a callable that changes the `Function` it was called through, inside
  another. All pairs of integers of five bits, the smallest one among them, which
  take up to seven instantiations; proved for every width. The sequence in 2 to 16 bits, where the limit is at every
  distance from the largest number; `MaxYields` is more than it has numbers; proved for every largest number.
  Two tests on two objects, which may cross from one to the other, with three events between two
  resets (`MaxEvents`), so that a reset finds objects alive that are destroyed and counted after it;
  proved for any number of tests, objects and events, as are `Optional` and
  `Function` for any number of either.
* Vectors: capacities 2, 2 and 3: equal and different types, one too large for
  another. Lists of up to four elements, sizes and indices up to 4 (`Sizes`). Proved for any
  number of vectors, capacities, lists and sizes.
* Cache: two entries, three keys, four nodes (`Nodes` bounds the memory and with it
  how many entries without a key can pile up). Proved for every capacity and every set of keys.
* Matrix: 3 by 2; sizes, offsets and steps up to 3, and the largest `std::size_t`. It is a number of
  three bits here (`SizeValues`), just large enough for the matrix, so that sums, products and
  pointers wrap all the time. The run does not follow a view further once a call has passed because
  a number in its test wrapped (`MCFollowed`): nothing is said of it. It takes two states that differ in
  what the latest operation returned for one (`MCView`): no step and no test of a state looks at that.
  Proved for every size of the matrix and of `std::size_t` and all arguments.

`CHECK_DEADLOCK FALSE` is set for the blocking queue, whose workload ends when all
calls have been made, for `ArcPointer`, which ends when the blocks are used up or a null
pointer was dereferenced, and for the sequential parts, of which the gcd, the
generator and the two programs come to an end.

### Fairness

* Blocking queue: weak fairness of each thread, "a thread that can run is run".
  `std::mutex` is not fair, so with endless callers a thread may compete for it
  for ever; with finitely many calls every competition ends, and what is
  left is the question of lost wakeups. Nothing is assumed of spurious wakeups. A
  producer that throws makes an element fewer than are popped, and a
  consumer for it waits with good reason: `EveryCallReturns` is about behaviours in which
  nothing throws.
* Ring: weak fairness of both threads, and strong fairness of loading the latest
  store: the standard asks implementations to make stores visible in finite
  time. There is none for an element's move to succeed, so delivery is claimed
  only when moves do not throw.
* Racer: weak fairness of main and every thread. No fairness for spurious
  wakeups, on which no program may rely, nor for failing creation.

### The findings, and other disagreements met while modelling

`racer_lost_wakeup`: the last thread to arrive increments the counter and calls
`notify_all` without the mutex (`src/thread_racer.cpp:40-42`). A thread that has
evaluated the predicate of `wait` as false and is not yet asleep misses it; main then
waits for its future for ever.

`memory_pool_overwrite`: `MemoryPool::allocate` constructs the object in the first free slot
and then reads the link to the next one from the same bytes
(`memory/pool_allocator.hpp:58-59`). If the constructor of T writes to them, the head
becomes whatever the object reads as; if it writes and then throws, the same waits in the
first free slot. The comment on lines 56-57 promises "consistent state". For a
T whose constructor leaves these bytes alone the pool is right, which `sequential_parts`
checks and `MemoryAndArithmeticProofs` proves.

The following come out of the models as well; the properties are stated so that
they hold for the rest of the behaviour, and no run is kept for them:

* Assigning to or from a moved-from `ArcPointer`, or copying one, dereferences null
  (`arc_pointer.hpp:80`, `99`, `100`, `108`); `NoNullDereference` is about callers that
  do not. Line 112 repeats line 111 and leaves `m_ptr` as it was.
* `OwningPointer`'s move assignment replaces the deleter before it deletes the
  object that belongs to the old one (`owning_pointer.hpp:180-182`).
* When moving an element throws, the `FixedCapacityVector` moved from still counts
  elements it has destroyed (`fixed_capacity_vector.hpp:143-145`).
* When adding the key to the map throws, `LRUCache` keeps an entry that no key leads
  to, and evicting it takes a newer entry's key along (`lru_cache.hpp:27`, `62`).
  `ImplementsLRU` excepts the time until such entries are gone.
* A producer of the blocking queue that throws after having been woken passes its
  wakeup to nobody; `NoLostWakeup` allows one to be lost for each call that threw.
* Copying one `Optional` that holds a value to another does nothing when T is not nothrow
  copy-assignable (`utility/optional.hpp:83`, a TODO), and the model does the same. Moving into an
  empty one moves the storage instead of the value (line 130); it is modelled as meant.
* Copying a `Function` that is not const selects the constructor template, which wraps a
  copy of it in a callable, for which it is selected again, without end
  (`functional/function.hpp:21`). The model has no copies of `Function`s.
* Elements still in an `LFSPSCQueue` when it is destroyed are never destroyed: `~Slot()` is
  empty (`concurrency/lf_spsc_queue.hpp:20`).
* The smallest integer has no gcd: its negation overflows, which is no constant
  expression, and the program is refused by the compiler (`compile_time_gcd.hpp:17`); the model
  ends in `"ill-formed"`.
* The tests of the matrix views are computed in `std::size_t` and wrap
  (`matrix_view.cpp:73`, `90`, `161`, `175`): `subview` of one row from the last row number a
  `std::size_t` can hold is accepted and leads out of the matrix, `reshape` may accept a product that
  wraps to the right number, and a very large step may make a view without rows. In the model such
  calls set `overflowed`, and the properties except what they make. No line of the repository says
  that they are refused. What wraps outside of the tests (strides, the offset of an empty view) does no harm,
  which the properties include.
* `PThreadsMutex::unlock` throws also for a thread that is not the owner, where its comment
  (line 71) knows only of an uninitialized mutex.

## Proofs

Constants are arbitrary but for the named assumption of the module, which every
run evaluates. Each theorem follows from an inductive invariant: `Init`
implies it, every step keeps it (one case per action), and it implies the property. The
invariants are called `IInv` or `Inv`, or after the component where a module is about several.

All safety properties that the passing runs check are proved, and all refinements.

### Threads

* `BoundedBlockingQueueProofs` (`QueueAssumption`: finitely many threads, any
  capacity). `IInv` adds to the types and the mutex discipline that the sleepers of
  the two condition variables are the threads whose positions say so
  (`SleepersInv`), that a call's parameters are set while it runs (`CallInv`), and
  that what a predicate said still holds when the thread acts on it
  (`PredicateInv`), which is what the mutex is for.
  `TypeCorrect` and `MutexDiscipline` are parts of it. `LinearizableFifo`: each step
  maps to a step of `BoundedFifo` or to none. `NoWakeupIsLost` (also with elements
  that throw, at the price of one wakeup for each call that threw): the threads on their way to the elements are counted with cardinalities;
  each action moves one in or out of the set or hands its duty over
  (`CarriersGrow`, `CarriersHandOver`, `CarriersCount`).
* `LFSPSCQueueProofs` (`RingAssumption`: any capacity, any number of pushes). A slot
  is named by the number of the push or pop that uses it, modulo the size of the ring. `IInv` says
  what the thread's own index and the one it saw last tell of where the two are
  (`Indices`: neither is ever a whole ring ahead), that a thread is synchronized with
  all that was done before the stores it saw (`Knowledge`), that the last access to a slot
  is by the thread that passed it last, and was seen by the one about to use it
  (`Accesses`), and that the slots between the two indices are those that hold objects
  (`Elements`). The integer arithmetic of `%` is in lemmas of its own (`RemaindersDiffer`,
  `WholeTurn`). `RaceFree` and `ElementsLiveOnce` follow, and `RingIsFifo`: the element leaves the
  abstract queue when its pop has moved it out.
* `ThreadingProofs`, the racer: the counter is the number of threads that have arrived
  (`CountInv`), who passed the gate saw its final value (`OpenInv`), and
  main's progress bounds who exists (`CreatedInv`). So `StartIsFair` and
  `TypeCorrect`, for any number of threads.
* `ThreadingProofs`, the mutex: the properties are inductive together with the types (no other
  type of mutex is ever initialized), how far the constructor of each object has
  got and that it has it to itself (`BuildInProgress`), and that all other calls are on
  living objects (`UsesAlive`). So `PThreadsTypes`, `ConstructionIsAllOrNothing`,
  `LockExcludes`, `RelockingIsDetected`.
* `ArcPointerProofs` (`ArcAssumption`: finitely many threads and handles). The count of a
  block is the number of handles that hold a reference (`Holding`: those that name it, less
  those whose thread has just dropped it) and of the references copy assignments have counted in
  advance (`Pending`); `Living` says what that means for the block and its object: a block
  with references is live, and one without is deleted, or one thread, and only one, is about to do
  it. Every action moves one handle or thread in or out of one of these sets, or renames one. From
  it `CountIsExact` (a bijection between the handles that still name a block and the
  threads that have dropped them), `UseBeforeFree`, `NothingLeaks`, and `DisciplineSuffices`.

### Containers

* `FixedCapacityQueue`: `IInv` is the types and `LiveSlots`. The arithmetic of
  the ring is in the lemmas: different positions have different slots, and
  advancing the head renames positions. `TypeCorrect`, `LifetimesMatchSize` and
  `RingIsQueue` (the refinement), for any capacity.
* `FixedCapacityVector`: a buffer is `Sound` for a size when its live slots are those below it;
  if a move may throw, those below the size may be dead as well, since the code resets the size of
  the vector moved from only after the last move. The invariant says this of every vector, and that
  one that does not exist has size 0. What the model's `Filled`, `Without` and `ResizedTo` do to a
  sound buffer is shown once (`FilledSound`, `WithoutSound`, `ResizedSound`), and most operations
  are these. `ElementsLiveToTheSize` and `NothingLivesBeyondTheSize` follow. `VectorsAreSequences` is
  the refinement, one lemma for each group of operations; there a vector is the sequence of the
  elements in its first slots.
* `LRUCache`: the list has no node twice, and every key leads to a node of the list that holds the
  key (`Consistent`). The list may be longer than the map, after insertions that threw half way.
  Promotion, insertion and eviction are shown to keep this (`LookupLeadsToEntries`,
  `CacheKeepsToCapacity`: different keys lead to different nodes, and eviction takes the key of the
  last node with it). `CacheImplementsLRU`: with no such entry, promoting a node is moving its
  key to the front of the recency list, and evicting the last node is dropping its last key.

### Memory and owners

* `OwningPointer`: `UniqueOwnership`, `NoLeak` and `OwnerHasDeleter` are inductive
  together with the types: `OneOwner`, `NothingLost`, `OwnersDeleter`.
* `MemoryPool`, for a T whose constructor leaves the link alone: there is a path
  along the links from the head through every free slot, none of them twice, to the null
  pointer (`PathExists`). Allocation takes its first slot off and deallocation puts one in
  front. `FreeListIsPool` is the refinement to `SlotPool`. `FreeListStaysConsistent`: the recursive
  function that follows the links is that path (`PathIsFreeList`), whose length is the number of
  free slots, since it is a bijection onto them (`PathLength`).
* `Optional`: the property is inductive together with the types (`ValueLivesWithFlag`).
* `Function`: both properties are inductive together, with the types: a callable that is
  running exists, so it has an owner, and the client's rule is about that owner
  (`OneFunctionOwns`, `RunningIsAlive`).

### Algorithms

* Induction over the natural numbers is a lemma (`Induction`): a set of numbers that contains 0
  and with every number the next one contains all, for otherwise there would be a least one outside
  (`LeastNatural`, from the library's fact that the naturals are well-founded). Sets in the place
  of predicates are what the provers can instantiate.
* `MatrixViews`: unless a test has wrapped, a view's fields are distinct elements of the matrix, and the
  columns of a plain view are one apart (`MatrixInv`). The matrix fits into `std::size_t`, so the address
  of a field is computed as if nothing could wrap (`Held`, `AddressOf`), and a stride that does wrap is
  one of a single row or column. Each operation makes a view of different fields of the one it is
  called on (`Picks`), so it stays inside, and by the same equation its cells are those the grid's
  operation names: `FieldsAreElements` and `ViewsAreGrids`, the refinement. What depends on division
  (reshape counts the fields row by row, stride rounds up) is in lemmas of its own
  (`Unique`, `Ceiling`), and what holds of products of variables is stated where it is used, as
  the prover knows little about them.
* `CompileTimeGcd`: the pair at hand has the common divisors of the arguments (`GcdInv`, with
  `RemainderKeepsDivisors`). So where the recursion ends, it is with their greatest common divisor
  (`TemplateComputesGcd`).
* `Fibonacci`: the recursive function F satisfies its equation (`FibonacciEquation`: functions up to n
  exist and agree, by induction) and grows. The two numbers at hand are neighbours in the sequence, and
  the limit is the last that fits, as the test for it is the test for overflow of their sum
  (`LimitIsNew`). So `GeneratorYieldsFibonacci`: none wrapped, and the end not before the last.

### Tests and signals

* `ThreadLocalLifetimeTracker`: a ghost (`baseline`) keeps how many objects a thread had at its latest
  reset, which may come at any time in a test, as its unit test does it with three objects alive. The property
  is inductive together with the types and with the fact that the objects of a thread are finitely
  many, and none outside of a test (`CountersAreOwn`); each action counts one object in or out, or
  starts counting from those there are.
* `SignalHandling`: the stack is main's place, or main waiting with the handler on top of it, and while
  the handler runs the signal is blocked (`SignalPlaces`), so `HandlerInterruptsNoPrinting`.

Only model-checked: liveness (`EveryCallReturns`, `EveryElementDelivered`,
`SleepersReleased`), for which the prover has no rules about fairness, nor about ENABLED. That the
gcd's recursion, the search for the limit and the free list come to an end in the program is not
stated as liveness either; the runs reach every end. The two violated properties are refuted by
their runs and nothing is proved of them. `FreeListIsPool` and `FreeListStaysConsistent` have the
hypothesis `~ConstructorWrites`, without which `memory_pool_overwrite` refutes the latter;
`NoWakeupIsLost` and `CacheImplementsLRU` state their conditions in the property (one wakeup for each
call that threw; steps with no entry that lacks its key), and so do `ElementsLiveToTheSize` and
`VectorsAreSequences` (moves that do not throw; steps in which every vector's size is right).

## What is not modelled

* Elements that a throwing constructor of a vector leaves undestroyed, and those still in an
  `LFSPSCQueue` that is destroyed: the model drops them with the storage.
* A cache of capacity 0 (`insert` would read the front of an empty list):
  `CacheAssumption`.
* Deleters that throw.
* Sizes near the end of `std::size_t`, except in the matrix views; there the matrix itself fits into
  memory (`MatrixAssumption`: its own rows times columns do not wrap), and assertions are those of a
  release build. Default-constructed views, which are empty with a null pointer.
* `push` of an rvalue on a `FixedCapacityQueue` is declared `noexcept` after the *copy* constructor
  (`fixed_capacity_queue.hpp:100`): with a T whose copies do not throw and whose moves do, the program ends
  there. In the model the exception leaves `push`.
* The Fibonacci generator for signed types, which line 24 admits: the last sum of line 35 overflows, which
  is undefined for them. `Maxima` are of unsigned types.
* Element access, iterators, `size`, `empty`, printing: they change nothing (`at` of vectors,
  which throws, is there).
* `Function`: its client's rule, not to replace or destroy a callable that is running, is a guard
  of the model (`MayReplace`); without it the code destroys what it executes, as
  `std::function` may.
* `ThreadLocalLifetimeTrackerFixture` that is moved: the moved-from fixture resets the counters
  once more.
* `CharString`: every operation on a long string names members that its `HeapBuffer` does not
  have, and its test is not part of the build.
* timerfd and the printing demonstrations: a number of expirations the kernel counts, sizes
  and names; they print them and keep no state.
* The unit tests and the build files, which were read for what they say of the rest.

## Plan

Done: the concurrent parts (`BoundedBlockingQueue`, `LFSPSCQueue`, `ThreadRacer`,
`PThreadsMutex`, `ArcPointer`), because what goes wrong in them no test shows, and their
proofs; the containers that manage lifetimes by hand (`FixedCapacityQueue`,
`FixedCapacityVector`, `LRUCache`, `MemoryPool`, `Optional`), `OwningPointer` and `Function`; the
matrix views, the algorithms, the tracker and the signal handlers.

Left:

1. The implicit destructor of `LFSPSCQueue`, once the code says what is to become of the elements
   in the ring.
2. Theorems about what a step may never do (that an eviction takes the key of the oldest entry and
   no other, that a release deletes no block but its own), as action properties of the runs first.
3. Row iteration and the element access of the matrix views.
