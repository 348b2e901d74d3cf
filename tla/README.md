# OS-Experiments in TLA+

The repository is a collection of small, independent C and C++ programs about
operating-system topics: threads, queues, semaphores, callbacks, timers, memory
pools, lists, trees. There is no program that uses them together; each file of
`src/Src/` is a component with its own state, and most have their own `main`
that drives it. This directory holds models of them, the TLC configurations
that check the models, and proofs.

## 1. Inventory

| part | state | operations | what is hard | what makes it correct |
|---|---|---|---|---|
| `Synchronization.cpp`: `sync_queue` (same monitor in `ProducerConsumer.cpp`, `swap`, end of `misc.txt`) | the queue, a mutex, two condition variables, the loop counters | `push`, `pop`, the two thread functions | stolen and spurious wakeups, one `notify_one` per operation, two condition variables | capacity, no `pop` on empty, no lost wakeup, every item delivered once and in order, the threads end |
| `Sem-ProdcuerCondumer.cpp` | buffer, mutex, two semaphores | `produce`, `consume` | order of semaphore and mutex, slots counted by no semaphore in mid-call | slot and item accounting, same channel as above, calls return |
| `producer.cpp` | queue of at most ten numbers, mutex, one condition variable for both sides | the two thread functions | `notify_all` wakes the wrong side too; the consumer's loop never ends | every number consumed in order; the consumer waits for ever after the last one |
| `ThreadPriorities.cpp` | list of tasks, mutex, condition variable | `pushTask`, two producer and two consumer functions | one `notify_one` per task, insertion point while consumers drain | list sorted by priority, FIFO within one, all tasks executed |
| `LlistMutex.cpp` | list, mutex handle | insert at both ends, delete, print, destroy | walks of many steps under the lock, memory exhausted in mid-call, destroy without the lock | operations take effect one after the other; nothing lost, leaked or freed twice |
| `DynamicCallbacks.c` | 32 entries, a list through them sorted by priority, a recursive mutex with timeout, counters, `initialized` | init, register, unregister, execute all, enable, shutdown, diagnostics | callbacks that call back into the manager, lock timeouts, flags read outside the lock | list = entries in use, sorted, unique ids and names, every registered callback called |
| `DynamicEventHandler.c` | one list of listeners per event type | init, add, remove, trigger, cleanup | listeners that remove listeners during a trigger | every listener of the type called, no freed node used |
| `TimerDynamicArray.cpp` | slots by expiry time, handle table, time, hardware register | add, remove, interrupt, advance time | register stale after removal, reentrant callbacks | handles and slots agree, no event missed or early, each fired once |
| `CircularBuffer.cpp`, `misc.txt` (`CQueue`) | array, head, tail, count | write/enqueue, read/dequeue, peek | wrap-around, overwriting when full, a reader and a writer thread without a lock | last N values in order |
| `LeetCodeMemPool.cpp`, `staticmempool.c`, `HeapAllocator.c` | memory cells, block flags, free list | allocate, free | double free, exhaustion, next-fit cursor | no block handed out twice, freed blocks come back |
| `List.c` | a singly linked list | create, delete, free | empty list, deleting head and tail, a head left dangling by `free_list` | deletes the first match only, leaks nothing |
| `StateMachine.cpp` | the state OFF, ON or BLINK; the LED | `processEvent`, `handleState` | next to nothing | the LED follows the state |
| `bufferthread.cpp` | thread count, handles, run mutex, screen mutex | keyboard loop, bouncing threads, shutdown | shutdown waits, fixed array of handles, threads that cannot be started, characters drawn over each other | one writer on the screen, all threads end before the mutexes are closed, no character left behind |
| `treechallenge.cpp` | a tree with five children per node | traversals, level order, comparison with given traversals; building and tracking are empty functions, `main` is disabled | next to nothing that runs | traversals agree with their definition |
| `Align-Padding.c` | a raw block, an aligned address inside it | `malloc_aligned`, `free_aligned` | room for padding and pointer wherever `malloc` puts the block | aligned, inside the block, the original pointer recovered |
| `thread.cpp` | two threads, their handles, local variables of `main` | creation, waits | parameters on another thread's stack | `main` outlives the threads that read its variables |
| `imagebin.cpp` | a signal flag | `main` | next to nothing | |

The threads of one program interact through shared memory under a mutex (Win32,
pthread or `std::mutex`), condition variables and semaphores; callbacks and
listeners run in the middle of the operation that calls them and may call the
same component again. Nothing is sent over a network and nothing survives a
crash, so there are no messages to lose and no recovery. PROJECT.json lists, per
line, the hazards this leaves, and the properties that watch them.

## 2. Plan

The order is by how much concurrency and how much re-entrance a part has.

1. **Queues** (done, proved): an abstract channel; the monitor, the semaphore
   buffer and the queue of `producer.cpp` as three implementations of it.
2. **Callback manager** (done, proved): operations, lock timeouts,
   callbacks that call back, shutdown.
3. **Timer events, bouncing threads, prioritized tasks** (done, proved).
   The tasks refine an abstract pool that hands out the oldest task of highest
   priority.
4. **Pools, rings, ids, listeners, shared list** (done, proved): the
   pools refine one abstract allocator.
5. **The rest** (done, proved but for the findings): the liveness of
   `producer.cpp`; `CircularBuffer.cpp` shared by two threads; `List.c`,
   `Align-Padding.c`, `treechallenge.cpp` and `StateMachine.cpp` against
   reference definitions; `thread.cpp`; what the bouncing threads draw.
6. **Proofs** (section 7): done for every safety property, action property and
   refinement that a passing run checks; liveness is model-checked.

## 3. Modules

Every module has a comment at its head that says what its variables stand for
and, for the threads, which line each value of `pc` stands for. An abstraction
common to all of them: printing, sleeping, times of day and statistics are left
out. A step of a thread is one access to shared state or one operation on a
mutex, condition variable or semaphore; what a thread does while it holds a
mutex that every other access needs may be one step.

| module | models | notes |
|---|---|---|
| `BoundedChannel` | what a bounded queue promises | `Put` and `Get` are atomic; the history `got` records what each consumer has taken |
| `SyncQueue` | `sync_queue`, `producerthread`, `consumerthread` of `Synchronization.cpp` | `notify_one` wakes any waiting thread; a woken thread competes for the mutex and evaluates its predicate again; wakeups may be spurious. `Implements` is the refinement of `BoundedChannel` |
| `SemQueue` | `Sem-ProdcuerCondumer.cpp` | `sem_wait` is not interrupted; `Implements` is the refinement of `BoundedChannel` |
| `CallbackManager` | `DynamicCallbacks.c` | the linked list is the sequence of the slots its pointers lead to; callbacks make every call of the manager, so that each thread has a stack of passes and the recursive mutex a count (`locks`) |
| `TimerEvents` | `TimerEventSystem` of `TimerDynamicArray.cpp` | `batch` and `at` are the memory and the position of the range-for, `handle` the copy its body makes; the user's code runs at top level or in a callback; `SameSlot` says whether callbacks remove events of the slot being executed |
| `BounceThreads` | `main`, `KbdFunc`, `ShutDown`, `BounceProc` of `bufferthread.cpp` | a mutex owned by a thread that has ended is abandoned; a wait for a closed handle fails at once; `_beginthread` may fail |
| `BounceMoves` | lines 117-173 and the key `t` of `bufferthread.cpp` | a turn of drawing is one step, which `OneWriter` of `BounceThreads` justifies; one axis of the console |
| `PriorityPool`, `PriorityTasks` | `ThreadPriorities.cpp` | the pool is the promise, the tasks are the code |
| `BlockAllocator` | what a pool of blocks promises | |
| `FreeListPool`, `NextFitPool` | `HeapAllocator.c`, `staticmempool.c` | the free list lives in the blocks; the user may write the blocks it holds |
| `IdAllocator` | `Allocator` of `LeetCodeMemPool.cpp` | first fit over `bufpool`; `segments` is the history of the allocations alive |
| `RingBuffer` | `CircularBuffer.cpp` and `CQueue` of `misc.txt` | `kind` says which; they differ in what they do when full |
| `EventSystem` | `DynamicEventHandler.c` | `frames` is the stack of triggers, since a listener may trigger again; no listener is removed at which one of them stands |
| `LlistMutex` | `LlistMutex.cpp` | memory is the set of allocated nodes; each turn of a walk is a step |
| `SharedRing` | `CircularBuffer.cpp` used by two threads | one step per access to `cnt`, `tail_` and `buffer_` |
| `OneConditionQueue` | `producer.cpp` | `notify_all` wakes both sides; wakeups may be spurious. `Implements` is the refinement of `BoundedChannel` |
| `SinglyList` | `List.c` | memory is the set of allocated nodes; `contents` is the sequence the list stands for |
| `AlignedMalloc` | `malloc_aligned`, `free_aligned` of `Align-Padding.c` | `malloc` returns any suitable address of an arena; cells hold data or a part of a stored pointer |
| `TreeTraversals` | `showLevelOrderM`, `treeToStringM` of `treechallenge.cpp` | a node is the path that leads to it; every small tree is tried; `Place` numbers the paths of a level, those of missing nodes too |
| `LedStateMachine` | `StateMachine.cpp` | |
| `TwoThreads` | `thread.cpp` | `CreateThread` may fail |
| `MCPrograms` | | puts the programs that need no run of their own side by side: `program` chooses the one that runs |

`MC<module>` modules and their configurations give the constants their values;
`<module>Proofs` hold theorems: `SyncQueueProofs`, `SemQueueProofs`,
`PriorityTasksProofs`, `BounceThreadsProofs`, `CallbackManagerProofs`, and for
the programs of `MCPrograms` `ProgramsProofs` and, of those that build lists and
trees, `LinkedProofs`. `SequenceLemmas` has what they share: the facts about
`Min` (and induction, which follows from it), `InsertAt`, `RemoveAt`,
`RemoveFirst` and `FlattenSeq`. Operators called "Mutant" in a comment are wrong
versions of the definition that follows them; nothing uses them unless a run is
repeated with the mutant in the definition's place, which must make the named
property fail.

## 4. Runs

| run | constants | what it shows |
|---|---|---|
| `sync_queue` | 2 producers, 3 consumers, a spurious wakeup | the monitor implements the channel and delivers every item once and in order, its queue stays within its capacity and is never popped empty, no wakeup is lost, all threads end |
| `sem_queue` | 2 producers, 3 consumers | the semaphores account for every slot and item at every step, the buffer implements the channel, all calls return |
| `callbacks` | 2 threads, 2 entries, 3 names, 2 priorities, 6 calls; callbacks make every call, passes inside passes and shutdown included, but unregister no callback that runs | list, counters and ids sound; the mutex unlocked as often as locked on each path; a pass calls every callback enabled all along, in order |
| `callbacks_return`, `callbacks_self`, `callbacks_shutdown` | 2 threads | three findings (section 6) |
| `timers_same_slot`, `timers_self` | 3 events at 2 times; callbacks remove events of the slot being executed | two findings |
| `bounce` | 4 threads, as many as cells in `hThreads` | one writer on the screen; all threads but the last are waited for; `q` ends the program unless a thread could not be started |
| `tasks` | 2 producers of 2 tasks, 3 consumers, 2 priorities | list sorted; the pool is implemented; no wakeup lost; all threads end, and only the remainder of the division is left in the list |
| `programs` | see below | every program of `MCPrograms`, one property each or more |
| `ring_race` | a buffer of 2, 3 bytes | a finding |

In `programs`, with the properties in brackets: pools of four blocks, created and
destroyed (`PoolsImplement`: both implement the allocator); five units for three
ids (`SegmentsIntact`: allocations stay whole); rings of three
(`LastBytesInOrder`); four listeners, triggers two deep (`TriggerComplete`:
every listener that was there all along is called; callbacks remove none at
which a trigger in progress stands); two threads on a list of
three nodes (`Serialized`: operations take effect one after the other, and
`printList` prints the list of one moment); four events at three times, whose
callbacks add events and remove those of other times (`SameSlot = FALSE`:
`HandlesAgree`: the two tables agree at every step; `FiredOnTime`: every event
is executed once, on time and in order, unless removed; `AdvanceReturns`: the call returns); four
items through a queue of two (`ProducerImplements`: it implements the channel;
`NoLostWakeup`: the two threads never wait for each other; `AllConsumed`); an
arena of fourteen bytes (`AlignedBlocks`); lists of four nodes (`ListMatches`;
`OnlyAllocatedFollowed`: no operation follows a pointer to a freed node); the LED
(`LedFollows`); trees of up to four nodes on three levels (`TraversalsMatch`:
the traversals name every node once, in order, and every value of the level
order stands at the place of its path); two threads with
parameters (`ParametersAlive`); two characters on a line (`NoGhosts`:
without trails none is left behind, and no thread blanks the other's).

**Why the bounds are enough.** The hard cases of the monitors need one thread on
each side that blocks, one that is woken and one that gets in between; the
numbers of threads above have these, with queues that are full, empty and
in between (the capacities are below the number of items). Every entry of the
callback manager is used, freed and used again, and the third name finds the
table full. A slot of the timers holds up to four events. The queue of
`producer.cpp` is full and empty with more items than room. Two aligned blocks fit into
the arena side by side, at several addresses, and three children show the odd
case of the in-order traversal. `MAX_THREADS = 4`
starts the thread whose handle has no cell. A pool of four has every pattern of
free blocks around its cursor. The list runs out of memory with three nodes.
Beyond the bounds, the theorems of section 7 hold for every value of the
constants. Bounds that are not in the code are constants named as bounds:
`MaxSpurious`, `MaxCalls`, `MaxId`, `MaxTime`, `MaxHandle`, `MaxDepth`,
`MaxWrites`, `ArenaSize`, `MaxSize`, `MaxAlign`, `MaxNodes`, `Turns`, `ConsoleSize`,
`MaxDelta`.

**Deadlock** is checked where the program is expected to go on or to end in a
state of its own (`Terminating`, `Exited`; `Stuck` and `Joining`, where `main`
waits for ever and a property says so); `CHECK_DEADLOCK FALSE` stands in the
runs whose behaviours end when the bound on calls or items is used up.

## 5. Fairness

Liveness is checked under weak fairness of each thread, and of nothing else: an
operating system runs every thread that can run. No fairness is assumed of who
gets a free mutex, of whom `notify_one` picks, of spurious wakeups or of the
user's choices. It is enough for termination because the threads make a fixed
number of calls: a thread overtaken at the mutex cannot be overtaken for ever.
`TimerEvents` assumes only that a call that has begun, callbacks included, goes
on, and so does `programs`, beside the two threads of `producer.cpp`. There the
number of spurious wakeups is bounded: without an end to them a thread could be woken
for ever. `BounceThreads` that threads run, not that anybody presses a key. The
callback manager has no liveness property: its lock times out after five
seconds, so every call returns unless a callback does not.

## 6. Findings

Each is a run in which the model reaches the state.

* `callbacks_return`: `callback_register` reads `entry->id` after the unlock
  (`DynamicCallbacks.c:510`). Unregistered in between by another thread, the entry is cleared
  or reused and the returned value is -1 or the id of another registration.
* `callbacks_self`: a callback that is unregistered while it runs, by itself or
  by a callback of a pass that it began, has its entry zeroed, and the pass,
  which reads `current->next` afterwards (612), ends early. The entry may even be
  in use again by then, for a callback elsewhere in the list. `PassInOrder` and
  `PassComplete` are therefore checked and proved for users who do not do this
  (`UnregisterRunning = FALSE`).
* `callbacks_shutdown`: the mutex is destroyed (689) while others wait for it,
  or hold it if the lock of shutdown timed out. What a lock of the destroyed
  mutex does is undefined; in the model it fails, or lets a waiting thread in
  when nobody holds it.
* `timers_same_slot`: a callback that removes a later event of its own time moves
  the vector under the range-for (111), which executes an event already removed.
* `timers_self`: a callback that removes itself moves the vector likewise; the
  next event of its time is passed over, and erased with the slot (123) without
  having been executed, though line 110 announces "all callbacks for this time".
  `HandlesAgree` and `FiredOnTime` are therefore checked and proved for callbacks
  that remove events of other times only (`SameSlot = FALSE`).
* `ring_race`: a write to a full buffer replaces the byte that a reader, past its
  test for an empty buffer, is about to fetch: the reader gets the newest byte
  and afterwards older ones (`CircularBuffer.cpp:53`; `src/README.md:112` promises "Thread-safe
  read/write operations"). In C++ the unsynchronized accesses are undefined
  behaviour; the run takes them in the order of the text.

What passing runs show of the code, or have to leave out, against what one may expect of it:

* The thread started last in `bufferthread.cpp` is not waited for:
  `EarlierThreadsDone` excepts it. Handles are stored from cell 1 on, and with
  `MAX_THREADS` threads the last is written behind the array.
* The hardware register of the timers is not written by a removal, so that it may name an
  earlier time, even one in the past; never a later one than the first
  event pending (`FiredOnTime`).
* `_beginthread` is not checked: after a failure, for any thread but the last,
  `q` leaves `main` waiting for a handle that means the process itself
  (`QuitEnds`).
* The consumers of `ThreadPriorities.cpp` take a whole multiple of their number:
  the remainder of the tasks stays in the list (`Termination`).
* The consumer of `producer.cpp` waits for ever after the last item, and `main`
  with it (`AllConsumed`).
* In `showLevelOrderM` a node of value -1 looks like a missing one, and a level of
  such nodes ends the output (`TraversalsMatch`).
* `delete_node` follows the head of an empty list (`List.c:46`), as Test 6 of `main`
  makes it do although `src/README.md:120` promises "empty lists"; the model's
  program deletes from lists that are not empty.
* `isFull` of `CircularBuffer` is false at all times: no operation sets its flag.

## 7. Proofs

Checked by TLAPS for every value of the constants that satisfies the named
`ASSUME`s of the module: finite and disjoint sets of threads, capacities of at
least one, numbers of calls that are natural numbers, as are the sizes of an
arena, of a pointer and of an alignment and the levels of a tree; that a node of
a tree has room for at least one child; that `NULL` and the contents of a block
written by the user are no block; that `NULL` is no node of a list, `NoThread`
no thread; and that the nodes of the shared list are finitely many. TLC
evaluates these assumptions in the runs, and has checked each inductive
invariant on the instance of the run before its proof (those that quantify over
all sequences, with the sequences bounded). The type invariants (`TypeCorrect`)
are part of them; only that of the callback manager, whose counters and tables
are its difficult part, is also an invariant of a run.

* `SyncQueueProofs`: `TypeCorrect`; `Safe`; `WakeupsSuffice`; `Refinement`;
  `Delivers`. The inductive invariant `IInv` says that a thread is between lock
  and unlock exactly when it holds the mutex, hence that what the predicate of
  the wait found is still true at the access, and that the item read by `front`
  is the one `pop` removes. `WakeupsSuffice` counts: each step changes the
  number of items and the set of threads on their way to them by at most one
  each, and a notification that finds a waiter turns the notifier's share into
  the woken thread's. `Refinement` maps `push` and `pop` to `Put` and `Get` and
  every other step to a stutter. `Delivers` is a theorem about the channel, carried
  through the refinement: it uses no step but `Put` and `Get`. `Delivery` speaks
  of what the consumers hold; the inductive invariant (`InOrder`) adds what is in
  the channel and what has not been sent: a producer's items are in its order in
  the channel, and those held by a consumer come before them.
* `SemQueueProofs`: `TypeCorrect`; `SlotsCounted`; `ItemsCounted`; `Refinement`.
  Here the two accountings are the invariant: no predicate is tested, and that
  there is room for `push` and an item for `pop` follows from the cardinalities
  (`RoomAndItem`).
* `PriorityTasksProofs`: `TypeCorrect`; `StaysSorted`; `NeverLosesWakeup`;
  `Refinement`. `Sorted` alone is not inductive: the invariant adds that the
  threads at work on the list hold the mutex, that what the wait of a consumer
  found is still there when it takes, and that no task has come twice (which
  makes the age of a task well defined), so that the place found by `pushTask`
  is behind all tasks at least as urgent. The wakeups are counted as in
  `SyncQueueProofs`.
* `BounceThreadsProofs`: `OneWriterAlways`; `EarlierThreadsAreDone`. The run
  mutex is handed from thread to thread, and an owner that ends abandons it. The
  invariant says which thread may own which mutex at which place, that cell *i*
  of `hThreads` is the handle of thread *i* (or of the process, if it could not
  be started), and that the threads whose handle `main` has waited for have
  ended.
* `CallbackManagerProofs`: `TypeCorrect`; `AlwaysReleased`; `ListStaysSound`;
  `StayDistinct`; `PassesInOrder`; `PassesComplete`. The invariant `IInv` is in three
  parts: the table and the list (`Tables`), the calls and the mutex (`Control`),
  and the counters, which agree until a shutdown has cleared one of them
  (`Balanced`). `AlwaysReleased` is about the count of the recursive mutex: it is
  the number of passes in progress, one inside the other, and of the operation at
  work, of one thread, so that each path of each call, inside callbacks too,
  unlocks what it has locked. `PassesInOrder` and `PassesComplete` have the
  hypothesis `~UnregisterRunning`: `callbacks_self` shows that they fail without
  it. Their invariant `Passes` speaks of every pass on the stack: the entry it
  stands at is in the list, not before anything the pass has called and not
  behind any callback it still has to call, or a shutdown from inside a callback
  has emptied the table (`Wiped`).
* `ProgramsProofs`, about the programs of `MCPrograms`. `Frame`: a step of one
  program leaves the variables of the others alone.
  * `LedAlwaysFollows`; `ParametersStayAlive`, by what `main` has waited for;
    `NeverGhosts`, for any number of threads, any console and any moves, which
    says both that no character stays behind and that none is blanked by another
    thread. These properties are almost inductive as they are.
  * `SegmentsStayIntact`: the first fit is a run of free units inside the buffer
    (`FirstFit`), so that it meets no allocation alive.
  * `BytesStayInOrder`: the bytes not read are found in their order behind the
    tail, for both rings and every capacity; the writer of the full ring moves
    the tail on by itself.
  * `PoolsAlwaysImplement`, from `NextFitImplements` and `FreeListImplements`.
    In the static pool the search that starts at `next_buffer` comes to every
    block. The free list lives in the memory of the blocks, which the user may
    overwrite while he holds them: the invariant names a path, a sequence of all
    free blocks in the order of their pointers, each once (`IsFreeList`), which
    what is written to held blocks does not touch.
  * `HandlesAlwaysAgree`, `AlwaysFiredOnTime`, from `TimerInvariance`, for any
    number of events and times, under the hypothesis `~SameSlot`. Callbacks add
    events, and remove those of other times, in the middle of an interrupt; the
    invariant says that the slot under the interrupt is the
    memory its loop reads, that a slot lists its events in the order of their
    handles, and which of them the loop has finished with.
  * `TriggersComplete`, for triggers nested to any depth. A list is in the order
    of its ids, the newest first (`ListsSound`); the node a trigger stands at is
    in its list, what it has called is before that node and what it has to call
    is not (`Stands`), and no listener is missing from the two (`Calls`).
    Listeners that the callbacks add go in front, where the trigger has been.
    The theorem is about callbacks that remove only listeners at which no trigger
    in progress stands: removing another, their own included, frees the node that
    is read next.
  * `BlocksStayAligned`: each pointer lies in a block of its own, with the slot
    before it, and the slot holds the address of that block; the blocks are
    apart (`Apart`), so that neither the user's bytes nor another allocation
    touch a slot. That the rounding never leaves the block is `AlignUpBounds`.
  * `OneConditionImplements`, `OneConditionSuffices`: a thread is in the monitor
    exactly when it has the mutex, and what its wait has found is still true at
    the access (`QueueInv`), so that `push` finds room and `front` an item. That
    no wakeup is lost is inductive beside these: a thread waits only if its
    predicate was false, which is true of at most one of the two while the other
    is on its way to notify it.
* `LinkedProofs`, about the programs of `MCPrograms` that build lists and trees.
  Here the references are recursive functions. A recursive function of TLA+ is
  *some* solution of its equation, so that the proofs first build a solution,
  from the end of the list or from the root of the tree on, and then use that
  the chosen function satisfies the equation; what it returns follows by
  induction on a number, which `SequenceLemmas` derives from the least element
  of a set (`EveryNumber`), and not on the data.
  * `AlwaysSerialized`, for any threads, keys and finite memory. The links are a
    path (`IsPath`), a sequence of nodes, each once, with the values of
    `contents`; all other nodes are those about to be linked (`NothingElse`,
    `Fresh`). A walking thread is at one place of the path, and has passed by
    neither what it looks for nor anything it should have printed (`WalksAt`),
    which stays true because all others are outside (`OwnerSteps`): then the one
    link that is written makes the path longer or shorter by the right node.
    `ReachedOnPath` relates the path to the recursive function `Reached`.
  * `ListAlwaysMatches`, `NeverFollowsFreed`: the nodes of `List.c` are a chain
    (`IsChain`), a sequence of all allocated nodes, each once, every one leading
    to the next. `delete_node` walks along it and leaves behind it only nodes
    with other values, so that the node it unlinks is the first with the value;
    `free_list` shortens the chain from its head. Memory may be of any size.
  * `TraversalsAlwaysMatch`, for trees of any width and depth. For each path,
    from the deepest level up, `treeToStringM` returns the nodes below it, each
    once and in their order (`Traversal`), since the children's parts are sorted
    and each precedes the next (`FlattenSorted`). Between two levels the queue
    of `showLevelOrderM` is the next level in full, every path at its place
    (`FullQueue`): what `Level` pushes is as many rows of `NumChildren` paths as
    there were paths (`FlattenEqual`).

Only model-checked: liveness under fairness (`Termination`, `QuitEnds`,
`AdvanceReturns`, `AllConsumed`) and anything with `ENABLED`, which the prover
does not handle.

## 8. Not modelled

`imagebin.cpp` reads a file and sets one flag in a signal handler; the project
files have no behaviour; `swap` and the rest of `misc.txt` are copies of the
monitor. Of `Align-Padding.c` the printing of memory and structure layouts, which
the compiler decides, is left out; of `treechallenge.cpp` the functions that are
empty (`toTreeM`, `trackerM`) and the constants of its disabled `main`; of
`DynamicCallbacks.c` statistics, times and texts, and the variant at its top that
is not compiled. Inside the modelled components: arguments that the code does not
defend against and that lead to undefined behaviour (a block freed twice, a
negative event type, a size larger than the buffer of the id allocator, a
listener that frees the node a trigger stands at, `destroyList` in the middle of
another call), a `malloc` that fails in `List.c` (its result is not looked at),
an interrupted `sem_wait`, counters that wrap after 2^31 or 2^32
registrations, and a `callback_manager_init` in the middle of another call. Two
restrictions are not of the models but of passing runs and theorems, and runs of
section 6 show what happens outside of them: no callback is unregistered from a
callback while it runs (`UnregisterRunning`), and no timer callback removes an
event of the slot being executed (`SameSlot`).

## 9. Reproducing

    tlc -workers 2 -config MCSyncQueue.cfg MCSyncQueue
    tlapm SyncQueueProofs.tla

and likewise for the other configurations and proof modules; PROJECT.json lists
for every run its module, configuration and properties, and for every definition
the lines it models.
