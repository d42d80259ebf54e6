# WGFcodeNotes: TLA+ models and proofs

WGFcodeNotes is an iOS notebook: a small application whose classes implement, in Objective-C and in
Swift, the things its notes talk about. Its own logic is in three places: thread and timer utilities
(`WGFcodeNotes/WGCore`), a family of lock experiments (`TestCode/TestThreadLock`), and a library of data
structures and algorithms (`WGCore/数据结构与算法`). This directory models them in TLA+, checks the models
with TLC, and proves the central properties with TLAPS. `src/SourceCode` holds copies of the system's sources
that the notes discuss. The parts of them that the program's concurrent code rests on are modelled too: the
semaphore, group, once and lock of libdispatch, the run loop of Core Foundation, and of GNUstep the condition lock and
the requests to another thread (`NSThread.m`, `NSRunLoop.m`). The
rest of `src/SourceCode` and the `*.cpp` files (compiler output) are left aside.

Contents: 1 the system, 2 modules, 3 runs, 4 fairness, 5 proofs, 6 findings and other
observations, 7 what is not modelled, 8 plan.

## 1. The system and its parts

| part | state | operations | what is hard | what makes it correct |
|---|---|---|---|---|
| `WGGCDTimer` | static `timerDic` (name → source), semaphore `semp`, the sources | `handlerTask`, `cancelTask`, the event handlers | threads and handlers interleave between wait, lookup, store and signal; a handler cancels by a name captured earlier; names are reused | the table never holds a dead or misfiled timer; no running timer is out of reach; one-shot timers end |
| `WGPermanentThreadOC` | `innerThread`, `stopped`, the run loop's request queue, references | `run`, `executeTask`, `stop`, `dealloc`; on the inner thread `innerExecuteTask`, `innerStop` | pointer checked and read again; weak reference read twice; a caller blocks for the inner thread; a pass of the run loop performs all requests there are; release races the loop | tasks are lost or misplaced only after a stop and none is taken after it; every stop and every task is served; the thread ends |
| `WGBaseTestLock` + `OSSpinLockTest`, `OSUnfairLockTest`, `MutexLockTest`, `NSLockTest`, `SynchronizedTest`, `DispatchSerialQueueTest` | `money`, `ticketsCount`, one or two locks | `saveMoney`, `drawMoney`, `saleTickets` called by concurrent blocks | read–modify–write; which lock guards which property | the calls are indivisible updates; all blocks finish |
| `WGPermanentThreadC` | as `WGPermanentThreadOC`, without `stopped` | the same methods; the block runs `CFRunLoopRunInMode` | the run-loop source is released before it is added; `stop` performs a getter | tasks are lost only when the thread has ended; every request is served |
| `NSConditionLockTest` | a lock with a value | `__one`, `__two`, `__three` | all wake on every change; spurious wake-ups | the threads work in turn; all finish |
| libdispatch semaphore (`semaphore.c`, `shims/lock.c`), `DispatchSemaphoreTest` | `dsema_value`, a kernel semaphore made on demand | wait, signal, dispose | a timeout races a late signal; two threads make the kernel semaphore | it counts; no wake-up is lost or left over |
| libdispatch group | one word (generation, value, flags), a notification list, references | enter, leave, wait, notify, wake | the group is entered again while the last leave works; list with many producers | waits saw it empty; nothing is freed in use; everybody is served |
| libdispatch once (`once.c`, `shims/lock.h`) | the predicate word | the fast path, the gate, its waiters | a fast path without barrier, justified by a quiescent counter | the block runs once and is seen; all callers return |
| libdispatch unfair lock | one word | lock, trylock, unlock, tryunlock and slow paths | an unlock forgets all sleepers but the one it wakes | it excludes; failed trylocks are heard; nobody sleeps for ever |
| `CFRunLoop` | flags, ports, signalled sources, queued blocks, time limit | run, stop, wake up, signal, perform a block | wake-ups are ignored while the loop is awake; lists worked off without the lock | no wake-up is lost; all work and every stop is served |
| `WGMonitorManageDM` | `g_runLoopActivity`, a semaphore | two observers, the monitor thread | activity read after the timeout | hangs are reported, and only hangs |
| `NSConditionTest`, `MutextConditionLock` | `data`, a lock with a condition | `__add`, `__remove` | lost, stolen and spurious wake-ups | every sleeper has a signal to come; everybody finishes |
| linked lists: `WGSingleList`, `WGSingleCycleList`, `WGDoubleList`, `WGDoubleCycleList`, `SingleList`, `SingleCycleList`, `DoubleList`, `DoubleCycleList`; on top `WGStack`, `WGQueue`, `WGDoubleQueue`, `Queue`, `DoubleQueue` | `first`, `last`, `size`, nodes with `next`/`prev`, the cursor `current` | add, insert, get, set, remove, indexOf, clear, cursor moves | long call sequences; relinking at both ends; walking from the nearer end | links, size and cursor agree; the object is a list |
| array containers: `CircleQueue`, `CircleDoubleQueue`, `WGDynamicArray`, `DynamicArray`, `Stack` | array, `front`, `size`, capacity | enqueue/dequeue at either end, add/remove/get/set, clear, growth | wrap-around; growth while wrapped; stale slots | it is a deque / a list; unused slots are blank |
| `WGLeetCodeQueue` | two stacks | push, pop, peek, isEmpty | when the stacks are turned over | it is a queue |
| `WGBinarySearchTree`, the level-order loops of `BinaryTree` | nodes with left, right, parent; `size` | add, remove, contains, neighbours, walks, height, completeness | removing a node with two children; climbing | it is an ordered set |
| `WGBinaryHeap` | array with NSNull behind `size` | add, get, remove, replace, clear, heapify | reads of vacated places | it is a priority queue, as far as its calls return |
| `WGSort` | – | seven sorts, two bisections | bounds, equal keys | sorted permutation, stability |
| `LeetCodeInterview` | – | tree walks, inversion, symmetry, construction, validation; merging; list passes | explicit stacks and queues, index arithmetic | agreement with the recursive or declarative definition |

The parts hardly call each other: the application's view controllers use the timer and the thread class; the
stack and queue classes forward to the lists, `Stack.swift` to `DynamicArray`, `WGLeetCodeQueue` to two
`WGStack`s. The timer and the monitor use the semaphore, the monitors' shared objects `dispatch_once`, the
permanent threads and the monitor a run loop. Concurrency is confined to the rows down to the condition tests;
everything else is sequential and is hard because of the number of call sequences and boundary cases. `PROJECT.json` lists the hazards by line.

## 2. Modules

| module | models | state and actions |
|---|---|---|
| `WGGCDTimer` | `WGGCDTimer.m` | `timerDic`, `semp`, `source` (libdispatch's state of each timer), per actor `pc`, `timer`, `timerName`. One action per stretch between two points where another actor can act: `HandlerTask`, `SemaphoreWait`, `TakeName`, `Store`, `Resume`, `Return`; `CancelTask`, `Lookup`, `Cancel`; `Fire`, `TaskDone`. Actors are threads and the timers' own handlers |
| `WGPermanentThreadOC` | `WGPermanentThreadOC.m`, `WGPermanentThreadC.m` | `class`, the object, who refers to it, the loop's position (`weak` and `flag` are the two reads of `weakSelf`), the request queue (`requests`), what the present pass has taken from it (`toDo`), each caller's position. `Fire` is `-fire` of `NSThread.m`: it takes all requests; `InnerExecuteTask` and `InnerStop` perform them one by one (`_checkPerformers:`), and only then the `while` is tested again. `Exit` is the end of the thread, which invalidates what is queued |
| `Ledger` → `WGBaseTestLock` | lock tests | abstract: one indivisible update per call. Detailed: `Lock`, `Read`, `Write`, `Unlock`; `LockOf` is the lock table of a subclass, and each subclass's table is a definition |
| `NSConditionTest` | both condition tests | `data` (a count), `holder`, `waiting`, `pc`; `Spurious` switches spurious wake-ups, `Allocated` the missing allocation of `MutextConditionLock` |
| `NSConditionLockTest` | the test on GNUstep's `NSLock.m` | `condition_value`, `holder`, `waiting`, `log`; `When` and `Set` are the arguments of the three threads |
| `CountingSemaphore` → `DispatchSemaphore` | `semaphore.c` | every atomic operation and kernel call is an action: `Signal`, `Wait`, `Create`, `Install`, `Sema4Signal`, `Woken`, `TimedOut`, `Load`, `Undo`, `Dispose`; threads are users, posters or takers |
| `DispatchGroup` | `semaphore.c`, the list macros of `inline_internal.h` | `dg_state` as a record; clients are sequences of calls (`Programs`); history variables `begun`, `emptied`, `fired`, `done` carry the properties |
| `DispatchOnce` | `once.c`, `once.h`, `shims/lock.h` | the predicate, the counter (`counter`, `mask`, `since`) and `fresh`, the processors that have gone through a barrier since the block; `quiescent` chooses the build |
| `DispatchUnfairLock` | `shims/lock.h`, `lock.c` | the word, each thread's local waiters bit, the word it sleeps on |
| `ThreadTests` | – | composes the lock tests, the condition tests and the permanent threads: one of them runs, chosen by `kind`; the others stay as they were made, so the state space is the sum of theirs |
| `Dispatch` | – | composes the four objects of libdispatch in the same way |
| `CFRunLoop`, composed in `WGMonitorManageDM` | `CFRunLoop.c`, `WGMonitorManageDM.m` | the loop thread's position and locals, the shared flags and queues, the other threads (`Clients`); the monitor adds its semaphore and its observers, which are the loop's `CallObserver` step joined with `Callback` |
| `ListSpec` → `LinkedLists` (with `ListNodes`, `WGSingleList`, `WGDoubleList`, `SwiftLists`) | all list classes and the classes on top | a list is a record of links; an operation of a class is an operator from lists to lists; `LinkedLists` has one object of one class and the calls made on it |
| `Deque` → `CircleQueue` | array queues of `Queue.swift` | `front`, `size`, `array`, `length`; the whole call including growth is one action |
| `ListSpec` → `DynamicArray` | both dynamic arrays and `Stack.swift` | `slots`, `size`, `length` |
| `Fifo` → `WGLeetCodeQueue` | queue from two stacks | `inStack`, `outStack` |
| `SortedSet` → `BinarySearchTree` (with `BinaryTree`) | `WGBinarySearchTree.m`; the loops of `BinaryTree.swift` | a record of links, parents included |
| `PriorityQueue` → `WGBinaryHeap` | heap | the array with `Null` for NSNull |
| `WGSort`, `LeetCodeInterview` | algorithms | operators only (recursive ones, so TLC only) |
| `Containers` | – | the rings, the dynamic arrays, the queue of two stacks and the lists side by side, with their refinements; what `MCContainers` and the proofs share |
| `MCContainers` | – | one object of one list, array, stack or tree container, chosen by `kind`; the algorithms on the arrays and trees that occur |
| `MCThreadTests`, `MCDispatch`, `MCWGMonitorManageDM`, … | – | the instances TLC checks: programs, plans, fairness |

`A → B` means that B states `ImplementsA…` by `INSTANCE A WITH` a refinement mapping and a run checks it.
A call that ends the program (an exception, a failed assertion, a trap, a read through nil) sets `ret` to
`Trap` or `Crash` and nothing can follow.

External parts (the sources of libdispatch, ARC, locks, NSMutableArray) are modelled by what the
code relies on: a source whose last reference goes is stopped; a source does not run its handler concurrently with
itself; a weak reference reads as nil once the object is gone; unused nodes are released. Requests to another thread
follow the `NSThread.m` in the repository (GNUstep's; Apple's is not there): a nil thread is the thread of the caller,
a finished one raises, a request keeps its target alive until it was performed, and a thread that ends invalidates
what is queued and lets the callers that wait return.

## 3. Runs

| run | bounds | shows |
|---|---|---|
| `timer_table` | 2 threads, 3 timers, symmetric | `LookupCurrent`, `TableSound`, `Cancellable` in every interleaving |
| `timer_name_reused` | 2 threads, 3 timers | violation of `NamesUnique` (6.1) |
| `permthread_leak` | 2 callers, 2 tasks | violation of `ThreadEnds` (6.2) |
| `threads` | 1 saver, 1 drawer, 3 sellers, 2 rounds (the blocks `moneyTest` and `ticketsTest` dispatch, with 2 rounds instead of 5), table of `MutexLockTest`; 3 removers and 3 adders with spurious wake-ups; the 3 threads of `NSConditionLockTest`; both permanent threads with 2 callers and 2 tasks | `OldIsCurrent`, `ImplementsLedger`; `SleepersHaveSignal`; `InTurn`; `DroppedOnlyAfterStop`, `RequestsHaveObject`, `NoTaskTakenAfterStop`; under fairness `TestsEnd`, `RequestsServed`, `HeldThreadEnds` |
| `condition_stolen` | 2 and 2, no spurious wake-ups | violation of `RemovesSomething` (6.3) |
| `dispatch` | 3 threads; semaphore of value 1; 4 group programs; once with 3 first calls, or 2 and a later one with the quiescent counter up to 4; 2 rounds of the lock; and, on the semaphore of `WGGCDTimer`, 1 thread and the handlers of 3 timers | `WakeupsMatchWaiters`, `ImplementsCounting`, `WaitSawEmpty`, `FreedWhenUnused`, `OnceSeen`, `HeldAndHeard`; under fairness `EverybodyServed`, `EveryOneShotEnds` |
| `group_early` | the group programs | violation of `NotifiedAfterEmpty` (6.5) |
| `runloop` | 4 plans of 3 other threads: blocks and a stop; sources against runs that return after one, with time limits; messages and a stop of the mode; the monitor with callouts that may hang | `NoLostWakeUp`; under fairness `WorkServed`, `HangReported` |
| `monitor_false` | the same | violation of `ReportsOnlyHangs` (6.6) |
| `lists_ring` | `WGSingleCycleList` | violation of `RingClosed` (6.4) |
| `containers` | see below | `Vacated`, `TreeOrdered`, `WellLinked`, `SortAndSearch`, `WalksAgree`, `TreeSolutions`, `ArraySolutions` and six refinements |
| `heap_remove_fails` | the heaps of `containers` | violation of `RemoveReturnsTop` (6.7) |

Why the bounds are enough. *Timers*: a name is reused while another timer still has it as soon as there are
three timers; two threads are enough for every pair of calls to overlap, and handlers are actors of their own. Liveness
is checked with one thread and the three handlers, in `dispatch`, where the timers are created in the order of their
numbers (they are all alike). Each is created once, so `EveryOneShotEnds` asks that in the end no one-shot timer runs.
*Thread*: two callers cover concurrent stops, a stop behind a task, and a release during either. *Locks*: two
rounds let a worker come back while others are inside; the theorems hold for any number. *Condition*: with three
removers one can sleep, one be woken and one steal. *Dispatch*: with three threads one signals or leaves while a
second times out and a third arrives, two make the kernel semaphore at once, and two sleep on the lock when a
third comes; the group programs empty, fill and empty the group during a wait, and let two notifications meet the
last leave; the counter goes as far as `DISPATCH_ONCE_GEN_SAFE_DELTA`. *Run loop*: every kind of request meets
every point of a round, with another one before it; `MaxSignals` = 2 is one signal per observer not yet taken, and
an observer waits beyond that, which only delays it. *Lists* (13 classes, up to 3 elements with values 1, 2 and 4
nodes): at three elements the first, the middle and the last
are different nodes, and both halves of the walk from the nearer end are used; a fourth node keeps what a lost
cursor holds alive. *Containers*: rings start with two slots and grow to 3 and 4 and 6 with up to five elements, so
growth happens in every rotation; arrays start at 2 or 3 and hold up to four; trees of up to five elements contain all
shapes up to that size, removed nodes with two children and neighbours three levels apart; heaps are built from
every array of up to five values out of four, and the sorts run on the same arrays, so every pattern of equal keys
occurs.

`VIEW ObjectState` (in `containers`) leaves the last call and its result out of the state's
identity: no action reads them, apart from whether the program has ended, which the view keeps. The refinements
are checked on every transition, so every call's result is still compared. `SYMMETRY` is used for safety only,
on threads and timers, which the specification never distinguishes.

`CHECK_DEADLOCK FALSE`: blocks and threads finish, a stop before `run` waits for ever, the program may have ended.

Restrictions on callers, each a named constant: `CallerChecks` (nobody takes from an empty ring), `Careful` of
`LinkedLists` (no insertion in front of a non-empty `WGSingleCycleList`, the cursor is used only while its node is
in the list, Swift indices are valid), `Careful` of `DynamicArray` (Swift assertions are kept, the capacity is at least 2).
What happens otherwise is in section 6. `clear` of a Swift array that holds elements is not among them: callers may
call it, and it ends the program (line 123 of `DynamicArray.swift`, although line 119 promises that it clears); it is
the one exception that `ImplementsArrayList` names (`ClearFails`). `ImplementsPriorityQueue` speaks of the calls that
return; `heap_remove_fails` shows some that should and do not.

What the properties of the algorithms do not say: `SortAndSearch` claims stability of the bubble and insertion sorts
only (`WGSort.m:83` claims it of the selection sort too, wrongly); `WalksAgree` is about trees of different values;
`ArraySolutions` claims `merge`, `merge1` and `merge2` for parts of equal length only.

## 4. Fairness

* Timer: a begun call and a handler go on (weak fairness per thread and handler); `dispatch_semaphore_wait`
  serves its waiters, which libdispatch does in order, so the wait is strongly fair. Nothing obliges a thread to
  make another call.
* Permanent threads: the loop and a begun call go on (weak). Nobody has to call `run`, `stop` or release; so
  `RequestsServed` speaks of a started thread only.
* Lock tests and condition tests: blocks and threads run (weak). Their loops are finite, so a lock or a value
  comes for good to whoever is left, and nothing stronger is needed of the locks.
* libdispatch: threads run and make their calls (weak), and a timed wait for a semaphore times out. The loops that retry
  a compare-and-exchange end because calls are finitely many. Nothing is assumed of the order in which a
  kernel semaphore serves, of the quiescent counter (it may stand still) or of timeouts of a group.
* Run loop and monitor: the loop thread, the observers, the monitor and the clients go on, and time passes (weak).
  A hung callout need not come back.

## 5. Proofs

All theorems hold for every value of the constants that satisfies the named assumption.

* `WGGCDTimerProofs` (`ActorsDisjoint`: threads, timers and nil are different things): `TypeCorrect`,
  `CancelActsOnCurrent`, `TableIsSound`, `NoTimerOutOfReach`. None of the three is inductive alone. The
  invariant adds that at most one actor is between wait and signal (`SempExcludes`), that handlers never create
  (`OwnPart`), and that the source a call is creating is its own and not yet stored (`OwnSource`). The heart is
  `StoreStep`: storing over an existing name drops the last reference of the old source unless its creator has
  not returned, so it stops rather than runs on.
* `WGBaseTestLockProofs`: `TypeCorrect`, `NoLostUpdate`, `Implements` for any workers, rounds, and lock table
  that gives each property one lock (`OneLockPerValue`); `SubclassesImplement` instantiates it with the tables of the
  six subclasses, `NSLockTest` included, which guards the tickets with the money's lock. Inductive: types,
  whoever is inside holds the lock (`Holding`), and `OldIsCurrent`. Refinement: `Write` is the indivisible update,
  the other steps stutter.
* `ArrayContainersProofs` (`CircleAssumption`: capacity at least 2, callers check; `ArrayAssumption`: capacities are
  natural numbers), three of the containers that `Containers` puts together:
  Rings: `TypeCorrect`, `UnusedSlotsBlank`, `RingsAreDeques`. The lemmas about `index(_:)` (in range, injective, before
  and after) carry the argument; `TypeOK /\ Vacated` is inductive; growth keeps the queue's sequence by slot arithmetic.
  Dynamic arrays: `ArraysAreLists`, all calls but `clear` of a Swift array that holds elements, which ends the program
  (`ClearImplements` has both cases). Inductive (`ArrInv`): the elements lie in the slots, and a Swift array has exactly
  as many slots as its capacity, which is at least 2, so that one and a half times of it has room for one more (`Grown`).
  Each method has a lemma that it is the list's method: `OpenedInserts` and `ClosedRemoves` compare the shifted
  slots with the list position by position, `IndexOfProperties` shows that a search stops before what is left behind `size`.
  Two stacks: `StacksAreQueue`, by the sequence "outStack from its top, then inStack from its bottom".
* `LinkedListsProofs` (`ListAssumption`: nodes have addresses other than nil, and memory holds finitely many;
  callers as `Careful` says, section 3): `ListsStayLinked` and `ListsImplementLists`, for all thirteen
  classes. `WellLinked` speaks of walks from `first` and is not inductive: a step changes links and with them every
  walk. So the invariant (`ListInv`) says that the object represents some path, a function from 0..size - 1 to
  different nodes along which `next` leads forth and, in the two-way lists, `prev` leads back (`Shape`). The argument has
  four layers. (1) Walks: a walk visits the path, from either end (`PathWalk`, `BackWalk`); what a walk computes is
  obtained from the recursive function by a least counterexample (`Least`, `Induct`, `Recursion`), so no induction
  rule is needed. (2) Memory: `Reachable` contains the path and the cursor, so forgetting the rest changes neither
  (`SettledShape`), and a node it does not contain is not on the path (`AddEffect`). (3) Methods: an insertion
  has to meet `Joins`, a removal `Leaves`, which say what the assignments must have done to the links, and then represents
  the path with the node inserted or deleted (`InsertShape`, `DeleteShape`); each class's `add:` and `remove:` has
  a lemma of its own that it does, branch by branch (ends, single node, ring or not). (4) Refinement: the elements
  along the path are the abstract content (`ContentGained`, `ContentShrunk`, `ContentChanged`), the cursor's place on the
  path is the abstract cursor (`CursorGained`, `CursorShrunk`), and each call has a lemma that it is the list's call;
  `CallsOfList` reduces the stacks and queues to calls of their lists.
* `ThreadTestsProofs` (`ConditionAssumption`: every call of `otherTest` starts one remover and one adder, finitely
  many; `ConditionLockAssumption`: the threads wait for different values; `PermanentAssumption`), on `TestsSpec`, the
  specification the run `threads` checks: `NoSignalLost`, `WorkInTurn`, `LostOnlyToStop`, `ObjectOutlivesRequests`,
  `StoppedTakesNothing`. `SleepersHaveSignal` needs the lock (`holder` is the thread inside) and a count: the elements
  there are and the adders that have not signalled are enough for the removers that sleep or will look, so whoever goes
  to sleep finds an adder of its own to come. `InTurn` needs that the
  value is that of the last thread in `log`, so that only one thread can pass `lockWhenCondition:`. The permanent
  threads need to know who holds the object at every point of a call (`Held`): a caller that waits keeps it, so does
  a request that is queued or taken, and in `dealloc` nobody is left but its own stop. `StoppedTakesNothing` is about
  the next pass: a task that the pass of the stop has taken already (`toDo`) does run behind `innerStop`.
* `WGMonitorManageDMProofs`: `WakeUpsAreNotLost`, `NoLostWakeUp` of the run loop with its monitor, for any clients and
  plans. `CFRunLoopWakeUp` drops wake-ups while the loop is awake; so the invariant says, for every position of the
  loop, which requests it will still see before it sleeps (`StopsSeen`, `BlocksSeen`, `SourcesSeen`, `TimeoutSeen`),
  that it listens to its port from there on (`Listening`), and what is kept for others (`KeptForOthers`).
* `DispatchProofs` (`SemaphoreAssumption`: finitely many threads, a natural initial value; `GroupAssumption`: enters
  and leaves balance, and a thread gives its reference back last or has none and only leaves, as `dispatch/group.h`
  asks of callers; `DispatchAssumption`). On the specification of the semaphore: `NoWakeupLost`
  and `Implements` (`CountingSemaphore`). `WakeupsMatchWaiters` needs the types and `PortMade`: whoever uses the kernel
  semaphore finds it made, only the installed one holds wake-ups, and only waits with a timeout give up. Each step
  moves one thread, so the lemma `Moved` says by how much the numbers of waiters and posters change. In the refinement
  `Signal` posts, a fast `Wait` and `Woken` are grants (there is a permit because the wake-ups match the waiters), a
  slow `Wait` asks, a successful `Undo` expires, and the rest stutters.
  On `DispatchSpec`, the specification the run `dispatch` checks:
  `LockExcludes`: the word names exactly the thread that holds the lock, and its bit says exactly that a failed
  trylock is unheard.
  `OnceRunsAndIsSeen`, the argument of the long comment at `lock.h:458`: `Gate` (what the word says of the block and its
  runner), `Barriers` (the counter is at most one ahead of a thread's last barrier) and `Visible`: once the counter is
  two past a published generation, the processors that have switched in this round have seen the block, and three past
  it all have. The code waits for four.
  `WaitsSeeEmpty`: a wait that sleeps on a generation older than the group's was begun before the group was empty
  (`Generations`), since the generation moves only in the addition that empties the group.
  `NothingFreedInUse` counts references exactly (`References`): one per client that has not released, one while there
  are blocks in the group, less one per `enter` that has not retained yet, one per last `leave` still at work and one
  for the notifications, which belongs to the flag or to the thread that took it. It needs `Entered` (the leaves to
  come are the enters to come and the value), `Listed` (the flag is set or one thread has the duty to take the list,
  never both) and `WaitersSeen` (an empty group shows waiters only while the last leave is about to take the flag).
  With no reference left there is no owner, so no `enter`, `wait` or `notify` to come, hence no `leave`, and nothing
  on the list. For the semaphore: its value, the waiters and the users inside account for the first value
  (`Accounted`). `InsideCall` and `CallBegins` say what is left to show of a step of the group, and each of
  the sixteen actions has a lemma of its own.

The inductive invariants of the other components were model-checked on the runs' instances before they were proved;
`ListInv` quantifies over all paths, which TLC cannot enumerate, and the run checks what it implies, `WellLinked`.

Only model-checked: all liveness, everything that rests on `ENABLED`, and what is written with recursive
operators: the algorithms (`WGSort`, `LeetCodeInterview`, the loops of `BinaryTree`: `SortAndSearch`, `WalksAgree`,
`TreeSolutions`, `ArraySolutions`), the search trees (`TreeOrdered`, `ImplementsSortedSet`) and `WGBinaryHeap`, whose
sifting is recursive (`ImplementsPriorityQueue`).

## 6. Findings and observations

Shown by a violation run:
1. **`WGGCDTimer.m:63`** – the name is `timerDic.count`, which repeats after a cancel; the header calls it
   unique. A new timer replaces a live one. (`Cancellable` shows that the replaced one at least stops.)
2. **`WGPermanentThreadOC.m:41`** – `weakSelf && !weakSelf.stopped` reads twice; if the object goes in between,
   the thread sleeps in its run loop for ever although `stop` should end it.
3. **`NSConditionTest.m:58`** – `if` instead of `while`: a second remover steals the element.
4. **`WGSingleCycleList.m:75`** – the last node is looked up after `first` changed; inserting at index 0 cuts the
   old last element off. The Swift twin does it in the right order.
5. **libdispatch `semaphore.c:255`** – the last leave takes the notifications head first and tail later, when the
   group may have been entered again: the notification of a thread that enters and notifies in between is submitted
   while that thread is in the group; `dispatch/group.h:179` promises it for when all blocks have completed.
6. **`WGMonitorManageDM.m:108`** – the activity is read after the wait timed out: a timeout while the loop sleeps,
   then the loop wakes up, and the monitor reports a hang that is none.
7. **`WGBinaryHeap.m:166`** – `siftDown` reads the value of the right child before it checks that there is one, although
   line 159 knows of nodes with a left child only: `replace` in a heap of two elements, or `remove` from one of three,
   ends the program, while `WGBinaryHeap.h:74` and `:77` promise the top that was deleted.

Observed while modelling, without a run of their own:
* Timer: after its name was reused, a one-shot timer's handler cancels the other timer.
* Permanent thread: `stop` on an object that was never run blocks. If `innerStop` makes `innerThread` nil between check
  and perform, `NSThread.m:2157` takes the current thread: the task runs on the thread of its caller (`"astray"`),
  although the comment in line 95 has it run on the inner thread. A perform on a thread that has ended raises
  (`NSThread.m:2185`), also the one of the stop in `dealloc` (`pc = "raised"`). Tasks queued behind `innerStop` before
  its pass began still run.
* `WGPermanentThreadC.m:79`: `stop` performs the getter `innerThread`, `innerStop` is never called, so the thread
  does not end; lines 40 and 42 release the run-loop source before it is added.
* `NSConditionLockTest`: a second `otherTest` would wait for ever, since the value ends at 3.
* libdispatch semaphore: a wait that timed out but was counted by a signal waits without a limit for that wake-up,
  and others may keep taking it first; so a timed wait is not bounded by its timeout, not even by fairness.
* libdispatch once: `dispatch/once.h:89` tells the compiler that the predicate is done after `dispatch_once`, while
  with the quiescent counter it is still a generation. The model's `OnceSeen` would hold with a delta of 3; the
  code's 4 leaves a step of margin for what the comment at `lock.h:458` says of the counter's reads.
* `BinarySearchTree.swift:96`: the new element is compared with itself, so it always goes to the left, also when it
  is greater (line 10 of the file states the search order). The class builds no search tree and has no model.
* `MutextConditionLock`: `data` is never allocated, so adding does nothing; the mutex attribute is destroyed before use.
* Lists: `WGDoubleCycleList` leaves `current` on a removed node after `clear`/`remove:`; `get:`/`set:` of the two-way
  lists do not check the index (so `top`/`front` of an empty stack or queue read through nil); `SingleCycleList.swift` does not link its only node to itself.
* `CircleQueue.deQueue` on an empty queue makes `size` −1; the next element is misplaced, `clear` traps.
* `DynamicArray.swift`: capacities 0 and 1 do not grow; `clear` casts NSNull to the type of the elements and ends the program (line 123); `removeElement` of an absent element
  asserts; `-1 as! T` ends `Stack` of nodes, so `BinaryTree.swift`'s stack walks end the program.
* `BinaryTree.swift`: recursive walks recurse on the root; `==` on nodes is always false; the successor is sought on the left.
* `WGBinarySearchTree.m`: `height` returns 0, `isComplete` YES, `levelOrderTraverse` does nothing (loops commented out).
* `WGBinaryHeap`: `remove` of the only element reads the place it has just emptied, and `get` of an empty heap one that
  was never filled or is empty again.
* `WGSort`: selection sort is called stable in line 83 and is not; `sort_shell` is empty; `sort_count` stores behind the end.
* `LeetCodeInterview.swift`: `merge`, `merge1`, `merge2` take `m + m` for `m + n` and trap even on the
  example of their own comment (m = 1, n = 0); `postorderTraversal2` recognises children by value and fails on
  equal values.
* `WGMonitorManage.m:54`: the guard against a second start is inverted, so the monitor never starts. `WGLeetCode`: `removeElements` only moves the head; `isValid` does not work.

## 7. Not modelled

* `BinarySearchTree.swift` and the neighbours, recursive and stack walks of `BinaryTree.swift`: they build no search tree
  or do not return (section 6). The loops over a queue are modelled and run on the trees of the Objective-C class.
* `WGMonitorManage`: its start returns at an inverted guard, so nothing else of it is reached.
* `ReadWriteLockTest`, `ReadWriteLockTest1`, `MutexRecursiveLockTest`, `NSRecursiveLockTest`: a system lock around a
  log line. The locks are not in the repository; a property of the test would repeat the lock's specification.
* `WGLeetCode`: short pure functions, several unfinished; the finished ones repeat what is checked elsewhere.
* User interface and start-up code, message forwarding, runtime hooks, encryption wrappers, memory dumps and data
  classes have no algorithm or state of their own to check; `AVLTree`, `RedBlackTree` and `WGHashTab` are empty.
* In the modelled system code: crashes on recursive locking, the gate (`_dispatch_gate_*`) that the unfair lock's
  file also holds, kernels other than Apple's; nested runs of a run loop, common modes, the arming of timers,
  invalidation of sources and observers, modes that become empty.
* The other sources under `src/SourceCode` (the queues of libdispatch, the Objective-C runtime, the rest of Core
  Foundation, Swift's headers) and the compiler output in `src/*.cpp`. They are most of the repository's lines, and
  the program neither builds nor changes them: the models cover the program itself and what its concurrency needs.

Timing (intervals, start delays) is abstracted to "may fire"; ints are unbounded, as no code here comes near their
width (the generation of a group and the value of a semaphore would need 2³² calls).
`IntMin`/`IntMax` in `LeetCodeInterview` stand for bounds no value reaches.

## 8. Plan

1. Proofs: the search trees with paths from the root, as the lists were proved with paths from `first`; it needs
   `BinaryTree` without recursive operators.
2. `CFRunLoop` with nested runs and two modes, whose stop flags and ignored wake-ups belong to different runs.
3. The serial queue of libdispatch (`queue.c`), which shares the list macros with `DispatchGroup`.
