# Verification of the userspace contexts of constructIM

constructIM is the base library of a Matrix server: `ircd/` is C++ over one
boost::asio event loop, and its core is `ircd::ctx`, a library of cooperative
userspace contexts ("fibers") with the synchronisation primitives written for
them.  This directory holds TLA+ modules of that core, TLC configurations that
check them on small instances, and theorems whose proofs TLAPS checks.

Paths are those of the repository, under `src/`.  `PROJECT.json` maps every
definition that models code to the lines it models.

## How to run

    tlc -config MCLinks.cfg MCLinks    # one run; each cfg names its properties
    tlapm PoolProofs.tla               # the proofs of one module (and of all it cites:
                                       # QueueLemmas.tla has those about queues)

## Inventory

### How the system executes

One thread (the "main" thread) runs asio's event loop.  A context has its own
stack; when it suspends, control returns to the loop, and somebody has to wake
it.  What wakes it is always the same thing: `alarm`, an asio timer of the
context, is cancelled, and the handler that resumes the context is queued in the
loop.  There is no preemption, hence no data race between contexts; the hazards
are in what changes while a context is suspended, in wake-ups that are lost or
meant for somebody else, and in the exceptions an interruption throws out of a
suspension.  Other threads exist in two places only: the offload engine
(`ctx_ole.cc`) and whatever thread calls `interrupt()` through the loop.

### Components

| component | code | state | operations | who it talks to |
|---|---|---|---|---|
| context scheduler | `ircd/ctx.cc` 1-1140, `ircd/ctx.h`, `ctx/this_ctx.h`, `ctx/continuation.h`, `ctx/uninterruptible.h` | `current`; per context `notes`, `alarm`, `cont`, `flags`, base frame | enter, wait, wait_until, sleep, resume, notify, interrupt, terminate, interruption points, suppression scopes, yield | the event loop; everything above it |
| context objects | `ctx.cc` 1180-1400, `ctx/context.h` | the `ctx` owned, flags POST/DISPATCH/DEFER/DETACH/WAIT_JOIN, dock `adjoindre` | construct, join, detach, destroy | scheduler, event loop |
| list, dock | `ctx.cc` 2722-3260, `ctx/list.h`, `ctx/dock.h` | head, tail; a node in each ctx | push in five places, pop, remove; notify, notify_one, notify_all, wait with predicate and deadline | every primitive |
| mutex | `ctx/mutex.h` | owner `m`, dock `q` | lock, try_lock, try_lock_for/until, unlock | dock |
| shared_mutex, upgrade_lock | `ctx/shared_mutex.h`, `ctx/upgrade_lock.h` | `u`, `s`, dock `q` | lock, unlock and try in three modes, promotions and downgrades | dock |
| condition_variable, unlock_guard | `ctx/condition_variable.h`, `ctx/unlock_guard.h` | a dock | wait, wait_for, wait_until, notify | dock, any lock |
| queue | `ctx/queue.h` | deque, dock | push, emplace, pop | dock |
| pool | `ctx.cc` 1400-1700, `ctx/pool.h` | queue of jobs, dock `q_max`, vector of contexts, counters | submit, add, del, set, min, interrupt, terminate, join, destroy; worker loop | queue, context objects |
| latch, concurrent, concurrent_for_each | `ctx/latch.h`, `ctx/concurrent*.h` | counters, docks | count_down, wait; run f over a pool | dock, pool |
| view | `ctx/view.h` | pointer to the value, waiting count, mutex, docks | producer hands a value to all waiting consumers | mutex, dock |
| promise, future, shared_state | `ctx.cc` 2037-2715, `ctx/promise.h`, `future.h`, `shared_state.h` | a chain of promises and a chain of futures that point to each other's heads | make, set, break, copy, move, assign, drop, get, wait | dock |
| when_any, when_all, async | `ctx/when.h`, `ctx/async.h` | the `then` closure of each pending future | when_any, when_all, async | promise and future, pool |
| offload engine (ole) | `ircd/ctx_ole.cc` | std::mutex, std::condition_variable, queue, threads, termination | offload, push, pop, worker, init, destroy | latch, event loop, threads |
| run levels | `ircd/run.cc`, `run.h`, `util/instance_list.h` | `level`, `chadburn`, dock of `changed`, the list of handlers | set, barrier, register, handlers | every component at start and shutdown |
| event loop (ios) | `ircd/ios.cc`, `ios/*.h` | `handler::current`, descriptors with their counts, the ticks without a poll | post, dispatch, defer, yield; enter and leave a handler | boost (external) |
| pthread emulation | `ircd/ctx_posix.cc`, `ctx_posix.h` | vector of contexts by pthread_t, the hook flag | pthread_* over contexts | context objects, mutex, shared_mutex, condition_variable |
| allocator | `ircd/allocator.cc`, `allocator/*.h` | bitmap, `last`, `size` | allocate, deallocate, search; five front ends | containers |
| profiler, assertions | `ctx.cc` 1720-2030, `ctx/prof.h`, ... | the timestamp of the slice, cycle counters, limits | charge a slice, check it, measure a scope | scheduler, descriptors |
| exception handling | `ircd/ctx_eh.cc`, `ctx/exception_handler.h` | the record of exceptions of the C++ runtime | save, restore, end a catch block early | scheduler |
| buffers, strings, stats, time, util | `buffer/`, `util/`, `stats.h`, ... | value types | formatting, RAII | - |

### What is hard in each, and what makes it correct

* **Scheduler.**  `note()` wakes a context on its first note only; a flagged
  context wakes early; `adjoindre` is one static dock for all joins; nested
  suppression scopes may throw while they are opened or closed.  Correct when no
  note and no completion is slept over, when `terminated` is thrown once, and
  when suppression ends exactly with its scopes.
* **List and dock.**  The links live in the contexts, `remove()` decides by
  pointer whether to pop, `notify()` rotates.  Correct when the two chains agree
  after any sequence of operations and the removed node is clean.
* **Mutex.**  `unlock()` disowns before the waiter runs, so a third context may
  barge in; the waiter may be interrupted, or its deadline pass, between being
  notified and running.  Correct when at most one context is past `lock()`, the
  dock holds exactly the waiters, and a free mutex with waiters always has one
  of them on its way.
* **Shared mutex.**  Two words, `u` and `s`, tested and changed by fifteen
  operations.  Correct when unique ownership excludes everybody and `s` counts
  the shares.
* **Pool.**  Two docks, interruptions and terminations of workers and of blocked
  clients, resizing while jobs run.  Correct when jobs are not slept over, when
  blocked clients are told of room, and when joins end.
* **Condition variable, view.**  Both unlock a mutex, sleep and lock it again on
  every way out, exceptions included, while they are still in a dock.  Correct when
  no signal is lost on a context that stays asleep, and when a consumer has the
  object for as long as it looks at it.
* **Latch, concurrent.**  Jobs refer to the caller's frame; jobs throw, the caller is
  interrupted, the pool refuses.  Correct when the caller waits for jobs that are to
  come and for all of them.
* **Promise and future.**  Two singly linked chains are rewritten by every copy,
  move, assignment and destruction of either side, and READY overwrites the
  pointer by which the other side is found.  Correct when the two sides always find
  each other, every future learns the first result of its own promises, or that the
  last of them is gone, and a wait ends with it.
* **when_any, when_all.**  Closures left in futures outlive the call and run while a
  result is being set.  Correct when no result is orphaned and none comes early.
* **Offload.**  Real threads; the sleeping context is woken by a closure posted
  to the loop.  Correct when the frame outlives the function and every context that
  waits is waited for.
* **Run levels.**  A transition runs handlers that suspend; waiters are notified
  in the middle; handlers come and go.  Correct when transitions exclude each other,
  every waiter wakes and no handler is skipped.
* **Event loop and context objects.**  Contexts hand the thread to each other on one
  stack, spawn and destroy each other and free themselves.  Correct when the two
  registers say who executes and each context is freed once.
* **pthread emulation.**  An iterator is held over a suspension, calls refuse with
  an error after they began.  Correct when a join returns after the thread, nothing is
  destroyed in use and an error has changed nothing.
* **Allocator.**  Correct when no two live runs share a block and `next()` finds what
  its two passes promise.
* **Profiler.**  One timestamp is shared by all contexts.  Correct when every tick is
  charged to who executed.
* **Exceptions.**  The runtime's record is one per thread.  Correct when it is that
  of the context that executes.

The hazards of each are listed, line by line, in `PROJECT.json`.

## Plan

Modules, in order of importance; all of them are written:

1. `Sched`, the abstract scheduler, what the primitives may assume, and `Ctx`, the
   detailed machine that implements it; `Queues`, what notifications do to a dock;
   `CtxProofs`.
2. `DockQueue` and `CtxList`, sequences and the linked list that implements them;
   `Bonds` and `Chains`, who speaks to whom and the chains of promises and futures
   that implement it; `Links`, what both lists share.
3. `Mutex` over `Sched`; `QueueLemmas`, what the operators on queues return.
4. `SharedMutex`, `Pool` (with `queue`, `q_max`, `adjoindre`), `View`, `Futures`,
   `Run`, `Ole`, `Concurrent` over `Sched`; `CondVar` over `Sched` and `CtxList`;
   `PoolProofs`, `RunProofs`, `OleProofs`.
5. `When` (calls and closures, nobody suspends), `Handlers`.
6. `Ios`, `Slices`, `Catches`: the thread below the scheduler.
7. `Posix`, `Alloc`.
8. The proofs about what the MC modules put together: `SyncProofs` over `MCSync` (`Mutex`,
   `When`, `Handlers`, and `Ole` by `OleProofs`), `TasksProofs` over `MCTasks`
   (`SharedMutex`, `View`, `Concurrent`, `Posix`), `LinksProofs` over `MCLinks` (`Futures`,
   `CtxList`).

Left for later, as theorems: that `Chains` implements `Bonds`, `WaitersQueued` of
`SharedMutex`, and the invariants of `CondVar`, `Ios`, `Slices`, `Catches` and `Alloc`.  As
models: jobs that submit to their own pool; a pool under `Concurrent` instead of what a
caller meets of it; malloc's hook (`allocator::scope`).

## The modules

### Sched - what a primitive sees of the scheduler

`current` is `ircd::ctx::current`.  `stage` abstracts notes and alarm: a context
is "running", "asleep" (on its alarm, nobody has woken it), "ready" (its
resumption is in the event loop) or "done".  `pend` and `masked` are the flags.
`Wake(stage, W)` is what `note()` of the contexts of W does.  The operators on
docks, `Front1`, `Rotated` and `Without` of `Queues`, are those of
`dock::notify_one()`, `dock::notify()` and `list::remove()`.

Because no context runs while another does, the modules merge what a context does
when it resumes (its predicate, leaving the dock) with the resumption itself:
nothing can happen in between.

### Ctx - the context machine

`Enter` and `Exit` are `ctx::operator()` with its precocious interruption point
and its `atexit`; `Wait`, `Expire` and `Resume` are `ctx::wait()`, the timer and
`continuation::enter()`; `Join` and `Joined` are the wait of `context::join()`
on `adjoindre`; `Notify`, `Request`, `Point` are the calls of the same names;
`OpenScope` and `CloseScope` are the constructor and destructor of
`this_ctx::uninterruptible` and its `nothrow` form.  `notes` saturates at 2,
since the code tells 0 from 1 from more.  `alarm` is "queued" once the timer's
handler is in the loop.

`ImplementsSched` maps this state to `Sched`: asleep is a pending alarm, ready
is a queued one or an entry not yet made.

### CtxList and DockQueue

`CtxList` translates the pointer updates of every list operation, `DockQueue`
states the same operations on sequences; the variable `did` names the last
operation on both sides, so that an operation can only implement its own
counterpart.  Assertions of the code (`push` of a context in no list, `remove` of
a member) are preconditions.

### Chains, Bonds and Links

`Chains` has the four pointers of the code: `st` and `pnext` of a promise
(`promise_base::st`, `next`), `p` and `fnext` of a future (`shared_state_base::p`,
`next`).  `p` shares its memory with `future_state` in the code, and does so here: a
future whose `p` is a promise is PENDING.  `remove()`, `update()`, `append()`,
`make_ready()` and the four functions that tell one side about the other are
operators on a record of these maps, in the order of the code; the actions are the
constructors, assignments and destructors that call them, `set_value()` (or
`set_exception()`) and `get()`.  An assignment destroys its target first.

`Bonds` says what this is for: a promise `speaks` to a set of futures, its copies to
the same set, the first answer reaches all of them, and the end of the last promise
is an answer ("broken").  `ImplementsBonds` maps the chains to those sets.

Preconditions: a promise is copied while it is valid and a future while it is
PENDING (asserted by `append()`); a copy-assigned future has no stale `next`
(asserted there too); a promise that was answered is not given another future while
it still points to the copies it had (its `next` is not reset).

`Links` holds what both linked structures need: the nodes met along a chain.

### Mutex

`Acquire` is every way to take a free mutex, `Contend` the wait, `Unlock` the
release; the resumption out of the dock is `WakeOwning`, `WakeInVain`,
`WakeExpired` or `WakeThrown`, by the order in which the code looks: interruption
first, then the predicate, then the deadline.  The rest of the program is there
too: contexts suspend for other reasons holding the mutex or not, open and close
suppression scopes, return, are interrupted, terminated and notified at random.

### SharedMutex

`u`, `s` and the dock as in the code; `holds` and `wants` are history, what each
context was given and what it waits for, and the properties compare them with `u`
and `s`.  `Least` stands for the least ssize_t, three below zero, enough for the
failed `try_lock_shared()` to count up from it (the bound `s # -1` keeps three
failures from reaching zero, which takes 2^63 in the code).  Assertions have no
effect in the model, as in a release build.

### Pool

`Submit`, `Block`, `Unblock` are `pool::operator()`; `Enter`, `Loop`, `Pop`, `Done`,
`Exit` are `pool::main()` and `work()` with `queue::pop()` inlined; `Add`, `Del`,
`Joined`, `RequestAll`, `Destroy`, `Destroyed` are the control panel and the
destructor (`set` and `min` are sequences of `add` and `del`).  A job may suspend,
be interrupted, throw an exception of its own, interrupt or notify others.
`avail()` is `running - working`, which is the number of workers in the loop and
not in a job.

### CondVar

A monitor: contexts put and take tokens under one mutex and wait for them in every
way the condition variable offers (`wait`, with a predicate, with a deadline).  The
queues are the linked lists of `CtxList`, because both docks link the same node of the
context: `~unlock_guard` locks the mutex while the context is still in the queue of
the condition.  `WakeCv` is the end of the sleep, `WakeRelock` the end of that lock,
`Ends` the destructors at the end of the wait (remove; and if an exception is in
flight, notify the next one).  `HoldsAsleep` says whether contexts suspend for
something else while they own the mutex.

### View

`t` says whether the producer shows its object, `wanting` and `waiting` are the two
semaphores of the code.  `Consume1`, `Consume2` are the two calls of `consume()` in
`wait()`, `Produce`, `Publish` and `Retract` the two of `produce()`; the sleeps in the
dock of the view and in the mutex are places of each context.

### Futures

The futures of one promise, each with its dock and its state.  `SetResult` and `End` are
what the contexts of `async()` do to their copies of the promise (`Chains` has the lists
behind it); `Await` is `get()` or `wait()`, with a deadline or not, and the `Wake`
actions its end, in the order in which the code looks.

### Run and Handlers

`Run` has the contexts: `Set` waits for a transition in progress, `Start` changes `level`
and tells the dock, `Finish1` is the unwind that ends it, `Barrier` waits for levels.
An interruption at QUIT is a termination, as `interrupt()` makes it.
`Handlers` has the list of `run::changed` that `set()` walks: instances come and go while
one of them suspends its context.  A handler that throws a `std::exception` ends the
transition unless it leads down (`Throws`); one whose context is terminated ends it at
every level (`Terminated`), since `ctx::terminated` is not caught there: the handlers behind
it are then never called, and `chadburn` is set all the same.  `ended` remembers how the
last call of a handler ended.

### Ole

`queue`, `threads`, `working`, `termination` are those of the code; what it does under
its std::mutex is one step, and the threads, the contexts and the shutdown interleave
between steps.  `Func` runs an offloaded function, which may throw, and signals;
`Signalled` is the closure in the event loop that counts the latch down.

### Concurrent

One caller with `concurrent`, `concurrent_for_each` or a bare `latch`, and workers.
`Send` counts and submits, blocks or is refused; `End` counts a job, which may have
thrown, and tells the caller; `Await` and `Leave` are the wait and the destructor.
`Interrupted` leaves the wait of a bare latch; the waits of the other two are masked.

### When

`then` of each future, `ret` of each returned one; the copies of a call's promise are the
closures it left, so that `After` breaks the promises whose last closure went away.
`Resolve` sets a future and runs its closure; futures are retrieved, renewed and destroyed.

### Ios

The stack of the thread with a frame for the event loop, each handler and each context
that executes; the two registers `current` and `handler` are set by `enter`, `leave` and
`continuation` as in the code, and a frame remembers what it found (`was`).  `Post`,
`Direct`, `Yield`, `DeferYield` are the ways to dispatch; `New...` the three spawns,
`Release`, `detach`, `Destroy...` what becomes of a handle.

### Slices and Catches

`Slices` moves the clock and charges the slices (`slice_enter`, `slice_leave`), checks
their limits (`check_slice`) and measures scopes.  `Catches` has the one record of the
C++ runtime (external), what a continuation saves and restores of it, and
`exception_handler`.

### Posix

Threads are contexts in a vector of a certain capacity (`room`); `join` keeps the iterator
over its suspension. A creation that finds the vector full moves it to other memory, and
the iterators are `Stale`: what the wait of a join then reads is any value, and what it
erases is not modelled. Of mutexes, read-write locks and condition variables it keeps what
the wrappers read to answer an error, since the objects have modules of their own. The
wrappers that only refuse are the operators from `detach` to `barriers`.

### Alloc

`Missing` and `Ends` are the loop of `next()` as a recursive function over positions,
`Taken` and `Given` mark and unmark; `FirstFit` is the reference it is compared with.

## The runs

`which` says, from the initial state on, which of the modules of a run moves; the others
keep their variables.  The modules of a run do not interact: they are checked together
because the question is the same.  Those that do interact are composed inside their
modules (each over `Sched`, `CondVar` over `CtxList`), and `ImplementsSched`,
`ImplementsDockQueue` and `ImplementsBonds` tie the layers.

| run | instance | what it shows |
|---|---|---|
| `sync` | 3 contexts in `Mutex`, `CondVar` (2 tokens), `Run` (3 levels), `Ole` (2 threads), `When` (3 futures, 2 calls), `Handlers` (3 instances) | nothing is granted to two, nobody is left asleep on what has come, no handler is skipped; the invariants that the proofs rest on |
| `tasks` | 3 contexts in `SharedMutex`; 2 in `Ios`; `View`, `Concurrent` (3 items, hard limit 2), `Posix` (2 callers, 3 threads), `Alloc` (6 blocks), `Futures` (2 holders, 2 waiters, a future of each kind), `Slices`, `Catches` | what contexts are and do, and that shares are counted; the invariants that the proofs rest on |
| `fair` | 2 contexts in `Ctx`, 2 in `Mutex`, 2 in `Run` | joins end, a free mutex does not stay free with waiters; transitions exclude each other and barriers open |
| `links` | 3 promises and 3 futures; 3 contexts in 2 lists; `Futures` with 2 holders and a third waiter | both chains of each structure agree, nodes are clean, `Bonds` and `DockQueue` are implemented; an answer ends the waits and beats their deadlines |
| `pool` | 2 workers, 1 client and the main stack, 4 jobs; 3 contexts in `Ctx` that join one another, 2 with nested scopes, interrupts and terminations | the invariants of `Pool` and `Ctx`, no job slept over by two workers; nobody sleeps on what would wake it, scopes suppress, and `Sched` is implemented |
| `pool_fair` | 1 worker, 2 clients, 4 jobs | neither a job nor room slept over; jobs popped, clients out, joins end |
| `ctx_sleep`, `chains_stale`, `run_stall`, `ctx_detach`, `list_sort`, `posix_create` | | the findings below |

Some properties are conjunctions, made in the MC module or in the module of the
component; each conjunct is stated and explained in its module.

| property | conjuncts |
|---|---|
| `SharesAgree` | `Exclusion`, `SharesCounted` of `SharedMutex` |
| `CollectionsAgree` | `IndicatedOnce`, `AllMeansAll`, `NoOrphan` of `When` |
| `SleepersResume` | `NotesResume`, `NoJoinOnFinished` of `Ctx` |
| `RequestsHonoured` | `NoMaskLeak`, `ScopeSuppresses`, `TerminatesOnce` of `Ctx` |
| `ViewServes` | `ViewLasts`, `NoStall`, `SemaphoresCount` of `View` |
| `CallsComplete` | `WaitsForSomething`, `OutlivesItsJobs` of `Concurrent` |
| `NotDestroyedInUse` | the property of this name and `RunsOnce` of `Posix` |
| `BlocksAgree` | `MapIsLive`, `NextFits` of `Alloc` |
| `AwaitAnswered` | `NoMissedAnswer`, `RetrievedOnce` of `Futures` |
| `SlicesAddUp` | `CyclesAreRun`, `ScopesMeasure` of `Slices` |
| `NobodyStalls` | `NoStall` until a worker is terminated, `NoClientStall` of `Pool` |
| `TypesOK` | the types of each module; for those that are proved about the inductive invariant: `IInv` of `Mutex`, `Run`, `Ole`, `When`, `Handlers` (`MCSync`), of `View`, `Concurrent`, `Posix`, `Futures` and `LockInv` of `SharedMutex` (`MCTasks`), of `Futures` and `CtxList` (`MCLinks`), of `Pool` and of `Ctx`, there with `ScopesNest` (`MCPool`); for `Chains` its `IInv`, of which nothing is proved; for `CondVar` and `SharedMutex`, who is in the queue; for `Ios`, the count of the queued handlers; for `Pool` with its two workers `NoStall` without the antecedent it has in `NobodyStalls` |

### Bounds, and why they are enough

* Two contexts meet every pair of caller and target; the third in `pool` is
  needed for two joiners, one of which is interrupted and must pass its wake-up
  on.  Scopes do nothing to joins but mask interruptions, and a termination throws
  out of a join as an interrupt does, so that the behaviours with three contexts have
  neither; those with two have both, and two nested scopes show that the inner one
  restores what the outer set.
* Three contexts in two lists give every position (sole, front, middle, back) and
  a context that moves from one list to the other.
* Three promises and three futures give every chain a head, a middle and an end, and
  enough places to move and copy between; one outcome is enough, since a value is
  never looked at and "broken" is another.
* A mutex needs an owner, a waiter that is woken and a third that barges in or
  waits behind; so does a condition variable, and a view a producer and two consumers.
  Two tokens let two signals be under way at once.
* The pool's runs use the default options (soft limit 0, blocking, warnings) and a
  hard limit of 2, so that both limits are met with four jobs; two workers let a
  notification go to the wrong one, the main stack and a client let one take the
  other's room.  Liveness uses one worker, which any number of queued jobs must go
  through, and two clients.  Three workers show what two do not: see below, under
  findings.
* Three contexts give the shared mutex a sharer that promotes, another sharer and
  a waiter.  `Least`, three below zero, stands for the least ssize_t: enough for the
  failed `try_lock_shared()` to count up from it.
* The levels HALT, RUN and QUIT are up, awaited, and down; `Handlers` has the other two as
  well. In `sync` and `fair` at most one of the contexts of `Run` is terminated
  (`OneTerminated`): that leaves the others to be met by what it does on its way out.
  Three instances let one go away before, at and behind the iterator.
* Two threads of the engine: one runs, one waits.  `MaxStale` bounds what terminated
  threads leave in `working`.
* Three items over a hard limit of 2 are refused in the middle of the loop.
* Two contexts in `Ios`, a stack of six frames and two waiting functions: each context
  spawns the other from the loop, from a handler and from a context, and destroys it.
  `freq` is 1, so that polls are elided and made.
* Six blocks hold two runs, a hole and a run across `last`; one block may come from the
  standard allocator.
* The limits of a slice are 1, 2 and 3 ticks of a clock of 4, and one of two contexts is
  exempt: each limit is exceeded with the others on either side.
* Destructors and catch blocks nest three deep: an exception in a destructor run by
  another, with a catch block in between.
* Symmetry is used for contexts where only invariants are checked, or where the
  checked refinement does not name any; liveness runs have none.

* Three threads fill a vector of one element, then of two, then of four, so that a thread
  is created during a join with room and, in `posix_create`, without; two callers join.

`CHECK_DEADLOCK FALSE` is said in `pool`, `pool_fair`, `fair` and `tasks`:
there contexts return for good, the clock and the yields of `Slices` are bounded,
idle workers wait for ever, and waiters of the shared mutex too, whose `unlock()` leaves
`u` as it is (see below).  `sync` and `links` check deadlock.

### Fairness

* Strong fairness of each resumption and entry: a handler queued in the event loop
  stays there until it is run, and the loop takes them in order, so it is reached
  if the stack is free again and again.
* Weak fairness of the end of a slice: user code suspends or returns; a context
  that never does stops the whole program, and no primitive can promise anything.
* In the pool, a job that is over leaves (`Done`), and a job that suspended is
  notified by whatever it waits for.
* Nothing is assumed of interrupts, notifications, new locks or submissions.

The mutex barges, so a given waiter may be overtaken for ever: `FreeMutexMoves` is
about the mutex, not about one waiter, although `dock.h` speaks of a fair queue.

### Findings

1. `ctx_sleep`: `ctx::wait()` does not look at the flags before it suspends, so a
   context interrupted while it ran, or before it was resumed, sleeps on the
   request.  `context.h` says the context switch is an interruption point.
2. `chains_stale`: a future that got its result keeps pointing to the next one of its
   old chain.  When that one is destroyed and the first is moved, `update()` follows
   the pointer.  `shared_state.h` says that the lists are invalidated by a result.
3. `run_stall`: a transition ends by an assignment and notifies nobody, so a context that
   waits in `set()` for its end sleeps on.  `run.cc` says it waits for any pending
   transition to complete before it continues.
4. `ctx_detach`: a context spawned with DETACH may have freed itself when its
   constructor looks at its flags to release the handle.
5. `list_sort`: `push_sort()` inserts a context before the first with a greater id, wherever
   that is.  `dock.h` says of `opts::SORT` that it goes to the front if its id is lower than
   the front's, and otherwise to the back.  `DockQueue` has what the code does.
6. `posix_create`: a creation that finds the vector of threads full moves it while a
   `pthread_join()` is suspended with an iterator into it, and the join may return before
   the thread has.  One join and one creation are enough; `context.h` says that a join
   blocks until the context finishes.

What the code does differently from what one may expect, without a run of its own:

* With three workers, a worker that is terminated while it waits for a job hands the
  notification it may have had to the front of the dock, as the code does at the end of
  every wait that throws (`ctx.cc:3000`).  `notify_one()` leaves that worker in front, so
  that the next `push()` notifies it again, which does nothing; terminated in turn, it
  passes one notification on where two were due, and a job stays queued with the third
  worker asleep.  No comment promises the contrary; it is the reason for the antecedent of
  `NobodyStalls`.  (TLC: `NoStall` of `Pool` with three workers, one client, `Soft = 0`,
  `Hard = 2`, in 21 steps.)
* A commented-out warning in `pool::operator()` makes the `if` before it govern the wait, so
  that clients are blocked only once the soft limit is exceeded (`ctx.cc:1501`); `pool.h`
  says it is never exceeded when clients block.  `Pool` has what the code does.
* `shared_mutex::unlock()` never clears `u` (`shared_mutex.h:182`): every later upgrade or
  unique lock of another context waits for ever.  `SharedMutex` has it so.
* A handler whose context is terminated while it suspends on the way down, at QUIT by an
  interrupt already, leaves `set()` (`run.cc:139` catches `std::exception` only): the
  handlers behind it are not called, and the level counts as reached.
  `EveryHandlerCalled` makes that exception, and no comment denies it.

### What the passing runs assume, and what fails without

Some constants keep the passing runs within what the code asserts of its callers, or
within what it survives.  With the other value, TLC refutes the property:

| module | constant | excluded | refuted with it |
|---|---|---|---|
| `SharedMutex` | `Steals = FALSE` | `try_unlock_shared_and_lock()` while another context has the upgrade, which is asserted and not tested | `Exclusion` |
| `CondVar` | `HoldsAsleep = FALSE` | a contended mutex when `~unlock_guard` locks: the node goes into a second list | `PushesClean`, that the node is in no list when it is pushed |
| `When` | `Overlap = FALSE` | a second call over a future that is pending, which replaces its `then` | `NoOrphan` |
| `Posix` | `Overlap` without `"join"` | a second `pthread_join()` while one is suspended: the vector shifts under its iterator | `JoinBlocks` |
| `Posix` | `Overlap` without `"create"` | the creation of a thread that finds the vector full while a `pthread_join()` is suspended: the vector moves away from its iterator | `JoinBlocks` (`posix_create`) |
| `Catches` | `Nested = FALSE` | an `exception_handler` in a catch block inside another | `ExceptionsAreOwn` |
| `Ios` | `Early = FALSE` | a detached context that ends before its constructor does | `FreedOnce`, `HeldIsLive` (`ctx_detach`) |
| `Slices` | `Warning = 1` | a warning limit of zero: the warning, whose body is commented out, governs the assertion | `LongSliceAborts` |

Four more statements are in the modules and in no run, because the code does not keep
them: `FailsOnlyIfNone` of `Alloc` (a free run across `last` is not found),
`PollsInTime` of `Ios` (with `freq` set to 2, two calls in a row are elided),
`QueuesDestroyedEmpty` of `Posix` (`pthread_mutex_destroy()` looks at the owner and not at
the queue), and the two exceptions that `CallsComplete` makes: a submission that was
counted and then refused, and a `concurrent_for_each` whose loop stopped at an exception,
leave a caller waiting for ever.

## The proofs

Each proof module has the theorems of one component, for every value of its constants
that the assumptions allow, over the very `Spec` that the runs check.

| module | theorem | statement |
|---|---|---|
| `SyncProofs` | `Invariance`, `TypeCorrect` | `Spec => []IInv`, `Spec => []TypeOK` of `Mutex` |
| | `Exclusion` | `Spec => []MutualExclusion` |
| | `Queueing` | `Spec => []QueueIsWaiters` |
| | `WakeupsKept` | `Spec => []NoLostWakeup` |
| | `FramesOutlive`, `NobodyStranded` | `McSpec => []FrameOutlivesFunction`, `McSpec => []NoStrandedContext` |
| | `CollectionsAlwaysAgree` | `McSpec => []CollectionsAgree` |
| | `HandlersAllCalled` | `McSpec => EveryHandlerCalled`, an action property |
| `TasksProofs` | `LockInvariance`, `Sharing` | `Spec => []LockInv`, `Spec => []SharesAgree` of `SharedMutex`, if `Steals = FALSE` |
| | `ViewServed` | `McSpec => []ViewServes` |
| | `CallsCompleted` | `McSpec => []CallsComplete` |
| | `PosixInvariance`, `DestroyedUnused` | `McSpec => []T!IInv`, `McSpec => []NotDestroyedInUse` |
| | `JoinsBlock`, `RefusalsChangeNothing` | `McSpec => JoinBlocks`, `McSpec => ErrorsChangeNothing`, action properties |
| `LinksProofs` | `Invariance` | `Spec => []IInv` of `Futures` |
| | `WaitsEnd` | `Spec => []AwaitAnswered` |
| | `AnswersFirst` | `Spec => AnswerBeatsDeadline`, an action property |
| | `ListInvariance`, `ChainsAlwaysAgree` | `McSpec => []L!IInv`, `McSpec => []ChainsAgree` |
| | `ListIsSequence` | `McSpec => ImplementsDockQueue` |
| `CtxProofs` | `CtxInvariant` | `Spec => []IInv` |
| | `NobodySleepsOn` | `Spec => []SleepersResume` |
| | `RequestsAreHonoured` | `Spec => []RequestsHonoured`, if `Ours = {TRUE}` |
| | `Implementation` | `Spec => ImplementsSched` |
| `RunProofs` | `Invariance` | `Spec => []IInv` |
| | `OneTransition`, `BarriersOpen` | `Spec => []TransitionsExclude`, `Spec => []BarrierOpens` |
| `PoolProofs` | `Invariance` | `Spec => []IInv` |
| | `JobsAndClients` | `Spec => []NobodyStalls` |
| `OleProofs` | `Invariance` | `Spec => []IInv`, if `ThreadMax` |

The theorems about an `McSpec` are about the modules that the MC module instantiates, with
the constants it gives them and every value of its own: each is the argument about one of
its modules, whose steps are those of `McNext` while `which` names it, and the others leave
its variables alone.  `McSpec` is the very specification that the run checks.

### What they assume

| assumption | in | why |
|---|---|---|
| `NoneAssumption`: `None` is not a context | `Sched` | the null pointer |
| `CtxAssumption`: the same of `Ctx`; `MaxScopes` a number, `Ours` Booleans, `Asked` the two requests there are | `Ctx` | types; nothing bounds the contexts or the nesting |
| `LeastAssumption`, `FiniteAssumption`: `Least` a negative integer, finitely many contexts | `SharedMutex` | `s` is a count |
| `LevelsAssumption`: HALT is a level | `Run` | the first level |
| `FuturesAssumption`: some contexts hold the promise | `Futures` | a promise nobody has answers nothing; which and how many is open |
| `PoolAssumption`: finitely many workers, limits that are numbers or unlimited, options that are Booleans | `Pool` | `avail()` counts workers |
| `ListAssumption`: ids are integers, finitely many, `Null` none of them | `MCLinks` | the contexts there are at a time |
| `PlaceAssumption`: finitely many promises and futures, no words for states among them | `MCLinks` | types of `Chains` |
| `WhenAssumption`: the words for results are not futures or calls | `MCSync` | types |
| `PartiesAssumption`: finitely many contexts in each part, `None` not among them | `MCTasks` | semaphores and latches are counts |
| `ThreadMax`, in `MCSync` `ThreadAssumption`: finitely many threads and at least one | `OleProofs`, `MCSync` | `thread_max`; with none a function is queued for nobody |
| `Steals = FALSE` | theorem | what `try_unlock_shared_and_lock()` asserts of its callers; TLC refutes `Exclusion` with `TRUE` |
| `Ours = {TRUE}` | theorem | the argument of `uninterruptible`, TRUE by default, which no use of it in the program gives; with `FALSE` a scope lifts the suppression of the one around it |

`ThreadMax` is a hypothesis of the theorem and not of the module `Ole`, which no run
extends: `MCSync` instantiates it beside the others, and assumes of its threads the same.

What the MC modules choose for their instances is part of the theorems about their `McSpec`:
in `MCSync` `Overlap = FALSE` of `When` and `MaxStale = 2` of `Ole`
(a bound that the proof does not use); in `MCTasks` `Overlap = {}` of `Posix`, one producer
of `View`, three items and a hard limit of two of `Concurrent`.  The table above says what
the values of `Overlap` exclude.

### The inductive invariants, and why they are needed

Almost none of the properties is inductive: that a wake-up reaches whoever sleeps needs
that the queue is exact, that nobody who waits is running, and so on.

**Mutex.**  `IInv == TypeOK /\ OneRuns /\ OwnerInside /\ QueueIsWaiters /\ NoLostWakeup`.
`NoLostWakeup` says that the front of the queue is on its way when the mutex is free.
When a waiter leaves by an exception, the code notifies the context then at the front,
and `Wake` makes it ready if it is asleep: that it is asleep or ready already needs the
fact that no waiter is running (part of `QueueIsWaiters`), which in turn needs that
exactly the current context is in stage "running" (`OneRuns`).  When the owner releases,
that it was the owner and that nobody else is past `lock()` needs `OwnerInside`.  The
steps are grouped by what they disturb: lemma `Elsewhere` for those that leave the mutex
alone, `Running` for those of the running context, `Leaving` for those that leave the
dock, `Expiring` for deadlines.

**Shared mutex.**  `LockInv == LockTypes /\ OwnerKnown /\ UniqueMarked /\ SharesCounted
/\ WaitersLack`.  What tells a sharer that there is a unique owner is the sign of `s`
(`UniqueMarked`), which failed attempts move and a promotion sets; that a release of the
upgrade or of the unique lock leaves nobody else with one needs that `u` knows who has it
(`OwnerKnown`), and a promotion out of the dock needs that the context still holds what it
is to be exchanged for (`WaitersLack`).  `Counts` and `HoldersChange` say what one context
more or less does to the sets of holders and their sizes.

**Contexts.**  `IInv == TypeOK /\ AlarmsAgree /\ JoinersQueued /\ SleepersResume`.  The end
of a context notifies everybody in `adjoindre`; that it reaches the joiners needs that the
dock holds exactly them (`JoinersQueued`), and that a notified context has an alarm to
cancel needs that whoever is in its function and does not run waits on it (`AlarmsAgree`).
A joiner that leaves by an exception passes its notification on, as every wait does.

`RequestsHonoured` needs what nested scopes remember of each other (`ScopesNest`, checked
in `pool`): only the outermost found the context interruptible, so that closing it and no
other lifts the suppression, whichever of the edges threw.  `Masks` is both for the flags,
the scopes and the frame of one context, which is what a step changes.

`Implementation` is the refinement, step by step: the initial states map to those of
`Sched`, and each action to an action of it or to a stutter.  `StageCases` reads the
abstract stage off the alarm and the frame, and there is a lemma for each way in which it
moves: `EnterSimulates`, `ResumeSimulates`, `ExitSimulates`, `SuspendSimulates`,
`WakeSimulates` (notes, requests, the end of a join's context) and `ScopeSimulates`.
Every other primitive is modelled over `Sched`, so that what is proved of them holds for
contexts that are scheduled by `Ctx`.

**Run levels.**  `IInv == TypeOK /\ DockIsWaiters /\ TransitionsExclude /\ BarrierOpens`.
A new level notifies the dock, and whoever sleeps in a barrier is in it.

**Futures.**  `IInv == TypeOK /\ DocksAreWaiters /\ AttachedWhilePending /\ AwaitAnswered`.
An answer notifies the docks of all futures, which hold exactly the contexts that wait,
none of them running; the last copy that is destroyed answers too, and that there is one
as long as a future is pending is `AttachedWhilePending`.  `StepDeadline` is the action
property, for one step.

**Pool.**  `IInv == TypeOK /\ DocksAreWaiters /\ JobsBounded /\ WaitersSuspended /\
NobodyStalls`.  A push notifies the worker in front of the dock; that it then is on its way
needs that the dock is exact and that whoever is in it is asleep or was woken already.
That clients are told of room is the harder half: a client may sleep although there is
room as long as something is queued or a worker is in a job, since the end of the last job
notifies `q_max`; a submitter that finds room taken must leave somebody who will say so.
`NoClientStall` compares sizes (`avail()`, the soft limit), which the proof needs only with
nothing queued: `Room` says what they amount to then, and `PInv` is `IInv` with the sizes
read that way (`Invariants`).  `JobsBounded` is there because a hard limit of zero throws
before anything is queued or blocked.

`NobodyStalls` is about jobs until a worker is terminated and about clients whatever
happens; why three workers need the antecedent is said under findings.

**Offload.**  `IInv == TypeOK /\ FrameOutlivesFunction /\ OnePlace /\ ThreadsRun /\
LifeIsTermination /\ QueueIsServed`.  A context stays in its wait because it is masked, and
its frame is touched by nobody after the latch because it is in one place at a time, the
queue, a thread or the signals, once (`OnePlace`).  That a queued function is come to
rests on the count that decides about a new thread: `working` counts at least the threads
that are about to pop or in a function (`ThreadsRun`), though ends of the engine leave it
too high, and a push wakes whoever sleeps in `pop()`, so that nobody does over a queue that
has something (`QueueIsServed`).

`SyncProofs` takes this from `OleProofs`, which it instantiates as `MCSync` instantiates
`Ole`: to the provers the operators of the two instances are different ones, and the lemmas
`SameInvariant`, `SameEngine` say that they are equal, definition by definition.

**Collections.**  `IInv == TypeOK /\ ClosuresWait /\ CallsHold /\ Marked /\ IndicatedOnce /\
AllMeansAll /\ NoOrphan`.  That a result is set by the future it belongs to needs that a
closure is in a pending future of its own call (`ClosuresWait`); that the last of a
collection finishes `when_all` needs that the call is in each future that is still pending
(`CallsHold`); and that no future is indicated twice, that an indicated one is neither
pending nor merely ready (`Marked`).

**Handlers.**  `IInv == TypeOK /\ IteratorLives /\ (Changes => from \subseteq ToSet(list))`.
Who was called is the instance under the iterator and all before it, whatever was
registered or went away: so nobody of `from` is left behind when the iterator passes the
end, and what follows it was not called yet.

**View.**  `IInv == TypeOK /\ DockHolds /\ MutexHolds /\ OwnerHolds /\ Executes /\ Shown /\
ViewLasts /\ SemaphoresCount /\ NoStall`.  The object is taken back when the second semaphore
is zero: who is behind it and has not looked yet, or waits for the mutex, is counted
(`Shown`).  `Executes`, `DockHolds` and `MutexHolds` are what they are for the mutex, for the
two queues of a consumer.

**Concurrent.**  `IInv == TypeOK /\ DockHolds /\ Roles /\ JobsCounted /\ SleepersWait /\
CallerLeft`.  The end of a job wakes the caller by what the counts say; `JobsCounted` relates
them to the jobs that are queued, blocked on, with a worker or over.  The bare latch counts
those who have not come.

**pthreads.**  `IInv == TypeOK /\ VectorOnce /\ JoinerPoints /\ RunsOnce /\ OnceMarked /\
NotDestroyedInUse`.  `JoinerPoints` says that the iterator of a join is at the thread it
joins, of which it needs that no thread is in the vector twice (`VectorOnce`).  It holds
only as long as nothing moves or shifts the vector under a join, `Overlap = {}`; the code
does not see to that (`posix_create`), so the theorems on joins are about programs in which,
while a join is suspended, nobody else joins and no creation finds the vector full.

**Lists.**  `IInv` of `CtxList` says that every pointer is that of the sequences which the
forward chains spell: head and tail, `next` and `prev` of each place, no node in two places,
and null pointers outside (`Linked`).  `Chase` is a recursive function with a bound, and what
it computes cannot be had by induction here; instead the least step at which it could
leave a given sequence is shown not to exist (`LeastNat`, `ChaseIs` of `QueueLemmas`).  From
there each operation is one on sequences: the same lemmas keep the invariant
(`ListInvariance`) and map the step to `DockQueue` (`ListIsSequence`).

`QueueLemmas` has what all of them need about queues: what `Append`, `Head`, `Tail`,
`Without`, `Rotated`, an insertion and a removal do to the elements of a queue without
repetition, and what a chain spells.

## What is only model-checked, and what is not modelled

* Liveness and fairness (`JoinEnds`, `FreeMutexMoves`, `JobsServed`, `ClientsServed`,
  `JoinsEnd`) are out of the prover's reach and stay with TLC.
* Of `Chains`, all: `SidesAgree`, its `IInv` and `ImplementsBonds`.
* Of `CondVar`, `QueueIsWaiters` (in `TypesOK`) and `NoLostSignal`; of `SharedMutex`,
  `WaitersQueued`.
* `RegistersAgree` and `FreedOnce` of `Ios`, `ExceptionsAreOwn` of `Catches`, `BlocksAgree` of
  `Alloc` and `SlicesAddUp` of `Slices`.  `Missing` of `Alloc` is a recursive function and
  the sums of `Slices` are folds: what they compute for every length needs an induction
  that the provers cannot do here.
* The conjunctions called `TypesOK`, of which the parts that are an inductive invariant are
  proved one by one.
* `NoStall` of `Pool` without its antecedent, which holds for two workers (`pool`) and
  not for three.
* Outside of the models: the lifetimes of the members of a future that is assigned
  in place, the second exception thrown by a scope's destructor while
  another unwinds (the process ends), the integer width of `notes` and of the
  counters of the pool, a duration that `dock::wait_for()` starts again, jobs that
  submit to their own pool, `add()` while a `del()` is joining, `pool::async()` and
  `queue::pop_for()` (templates that do not compile), nice and ionice, stack usage,
  hardware counters, `critical_assertion` (one flag of the thread), the hook of malloc
  (`allocator::scope`) and the counters of `allocator::profile`, and the formatting of
  exceptions.
* Components without a module are in the table of the inventory and in
  `PROJECT.json`: allocators of the C library, buffers, strings, statistics and time are
  calls, value types and formatting, each of which a unit test reaches.
