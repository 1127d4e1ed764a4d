------------------------------- MODULE MCTasks -------------------------------
(* Each by itself: the life of contexts on the one thread, a view, concurrent    *)
(* calls, the pthread interface (threads, pthread_once() and the objects each by *)
(* itself), allocators, the futures of a promise, the profile of two contexts,   *)
(* exceptions across their switches, and the shared mutex.                       *)
EXTENDS SharedMutex, TLC

CONSTANTS Pair, Spared, Guest, Host, Callers, Threads

\* The sets of contexts are finite, and the null pointer is none of them.
ASSUME PartiesAssumption ==
  /\ IsFiniteSet(Pair) /\ IsFiniteSet(Guest) /\ IsFiniteSet(Callers)
  /\ None \notin Pair \cup Guest \cup {Host} \cup Callers

VARIABLES
  which,
  handler, stack, queue, enqueued, tick, phase, fixed, intr, held, frees, parent, child,
  m, mq, vq, t, wanting, waiting, pc, late,
  kind, snd, rcv, fin, eptr, count, jobs, latch, place, refused,
  ret, hook, threadv, room, thread, joins, woken, control, initer, ran, owner, user, shares, inside, gone,
  front, used, last, junk, live, heap, node,
  copies, open, st, answer, cond, on, how, overdue, moved,
  slicer, sliced, now, ts, lately, cycles, yields, total, slices, latency, scope, spent, fate,
  thrower, ended, uncaught, caught, saved, frames

iosVars == <<handler, stack, queue, enqueued, tick, phase, fixed, intr, held, frees, parent, child>>
viewVars == <<m, mq, vq, t, wanting, waiting, pc, late>>
callVars == <<kind, snd, rcv, fin, eptr, count, jobs, latch, place, refused>>
threadVars == <<hook, threadv, room, thread, joins, woken>>
onceVars == <<control, initer, ran>>
objectVars == <<owner, user, shares, inside, gone>>
posixVars == <<ret, threadVars, onceVars, objectVars>>
allocVars == <<front, used, last, junk, live, heap, node>>
futureVars == <<copies, open, st, answer, cond, on, how, overdue, moved>>
sliceVars == <<slicer, sliced, now, ts, lately, cycles, yields, total, slices, latency,
               scope, spent, fate>>
catchVars == <<thrower, ended, uncaught, caught, saved, frames>>
rest == <<allocVars, sliceVars, catchVars>>

I == INSTANCE Ios WITH
  Ctxs <- Pair, Depth <- 6, Slots <- 2, freq <- 1, Early <- FALSE, queued <- enqueued, flags <- fixed
V == INSTANCE View WITH
  Ctxs <- Guest \cup {Host}, Producers <- {Host}, q <- vq, due <- late
N == INSTANCE Concurrent WITH
  Ctxs <- Guest \cup {Host}, Caller <- Host, Items <- 3, Hard <- 2, queued <- jobs, d <- latch
T == INSTANCE Posix WITH Overlap <- {}, ctxs <- threadv, u <- user, s <- shares
A == INSTANCE Alloc WITH Size <- 6, Spill <- 1, kind <- front
F == INSTANCE Futures WITH
  Ctxs <- Guest \cup Pair, Holders <- Pair, Typed <- {"typed"}, Plain <- {"void"},
  due <- overdue
S == INSTANCE Slices WITH
  Ctxs <- Pair, Exempt <- Spared, Warning <- 1, Assertion <- 3, Interrupt <- 2,
  MaxTime <- 4, MaxYields <- 2,
  current <- slicer, stage <- sliced, last <- lately, ran <- spent
C == INSTANCE Catches WITH
  Ctxs <- Pair, MaxDepth <- 3, Nested <- FALSE, current <- thrower, gone <- ended

\* The variables of most modules are zero when they do not run.
NoIos == handler = 0 /\ stack = 0 /\ queue = 0 /\ enqueued = 0 /\ tick = 0 /\ phase = 0
         /\ fixed = 0 /\ intr = 0 /\ held = 0 /\ frees = 0 /\ parent = 0 /\ child = 0
NoView == m = 0 /\ mq = 0 /\ vq = 0 /\ t = 0 /\ wanting = 0 /\ waiting = 0 /\ pc = 0 /\ late = 0
NoCalls == kind = 0 /\ snd = 0 /\ rcv = 0 /\ fin = 0 /\ eptr = 0 /\ count = 0 /\ jobs = 0
           /\ latch = 0 /\ place = 0 /\ refused = 0
NoAlloc == front = 0 /\ used = 0 /\ last = 0 /\ junk = 0 /\ live = 0 /\ heap = 0 /\ node = 0
NoSlice == slicer = 0 /\ sliced = 0 /\ now = 0 /\ ts = 0 /\ lately = 0 /\ cycles = 0
           /\ yields = 0 /\ total = 0 /\ slices = 0 /\ latency = 0 /\ scope = 0 /\ spent = 0
           /\ fate = 0
NoCatch == thrower = 0 /\ ended = 0 /\ uncaught = 0 /\ caught = 0 /\ saved = 0 /\ frames = 0
NoSched == current = None /\ stage = 0 /\ pend = 0 /\ masked = 0

McLeast == -3
Sym == Permutations(Ctxs)

McInit ==
  /\ MutexInit /\ T!Init /\ F!FutureInit
  /\ which \in {"ios", "view", "calls", "threads", "once", "objects", "alloc",
               "futures", "slices", "catches", "shared"}
  /\ which = "shared" => SchedInit
  /\ IF which = "ios" THEN I!Init ELSE NoIos
  /\ IF which = "view" THEN V!Init ELSE NoView
  /\ IF which = "calls" THEN N!Init ELSE NoCalls
  /\ IF which = "alloc" THEN A!Init ELSE NoAlloc
  /\ which = "futures" => F!Init
  /\ IF which = "slices" THEN S!Init ELSE NoSlice
  /\ IF which = "catches" THEN C!Init ELSE NoCatch
  /\ IF which = "ios" THEN stage = 0 /\ pend = 0 /\ masked = 0
     ELSE which \in {"view", "calls", "futures", "shared"} \/ NoSched

McNext ==
  /\ UNCHANGED which
  /\ \/ which = "shared" /\ Next
        /\ UNCHANGED <<iosVars, viewVars, callVars, posixVars, futureVars, rest>>
     \/ /\ which \in {"ios", "view", "calls"}
        /\ UNCHANGED <<mutex, posixVars, futureVars, rest>>
        /\ \/ which = "ios" /\ I!Next
              /\ UNCHANGED <<stage, pend, masked, viewVars, callVars>>
           \/ which = "view" /\ V!Next /\ UNCHANGED <<iosVars, callVars>>
           \/ which = "calls" /\ N!Next /\ UNCHANGED <<iosVars, viewVars>>
     \/ which = "futures" /\ F!Next
        /\ UNCHANGED <<mutex, iosVars, viewVars, callVars, posixVars, rest>>
     \/ /\ UNCHANGED <<vars, futureVars, iosVars, viewVars, callVars>>
        /\ \/ /\ which \in {"alloc", "slices", "catches"} /\ UNCHANGED posixVars
              /\ \/ which = "alloc" /\ A!Next /\ UNCHANGED <<sliceVars, catchVars>>
                 \/ which = "slices" /\ S!Next /\ UNCHANGED <<allocVars, catchVars>>
                 \/ which = "catches" /\ C!Next /\ UNCHANGED <<allocVars, sliceVars>>
           \/ /\ which \in {"threads", "once", "objects"} /\ UNCHANGED rest
              /\ \/ which = "threads" /\ T!ThreadsNext /\ UNCHANGED <<onceVars, objectVars>>
                 \/ which = "once" /\ T!OnceNext /\ UNCHANGED <<threadVars, objectVars>>
                 \/ which = "objects" /\ T!ObjectsNext /\ UNCHANGED <<threadVars, onceVars>>
all == <<which, vars, iosVars, viewVars, callVars, posixVars, futureVars, rest>>
McSpec == McInit /\ [][McNext]_all

\* Every variable has its type (each module); the dock of the shared mutex holds exactly
\* who waits in it, and it and the futures keep the invariants by which they are proved
\* correct (SharedMutex.tla, Futures.tla).
TypesOK ==
  CASE which = "shared" -> TypeOK /\ LockInv /\ WaitersQueued
    [] which = "ios" -> I!TypeOK /\ I!QueuedCounts
    [] which = "view" -> V!IInv
    [] which = "calls" -> N!IInv
    [] which = "alloc" -> A!TypeOK
    [] which = "futures" -> F!IInv
    [] which = "slices" -> S!TypeOK
    [] which = "catches" -> C!TypeOK
    [] OTHER -> T!IInv

\* The registers of the thread say who executes (Ios.tla).
RegistersAgree == which = "ios" => I!RegistersAgree

\* A context is freed once, by its last owner (Ios.tla).
FreedOnce == which = "ios" => I!FreedOnce

\* A consumer has the object for as long as it looks at it, none sleeps while one is
\* shown, and the semaphores count who is inside, by whatever way it leaves (View.tla).
ViewServes == which = "view" => V!ViewLasts /\ V!NoStall /\ V!SemaphoresCount

\* The caller waits for jobs that are to come, and the object on its stack outlives them
\* (Concurrent.tla).
CallsComplete == which = "calls" => N!WaitsForSomething /\ N!OutlivesItsJobs

\* pthread_join() returns when the thread has (Posix.tla).
JoinBlocks == T!JoinBlocks

\* A call that answers an error has changed nothing (Posix.tla).
ErrorsChangeNothing == T!ErrorsChangeNothing

\* No lock or condition is destroyed under who waits in it, and the routine of
\* pthread_once() runs once (Posix.tla).
NotDestroyedInUse == T!NotDestroyedInUse /\ T!RunsOnce

\* The map of blocks is what was handed out, and next() finds what fits (Alloc.tla).
BlocksAgree == which = "alloc" => A!MapIsLive /\ A!NextFits

\* A context is charged with the time it executed, and the totals are the sums (Slices.tla).
SlicesAddUp == which = "slices" => S!CyclesAreRun /\ S!ScopesMeasure

\* What the C++ runtime says of exceptions is of who executes (Catches.tla).
ExceptionsAreOwn == which = "catches" => C!ExceptionsAreOwn
=============================================================================
