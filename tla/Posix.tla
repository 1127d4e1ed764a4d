-------------------------------- MODULE Posix --------------------------------
(***************************************************************************)
(* The pthread interface over ircd::ctx (ctx_posix.cc): threads that are   *)
(* contexts kept in a vector, pthread_once(), and the wrappers of mutexes, *)
(* read-write locks and condition variables.  A call that need not wait is *)
(* one step, one that waits is entered in a step and returns in another.   *)
(* The objects below the wrappers have modules of their own: what is kept  *)
(* of them here is what the wrappers read, the owner, the shares, the      *)
(* users.                                                                  *)
(***************************************************************************)
EXTENDS SequencesExt, Integers

CONSTANTS
  Callers,  \* the contexts that call
  Threads,  \* the threads they may create
  None,
  Overlap   \* what may happen while a context is suspended in a join: another "join", and
            \* the "create" of a thread for which the vector has no room

VARIABLES
  ret,      \* what the last call answered, or that the step was not the end of a call
  hook,     \* enable_hook, under at most one scope of enable_pthread or disable_pthread
  ctxs,     \* posix::ctxs: the thread each element of the vector is
  room,     \* its capacity
  thread,   \* the state of each thread
  joins,    \* what each context joins: the thread and the index of the iterator
  woken,    \* the contexts the end of a thread has notified
  control,  \* the flag of pthread_once()
  initer,   \* who runs the init routine
  ran,      \* how often it was run
  owner,    \* mutex::m
  u, s,     \* shared_mutex::u and s
  inside,   \* the call each context is suspended in
  gone      \* the objects that are destroyed

threads == <<hook, ctxs, room, thread, joins, woken>>
once == <<control, initer, ran>>
objects == <<owner, u, s, inside, gone>>
vars == <<ret, threads, once, objects>>

Errors == {"EINVAL", "EBUSY", "EPERM"}
Objects == {"mutex", "rwlock", "cond"}
Calls == {"mutex_lock", "rdlock", "wrlock", "cond_wait"}
Lowest == -9  \* stands for the least ssize_t
Shares == Cardinality(Callers)  \* the bound of the shares that are taken
NoJoin == [thread |-> None, at |-> 0]
Stale == 0    \* an iterator into memory the vector has freed

Of(call) == CASE call = "mutex_lock" -> "mutex" [] call = "cond_wait" -> "cond" [] OTHER -> "rwlock"
Inside(o) == {c \in Callers : inside[c] # None /\ Of(inside[c]) = o}

TypeOK ==
  /\ ret \in Errors \cup {"zero", "ETIMEDOUT", "none"}
  /\ hook \in {-1, 0, 1} /\ ctxs \in Seq(Threads) /\ room \in Nat
  /\ thread \in [Threads -> {"none", "real", "posted", "running", "finished"}]
  /\ joins \in [Callers -> [thread : Threads, at : Nat] \cup {NoJoin}]
  /\ woken \subseteq Callers
  /\ control \in {0, 1} /\ initer \in Callers \cup {None} /\ ran \in Nat
  /\ {owner, u} \subseteq Callers \cup {None} /\ s \in Lowest..Shares
  /\ inside \in [Callers -> Calls \cup {None}] /\ gone \subseteq Objects

Init ==
  /\ ret = "none"
  /\ hook = 0 /\ ctxs = <<>> /\ room = 0 /\ thread = [t \in Threads |-> "none"]
  /\ joins = [c \in Callers |-> NoJoin] /\ woken = {}
  /\ control = 0 /\ initer = None /\ ran = 0
  /\ owner = None /\ u = None /\ s = 0
  /\ inside = [c \in Callers |-> None] /\ gone = {}

\* c runs its own code: it is in no call.
Free(c) == joins[c] = NoJoin /\ inside[c] = None /\ initer # c
Answers(r) == ret' = r
Suspends == ret' = "none"

-----------------------------------------------------------------------------
(* Threads *)

\* The scopes of enable_pthread and disable_pthread; no context suspends in one.
Scope(to) == hook = 0 /\ hook' = to /\ Suspends /\ UNCHANGED <<ctxs, room, thread, joins, woken>>
EndScope == hook # 0 /\ hook' = 0 /\ Suspends /\ UNCHANGED <<ctxs, room, thread, joins, woken>>

\* On a context, which the main thread runs.
hook_enabled == hook >= 0

\* A vector that is full moves to memory of twice the size: the iterators are stale.
Full == Len(ctxs) = room
Moves ==
  /\ room' = IF room = 0 THEN 1 ELSE 2 * room
  /\ joins' = [c \in Callers |-> IF joins[c] = NoJoin THEN NoJoin ELSE [joins[c] EXCEPT !.at = Stale]]

\* A real thread, or a context.
create(t) ==
  /\ thread[t] = "none"
  /\ \/ /\ ~hook_enabled /\ thread' = [thread EXCEPT ![t] = "real"]
        /\ UNCHANGED <<ctxs, room, joins>>
     \/ /\ hook_enabled /\ thread' = [thread EXCEPT ![t] = "posted"]
        /\ ctxs' = Append(ctxs, t)
        /\ Full => "create" \in Overlap \/ \A e \in Callers : joins[e] = NoJoin
        /\ IF Full THEN Moves ELSE UNCHANGED <<room, joins>>
  /\ Answers("zero")
  /\ UNCHANGED <<hook, woken>>

Start(t) ==
  /\ thread[t] = "posted"
  /\ thread' = [thread EXCEPT ![t] = "running"]
  /\ Suspends
  /\ UNCHANGED <<hook, ctxs, room, joins, woken>>

\* The routine returns: all who join any thread wait in one dock, adjoindre.
Finish(t) ==
  /\ thread[t] = "running"
  /\ thread' = [thread EXCEPT ![t] = "finished"]
  /\ woken' = {c \in Callers : joins[c] # NoJoin}
  /\ Suspends
  /\ UNCHANGED <<hook, ctxs, room, joins>>

\* context::joined() of the element at i; one past the end was moved from, and is.
joined(i) == i \in DOMAIN ctxs => thread[ctxs[i]] = "finished"

\* What the wait of the join may read there: in freed memory anything.
Reads(i) == IF i = Stale THEN BOOLEAN ELSE {joined(i)}

\* The element at the iterator is erased and those behind it move up. (Past the end, or
\* in freed memory, that has no meaning: nothing is said of the program any more.)
Erased(i) == IF i \in DOMAIN ctxs THEN RemoveAt(ctxs, i) ELSE ctxs

\* pthread_join(), timedjoin_np() and clockjoin_np() of a thread that is a context.
join(c, t) ==
  /\ Free(c) /\ t \in ToSet(ctxs)
  /\ "join" \in Overlap \/ \A e \in Callers : joins[e] = NoJoin
  /\ LET i == CHOOSE i \in DOMAIN ctxs : ctxs[i] = t
     IN  IF joined(i) THEN ctxs' = Erased(i) /\ UNCHANGED joins /\ Answers("zero")
         ELSE joins' = [joins EXCEPT ![c] = [thread |-> t, at |-> i]] /\ UNCHANGED ctxs /\ Suspends
  /\ UNCHANGED <<hook, room, thread, woken>>

Joins(c) == joins[c] # NoJoin /\ c \in woken /\ woken' = woken \ {c}
Returns(c) ==
  ctxs' = Erased(joins[c].at) /\ joins' = [joins EXCEPT ![c] = NoJoin] /\ Answers("zero")

JoinAnyway(c) ==  \* mutant: the first notification ends the wait
  Joins(c) /\ Returns(c) /\ UNCHANGED <<hook, room, thread>>

Join(c) ==
  /\ Joins(c)
  /\ \E over \in Reads(joins[c].at) :
       IF over THEN Returns(c) ELSE Suspends /\ UNCHANGED <<ctxs, joins>>
  /\ UNCHANGED <<hook, room, thread>>

ThreadsNext ==
  \/ \E to \in {-1, 1} : Scope(to)
  \/ EndScope
  \/ \E t \in Threads : create(t) \/ Start(t) \/ Finish(t)
  \/ \E c \in Callers : Join(c) \/ \E t \in Threads : join(c, t)

-----------------------------------------------------------------------------
(* pthread_once(): whoever exchanges the flag first runs the routine, which may *)
(* suspend; the others return at once.                                          *)

Once(c) ==
  /\ Free(c)
  /\ control' = 1
  /\ IF control = 0 THEN initer' = c /\ ran' = ran + 1 /\ Suspends
     ELSE UNCHANGED <<initer, ran>> /\ Answers("zero")

Inited(c) ==
  /\ initer = c
  /\ control' = 1 /\ initer' = None
  /\ Answers("zero") /\ UNCHANGED ran

OnceNext == \E c \in Callers : Once(c) \/ Inited(c)

-----------------------------------------------------------------------------
(* Mutex, read-write lock and condition variable *)

unique == s = Lowest

\* What a call waits for: mutex::try_lock(), can_lock_shared(), can_lock().
Passes(c, call) ==
  CASE call = "rdlock" -> s >= 0
    [] call = "wrlock" -> s = 0 /\ u \in {None, c}
    [] OTHER -> owner = None

Gets(c, call) ==
  CASE call = "rdlock" -> s' = s + 1 /\ UNCHANGED <<owner, u>>
    [] call = "wrlock" -> s' = Lowest /\ u' = c /\ UNCHANGED owner
    [] OTHER -> owner' = c /\ UNCHANGED <<u, s>>

\* mutex_lock(), rdlock(), wrlock(), and the try forms that succeed.
Enter(c, call) ==
  /\ Free(c) /\ Of(call) \notin gone /\ call # "cond_wait"
  /\ call = "rdlock" => s < Shares
  /\ IF Passes(c, call) THEN Gets(c, call) /\ Answers("zero") /\ UNCHANGED inside
     ELSE inside' = [inside EXCEPT ![c] = call] /\ Suspends /\ UNCHANGED <<owner, u, s>>
  /\ UNCHANGED gone

\* mutex_trylock(), trywrlock() and tryrdlock() that fail; the last has moved the count
\* all the same. (It fails fewer times than would make it zero.)
Try(c, call) ==
  /\ Free(c) /\ Of(call) \notin gone /\ call # "cond_wait" /\ ~Passes(c, call)
  /\ s' = IF call = "rdlock" /\ s < -1 THEN s + 1 ELSE s
  /\ Answers("EBUSY")
  /\ UNCHANGED <<owner, u, inside, gone>>

\* cond_wait() and cond_timedwait() by the owner of the mutex.
cond_wait(c) ==
  /\ Free(c) /\ owner = c /\ "cond" \notin gone
  /\ owner' = None /\ inside' = [inside EXCEPT ![c] = "cond_wait"]
  /\ Suspends
  /\ UNCHANGED <<u, s, gone>>

\* The call of c returns. When it is woken to, the modules of the objects tell; that the
\* time of cond_timedwait() is over is no error of this model: the mutex was taken.
Leave(c) ==
  /\ inside[c] # None /\ Passes(c, inside[c])
  /\ inside[c] = "rdlock" => s < Shares
  /\ Gets(c, inside[c])
  /\ \/ Answers("zero")
     \/ inside[c] = "cond_wait" /\ Answers("ETIMEDOUT")
  /\ inside' = [inside EXCEPT ![c] = None]
  /\ UNCHANGED gone

mutex_unlock_unowned(c) ==  \* mutant: the mutex is given up before the owner is looked at
  /\ Free(c) /\ "mutex" \notin gone
  /\ owner' = None
  /\ Answers(IF owner = c THEN "zero" ELSE "EPERM")
  /\ UNCHANGED <<u, s, inside, gone>>

mutex_unlock(c) ==
  /\ Free(c) /\ "mutex" \notin gone
  /\ IF owner = c THEN owner' = None /\ Answers("zero") ELSE Answers("EPERM") /\ UNCHANGED owner
  /\ UNCHANGED <<u, s, inside, gone>>

\* EPERM for anyone but the unique owner, and for anyone when nobody shares.
rwlock_unlock(c) ==
  /\ Free(c) /\ "rwlock" \notin gone
  /\ \/ unique /\ u = c /\ s' = 0 /\ Answers("zero")
     \/ ~unique /\ s > 0 /\ s' = s - 1 /\ Answers("zero")
     \/ (IF unique THEN u # c ELSE s <= 0) /\ Answers("EPERM") /\ UNCHANGED s
  /\ UNCHANGED <<owner, u, inside, gone>>

busy_unqueued(o) ==  \* mutant: no queue is looked at
  CASE o = "mutex" -> owner # None [] o = "rwlock" -> u # None \/ s > 0 [] o = "cond" -> FALSE

\* The mutex looks at its owner and not at its queue.
busy(o) ==
  CASE o = "mutex" -> owner # None
    [] o = "rwlock" -> u # None \/ s > 0 \/ Inside("rwlock") # {}
    [] o = "cond" -> Inside("cond") # {}

destroy(c, o) ==
  /\ Free(c) /\ o \notin gone
  /\ IF busy(o) THEN Answers("EBUSY") /\ UNCHANGED gone ELSE gone' = gone \cup {o} /\ Answers("zero")
  /\ UNCHANGED <<owner, u, s, inside>>

init(c, o) ==
  /\ Free(c) /\ o \in gone
  /\ gone' = gone \ {o} /\ Answers("zero")
  /\ UNCHANGED <<owner, u, s, inside>>

-----------------------------------------------------------------------------
(* The calls that only answer *)

Stays(c, r) == Free(c) /\ Answers(r) /\ UNCHANGED objects
Refuses(c) == Stays(c, "EINVAL")

detach(c) == Refuses(c)               \* and the clock of a thread and the handlers of fork()
cancellation(c) == Refuses(c)
testcancel(c) == Stays(c, "none")
scheduling(c) == Refuses(c)
setname_np(c) == Stays(c, "zero")     \* names the context, if it is one
concurrency(c) == Refuses(c)          \* and affinity
yield(c) == Stays(c, "zero")
thread_attributes(c) == Refuses(c)
stack_attributes(c) == Refuses(c)     \* and the attributes of a thread or the default
keys(c) == Refuses(c)
getspecific(c) == Stays(c, "none")
spinlocks(c) == Refuses(c)
timed_mutex(c) == Refuses(c)
mutex_ceilings(c) == Refuses(c)       \* and its consistency
mutex_attributes(c) == Refuses(c)
timed_rwlock(c) == Refuses(c)
rwlock_attributes(c) == Refuses(c)
cond_signal(c) == Stays(c, "zero")    \* and broadcast(): whom they wake, CondVar tells
condattr_init(c) == Stays(c, "zero")  \* and its destruction
cond_attributes(c) == Refuses(c)
barriers(c) == Refuses(c)

ObjectsNext ==
  \E c \in Callers :
    \/ \E call \in Calls : Enter(c, call) \/ Try(c, call)
    \/ cond_wait(c) \/ Leave(c) \/ mutex_unlock(c) \/ rwlock_unlock(c)
    \/ \E o \in Objects : destroy(c, o) \/ init(c, o)
    \/ detach(c) \/ cancellation(c) \/ testcancel(c) \/ scheduling(c) \/ setname_np(c)
    \/ concurrency(c) \/ yield(c) \/ thread_attributes(c) \/ stack_attributes(c)
    \/ keys(c) \/ getspecific(c) \/ spinlocks(c) \/ timed_mutex(c) \/ mutex_ceilings(c)
    \/ mutex_attributes(c) \/ timed_rwlock(c) \/ rwlock_attributes(c)
    \/ cond_signal(c) \/ condattr_init(c) \/ cond_attributes(c) \/ barriers(c)

Next ==
  \/ ThreadsNext /\ UNCHANGED <<once, objects>>
  \/ OnceNext /\ UNCHANGED <<threads, objects>>
  \/ ObjectsNext /\ UNCHANGED <<threads, once>>

Spec == Init /\ [][Next]_vars

-----------------------------------------------------------------------------
(* Properties *)

\* context.h, join(): "Blocks the current context until this one finishes". The thread a
\* context joins has returned when the join does, whatever happened to the vector.
JoinBlocks ==
  [][\A c \in Callers : joins[c] # NoJoin /\ joins'[c] = NoJoin
        => thread[joins[c].thread] = "finished"]_vars

\* However often the init routine suspends, it is run once.
RunsOnce == ran <= 1

\* A call that answers an error has changed nothing of the objects: callers that are
\* refused cannot disturb those who own, wait for or destroy them. (tryrdlock() moves a
\* count that is negative.)
ErrorsChangeNothing ==
  [][ret' \in Errors => UNCHANGED <<threads, once, owner, u, inside, gone>> /\ (s' = s \/ s < 0)]_vars

\* A read-write lock or condition variable is not destroyed under a context that is in
\* its queue, notified or not.
NotDestroyedInUse == \A o \in gone \ {"mutex"} : Inside(o) = {}

\* list.h, ~list(): assert(empty()). No object is.
QueuesDestroyedEmpty == \A o \in gone : Inside(o) = {}

\* Why the properties hold, when nothing overlaps with a join. Who joins has the one
\* iterator into the vector, which is at the thread it joins, and no thread is in the
\* vector twice.
JoinerPoints ==
  /\ \A c \in Callers : joins[c] # NoJoin =>
       joins[c].at \in DOMAIN ctxs /\ ctxs[joins[c].at] = joins[c].thread
  /\ \A c, e \in Callers : joins[c] # NoJoin /\ joins[e] # NoJoin => c = e

VectorOnce ==
  /\ \A i, j \in DOMAIN ctxs : ctxs[i] = ctxs[j] => i = j
  /\ \A i \in DOMAIN ctxs : thread[ctxs[i]] # "none"

OnceMarked == control = 0 => ran = 0

IInv == TypeOK /\ VectorOnce /\ JoinerPoints /\ RunsOnce /\ OnceMarked /\ NotDestroyedInUse
=============================================================================
