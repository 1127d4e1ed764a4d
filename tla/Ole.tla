--------------------------------- MODULE Ole ---------------------------------
(***************************************************************************)
(* The offload engine: contexts of the main thread give functions to       *)
(* threads and wait, masked, until the thread has signalled back.  What    *)
(* the code does under its mutex is one step; the threads, the main thread *)
(* and the shutdown interleave between the steps.                          *)
(***************************************************************************)
EXTENDS Sched, Integers

CONSTANTS
  Threads, \* thread_max of them, each one that may be started
  MaxStale \* bound on what ends of the engine leave in `working`

VARIABLES
  queue,       \* ole::queue: the contexts whose function is to be run
  threads,     \* ole::threads
  working,     \* ole::working
  termination, \* ole::termination
  tpc,         \* where each thread is
  job,         \* the context whose function it runs
  signals,     \* the contexts whose latch a posted closure is to count down
  pc,          \* the contexts: "out", in latch::wait() ("wait"), its count is 0 ("back")
  life         \* the engine is "up", ~init() blocks the main thread, or it is "over"

ole == <<queue, threads, working, termination, tpc, job, signals, pc, life>>
vars == <<sched, ole>>

\* At the test of the loop, in cond.wait() of pop() and notified of it, in a function,
\* past the loop.
ThreadPlaces == {"none", "top", "cond", "notified", "func", "exit"}
At(place) == {t \in Threads : tpc[t] = place}

TypeOK ==
  /\ SchedTypeOK
  /\ queue \in Seq(Ctxs) /\ threads \subseteq Threads /\ working \in Nat
  /\ tpc \in [Threads -> ThreadPlaces] /\ job \in [Threads -> Ctxs \cup {None}]
  /\ pc \in [Ctxs -> {"out", "wait", "back"}] /\ signals \subseteq Ctxs

Init ==
  /\ SchedInit
  /\ queue = <<>> /\ threads = {} /\ working = 0 /\ termination = FALSE
  /\ tpc = [t \in Threads |-> "none"] /\ job = [t \in Threads |-> None]
  /\ signals = {} /\ pc = [c \in Ctxs |-> "out"] /\ life = "up"

\* cond.notify_all(): the threads in cond.wait().
Notified(p) == [t \in Threads |-> IF p[t] = "cond" THEN "notified" ELSE p[t]]

-----------------------------------------------------------------------------
(* The contexts *)

\* push(): a thread is added when there is none or all are counted as working.
NeedThread == threads = {} \/ Cardinality(threads) = working

Pushed(c) ==
  /\ queue' = Append(queue, c)
  /\ IF NeedThread /\ threads # Threads
     THEN \E t \in Threads \ threads :
            /\ tpc[t] = "none"
            /\ threads' = threads \cup {t} /\ working' = working + 1
            /\ tpc' = [Notified(tpc) EXCEPT ![t] = "top"]
     ELSE tpc' = Notified(tpc) /\ UNCHANGED <<threads, working>>

OffloadUnmasked(c) ==  \* mutant: the wait can be interrupted
  /\ life # "down" /\ current = c /\ pc[c] = "out"
  /\ Pushed(c)
  /\ pc' = [pc EXCEPT ![c] = "wait"]
  /\ current' = None /\ stage' = [stage EXCEPT ![c] = "asleep"]
  /\ UNCHANGED <<pend, masked, termination, job, signals, life>>

\* offload(): masked, push, wait at the latch. (Entering the scope throws when an
\* interruption is pending.)
Offload(c) ==
  /\ life # "down" /\ current = c /\ pc[c] = "out" /\ ~Throws(c)
  /\ Pushed(c)
  /\ pc' = [pc EXCEPT ![c] = "wait"]
  /\ masked' = [masked EXCEPT ![c] = TRUE]
  /\ current' = None /\ stage' = [stage EXCEPT ![c] = "asleep"]
  /\ UNCHANGED <<pend, termination, job, signals, life>>

\* Out of the wait: the latch, nothing, or an interruption if it were not masked.
Return1(c) ==
  /\ life # "down" /\ Resumable(c) /\ pc[c] # "out"
  /\ \/ /\ Throws(c) \/ pc[c] = "back"
        /\ current' = c /\ stage' = [stage EXCEPT ![c] = "running"]
        /\ pc' = [pc EXCEPT ![c] = "out"]
        /\ masked' = [masked EXCEPT ![c] = FALSE]
        /\ pend' = [pend EXCEPT ![c] = {}]  \* thrown where the scope ends
     \/ /\ ~Throws(c) /\ pc[c] = "wait"
        /\ stage' = [stage EXCEPT ![c] = "asleep"]
        /\ UNCHANGED <<current, pend, masked, pc>>
  /\ UNCHANGED <<queue, threads, working, termination, tpc, job, signals, life>>

\* The event loop runs the closure that was signalled: count_down().
Signalled(c) ==
  /\ life # "down" /\ current = None /\ c \in signals
  /\ signals' = signals \ {c}
  /\ pc' = [pc EXCEPT ![c] = IF @ = "wait" THEN "back" ELSE @]
  /\ stage' = Wake(stage, {c})
  /\ UNCHANGED <<current, pend, masked, queue, threads, working, termination, tpc, job, life>>

-----------------------------------------------------------------------------
(* The threads *)

Main == <<current, stage, pend, masked, pc, life>>
Goes(t, place) == tpc' = [tpc EXCEPT ![t] = place]

\* The unlocked test of the loop, then pop() as far as cond.wait() or through it.
Popped(t, w) ==
  IF termination THEN Goes(t, "exit") /\ working' = w /\ UNCHANGED <<queue, job>>
  ELSE IF queue = <<>> THEN Goes(t, "cond") /\ working' = w /\ UNCHANGED <<queue, job>>
  ELSE /\ queue' = Tail(queue) /\ job' = [job EXCEPT ![t] = Head(queue)]
       /\ working' = w + 1 /\ Goes(t, "func")

Enter(t) ==
  /\ tpc[t] = "top"
  /\ Popped(t, working - 1)
  /\ UNCHANGED <<Main, threads, termination, signals>>

Stop(t) ==
  /\ tpc[t] = "top" /\ termination
  /\ Goes(t, "exit")
  /\ UNCHANGED <<Main, queue, threads, working, termination, job, signals>>

\* It wakes, notified or not.
Claim(t) ==
  /\ tpc[t] \in {"notified", "cond"}
  /\ tpc[t] = "cond" => queue # <<>> \/ termination
  /\ Popped(t, working)
  /\ UNCHANGED <<Main, threads, termination, signals>>

FuncLost(t) ==  \* mutant: an exception of the function passes the signal by
  /\ tpc[t] = "func" /\ Goes(t, "top")
  /\ signals' \in {signals, signals \cup {job[t]}}
  /\ job' = [job EXCEPT ![t] = None]
  /\ UNCHANGED <<Main, queue, threads, working, termination>>

\* The function returns, or throws into eptr; then the context is signalled.
Func(t) ==
  /\ tpc[t] = "func" /\ Goes(t, "top")
  /\ signals' = signals \cup {job[t]}
  /\ job' = [job EXCEPT ![t] = None]
  /\ UNCHANGED <<Main, queue, threads, working, termination>>

\* The end of worker().
worker_remove(t) ==
  /\ tpc[t] = "exit"
  /\ threads' = threads \ {t}
  /\ tpc' = [Notified(tpc) EXCEPT ![t] = "none"]
  /\ UNCHANGED <<Main, queue, working, termination, job, signals>>

-----------------------------------------------------------------------------
(* Shutdown and restart, and the rest of the program *)

Shutdown ==
  /\ life = "up" /\ current = None
  /\ life' = "down" /\ termination' = TRUE
  /\ tpc' = Notified(tpc)
  /\ UNCHANGED <<sched, queue, threads, working, job, signals, pc>>

Over ==
  /\ life = "down" /\ threads = {}
  /\ life' = "over"
  /\ UNCHANGED <<sched, queue, threads, working, termination, tpc, job, signals, pc>>

\* init() of a second run in the same process; `working` stays as the first one left
\* it. (One that finds functions still queued is not followed.)
Restart ==
  /\ life = "over" /\ queue = <<>> /\ working <= MaxStale
  /\ life' = "up" /\ termination' = FALSE
  /\ UNCHANGED <<sched, queue, threads, working, tpc, job, signals, pc>>

WakeElsewhere(c) == life # "down" /\ pc[c] = "out" /\ Return(c) /\ UNCHANGED ole
Doze(c) == life # "down" /\ pc[c] = "out" /\ Suspend(c) /\ UNCHANGED ole
Interrupt(c) == life # "down" /\ Request(c, "INTERRUPTED") /\ UNCHANGED ole
Notify(c) == life # "down" /\ Rouse(c) /\ UNCHANGED ole

Next ==
  \/ \E c \in Ctxs : Offload(c) \/ Return1(c) \/ Signalled(c)
                     \/ WakeElsewhere(c) \/ Doze(c) \/ Interrupt(c) \/ Notify(c)
  \/ \E t \in Threads : Enter(t) \/ Stop(t) \/ Claim(t) \/ Func(t) \/ worker_remove(t)
  \/ Shutdown \/ Over \/ Restart

Spec == Init /\ [][Next]_vars

-----------------------------------------------------------------------------
(* Properties *)

\* A function refers to the frame of the context that offloaded it: the context is
\* there, in its wait, until the thread is done with it and the latch is counted
\* down, whatever interrupts it and whenever the engine goes down.
FrameOutlivesFunction ==
  /\ \A t \in Threads : tpc[t] = "func" => pc[job[t]] = "wait"
  /\ \A c \in ToSet(queue) \cup signals : pc[c] = "wait"

\* Whoever waits is waited for: its function is queued, runs or has signalled. A
\* queued one has a thread to come to it, unless the engine was shut down.
NoStrandedContext ==
  \A c \in Ctxs : pc[c] = "wait" =>
    \/ c \in signals \/ \E t \in Threads : job[t] = c
    \/ c \in ToSet(queue) /\ (termination \/ \E t \in threads : tpc[t] # "cond" /\ tpc[t] # "exit")

\* The inductive invariant: besides, whoever waits is masked and in one place, once; the
\* threads that run are those of the vector; `working` counts at least the threads that
\* are about to pop or in a function; nobody sleeps in pop() over a queue that has
\* something, which somebody comes to until the engine is shut down.
OnePlace ==
  /\ \A i, j \in DOMAIN queue : queue[i] = queue[j] => i = j
  /\ \A t \in Threads : job[t] # None => job[t] \notin ToSet(queue) \cup signals
  /\ \A t, u \in Threads : job[t] = job[u] /\ job[t] # None => t = u
  /\ signals \cap ToSet(queue) = {}
  /\ \A c \in Ctxs : pc[c] # "out" => masked[c]
  /\ \A c \in Ctxs : pc[c] = "wait" =>
       c \in ToSet(queue) \cup signals \/ \E t \in Threads : job[t] = c
ThreadsRun ==
  /\ \A t \in Threads : /\ t \in threads <=> tpc[t] # "none"
                        /\ job[t] # None <=> tpc[t] = "func"
                        /\ tpc[t] = "exit" => termination
  /\ Cardinality({t \in Threads : tpc[t] \in {"top", "func"}}) <= working
LifeIsTermination ==
  /\ life \in {"up", "down", "over"} /\ termination = (life # "up")
  /\ life = "over" /\ queue = <<>> => threads = {}
QueueIsServed ==
  queue # <<>> => At("cond") = {} /\ (termination \/ threads # {})
IInv ==
  TypeOK /\ FrameOutlivesFunction /\ OnePlace /\ ThreadsRun /\ LifeIsTermination /\ QueueIsServed
=============================================================================
