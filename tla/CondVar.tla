------------------------------- MODULE CondVar -------------------------------
(***************************************************************************)
(* ctx::condition_variable used as a monitor: contexts take tokens and put *)
(* them under one ctx::mutex and wait for them, every way it can be waited *)
(* on and notified.  Both queues are ctx::list's, linked through the same  *)
(* node of the context: a context waits on the condition while ~unlock_    *)
(* guard locks the mutex again.                                            *)
(***************************************************************************)
EXTENDS Sched

CONSTANTS
  Tokens,     \* the bound of the tokens
  HoldsAsleep \* contexts suspend while they hold the mutex, so that it is contended

VARIABLES
  l,      \* the links of both lists, as CtxList has them
  m,      \* the owner of the mutex
  tokens, \* what the predicates read: some are left
  pc,     \* where each context is
  how,    \* its wait: with a predicate or not, a deadline or not
  due,    \* its deadline has passed
  threw   \* an exception leaves its wait, which locks first

vars == <<sched, l, m, tokens, pc, how, due, threw>>

Docks == {"cv", "m"}
N == INSTANCE CtxList WITH Ids <- Ctxs, Null <- None,
  head <- l.head, tail <- l.tail, prev <- l.prev, next <- l.next, did <- <<>>

\* "cv": in ctx::wait() with the mutex given up; "relock": in ~unlock_guard, and
\* "lock": in lock(), both in the dock of the mutex.
Places == {"out", "in", "cv", "relock", "lock"}
Waits == {"wait", "wait pred", "timed", "timed pred"}
Waiters == {c \in Ctxs : pc[c] \in {"cv", "relock"}}

Init ==
  /\ SchedInit
  /\ l = [head |-> [d \in Docks |-> None], tail |-> [d \in Docks |-> None],
          prev |-> [c \in Ctxs |-> None], next |-> [c \in Ctxs |-> None]]
  /\ m = None /\ tokens = 0
  /\ pc = [c \in Ctxs |-> "out"] /\ how = [c \in Ctxs |-> "wait"]
  /\ due = [c \in Ctxs |-> FALSE] /\ threw = [c \in Ctxs |-> FALSE]

-----------------------------------------------------------------------------
(* The pieces *)

First(k, d) == {k.head[d]} \ {None}
Pushed(d, c) == N!BackPushed(l, d, c)
Running(c, place) == current = c /\ pc[c] = place
Resumes(s, c) == [s EXCEPT ![c] = "running"]

\* c owns the mutex again: the wait ends, by the exception it has in flight, the
\* predicate or the deadline, or c gives the mutex up and suspends again.
Over(c, x) == x \/ tokens > 0 \/ due[c] \/ how[c] \in {"wait", "timed"}

\* The destructors at the end of the wait of c, which throws or not: remove, then
\* renotify. A client whose wait returned takes a token if there is one.
Ended(c, k, x) ==
  /\ l' = N!Removed(k, "cv", c)
  /\ m' = c /\ current' = c
  /\ pc' = [pc EXCEPT ![c] = "in"]
  /\ how' = [how EXCEPT ![c] = "wait"] /\ due' = [due EXCEPT ![c] = FALSE]
  /\ tokens' = IF x \/ tokens = 0 THEN tokens ELSE tokens - 1

Ends(c, k, x) ==
  /\ Ended(c, k, x)
  /\ stage' = Resumes(Wake(stage, IF x THEN First(l', "cv") ELSE {}), c)

Regained(c, k, x) ==
  \/ Over(c, x) /\ Ends(c, k, x)
  \/ /\ ~Over(c, x)
     /\ l' = k /\ m' = None
     /\ pc' = [pc EXCEPT ![c] = "cv"]
     /\ stage' = [Wake(stage, First(k, "m")) EXCEPT ![c] = "asleep"]
     /\ UNCHANGED <<current, tokens, how, due>>

-----------------------------------------------------------------------------
(* The monitor's clients *)

Lock(c) ==
  /\ Running(c, "out")
  /\ \/ m = None /\ m' = c /\ pc' = [pc EXCEPT ![c] = "in"] /\ UNCHANGED <<sched, l>>
     \/ m # None /\ Suspend(c) /\ l' = Pushed("m", c)
                 /\ pc' = [pc EXCEPT ![c] = "lock"] /\ UNCHANGED m
  /\ UNCHANGED <<tokens, how, due, threw>>

Unlock(c) ==
  /\ Running(c, "in")
  /\ m' = None /\ stage' = Wake(stage, First(l, "m"))
  /\ pc' = [pc EXCEPT ![c] = "out"]
  /\ UNCHANGED <<current, pend, masked, l, tokens, how, due, threw>>

Take(c) ==
  /\ Running(c, "in") /\ tokens > 0
  /\ tokens' = tokens - 1
  /\ UNCHANGED <<sched, l, m, pc, how, due, threw>>

\* A token is put; notify() wakes the front of the queue and moves it to the back.
PutUnturned(c) ==  \* mutant: the front stays in front
  /\ Running(c, "in") /\ tokens < Tokens
  /\ tokens' = tokens + 1
  /\ stage' = Wake(stage, First(l, "cv"))
  /\ UNCHANGED <<current, pend, masked, l, m, pc, how, due, threw>>

Put(c) ==
  /\ Running(c, "in") /\ tokens < Tokens
  /\ tokens' = tokens + 1
  /\ stage' = Wake(stage, First(l, "cv"))
  /\ l' = IF l.head["cv"] = None THEN l
          ELSE N!BackPushed(N!FrontPopped(l, "cv"), "cv", l.head["cv"])
  /\ UNCHANGED <<current, pend, masked, m, pc, how, due, threw>>

\* All of them are put at once: notify_all().
Fill(c) ==
  /\ Running(c, "in") /\ tokens < Tokens
  /\ tokens' = Tokens
  /\ stage' = Wake(stage, ToSet(N!Forward("cv")))
  /\ UNCHANGED <<current, pend, masked, l, m, pc, how, due, threw>>

\* wait(), wait_for() and wait_until(), by a client that saw no token (with a
\* predicate that holds they return at once).
Wait(c, h) ==
  /\ Running(c, "in") /\ tokens = 0
  /\ l' = Pushed("cv", c)
  /\ current' = None
  /\ m' = None /\ stage' = [Wake(stage, First(l, "m")) EXCEPT ![c] = "asleep"]
  /\ pc' = [pc EXCEPT ![c] = "cv"]
  /\ how' = [how EXCEPT ![c] = h]
  /\ UNCHANGED <<pend, masked, tokens, due, threw>>

Doze(c) ==
  /\ Running(c, "out") \/ (HoldsAsleep /\ Running(c, "in"))
  /\ Suspend(c)
  /\ UNCHANGED <<l, m, tokens, pc, how, due, threw>>

-----------------------------------------------------------------------------
(* Resumption *)

\* Out of ctx::wait(), normally or not, into ~unlock_guard, which locks.
WakeCv(c) ==
  /\ Resumable(c) /\ pc[c] = "cv"
  /\ IF Throws(c) THEN Thrown(c) ELSE UNCHANGED <<pend, masked>>
  /\ \/ m = None /\ Regained(c, l, Throws(c)) /\ UNCHANGED threw
     \/ /\ m # None
        /\ l' = Pushed("m", c)
        /\ pc' = [pc EXCEPT ![c] = "relock"]
        /\ stage' = [stage EXCEPT ![c] = "asleep"]
        /\ threw' = [threw EXCEPT ![c] = Throws(c)]
        /\ UNCHANGED <<current, m, tokens, how, due>>

\* Out of the dock of the mutex. (An interruption thrown in ~unlock_guard, which is
\* noexcept, ends the program.)
WakeRelock(c) ==
  /\ Resumable(c) /\ pc[c] = "relock" /\ ~Throws(c)
  /\ \/ m = None /\ Regained(c, N!Removed(l, "m", c), threw[c])
     \/ /\ m # None /\ stage' = [stage EXCEPT ![c] = "asleep"]
        /\ UNCHANGED <<current, l, m, pc, tokens, how, due>>
  /\ UNCHANGED <<pend, masked, threw>>

WakeLock(c) ==
  /\ Resumable(c) /\ pc[c] = "lock" /\ ~Throws(c)
  /\ \/ /\ m = None /\ m' = c
        /\ l' = N!Removed(l, "m", c)
        /\ pc' = [pc EXCEPT ![c] = "in"]
        /\ current' = c /\ stage' = Resumes(stage, c)
     \/ m # None /\ stage' = [stage EXCEPT ![c] = "asleep"] /\ UNCHANGED <<current, l, m, pc>>
  /\ UNCHANGED <<pend, masked, tokens, how, due, threw>>

WakeElsewhere(c) ==
  /\ pc[c] \in {"out", "in"} /\ Return(c)
  /\ UNCHANGED <<l, m, tokens, pc, how, due, threw>>

-----------------------------------------------------------------------------
(* The rest of the program *)

Expire(c) ==
  /\ pc[c] = "cv" /\ how[c] \in {"timed", "timed pred"} /\ ~due[c]
  /\ due' = [due EXCEPT ![c] = TRUE]
  /\ stage' = Wake(stage, {c})
  /\ UNCHANGED <<current, pend, masked, l, m, tokens, pc, how, threw>>

\* interrupt(c), interrupt_all() and terminate_all() when c is in the queue.
Interrupt(c) ==
  /\ Request(c, "INTERRUPTED")
  /\ UNCHANGED <<l, m, tokens, pc, how, due, threw>>

Notify(c) == Rouse(c) /\ UNCHANGED <<l, m, tokens, pc, how, due, threw>>

Next ==
  \E c \in Ctxs :
    \/ Lock(c) \/ Unlock(c) \/ Take(c) \/ Put(c) \/ Fill(c) \/ Doze(c)
    \/ \E h \in Waits : Wait(c, h)
    \/ WakeCv(c) \/ WakeRelock(c) \/ WakeLock(c) \/ WakeElsewhere(c)
    \/ Expire(c) \/ Interrupt(c) \/ Notify(c)

Spec == Init /\ [][Next]_vars

-----------------------------------------------------------------------------
(* Properties *)

\* The queue of the condition is exactly who waits on it, whichever of them were
\* notified, expired or interrupted meanwhile.
QueueIsWaiters == ToSet(N!Forward("cv")) = Waiters

\* No signal is lost: while tokens are left and a context sleeps for one, a context
\* was woken to take one, through interruptions, deadlines and barging.
NoLostSignal ==
  tokens > 0 /\ (\E c \in Waiters : stage[c] = "asleep") => \E c \in Waiters : stage[c] = "ready"

\* ctx.cc, list::push_back(): assert(next(c) == nullptr); assert(prev(c) == nullptr).
\* The one node of a context is in no other queue when ~unlock_guard queues for
\* the mutex.
PushesClean ==
  [][\A c \in Ctxs : pc[c] # "relock" /\ pc'[c] = "relock"
        => l.next[c] = None /\ l.prev[c] = None]_vars
=============================================================================
