-------------------------------- MODULE Mutex --------------------------------
(***************************************************************************)
(* ctx::mutex over ctx::dock, for contexts that lock, try to lock, unlock, *)
(* suspend for other reasons (holding the mutex or not), are interrupted,  *)
(* terminated and woken for no reason.                                     *)
(***************************************************************************)
EXTENDS Sched

VARIABLES
  m,    \* mutex::m: the context that owns the mutex, or None
  q,    \* the queue of its dock
  pc,   \* where each context is: out, holding, in lock(), in try_lock_until()
  due   \* the deadline of the context's try_lock_until() has passed

vars == <<current, stage, pend, masked, m, q, pc, due>>
lock == <<m, q, pc, due>>

Places == {"out", "in", "lock", "timed"}

\* c is inside dock::wait() or wait_until().
Waits(c) == pc[c] \in {"lock", "timed"}

TypeOK ==
  /\ SchedTypeOK
  /\ m \in Ctxs \cup {None}
  /\ q \in Seq(Ctxs)
  /\ pc \in [Ctxs -> Places]
  /\ due \in [Ctxs -> BOOLEAN]

Init ==
  /\ SchedInit
  /\ m = None
  /\ q = <<>>
  /\ pc = [c \in Ctxs |-> "out"]
  /\ due = [c \in Ctxs |-> FALSE]

-----------------------------------------------------------------------------
(* The running context *)

\* lock(), try_lock() and try_lock_until() when the mutex is free: the predicate
\* holds at once, whoever is queued.
Acquire(c) ==
  /\ current = c /\ pc[c] = "out" /\ m = None
  /\ m' = c
  /\ pc' = [pc EXCEPT ![c] = "in"]
  /\ UNCHANGED <<current, stage, pend, masked, q, due>>

\* lock() and try_lock_until() when it is owned: queue up and suspend. (try_lock()
\* returns false and changes nothing.)
Contend(c, how) ==
  /\ current = c /\ pc[c] = "out" /\ m # None
  /\ Suspend(c)
  /\ q' = Append(q, c)
  /\ pc' = [pc EXCEPT ![c] = how]
  /\ due' = [due EXCEPT ![c] = FALSE]
  /\ UNCHANGED m

\* unlock(): disown, then notify the front of the queue.
UnlockSilent(c) ==  \* mutant: nobody is notified
  /\ current = c /\ pc[c] = "in" /\ m = c
  /\ m' = None
  /\ pc' = [pc EXCEPT ![c] = "out"]
  /\ UNCHANGED <<current, stage, pend, masked, q, due>>

Unlock(c) ==
  /\ current = c /\ pc[c] = "in" /\ m = c
  /\ m' = None
  /\ stage' = Wake(stage, Front1(q))
  /\ pc' = [pc EXCEPT ![c] = "out"]
  /\ UNCHANGED <<current, pend, masked, q, due>>

\* The context suspends for a reason of its own, or returns.
Doze(c) == ~Waits(c) /\ Suspend(c) /\ UNCHANGED lock
Leave(c) == pc[c] = "out" /\ Finish(c) /\ UNCHANGED lock

\* A suppression scope begins or ends.
Shield(c) == ~Waits(c) /\ (\E on \in BOOLEAN : Mask(c, on)) /\ UNCHANGED lock

-----------------------------------------------------------------------------
(* Resumption out of the dock *)

\* Leave the queue with the mutex: the predicate holds.
WakeUnchecked(c) ==  \* mutant: the predicate is not looked at again
  /\ Resumable(c) /\ Waits(c) /\ ~Throws(c)
  /\ current' = c
  /\ stage' = [stage EXCEPT ![c] = "running"]
  /\ m' = c
  /\ q' = Without(q, c)
  /\ pc' = [pc EXCEPT ![c] = "in"]
  /\ UNCHANGED <<pend, masked, due>>

WakeOwning(c) ==
  /\ Resumable(c) /\ Waits(c) /\ ~Throws(c) /\ m = None
  /\ current' = c
  /\ stage' = [stage EXCEPT ![c] = "running"]
  /\ m' = c
  /\ q' = Without(q, c)
  /\ pc' = [pc EXCEPT ![c] = "in"]
  /\ UNCHANGED <<pend, masked, due>>

\* The predicate fails and no deadline has passed: suspend again, in place.
WakeInVain(c) ==
  /\ Resumable(c) /\ Waits(c) /\ ~Throws(c) /\ m # None /\ ~due[c]
  /\ stage' = [stage EXCEPT ![c] = "asleep"]
  /\ UNCHANGED <<current, pend, masked, lock>>

\* The predicate fails and the deadline has passed: try_lock_until() is false.
WakeForgotten(c) ==  \* mutant: a timeout leaves the context in the queue
  /\ Resumable(c) /\ Waits(c) /\ ~Throws(c) /\ m # None /\ due[c]
  /\ current' = c
  /\ stage' = [stage EXCEPT ![c] = "running"]
  /\ pc' = [pc EXCEPT ![c] = "out"]
  /\ UNCHANGED <<pend, masked, m, q, due>>

WakeExpired(c) ==
  /\ Resumable(c) /\ Waits(c) /\ ~Throws(c) /\ m # None /\ due[c]
  /\ current' = c
  /\ stage' = [stage EXCEPT ![c] = "running"]
  /\ q' = Without(q, c)
  /\ pc' = [pc EXCEPT ![c] = "out"]
  /\ UNCHANGED <<pend, masked, m, due>>

\* interrupted or terminated is thrown: the dock's continuation leaves the queue
\* and notifies the context then at its front.
WakeKeeping(c) ==  \* mutant: the notification dies with the interrupted context
  /\ Resumable(c) /\ Waits(c) /\ Throws(c)
  /\ current' = c
  /\ q' = Without(q, c)
  /\ stage' = [stage EXCEPT ![c] = "running"]
  /\ Thrown(c)
  /\ pc' = [pc EXCEPT ![c] = "out"]
  /\ UNCHANGED <<m, due>>

WakeThrown(c) ==
  /\ Resumable(c) /\ Waits(c) /\ Throws(c)
  /\ current' = c
  /\ q' = Without(q, c)
  /\ stage' = [Wake(stage, Front1(q')) EXCEPT ![c] = "running"]
  /\ Thrown(c)
  /\ pc' = [pc EXCEPT ![c] = "out"]
  /\ UNCHANGED <<m, due>>

\* Resumption out of a suspension that has nothing to do with the mutex.
WakeElsewhere(c) == ~Waits(c) /\ Return(c) /\ UNCHANGED lock

-----------------------------------------------------------------------------
(* The rest of the program *)

\* A deadline passes: the alarm fires, or has been completed already.
Expire(c) ==
  /\ pc[c] = "timed" /\ ~due[c]
  /\ due' = [due EXCEPT ![c] = TRUE]
  /\ stage' = Wake(stage, {c})
  /\ UNCHANGED <<current, pend, masked, m, q, pc>>

Interrupt(c) == (\E r \in Requests : Request(c, r)) /\ UNCHANGED lock

\* Somebody notifies a context: one that waits for the mutex wakes in vain.
Notify(c) == Rouse(c) /\ UNCHANGED lock

Slice(c) ==
  \/ Acquire(c) \/ Unlock(c) \/ Doze(c) \/ Leave(c) \/ Shield(c)
  \/ \E how \in {"lock", "timed"} : Contend(c, how)

Wakeup(c) ==
  WakeOwning(c) \/ WakeInVain(c) \/ WakeExpired(c) \/ WakeThrown(c) \/ WakeElsewhere(c)

Next == \E c \in Ctxs : Slice(c) \/ Wakeup(c) \/ Expire(c) \/ Interrupt(c) \/ Notify(c)

\* The event loop reaches every queued resumption, and a slice ends.
Fairness ==
  \A c \in Ctxs : SF_vars(Wakeup(c)) /\ WF_vars(Doze(c) \/ Leave(c) \/ Contend(c, "lock"))

Spec == Init /\ [][Next]_vars

-----------------------------------------------------------------------------
(* Properties *)

\* No two contexts are past lock() at once, and the one that is, is the owner.
MutualExclusion == \A c, d \in Ctxs : pc[c] = "in" /\ pc[d] = "in" => c = d /\ m = c

\* The dock's queue is exactly the contexts inside lock() and try_lock_until(),
\* each once, and none of them runs.
QueueIsWaiters ==
  /\ \A c \in Ctxs : Waits(c) <=> c \in ToSet(q)
  /\ \A i, j \in DOMAIN q : q[i] = q[j] => i = j
  /\ \A c \in Ctxs : Waits(c) => stage[c] \in {"ready", "asleep"}

\* No wake-up is lost: whatever interrupts, timeouts and barging do, a free mutex
\* with waiters has the first of them on its way.
NoLostWakeup == m = None /\ q # <<>> => stage[Head(q)] = "ready"

\* The inductive invariant: the three above hold because, besides, exactly the
\* running context is in stage "running" and exactly the owner is past lock().
OneRuns == \A c \in Ctxs : stage[c] = "running" <=> current = c
OwnerInside == \A c \in Ctxs : pc[c] = "in" <=> m = c
IInv == TypeOK /\ OneRuns /\ OwnerInside /\ QueueIsWaiters /\ NoLostWakeup

\* A mutex left free with contexts waiting is taken, or abandoned by all of them.
FreeMutexMoves == (m = None /\ q # <<>>) ~> (m # None \/ q = <<>>)
=============================================================================
