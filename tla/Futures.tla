-------------------------------- MODULE Futures --------------------------------
(***************************************************************************)
(* The futures of one promise and the contexts that wait on them: wait and *)
(* get, with or without a deadline, against the contexts that async()      *)
(* spawned with a copy of the promise, which set it, fail or are stopped.  *)
(* Chains.tla has the lists that tie the copies together.                  *)
(***************************************************************************)
EXTENDS Sched, FiniteSets, Integers

CONSTANTS
  Holders,  \* the contexts that hold a copy of the promise from the start
  Typed,    \* the instances of future<T>
  Plain     \* the instances of future<void>

Futures == Typed \cup Plain
Waiters == Ctxs \ Holders

ASSUME FuturesAssumption == Holders \subseteq Ctxs /\ Holders # {} /\ None \notin Futures

VARIABLES
  copies,   \* the copies of the promise not yet destroyed, by their holder
  open,     \* they are attached: nobody has answered yet
  st,       \* the state of each future
  answer,   \* what its eptr and its value are
  cond,     \* the queue of its dock
  on,       \* the future each waiter waits on, or None
  how,      \* by wait or by get
  due,      \* its deadline: "never", "later" or "passed"; "passed" when it waits no
            \* more: its last wait timed out
  moved     \* how often the value was moved out of the future

future == <<copies, open, st, answer, cond, on, how, due, moved>>
vars == <<sched, future>>

Answers == {"value", "error", "broken"}

TypeOK ==
  /\ SchedTypeOK
  /\ copies \subseteq Holders /\ open \in BOOLEAN
  /\ st \in [Futures -> {"PENDING", "READY", "RETRIEVED"}]
  /\ answer \in [Futures -> Answers \cup {"none"}]
  /\ cond \in [Futures -> Seq(Waiters)]
  /\ on \in [Waiters -> Futures \cup {None}] /\ how \in [Waiters -> {"wait", "get"}]
  /\ due \in [Waiters -> {"never", "later", "passed"}]
  /\ moved \in [Futures -> 0..2]

FutureInit ==
  /\ copies = Holders /\ open = TRUE
  /\ st = [f \in Futures |-> "PENDING"] /\ answer = [f \in Futures |-> "none"]
  /\ cond = [f \in Futures |-> <<>>]
  /\ on = [c \in Waiters |-> None] /\ how = [c \in Waiters |-> "wait"]
  /\ due = [c \in Waiters |-> "never"]
  /\ moved = [f \in Futures |-> 0]
Init == SchedInit /\ FutureInit

\* A waiter stands in the dock of a future; a holder never does.
Waits(c) == c \in Waiters /\ on[c] # None
Queued == UNION {ToSet(cond[f]) : f \in Futures}

-----------------------------------------------------------------------------
(* The promise *)

\* The answer a reaches every future, then everybody in their docks is told.
Answered(s, a) ==
  /\ st' = [f \in Futures |-> "READY"] /\ answer' = [f \in Futures |-> a]
  /\ stage' = Wake(s, Queued)

\* set_value() or set_exception() of c, which goes on: nothing when the promise was
\* answered through another copy.
SetResult(c) ==
  /\ current = c /\ c \in copies /\ open
  /\ open' = FALSE
  /\ \E a \in {"value", "error"} : Answered(stage, a)
  /\ UNCHANGED <<current, pend, masked, copies, cond, on, how, due, moved>>

\* The function of c returns or throws and its base frame ends: its copy goes, and the
\* last one breaks the promise.
EndKept(c) ==  \* mutant: the last copy goes without breaking the promise
  /\ current = c /\ c \in Holders
  /\ current' = None /\ copies' = copies \ {c}
  /\ stage' = [stage EXCEPT ![c] = "done"]
  /\ UNCHANGED <<pend, masked, open, st, answer, cond, on, how, due, moved>>

End(c) ==
  /\ current = c /\ c \in Holders
  /\ current' = None
  /\ copies' = copies \ {c}
  /\ IF open /\ copies' = {}
     THEN /\ open' = FALSE
          /\ Answered([stage EXCEPT ![c] = "done"], "broken")
     ELSE /\ stage' = [stage EXCEPT ![c] = "done"]
          /\ UNCHANGED <<open, st, answer>>
  /\ UNCHANGED <<pend, masked, cond, on, how, due, moved>>

-----------------------------------------------------------------------------
(* The futures *)

\* The call of c on f, which is not pending, ends. get() moves the value out once;
\* future<void> is retrieved by any wait; wait() of a future<T> leaves it alone.
Delivered(c, f, w) ==
  IF f \in Typed /\ w = "get" /\ st[f] = "RETRIEVED"
  THEN UNCHANGED <<st, moved>>  \* future_already_retrieved is thrown
  ELSE /\ st' = [st EXCEPT ![f] = IF f \in Typed /\ w = "wait" THEN @ ELSE "RETRIEVED"]
       /\ moved' = [moved EXCEPT ![f] = IF f \in Typed /\ w = "get" /\ answer[f] = "value"
                                        THEN @ + 1 ELSE @]

\* The predicate holds before any wait.
Immediate(c, f, w) ==
  /\ current = c /\ c \in Waiters /\ st[f] # "PENDING"
  /\ w = "get" => f \in Typed
  /\ Delivered(c, f, w)
  /\ UNCHANGED <<sched, copies, open, answer, cond, on, how, due>>

Await(c, f, w, deadline) ==
  /\ current = c /\ c \in Waiters /\ st[f] = "PENDING"
  /\ w = "get" => f \in Typed
  /\ Suspend(c)
  /\ cond' = [cond EXCEPT ![f] = Append(@, c)]
  /\ on' = [on EXCEPT ![c] = f] /\ how' = [how EXCEPT ![c] = w]
  /\ due' = [due EXCEPT ![c] = deadline]
  /\ UNCHANGED <<copies, open, st, answer, moved>>

\* c resumes and leaves the dock of the future it waited on.
Leaves(c, late) ==
  /\ current' = c
  /\ cond' = [cond EXCEPT ![on[c]] = Without(@, c)]
  /\ on' = [on EXCEPT ![c] = None] /\ due' = [due EXCEPT ![c] = late]
  /\ how' = [how EXCEPT ![c] = "wait"]

WakeAnswered(c) ==
  /\ Resumable(c) /\ Waits(c) /\ ~Throws(c) /\ st[on[c]] # "PENDING"
  /\ Leaves(c, "never") /\ Delivered(c, on[c], how[c])
  /\ stage' = [stage EXCEPT ![c] = "running"]
  /\ UNCHANGED <<pend, masked, copies, open, answer>>

WakeInVain(c) ==
  /\ Resumable(c) /\ Waits(c) /\ ~Throws(c) /\ st[on[c]] = "PENDING" /\ due[c] # "passed"
  /\ stage' = [stage EXCEPT ![c] = "asleep"]
  /\ UNCHANGED <<current, pend, masked, future>>

\* The predicate is looked at before the deadline is: an answer that came is not missed.
WakeExpiredFirst(c) ==  \* mutant: the deadline is looked at first
  /\ Resumable(c) /\ Waits(c) /\ ~Throws(c) /\ due[c] = "passed"
  /\ Leaves(c, "passed")
  /\ stage' = [stage EXCEPT ![c] = "running"]
  /\ UNCHANGED <<pend, masked, copies, open, st, answer, moved>>

WakeExpired(c) ==
  /\ Resumable(c) /\ Waits(c) /\ ~Throws(c) /\ st[on[c]] = "PENDING" /\ due[c] = "passed"
  /\ Leaves(c, "passed")
  /\ stage' = [stage EXCEPT ![c] = "running"]
  /\ UNCHANGED <<pend, masked, copies, open, st, answer, moved>>

\* An interruption leaves the dock, which notifies its front.
WakeThrown(c) ==
  /\ Resumable(c) /\ Waits(c) /\ Throws(c)
  /\ Leaves(c, "never")
  /\ stage' = [Wake(stage, Front1(cond'[on[c]])) EXCEPT ![c] = "running"]
  /\ Thrown(c)
  /\ UNCHANGED <<copies, open, st, answer, moved>>

-----------------------------------------------------------------------------
(* The rest of the program *)

Expire(c) ==
  /\ c \in Waiters /\ due[c] = "later"
  /\ due' = [due EXCEPT ![c] = "passed"]
  /\ stage' = Wake(stage, {c})
  /\ UNCHANGED <<current, pend, masked, copies, open, st, answer, cond, on, how, moved>>

Doze(c) == Suspend(c) /\ UNCHANGED future
WakeElsewhere(c) == ~Waits(c) /\ Return(c) /\ UNCHANGED future
Interrupt(c) == c \in Waiters /\ Request(c, "INTERRUPTED") /\ UNCHANGED future
Notify(c) == Rouse(c) /\ UNCHANGED future

Next ==
  \E c \in Ctxs :
    \/ SetResult(c) \/ End(c) \/ WakeAnswered(c) \/ WakeInVain(c) \/ WakeExpired(c)
    \/ WakeThrown(c) \/ Expire(c) \/ Doze(c) \/ WakeElsewhere(c) \/ Interrupt(c) \/ Notify(c)
    \/ \E f \in Futures, w \in {"wait", "get"} :
         Immediate(c, f, w) \/ \E deadline \in {"never", "later"} : Await(c, f, w, deadline)

Spec == Init /\ [][Next]_vars

-----------------------------------------------------------------------------
(* Properties *)

\* Nobody sleeps on a future that has its answer, and as long as one is pending somebody
\* still has a copy of the promise: however the contexts of async() end, the wait ends.
NoMissedAnswer ==
  /\ \A c \in Waiters : Waits(c) /\ stage[c] = "asleep" => st[on[c]] = "PENDING"
  /\ (\E f \in Futures : st[f] = "PENDING") => open /\ copies # {}

\* The value of a future<T> is moved out of it once, whoever calls get() and however the
\* calls overlap; and only out of a future that was answered with a value.
RetrievedOnce ==
  \A f \in Typed :
    moved[f] <= 1 /\ (moved[f] = 1 => st[f] = "RETRIEVED" /\ answer[f] = "value")

\* A call that reports a timeout found the future pending when it came back: an answer that
\* races the deadline wins.
AnswerBeatsDeadline ==
  [][\A c \in Waiters :
       Waits(c) /\ on'[c] = None /\ due'[c] = "passed" => st[on[c]] = "PENDING"]_vars

\* Both: a wait on a future ends with its answer, of which the value is moved out once.
AwaitAnswered == NoMissedAnswer /\ RetrievedOnce

\* The inductive invariant: the dock of a future holds exactly the contexts that wait on
\* it, none of which runs, so that an answer reaches them all; and the copies are attached
\* exactly as long as every future is pending.
DocksAreWaiters ==
  /\ \A c \in Waiters : Waits(c) => current # c
  /\ \A f \in Futures, c \in Waiters : c \in ToSet(cond[f]) <=> on[c] = f
  /\ \A f \in Futures : \A i, j \in DOMAIN cond[f] : cond[f][i] = cond[f][j] => i = j
AttachedWhilePending ==
  /\ \A f \in Futures : st[f] = "PENDING" <=> open
  /\ open => copies # {}
IInv == TypeOK /\ DocksAreWaiters /\ AttachedWhilePending /\ AwaitAnswered
=============================================================================
