---------------------------- MODULE LinksProofs ----------------------------
(***************************************************************************)
(* Proofs about Futures, for any contexts, copies and futures, and about   *)
(* the linked lists (CtxList), for any lists and any finite set of         *)
(* contexts.                                                               *)
(***************************************************************************)
EXTENDS MCLinks, QueueLemmas

-----------------------------------------------------------------------------
(* Futures *)

LEMMA InitIInv == Init => IInv
<1> SUFFICES ASSUME Init PROVE IInv
  OBVIOUS
<1>1. TypeOK
  BY NoneAssumption DEF Init, SchedInit, FutureInit, TypeOK, SchedTypeOK, Stages, Requests, Answers
<1>2. DocksAreWaiters
  BY FuturesAssumption DEF Init, FutureInit, DocksAreWaiters, Waits, ToSet
<1>3. AttachedWhilePending /\ AwaitAnswered
  <2>1. AttachedWhilePending
    BY FuturesAssumption DEF Init, FutureInit, AttachedWhilePending
  <2>2. NoMissedAnswer
    BY FuturesAssumption DEF Init, FutureInit, NoMissedAnswer, Waits
  <2>3. RetrievedOnce
    BY DEF Init, FutureInit, RetrievedOnce, Futures
  <2>4. QED BY <2>1, <2>2, <2>3 DEF AwaitAnswered
<1>4. QED BY <1>1, <1>2, <1>3 DEF IInv

\* A context that waits stands in the dock of a future, and is no holder.
LEMMA WaitersQueued ==
  ASSUME IInv, NEW c \in Waiters, Waits(c)
  PROVE  c \in Ctxs /\ on[c] \in Futures /\ c \in ToSet(cond[on[c]]) /\ c \in Queued
<1>1. on[c] \in Futures
  BY DEF IInv, TypeOK, Waits
<1>2. c \in ToSet(cond[on[c]])
  BY <1>1 DEF IInv, DocksAreWaiters
<1>3. QED BY <1>1, <1>2 DEF Queued, Waiters

-----------------------------------------------------------------------------
(* The promise *)

\* An answer finds every future pending and wakes whoever sleeps on one.
LEMMA Answering ==
  ASSUME IInv, NEW a \in Answers, NEW s \in [Ctxs -> Stages], Answered(s, a), open, open' = FALSE,
         \A c \in Waiters : Waits(c) => (s[c] = "asleep" => stage[c] = "asleep"),
         current' \in {current, None}, UNCHANGED <<pend, masked, cond, on, how, due, moved>>,
         copies' \subseteq Holders
  PROVE  IInv'
<1> USE DEF IInv, TypeOK, SchedTypeOK
<1>1. /\ stage' \in [Ctxs -> Stages]
      /\ \A c \in Waiters : Waits(c) => stage'[c] # "asleep"
  <2>1. stage' = Wake(s, Queued)
    BY DEF Answered
  <2>2. stage' \in [Ctxs -> Stages] /\ \A c \in Queued \cap Ctxs : stage'[c] # "asleep"
    BY <2>1 DEF Wake, Stages
  <2>3. QED BY <2>2, WaitersQueued
<1>2. /\ st' \in [Futures -> {"PENDING", "READY", "RETRIEVED"}]
      /\ answer' \in [Futures -> Answers \cup {"none"}]
      /\ \A f \in Futures : st'[f] = "READY"
  BY DEF Answered
<1>3. TypeOK'
  BY <1>1, <1>2
<1>4. DocksAreWaiters'
  BY NoneAssumption DEF DocksAreWaiters, Waits, Waiters
<1>5. AttachedWhilePending'
  BY <1>2 DEF AttachedWhilePending
<1>6. NoMissedAnswer'
  BY <1>1, <1>2 DEF NoMissedAnswer, Waits
<1>7. RetrievedOnce'
  <2> SUFFICES ASSUME NEW f \in Typed PROVE moved[f] = 0
    BY DEF RetrievedOnce
  <2>1. st[f] = "PENDING" /\ moved[f] \in 0..2
    BY DEF AttachedWhilePending, Futures
  <2>2. QED BY <2>1 DEF AwaitAnswered, RetrievedOnce
<1>8. QED BY <1>3, <1>4, <1>5, <1>6, <1>7 DEF AwaitAnswered

LEMMA Promising ==
  ASSUME IInv, NEW c \in Ctxs, SetResult(c) \/ End(c)
  PROVE  IInv'
<1> USE DEF IInv, TypeOK, SchedTypeOK
<1>1. CASE SetResult(c)
  <2>1. PICK a \in {"value", "error"} : Answered(stage, a)
    BY <1>1 DEF SetResult
  <2>2. a \in Answers
    BY DEF Answers
  <2>3. QED BY <1>1, <2>1, <2>2, Answering DEF SetResult
<1>2. CASE End(c)
  <2> DEFINE s == [stage EXCEPT ![c] = "done"]
  <2>1. /\ s \in [Ctxs -> Stages]
        /\ \A d \in Ctxs : s[d] = "asleep" => stage[d] = "asleep"
    BY DEF Stages
  <2>2. Waiters \subseteq Ctxs /\ copies' \subseteq Holders
    BY <1>2 DEF Waiters, End
  <2>3. CASE open /\ copies' = {}
    <3>1. Answered(s, "broken") /\ open' = FALSE
      BY <1>2, <2>3 DEF End
    <3> HIDE DEF s
    <3>2. QED BY <1>2, <2>1, <2>2, <2>3, <3>1, Answering DEF End, Answers
  <2>4. CASE ~(open /\ copies' = {})
    <3>1. /\ stage' = s /\ current' = None /\ copies' = copies \ {c}
          /\ UNCHANGED <<pend, masked, open, st, answer, cond, on, how, due, moved>>
      BY <1>2, <2>4 DEF End
    <3> HIDE DEF s
    <3>2. TypeOK'
      BY <2>1, <2>2, <3>1
    <3>3. DocksAreWaiters'
      BY <3>1, NoneAssumption DEF DocksAreWaiters, Waits, Waiters
    <3>4. AttachedWhilePending' /\ AwaitAnswered'
      BY <2>1, <2>2, <2>4, <3>1
         DEF AttachedWhilePending, AwaitAnswered, NoMissedAnswer, RetrievedOnce, Waits
    <3>5. QED BY <3>2, <3>3, <3>4
  <2>5. QED BY <2>3, <2>4
<1>3. QED BY <1>1, <1>2

-----------------------------------------------------------------------------
(* The futures *)

\* A call that ends leaves the future answered, and moves its value out if nobody has.
LEMMA Delivering ==
  ASSUME IInv, NEW c, NEW f \in Futures, NEW w, st[f] # "PENDING", Delivered(c, f, w)
  PROVE  /\ st' \in [Futures -> {"PENDING", "READY", "RETRIEVED"}]
         /\ moved' \in [Futures -> 0..2]
         /\ \A g \in Futures : st'[g] = "PENDING" <=> st[g] = "PENDING"
         /\ answer' = answer => RetrievedOnce'
<1> USE DEF IInv, TypeOK
<1>1. CASE f \in Typed /\ w = "get" /\ st[f] = "RETRIEVED"
  BY <1>1 DEF Delivered, AwaitAnswered, RetrievedOnce
<1>2. CASE ~(f \in Typed /\ w = "get" /\ st[f] = "RETRIEVED")
  <2> DEFINE to == IF f \in Typed /\ w = "wait" THEN st[f] ELSE "RETRIEVED"
             n == IF f \in Typed /\ w = "get" /\ answer[f] = "value" THEN moved[f] + 1 ELSE moved[f]
  <2>1. /\ st' = [st EXCEPT ![f] = to] /\ moved' = [moved EXCEPT ![f] = n]
    BY <1>2 DEF Delivered
  <2>2. /\ to \in {"PENDING", "READY", "RETRIEVED"} /\ to # "PENDING"
        /\ n \in 0..2
        /\ f \in Typed => n <= 1 /\ (n = 1 => to = "RETRIEVED" /\ answer[f] = "value")
    <3>1. moved[f] \in 0..2 /\ st[f] \in {"PENDING", "READY", "RETRIEVED"}
      OBVIOUS
    <3>2. f \in Typed => moved[f] \in 0..1 /\ (moved[f] = 1 => st[f] = "RETRIEVED" /\ answer[f] = "value")
      BY <3>1 DEF AwaitAnswered, RetrievedOnce
    <3>3. CASE f \in Typed /\ w = "get" /\ answer[f] = "value"
      BY <1>2, <3>1, <3>2, <3>3
    <3>4. CASE ~(f \in Typed /\ w = "get" /\ answer[f] = "value")
      BY <1>2, <3>1, <3>2, <3>4
    <3>5. QED BY <3>3, <3>4
  <2> HIDE DEF to, n
  <2>3. \A g \in Typed : moved[g] <= 1 /\ (moved[g] = 1 => st[g] = "RETRIEVED" /\ answer[g] = "value")
    BY DEF AwaitAnswered, RetrievedOnce
  <2>4. QED BY <2>1, <2>2, <2>3 DEF RetrievedOnce, Futures
<1>3. QED BY <1>1, <1>2

LEMMA Calling ==
  ASSUME IInv, NEW c \in Ctxs, NEW f \in Futures, NEW w \in {"wait", "get"}, Immediate(c, f, w)
  PROVE  IInv'
<1>1. /\ UNCHANGED <<sched, copies, open, answer, cond, on, how, due>>
      /\ st[f] # "PENDING" /\ Delivered(c, f, w)
  BY DEF Immediate
<1>2. /\ st' \in [Futures -> {"PENDING", "READY", "RETRIEVED"}]
      /\ moved' \in [Futures -> 0..2]
      /\ \A g \in Futures : st'[g] = "PENDING" <=> st[g] = "PENDING"
      /\ RetrievedOnce'
  BY <1>1, Delivering
<1>3. TypeOK' /\ DocksAreWaiters'
  BY <1>1, <1>2 DEF IInv, TypeOK, SchedTypeOK, sched, DocksAreWaiters, Waits
<1>4. AttachedWhilePending' /\ NoMissedAnswer'
  BY <1>1, <1>2 DEF IInv, TypeOK, sched, AttachedWhilePending, AwaitAnswered, NoMissedAnswer, Waits
<1>5. QED BY <1>2, <1>3, <1>4 DEF IInv, AwaitAnswered

\* Only a future that is pending is waited on.
LEMMA Awaiting ==
  ASSUME IInv, NEW c \in Ctxs, NEW f \in Futures, NEW w \in {"wait", "get"},
         NEW deadline \in {"never", "later"}, Await(c, f, w, deadline)
  PROVE  IInv'
<1> USE DEF IInv, TypeOK, SchedTypeOK
<1>1. /\ c \in Waiters /\ current = c /\ current' = None
      /\ stage' = [stage EXCEPT ![c] = "asleep"] /\ UNCHANGED <<pend, masked>>
      /\ cond' = [cond EXCEPT ![f] = Append(@, c)]
      /\ on' = [on EXCEPT ![c] = f] /\ how' = [how EXCEPT ![c] = w]
      /\ due' = [due EXCEPT ![c] = deadline]
      /\ st[f] = "PENDING"
      /\ UNCHANGED <<copies, open, st, answer, moved>>
  BY DEF Await, Suspend
<1>2. on[c] = None
  BY <1>1 DEF DocksAreWaiters, Waits
<1>3. c \notin ToSet(cond[f])
  BY <1>1, <1>2, FuturesAssumption DEF DocksAreWaiters
<1>4. /\ cond'[f] \in Seq(Waiters)
      /\ \A i, j \in DOMAIN cond'[f] : cond'[f][i] = cond'[f][j] => i = j
      /\ ToSet(cond'[f]) = ToSet(cond[f]) \cup {c}
      /\ \A g \in Futures \ {f} : cond'[g] = cond[g]
  <2> DEFINE k == cond[f]
  <2>1. /\ c \in Waiters /\ k \in Seq(Waiters) /\ c \notin ToSet(k)
        /\ cond'[f] = Append(k, c)
        /\ \A g \in Futures \ {f} : cond'[g] = cond[g]
    BY <1>1, <1>3
  <2>2. \A i, j \in DOMAIN k : k[i] = k[j] => i = j
    BY DEF DocksAreWaiters
  <2> HIDE DEF k
  <2>3. /\ Append(k, c) \in Seq(Waiters)
        /\ \A i, j \in DOMAIN Append(k, c) : Append(k, c)[i] = Append(k, c)[j] => i = j
        /\ ToSet(Append(k, c)) = ToSet(k) \cup {c}
    BY ONLY <2>1, <2>2, AppendElements
  <2>4. QED BY <2>1, <2>3 DEF k
<1>5. TypeOK'
  <2>1. cond' \in [Futures -> Seq(Waiters)]
    BY <1>1, <1>4
  <2>2. QED BY <1>1, <2>1 DEF Stages
<1>6. DocksAreWaiters'
  <2>1. \A d \in Waiters : Waits(d)' => current' # d
    BY <1>1, NoneAssumption DEF Waiters
  <2>2. ASSUME NEW g \in Futures, NEW d \in Waiters PROVE d \in ToSet(cond'[g]) <=> on'[d] = g
    BY <1>1, <1>2, <1>4, FuturesAssumption DEF DocksAreWaiters
  <2>3. ASSUME NEW g \in Futures
        PROVE  \A i, j \in DOMAIN cond'[g] : cond'[g][i] = cond'[g][j] => i = j
    <3>1. CASE g = f
      BY <1>4, <3>1
    <3>2. CASE g # f
      BY <1>4, <3>2 DEF DocksAreWaiters
    <3>3. QED BY <3>1, <3>2
  <2>4. QED BY <2>1, <2>2, <2>3 DEF DocksAreWaiters
<1>7. AttachedWhilePending' /\ RetrievedOnce'
  BY <1>1 DEF AttachedWhilePending, AwaitAnswered, RetrievedOnce
<1>8. NoMissedAnswer'
  BY <1>1 DEF AwaitAnswered, NoMissedAnswer, Waits, Waiters
<1>9. QED BY <1>5, <1>6, <1>7, <1>8 DEF AwaitAnswered

\* A context leaves the dock; nobody else falls asleep.
LEMMA Leaving ==
  ASSUME IInv, NEW c \in Waiters, Waits(c), NEW late \in {"never", "passed"}, Leaves(c, late),
         UNCHANGED <<copies, open, answer>>,
         stage' \in [Ctxs -> Stages],
         \A d \in Ctxs : stage'[d] = "asleep" => stage[d] = "asleep",
         pend' \in [Ctxs -> SUBSET Requests], masked' \in [Ctxs -> BOOLEAN],
         st' \in [Futures -> {"PENDING", "READY", "RETRIEVED"}],
         moved' \in [Futures -> 0..2],
         \A g \in Futures : st'[g] = "PENDING" <=> st[g] = "PENDING",
         RetrievedOnce'
  PROVE  IInv'
<1> USE DEF IInv, TypeOK, SchedTypeOK
<1> DEFINE f == on[c]
<1>1. f \in Futures /\ c \in Ctxs /\ c \in ToSet(cond[f])
  BY WaitersQueued
<1>2. /\ current' = c
      /\ cond' = [cond EXCEPT ![f] = Without(@, c)]
      /\ on' = [on EXCEPT ![c] = None] /\ due' = [due EXCEPT ![c] = late]
      /\ how' = [how EXCEPT ![c] = "wait"]
  BY DEF Leaves
<1> HIDE DEF f
<1>3. on[c] = f
  BY DEF f
<1>4. /\ cond'[f] \in Seq(Waiters)
      /\ \A i, j \in DOMAIN cond'[f] : cond'[f][i] = cond'[f][j] => i = j
      /\ ToSet(cond'[f]) = ToSet(cond[f]) \ {c}
      /\ \A g \in Futures \ {f} : cond'[g] = cond[g]
  <2> DEFINE k == cond[f]
  <2>1. /\ k \in Seq(Waiters) /\ c \in ToSet(k) /\ cond'[f] = Without(k, c)
        /\ \A g \in Futures \ {f} : cond'[g] = cond[g]
    BY <1>1, <1>2
  <2>2. \A i, j \in DOMAIN k : k[i] = k[j] => i = j
    BY <1>1 DEF DocksAreWaiters
  <2> HIDE DEF k
  <2>3. /\ Without(k, c) \in Seq(Waiters)
        /\ \A i, j \in DOMAIN Without(k, c) : Without(k, c)[i] = Without(k, c)[j] => i = j
        /\ ToSet(Without(k, c)) = ToSet(k) \ {c}
    BY <2>1, <2>2, WithoutElements
  <2>4. QED BY <2>1, <2>3 DEF k
<1>5. TypeOK'
  <2>1. cond' \in [Futures -> Seq(Waiters)]
    BY <1>1, <1>2, <1>4
  <2>2. QED BY <1>1, <1>2, <2>1
<1>6. DocksAreWaiters'
  <2>1. \A d \in Waiters : Waits(d)' => current' # d
    BY <1>2 DEF Waits
  <2>2. ASSUME NEW g \in Futures, NEW d \in Waiters PROVE d \in ToSet(cond'[g]) <=> on'[d] = g
    BY <1>1, <1>2, <1>3, <1>4, FuturesAssumption DEF DocksAreWaiters
  <2>3. ASSUME NEW g \in Futures
        PROVE  \A i, j \in DOMAIN cond'[g] : cond'[g][i] = cond'[g][j] => i = j
    <3>1. CASE g = f
      BY <1>4, <3>1
    <3>2. CASE g # f
      BY <1>4, <3>2 DEF DocksAreWaiters
    <3>3. QED BY <3>1, <3>2
  <2>4. QED BY <2>1, <2>2, <2>3 DEF DocksAreWaiters
<1>7. AttachedWhilePending' /\ NoMissedAnswer'
  <2>1. ASSUME NEW d \in Waiters, Waits(d)', stage'[d] = "asleep" PROVE st'[on'[d]] = "PENDING"
    <3>1. on'[d] = on[d] /\ on[d] # None /\ d \in Ctxs /\ on[d] \in Futures
      BY <1>2, <2>1 DEF Waits, Waiters
    <3>2. QED BY <2>1, <3>1 DEF AwaitAnswered, NoMissedAnswer, Waits
  <2>2. QED BY <2>1 DEF AttachedWhilePending, AwaitAnswered, NoMissedAnswer
<1>8. QED BY <1>5, <1>6, <1>7 DEF AwaitAnswered

LEMMA Waking ==
  ASSUME IInv, NEW c \in Ctxs, WakeAnswered(c) \/ WakeExpired(c) \/ WakeThrown(c)
  PROVE  IInv'
<1> USE DEF IInv, TypeOK, SchedTypeOK
<1>1. Waits(c) /\ c \in Waiters /\ on[c] \in Futures
  BY DEF WakeAnswered, WakeExpired, WakeThrown, Waits
<1>2. ASSUME stage' = [stage EXCEPT ![c] = "running"]
      PROVE  stage' \in [Ctxs -> Stages] /\ \A d \in Ctxs : stage'[d] = "asleep" => stage[d] = "asleep"
  BY <1>2 DEF Stages
<1>3. CASE WakeAnswered(c)
  <2>1. /\ st[on[c]] # "PENDING" /\ Leaves(c, "never") /\ Delivered(c, on[c], how[c])
        /\ stage' = [stage EXCEPT ![c] = "running"]
        /\ UNCHANGED <<pend, masked, copies, open, answer>>
    BY <1>3 DEF WakeAnswered
  <2>2. /\ st' \in [Futures -> {"PENDING", "READY", "RETRIEVED"}]
        /\ moved' \in [Futures -> 0..2]
        /\ \A g \in Futures : st'[g] = "PENDING" <=> st[g] = "PENDING"
        /\ RetrievedOnce'
    BY <1>1, <2>1, Delivering
  <2>3. QED BY <1>1, <1>2, <2>1, <2>2, Leaving
<1>4. CASE WakeExpired(c)
  <2>1. /\ Leaves(c, "passed") /\ stage' = [stage EXCEPT ![c] = "running"]
        /\ UNCHANGED <<pend, masked, copies, open, st, answer, moved>>
    BY <1>4 DEF WakeExpired
  <2>2. RetrievedOnce'
    BY <2>1 DEF AwaitAnswered, RetrievedOnce
  <2>3. QED BY <1>1, <1>2, <2>1, <2>2, Leaving
<1>5. CASE WakeThrown(c)
  <2> DEFINE woken == Wake(stage, Front1(cond'[on[c]]))
  <2>1. woken \in [Ctxs -> Stages] /\ \A d \in Ctxs : woken[d] = "asleep" => stage[d] = "asleep"
    BY DEF Wake, Stages
  <2> HIDE DEF woken
  <2>2. /\ Leaves(c, "never") /\ stage' = [woken EXCEPT ![c] = "running"]
        /\ UNCHANGED <<copies, open, st, answer, moved>>
    BY <1>5 DEF WakeThrown, woken
  <2>3. pend' \in [Ctxs -> SUBSET Requests] /\ masked' \in [Ctxs -> BOOLEAN]
    BY <1>5 DEF WakeThrown, Thrown, SchedTypeOK
  <2>4. RetrievedOnce'
    BY <2>2 DEF AwaitAnswered, RetrievedOnce
  <2>5. stage' \in [Ctxs -> Stages] /\ \A d \in Ctxs : stage'[d] = "asleep" => stage[d] = "asleep"
    BY <2>1, <2>2 DEF Stages
  <2>6. QED BY <1>1, <2>2, <2>3, <2>4, <2>5, Leaving
<1>6. QED BY <1>3, <1>4, <1>5

-----------------------------------------------------------------------------
(* The rest of the program *)

\* Everything else changes a deadline, the stages and the flags; whoever it lets fall
\* asleep waits for nothing, or on a future that is pending.
LEMMA Elsewhere ==
  ASSUME IInv, NEW c \in Ctxs,
         \/ WakeInVain(c) \/ Expire(c) \/ Doze(c) \/ WakeElsewhere(c) \/ Interrupt(c) \/ Notify(c)
  PROVE  IInv'
<1> USE NoneAssumption DEF IInv, TypeOK, SchedTypeOK
<1>1. /\ UNCHANGED <<copies, open, st, answer, cond, on, how, moved>>
      /\ due' \in [Waiters -> {"never", "later", "passed"}]
  <2>1. CASE Expire(c)
    BY <2>1 DEF Expire
  <2>2. CASE UNCHANGED future
    BY <2>2 DEF future
  <2>3. QED BY <2>1, <2>2 DEF WakeInVain, Doze, WakeElsewhere, Interrupt, Notify
<1>2. SchedTypeOK' /\ (\A d \in Waiters : Waits(d) => current' # d)
  <2> USE DEF Stages, DocksAreWaiters, Waiters
  <2>1. CASE WakeInVain(c)
    BY <2>1 DEF WakeInVain, Resumable
  <2>2. CASE Expire(c)
    BY <2>2 DEF Expire, Wake
  <2>3. CASE Doze(c)
    BY <2>3 DEF Doze, Suspend
  <2>4. CASE WakeElsewhere(c)
    <3>1. pend' \in [Ctxs -> SUBSET Requests] /\ masked' \in [Ctxs -> BOOLEAN]
      <4>0. SchedTypeOK /\ c \in Ctxs
        OBVIOUS
      <4>1. CASE Thrown(c)
        BY ONLY <4>0, <4>1 DEF SchedTypeOK, Thrown
      <4>2. CASE UNCHANGED <<pend, masked>>
        BY <4>2
      <4>3. QED BY <2>4, <4>1, <4>2 DEF WakeElsewhere, Return
    <3>2. QED BY <2>4, <3>1 DEF WakeElsewhere, Return
  <2>5. CASE Interrupt(c)
    BY <2>5 DEF Interrupt, Request, Requests, Wake
  <2>6. CASE Notify(c)
    BY <2>6 DEF Notify, Rouse, Wake
  <2>7. QED BY <2>1, <2>2, <2>3, <2>4, <2>5, <2>6
<1>3. \A d \in Waiters : Waits(d) /\ stage'[d] = "asleep" => st[on[d]] = "PENDING"
  <2> SUFFICES ASSUME NEW d \in Waiters, Waits(d), stage'[d] = "asleep", stage[d] # "asleep"
               PROVE  st[on[d]] = "PENDING"
    BY DEF AwaitAnswered, NoMissedAnswer
  <2>1. d \in Ctxs /\ current # d
    BY DEF DocksAreWaiters, Waiters
  <2>2. CASE WakeInVain(c)
    BY <2>1, <2>2 DEF WakeInVain
  <2>3. CASE Expire(c)
    BY <2>1, <2>3 DEF Expire, Wake
  <2>4. CASE Doze(c)
    BY <2>1, <2>4 DEF Doze, Suspend
  <2>5. CASE WakeElsewhere(c)
    BY <2>1, <2>5 DEF WakeElsewhere, Return
  <2>6. CASE Interrupt(c)
    BY <2>1, <2>6 DEF Interrupt, Request, Wake
  <2>7. CASE Notify(c)
    BY <2>1, <2>7 DEF Notify, Rouse, Wake
  <2>8. QED BY <2>2, <2>3, <2>4, <2>5, <2>6, <2>7
<1>4. TypeOK' /\ DocksAreWaiters'
  BY <1>1, <1>2 DEF DocksAreWaiters, Waits
<1>5. AttachedWhilePending' /\ AwaitAnswered'
  BY <1>1, <1>3 DEF AttachedWhilePending, AwaitAnswered, NoMissedAnswer, RetrievedOnce, Waits
<1>6. QED BY <1>4, <1>5

LEMMA NextIInv == IInv /\ [Next]_vars => IInv'
<1> SUFFICES ASSUME IInv, [Next]_vars PROVE IInv'
  OBVIOUS
<1>1. CASE UNCHANGED vars
  <2>1. UNCHANGED <<current, stage, pend, masked, copies, open, st, answer, cond, on, how, due, moved>>
    BY <1>1 DEF vars, sched, future
  <2>2. QED BY <2>1 DEF IInv, TypeOK, SchedTypeOK, DocksAreWaiters, Waits,
                  AttachedWhilePending, AwaitAnswered, NoMissedAnswer, RetrievedOnce
<1>2. QED BY <1>1, Promising, Calling, Awaiting, Waking, Elsewhere DEF Next

\* The inductive invariant holds in every behaviour, for any contexts, copies and futures.
THEOREM Invariance == Spec => []IInv
BY InitIInv, NextIInv, PTL DEF Spec

\* No context stays asleep on a future that has its answer, a pending future always has
\* a copy of its promise to come from, and the value of a future is moved out once.
THEOREM WaitsEnd == Spec => []AwaitAnswered
BY Invariance, PTL DEF IInv

\* Only WakeExpired leaves a deadline passed behind it, and it finds the future pending.
LEMMA StepDeadline ==
  IInv /\ [Next]_vars =>
    [\A c \in Waiters :
       Waits(c) /\ on'[c] = None /\ due'[c] = "passed" => st[on[c]] = "PENDING"]_vars
<1> SUFFICES ASSUME IInv, Next, NEW c \in Waiters, Waits(c), on'[c] = None, due'[c] = "passed"
             PROVE  st[on[c]] = "PENDING"
  OBVIOUS
<1>1. on \in [Waiters -> Futures \cup {None}] /\ due \in [Waiters -> {"never", "later", "passed"}]
      /\ on[c] # None
  BY DEF IInv, TypeOK, Waits
<1>2. ASSUME NEW e \in Ctxs, NEW late, Leaves(e, late), e \in Waiters PROVE e = c /\ late = "passed"
  BY <1>1, <1>2 DEF Leaves
<1>3. PICK e \in Ctxs :
        \/ SetResult(e) \/ End(e) \/ WakeAnswered(e) \/ WakeInVain(e) \/ WakeExpired(e)
        \/ WakeThrown(e) \/ Expire(e) \/ Doze(e) \/ WakeElsewhere(e) \/ Interrupt(e) \/ Notify(e)
        \/ \E f \in Futures, w \in {"wait", "get"} :
             Immediate(e, f, w) \/ \E deadline \in {"never", "later"} : Await(e, f, w, deadline)
  BY DEF Next
<1>4. CASE on' = on
  BY <1>1, <1>4
<1>5. CASE WakeAnswered(e) \/ WakeThrown(e)
  <2>1. e \in Waiters /\ Leaves(e, "never")
    BY <1>5 DEF WakeAnswered, WakeThrown, Waits
  <2>2. QED BY <1>2, <2>1
<1>6. CASE WakeExpired(e)
  <2>1. e \in Waiters /\ Leaves(e, "passed") /\ st[on[e]] = "PENDING"
    BY <1>6 DEF WakeExpired, Waits
  <2>2. QED BY <1>2, <2>1
<1>7. ASSUME NEW f \in Futures, NEW w \in {"wait", "get"}, NEW deadline \in {"never", "later"},
             Await(e, f, w, deadline)
      PROVE  FALSE
  <2>1. due' = [due EXCEPT ![e] = deadline] /\ on' = [on EXCEPT ![e] = f] /\ f # None
    BY <1>7, FuturesAssumption DEF Await
  <2>2. QED BY <1>1, <2>1
<1>8. QED BY <1>3, <1>4, <1>5, <1>6, <1>7
     DEF SetResult, End, WakeInVain, Expire, Doze, WakeElsewhere, Interrupt, Notify, Immediate, future

\* A wait with a deadline reports a timeout only of a future that is still pending.
THEOREM AnswersFirst == Spec => AnswerBeatsDeadline
BY Invariance, StepDeadline, PTL DEF Spec, AnswerBeatsDeadline

-----------------------------------------------------------------------------
(* The linked lists: what the pointers say *)

\* The operators of the libraries are the same in every instance.
LEMMA SameOperators ==
  /\ \A x : L!ToSet(x) = ToSet(x) /\ L!Abstract!ToSet(x) = ToSet(x)
  /\ \A x : L!Min(x) = Min(x) /\ L!Abstract!Min(x) = Min(x)
  /\ \A x, i, e : L!Abstract!InsertAt(x, i, e) = InsertAt(x, i, e)
  /\ \A x, i : L!Abstract!RemoveAt(x, i) = RemoveAt(x, i)
  /\ \A x : L!Reverse(x) = Reverse(x)
  /\ \A x : L!Last(x) = Last(x) /\ L!Front(x) = Front(x)
  /\ \A l, q, n : L!Linked(l, q, n) = Linked(l, q, n)
BY DEF L!ToSet, ToSet, L!Abstract!ToSet, L!Min, Min, L!Abstract!Min, L!Abstract!InsertAt, InsertAt,
       L!Abstract!RemoveAt, RemoveAt, L!Reverse, Reverse, L!Linked, Linked, L!Last, Last,
       L!Front, Front

LEMMA SameCardinality == \A x : L!Cardinality(x) = Cardinality(x)
BY DEF L!Cardinality, Cardinality, L!IsFiniteSet, IsFiniteSet, L!ExistsBijection, ExistsBijection

LEMMA SameChase == \A x, l, n : L!Chase(x, l, n) = Chase(x, l, n)
BY DEF L!Chase, Chase, L!Last, Last, L!Front, Front, L!Cardinality, Cardinality, L!IsFiniteSet, IsFiniteSet,
       L!ExistsBijection, ExistsBijection

\* The four pointer maps.
Pointers == [head : [Docks -> Ids \cup {Null}], tail : [Docks -> Ids \cup {Null}],
             prev : [Ids -> Ids \cup {Null}], next : [Ids -> Ids \cup {Null}]]

\* What the pointers of a list say, place by place.
LEMMA LinkedMeans ==
  ASSUME NEW l, NEW q \in [Docks -> Seq(Ids)], Linked(l, q, Null), l \in Pointers, NEW d \in Docks
  PROVE  /\ Len(q[d]) \in Nat /\ DOMAIN q[d] = 1..Len(q[d])
         /\ \A i \in 1..Len(q[d]) : q[d][i] \in Ids /\ q[d][i] # Null
         /\ l.head[d] = IF Len(q[d]) = 0 THEN Null ELSE q[d][1]
         /\ l.tail[d] = IF Len(q[d]) = 0 THEN Null ELSE q[d][Len(q[d])]
         /\ \A i \in 1..Len(q[d]) :
              /\ l.next[q[d][i]] = IF i = Len(q[d]) THEN Null ELSE q[d][i + 1]
              /\ l.prev[q[d][i]] = IF i = 1 THEN Null ELSE q[d][i - 1]
         /\ \A i, j \in 1..Len(q[d]) : q[d][i] = q[d][j] => i = j
         /\ \A c \in Ids : (\A e \in Docks : c \notin ToSet(q[e])) =>
              /\ l.prev[c] = Null /\ l.next[c] = Null
              /\ \A i \in 1..Len(q[d]) : q[d][i] # c
<1>1. /\ q[d] \in Seq(Ids) /\ Len(q[d]) \in Nat /\ DOMAIN q[d] = 1..Len(q[d])
      /\ (q[d] = <<>> <=> Len(q[d]) = 0)
  BY LenProperties, EmptySeq
<1>2. \A i \in 1..Len(q[d]) : q[d][i] \in Ids /\ q[d][i] # Null
  BY <1>1, ListAssumption, ElementOfSeq
<1>3. /\ l.head[d] = IF q[d] = <<>> THEN Null ELSE q[d][1]
      /\ l.tail[d] = IF q[d] = <<>> THEN Null ELSE q[d][Len(q[d])]
      /\ \A i \in DOMAIN q[d] :
              /\ l.next[q[d][i]] = IF i = Len(q[d]) THEN Null ELSE q[d][i + 1]
              /\ l.prev[q[d][i]] = IF i = 1 THEN Null ELSE q[d][i - 1]
      /\ \A i, j \in DOMAIN q[d] : q[d][i] = q[d][j] => i = j
  BY DEF Linked
<1>4. DOMAIN l.next = Ids
  BY DEF Pointers
<1>5. \A c \in Ids : (\A e \in Docks : c \notin ToSet(q[e])) =>
              /\ l.prev[c] = Null /\ l.next[c] = Null
  BY <1>4 DEF Linked
<1>6. \A c \in Ids : (\A e \in Docks : c \notin ToSet(q[e])) => \A i \in 1..Len(q[d]) : q[d][i] # c
  BY <1>1 DEF ToSet
<1>7. QED BY <1>1, <1>2, <1>3, <1>5, <1>6

\* Who stands next to place i of a list, and how the pointers say so.
LEMMA Neighbours ==
  ASSUME NEW l, NEW q \in [Docks -> Seq(Ids)], Linked(l, q, Null), l \in Pointers, NEW d \in Docks,
         NEW i \in 1..(Len(q[d]) + 1)
  PROVE  LET a == Item(q[d], i - 1, Null)
             b == Item(q[d], i, Null)
         IN  /\ a \in Ids \cup {Null} /\ b \in Ids \cup {Null} /\ (a = b => a = Null)
             /\ (a # Null => l.next[a] = b) /\ (b # Null => l.prev[b] = a)
             /\ (a = Null <=> b = l.head[d]) /\ (b = Null <=> a = l.tail[d])
             /\ \A c \in Ids : (\A e \in Docks : c \notin ToSet(q[e])) => a # c /\ b # c
<1> DEFINE s == q[d]
           a == Item(s, i - 1, Null)
           b == Item(s, i, Null)
<1>1. /\ Len(s) \in Nat /\ DOMAIN s = 1..Len(s)
      /\ \A j \in 1..Len(s) : s[j] \in Ids /\ s[j] # Null
      /\ l.head[d] = IF Len(s) = 0 THEN Null ELSE s[1]
      /\ l.tail[d] = IF Len(s) = 0 THEN Null ELSE s[Len(s)]
      /\ \A j \in 1..Len(s) :
           /\ l.next[s[j]] = IF j = Len(s) THEN Null ELSE s[j + 1]
           /\ l.prev[s[j]] = IF j = 1 THEN Null ELSE s[j - 1]
      /\ \A j, m \in 1..Len(s) : s[j] = s[m] => j = m
      /\ \A x \in Ids : (\A e \in Docks : x \notin ToSet(q[e])) =>
           /\ l.prev[x] = Null /\ l.next[x] = Null
           /\ \A j \in 1..Len(s) : s[j] # x
  BY LinkedMeans
<1>b. \A j \in 1..Len(s) : s[j] \in Ids /\ s[j] # Null
  BY ONLY <1>1
<1>d. \A j, m \in 1..Len(s) : s[j] = s[m] => j = m
  BY ONLY <1>1
<1>h. /\ l.head[d] = IF Len(s) = 0 THEN Null ELSE s[1]
      /\ l.tail[d] = IF Len(s) = 0 THEN Null ELSE s[Len(s)]
  BY ONLY <1>1
<1>f. \A x \in Ids : (\A e \in Docks : x \notin ToSet(q[e])) => \A j \in 1..Len(s) : s[j] # x
  BY ONLY <1>1
<1>n. Len(s) \in Nat
  BY ONLY <1>1
<1>i. i \in 1..(Len(s) + 1)
  OBVIOUS
<1> HIDE DEF s
<1>2. i \in Int /\ Len(s) \in Int /\ Len(s) >= 0 /\ 1 <= i /\ i <= Len(s) + 1
  BY ONLY <1>n, <1>i
<1>3. /\ (i - 1 \in 1..Len(s) <=> i # 1) /\ (i \in 1..Len(s) <=> i # Len(s) + 1)
  BY ONLY <1>2
<1>4. /\ (i # 1 => a = s[i - 1]) /\ (i = 1 => a = Null)
      /\ (i # Len(s) + 1 => b = s[i]) /\ (i = Len(s) + 1 => b = Null)
  BY ONLY <1>1, <1>3 DEF Item
<1> HIDE DEF a, b
<1>5. /\ (a = Null <=> i = 1) /\ (b = Null <=> i = Len(s) + 1)
      /\ a \in Ids \cup {Null} /\ b \in Ids \cup {Null}
  <2>1. i # 1 => a \in Ids /\ a # Null
    BY ONLY <1>b, <1>3, <1>4
  <2>2. i # Len(s) + 1 => b \in Ids /\ b # Null
    BY ONLY <1>b, <1>3, <1>4
  <2>3. QED BY ONLY <1>4, <2>1, <2>2
<1>6. a # Null => l.next[a] = b
  <2>1. SUFFICES ASSUME a # Null PROVE l.next[a] = b
    OBVIOUS
  <2>2. i # 1 /\ i - 1 \in 1..Len(s) /\ a = s[i - 1] /\ i - 1 + 1 = i
    BY ONLY <1>2, <1>3, <1>4, <1>5, <2>1
  <2>3. l.next[s[i - 1]] = IF i - 1 = Len(s) THEN Null ELSE s[i - 1 + 1]
    BY ONLY <1>1, <2>2
  <2>4. i - 1 = Len(s) <=> i = Len(s) + 1
    BY ONLY <1>2
  <2>5. QED BY ONLY <1>4, <2>2, <2>3, <2>4
<1>7. b # Null => l.prev[b] = a
  <2>1. SUFFICES ASSUME b # Null PROVE l.prev[b] = a
    OBVIOUS
  <2>2. i \in 1..Len(s) /\ b = s[i]
    BY ONLY <1>3, <1>4, <1>5, <2>1
  <2>3. l.prev[s[i]] = IF i = 1 THEN Null ELSE s[i - 1]
    BY ONLY <1>1, <2>2
  <2>4. QED BY ONLY <1>4, <2>2, <2>3
<1>8. a = b => a = Null
  <2>1. SUFFICES ASSUME a # Null, b # Null PROVE a # b
    OBVIOUS
  <2>2. i \in 1..Len(s) /\ i - 1 \in 1..Len(s) /\ i # i - 1
    BY ONLY <1>2, <1>3, <1>5, <2>1
  <2>3. QED BY ONLY <1>d, <1>3, <1>4, <2>2
<1>9. a = Null <=> b = l.head[d]
  <2>1. CASE i = 1
    <3>1. (1 # Len(s) + 1 <=> Len(s) # 0)
      BY ONLY <1>2
    <3>2. QED BY ONLY <1>1, <1>4, <2>1, <3>1
  <2>2. CASE i # 1
    <3>1. Len(s) # 0 /\ 1 \in 1..Len(s)
      BY ONLY <1>2, <2>2
    <3>2. QED BY ONLY <1>b, <1>d, <1>h, <1>3, <1>4, <1>5, <2>2, <3>1
  <2>3. QED BY <2>1, <2>2
<1>10. b = Null <=> a = l.tail[d]
  <2>1. CASE i = Len(s) + 1
    <3>1. (i # 1 <=> Len(s) # 0) /\ i - 1 = Len(s)
      BY ONLY <1>2, <2>1
    <3>2. QED BY ONLY <1>1, <1>4, <2>1, <3>1
  <2>2. CASE i # Len(s) + 1
    <3>1. Len(s) # 0 /\ Len(s) \in 1..Len(s) /\ i - 1 # Len(s)
      BY ONLY <1>2, <2>2
    <3>2. QED BY ONLY <1>b, <1>d, <1>h, <1>3, <1>4, <1>5, <2>2, <3>1
  <2>3. QED BY <2>1, <2>2
<1>11. \A c \in Ids : (\A e \in Docks : c \notin ToSet(q[e])) => a # c /\ b # c
  <2>1. SUFFICES ASSUME NEW c \in Ids, \A e \in Docks : c \notin ToSet(q[e])
                 PROVE  a # c /\ b # c
    OBVIOUS
  <2>2. \A j \in 1..Len(s) : s[j] # c
    BY ONLY <1>f, <2>1
  <2>3. c # Null
    BY ListAssumption
  <2>4. QED BY ONLY <1>3, <1>4, <2>2, <2>3
<1>12. QED BY <1>5, <1>6, <1>7, <1>8, <1>9, <1>10, <1>11 DEF a, b, s

\* list::push_front() chains a context in before the first.
LEMMA FrontPushedChains ==
  ASSUME NEW l \in Pointers, NEW d \in Docks, NEW c \in Ids,
         l.next[c] = Null, l.prev[c] = Null,
         l.head[d] # c, l.head[d] = Null <=> l.tail[d] = Null
  PROVE  LET k == L!FrontPushed(l, d, c)
         IN  k \in Pointers /\ ChainedIn(l, k, d, Null, c, l.head[d], Null)
<1> DEFINE k == L!FrontPushed(l, d, c)
<1>1. Null \notin Ids
  BY ListAssumption
<1>0. DOMAIN l.head = Docks /\ DOMAIN l.next = Ids
  BY DEF Pointers
<1>2. CASE l.head[d] = Null
  <2>1. k = [l EXCEPT !.head[d] = c, !.tail[d] = c]
    BY <1>1, <1>2 DEF L!FrontPushed
  <2> HIDE DEF k
  <2>2. /\ k \in Pointers
        /\ k.head = [l.head EXCEPT ![d] = c] /\ k.tail = [l.tail EXCEPT ![d] = c]
        /\ k.next = l.next /\ k.prev = l.prev
    BY <1>1, <1>2, <2>1 DEF Pointers
  <2>3. ChainedIn(l, k, d, Null, c, l.head[d], Null)
    BY <1>0, <1>1, <1>2, <2>2 DEF ChainedIn, Pointers
  <2>4. QED BY <2>2, <2>3 DEF k
<1>3. CASE l.head[d] # Null
  <2>1. k = [l EXCEPT !.prev[l.head[d]] = c, !.next[c] = l.head[d], !.head[d] = c]
    BY <1>1, <1>3 DEF L!FrontPushed
  <2> HIDE DEF k
  <2>2. /\ k \in Pointers
        /\ k.head = [l.head EXCEPT ![d] = c] /\ k.tail = l.tail
        /\ k.next = [l.next EXCEPT ![c] = l.head[d]] /\ k.prev = [l.prev EXCEPT ![l.head[d]] = c]
    BY <1>1, <1>3, <2>1 DEF Pointers
  <2>3. ChainedIn(l, k, d, Null, c, l.head[d], Null)
    BY <1>0, <1>1, <1>3, <2>2 DEF ChainedIn, Pointers
  <2>4. QED BY <2>2, <2>3 DEF k
<1>4. QED BY <1>2, <1>3

\* list::push_back() chains one in after the last.
LEMMA BackPushedChains ==
  ASSUME NEW l \in Pointers, NEW d \in Docks, NEW c \in Ids,
         l.next[c] = Null, l.prev[c] = Null,
         l.tail[d] # c, l.head[d] = Null <=> l.tail[d] = Null
  PROVE  LET k == L!BackPushed(l, d, c)
         IN  k \in Pointers /\ ChainedIn(l, k, d, l.tail[d], c, Null, Null)
<1> DEFINE k == L!BackPushed(l, d, c)
<1>1. Null \notin Ids
  BY ListAssumption
<1>0. DOMAIN l.head = Docks /\ DOMAIN l.next = Ids
  BY DEF Pointers
<1>2. CASE l.tail[d] = Null
  <2>1. k = [l EXCEPT !.head[d] = c, !.tail[d] = c]
    BY <1>1, <1>2 DEF L!BackPushed
  <2> HIDE DEF k
  <2>2. /\ k \in Pointers
        /\ k.head = [l.head EXCEPT ![d] = c] /\ k.tail = [l.tail EXCEPT ![d] = c]
        /\ k.next = l.next /\ k.prev = l.prev
    BY <1>1, <1>2, <2>1 DEF Pointers
  <2>3. ChainedIn(l, k, d, l.tail[d], c, Null, Null)
    BY <1>0, <1>1, <1>2, <2>2 DEF ChainedIn, Pointers
  <2>4. QED BY <2>2, <2>3 DEF k
<1>3. CASE l.tail[d] # Null
  <2>1. k = [l EXCEPT !.next[l.tail[d]] = c, !.prev[c] = l.tail[d], !.tail[d] = c]
    BY <1>1, <1>3 DEF L!BackPushed
  <2> HIDE DEF k
  <2>2. /\ k \in Pointers
        /\ k.head = l.head /\ k.tail = [l.tail EXCEPT ![d] = c]
        /\ k.next = [l.next EXCEPT ![l.tail[d]] = c] /\ k.prev = [l.prev EXCEPT ![c] = l.tail[d]]
    BY <1>1, <1>3, <2>1 DEF Pointers
  <2>3. ChainedIn(l, k, d, l.tail[d], c, Null, Null)
    BY <1>0, <1>1, <1>3, <2>2 DEF ChainedIn, Pointers
  <2>4. QED BY <2>2, <2>3 DEF k
<1>4. QED BY <1>2, <1>3

\* list::push_before() chains one in before o.
LEMMA BeforeChains ==
  ASSUME NEW l \in Pointers, NEW d \in Docks, NEW c \in Ids,
         NEW o \in Ids, o # c, l.prev[o] # c, l.prev[o] # o,
         l.prev[o] = Null <=> o = l.head[d]
  PROVE  LET k == L!Before(l, d, o, c)
         IN  k \in Pointers /\ ChainedIn(l, k, d, l.prev[o], c, o, Null)
<1> DEFINE k == L!Before(l, d, o, c)
<1>1. Null \notin Ids
  BY ListAssumption
<1>0. DOMAIN l.head = Docks /\ DOMAIN l.next = Ids
  BY DEF Pointers
<1>2. CASE l.prev[o] = Null
  <2>1. k = [l EXCEPT !.next[c] = o, !.prev[c] = Null, !.prev[o] = c, !.head[d] = c]
    BY <1>1, <1>2 DEF L!Before
  <2> HIDE DEF k
  <2>2. /\ k \in Pointers
        /\ k.head = [l.head EXCEPT ![d] = c] /\ k.tail = l.tail
        /\ k.next = [l.next EXCEPT ![c] = o] /\ k.prev = [l.prev EXCEPT ![c] = Null, ![o] = c]
    BY <1>1, <1>2, <2>1 DEF Pointers
  <2>3. ChainedIn(l, k, d, l.prev[o], c, o, Null)
    BY <1>0, <1>1, <1>2, <2>2 DEF ChainedIn, Pointers
  <2>4. QED BY <2>2, <2>3 DEF k
<1>3. CASE l.prev[o] # Null
  <2>1. k = [l EXCEPT !.next[c] = o, !.prev[c] = l.prev[o], !.prev[o] = c, !.next[l.prev[o]] = c]
    BY <1>1, <1>3 DEF L!Before
  <2> HIDE DEF k
  <2>2. /\ k \in Pointers
        /\ k.head = l.head /\ k.tail = l.tail
        /\ k.next = [l.next EXCEPT ![c] = o, ![l.prev[o]] = c] /\ k.prev = [l.prev EXCEPT ![c] = l.prev[o], ![o] = c]
    BY <1>1, <1>3, <2>1 DEF Pointers
  <2>3. ChainedIn(l, k, d, l.prev[o], c, o, Null)
    BY <1>0, <1>1, <1>3, <2>2 DEF ChainedIn, Pointers
  <2>4. QED BY <2>2, <2>3 DEF k
<1>4. QED BY <1>2, <1>3

\* list::push_after() chains one in after o.
LEMMA AfterChains ==
  ASSUME NEW l \in Pointers, NEW d \in Docks, NEW c \in Ids,
         NEW o \in Ids, o # c, l.next[o] # c, l.next[o] # o,
         l.next[o] = Null <=> o = l.tail[d]
  PROVE  LET k == L!After(l, d, o, c)
         IN  k \in Pointers /\ ChainedIn(l, k, d, o, c, l.next[o], Null)
<1> DEFINE k == L!After(l, d, o, c)
<1>1. Null \notin Ids
  BY ListAssumption
<1>0. DOMAIN l.head = Docks /\ DOMAIN l.next = Ids
  BY DEF Pointers
<1>2. CASE l.next[o] = Null
  <2>1. k = [l EXCEPT !.prev[c] = o, !.next[c] = Null, !.next[o] = c, !.tail[d] = c]
    BY <1>1, <1>2 DEF L!After
  <2> HIDE DEF k
  <2>2. /\ k \in Pointers
        /\ k.head = l.head /\ k.tail = [l.tail EXCEPT ![d] = c]
        /\ k.next = [l.next EXCEPT ![c] = Null, ![o] = c] /\ k.prev = [l.prev EXCEPT ![c] = o]
    BY <1>1, <1>2, <2>1 DEF Pointers
  <2>3. ChainedIn(l, k, d, o, c, l.next[o], Null)
    BY <1>0, <1>1, <1>2, <2>2 DEF ChainedIn, Pointers
  <2>4. QED BY <2>2, <2>3 DEF k
<1>3. CASE l.next[o] # Null
  <2>1. k = [l EXCEPT !.prev[c] = o, !.next[c] = l.next[o], !.next[o] = c, !.prev[l.next[o]] = c]
    BY <1>1, <1>3 DEF L!After
  <2> HIDE DEF k
  <2>2. /\ k \in Pointers
        /\ k.head = l.head /\ k.tail = l.tail
        /\ k.next = [l.next EXCEPT ![c] = l.next[o], ![o] = c] /\ k.prev = [l.prev EXCEPT ![c] = o, ![l.next[o]] = c]
    BY <1>1, <1>3, <2>1 DEF Pointers
  <2>3. ChainedIn(l, k, d, o, c, l.next[o], Null)
    BY <1>0, <1>1, <1>3, <2>2 DEF ChainedIn, Pointers
  <2>4. QED BY <2>2, <2>3 DEF k
<1>4. QED BY <1>2, <1>3

\* list::pop_front() takes the first out.
LEMMA FrontPoppedChains ==
  ASSUME NEW l \in Pointers, NEW d \in Docks, NEW c \in Ids,
         c = l.head[d], l.next[c] # c, l.next[c] = Null <=> c = l.tail[d]
  PROVE  LET k == L!FrontPopped(l, d)
         IN  k \in Pointers /\ ChainedOut(l, k, d, Null, c, l.next[c], Null)
<1> DEFINE k == L!FrontPopped(l, d)
<1>1. Null \notin Ids
  BY ListAssumption
<1>0. DOMAIN l.head = Docks /\ DOMAIN l.next = Ids
  BY DEF Pointers
<1>2. CASE l.next[c] = Null
  <2>1. k = [l EXCEPT !.head[d] = Null, !.tail[d] = Null, !.prev[c] = Null, !.next[c] = Null]
    BY <1>1, <1>2 DEF L!FrontPopped
  <2> HIDE DEF k
  <2>2. /\ k \in Pointers
        /\ k.head = [l.head EXCEPT ![d] = Null] /\ k.tail = [l.tail EXCEPT ![d] = Null]
        /\ k.next = [l.next EXCEPT ![c] = Null] /\ k.prev = [l.prev EXCEPT ![c] = Null]
    BY <1>1, <1>2, <2>1 DEF Pointers
  <2>3. ChainedOut(l, k, d, Null, c, l.next[c], Null)
    BY <1>0, <1>1, <1>2, <2>2 DEF ChainedOut, Pointers
  <2>4. QED BY <2>2, <2>3 DEF k
<1>3. CASE l.next[c] # Null
  <2>1. k = [l EXCEPT !.prev[l.next[c]] = Null, !.head[d] = l.next[c], !.prev[c] = Null, !.next[c] = Null]
    BY <1>1, <1>3 DEF L!FrontPopped
  <2> HIDE DEF k
  <2>2. /\ k \in Pointers
        /\ k.head = [l.head EXCEPT ![d] = l.next[c]] /\ k.tail = l.tail
        /\ k.next = [l.next EXCEPT ![c] = Null] /\ k.prev = [l.prev EXCEPT ![l.next[c]] = Null, ![c] = Null]
    BY <1>1, <1>3, <2>1 DEF Pointers
  <2>3. ChainedOut(l, k, d, Null, c, l.next[c], Null)
    BY <1>0, <1>1, <1>3, <2>2 DEF ChainedOut, Pointers
  <2>4. QED BY <2>2, <2>3 DEF k
<1>4. QED BY <1>2, <1>3

\* list::pop_back() takes the last out.
LEMMA BackPoppedChains ==
  ASSUME NEW l \in Pointers, NEW d \in Docks, NEW c \in Ids,
         c = l.tail[d], l.prev[c] # c, l.prev[c] = Null <=> c = l.head[d]
  PROVE  LET k == L!BackPopped(l, d)
         IN  k \in Pointers /\ ChainedOut(l, k, d, l.prev[c], c, Null, Null)
<1> DEFINE k == L!BackPopped(l, d)
<1>1. Null \notin Ids
  BY ListAssumption
<1>0. DOMAIN l.head = Docks /\ DOMAIN l.next = Ids
  BY DEF Pointers
<1>2. CASE l.prev[c] = Null
  <2>1. k = [l EXCEPT !.head[d] = Null, !.tail[d] = Null, !.prev[c] = Null, !.next[c] = Null]
    BY <1>1, <1>2 DEF L!BackPopped
  <2> HIDE DEF k
  <2>2. /\ k \in Pointers
        /\ k.head = [l.head EXCEPT ![d] = Null] /\ k.tail = [l.tail EXCEPT ![d] = Null]
        /\ k.next = [l.next EXCEPT ![c] = Null] /\ k.prev = [l.prev EXCEPT ![c] = Null]
    BY <1>1, <1>2, <2>1 DEF Pointers
  <2>3. ChainedOut(l, k, d, l.prev[c], c, Null, Null)
    BY <1>0, <1>1, <1>2, <2>2 DEF ChainedOut, Pointers
  <2>4. QED BY <2>2, <2>3 DEF k
<1>3. CASE l.prev[c] # Null
  <2>1. k = [l EXCEPT !.next[l.prev[c]] = Null, !.tail[d] = l.prev[c], !.prev[c] = Null, !.next[c] = Null]
    BY <1>1, <1>3 DEF L!BackPopped
  <2> HIDE DEF k
  <2>2. /\ k \in Pointers
        /\ k.head = l.head /\ k.tail = [l.tail EXCEPT ![d] = l.prev[c]]
        /\ k.next = [l.next EXCEPT ![l.prev[c]] = Null, ![c] = Null] /\ k.prev = [l.prev EXCEPT ![c] = Null]
    BY <1>1, <1>3, <2>1 DEF Pointers
  <2>3. ChainedOut(l, k, d, l.prev[c], c, Null, Null)
    BY <1>0, <1>1, <1>3, <2>2 DEF ChainedOut, Pointers
  <2>4. QED BY <2>2, <2>3 DEF k
<1>4. QED BY <1>2, <1>3

\* list::remove() takes out a context wherever it stands.
LEMMA RemovedChains ==
  ASSUME NEW l \in Pointers, NEW d \in Docks, NEW c \in Ids,
         l.prev[c] # c, l.next[c] # c, l.prev[c] = l.next[c] => l.prev[c] = Null,
         l.prev[c] = Null <=> c = l.head[d], l.next[c] = Null <=> c = l.tail[d]
  PROVE  LET k == L!Removed(l, d, c)
         IN  k \in Pointers /\ ChainedOut(l, k, d, l.prev[c], c, l.next[c], Null)
<1> DEFINE k == L!Removed(l, d, c)
<1>1. Null \notin Ids
  BY ListAssumption
<1>2. CASE c = l.head[d]
  <2>1. k = L!FrontPopped(l, d) /\ l.prev[c] = Null
    BY <1>2 DEF L!Removed
  <2>2. QED BY <1>2, <2>1, FrontPoppedChains
<1>3. CASE c # l.head[d] /\ c = l.tail[d]
  <2>1. k = L!BackPopped(l, d) /\ l.next[c] = Null
    <3>1. k = L!BackPopped(l, d)
      BY <1>3 DEF L!Removed
    <3> HIDE DEF k
    <3>2. QED BY <1>3, <3>1
  <2>2. QED BY <1>3, <2>1, BackPoppedChains
<1>4. CASE c # l.head[d] /\ c # l.tail[d]
  <2>1. k = [l EXCEPT !.prev[l.next[c]] = l.prev[c], !.next[l.prev[c]] = l.next[c],
                      !.next[c] = Null, !.prev[c] = Null]
    BY <1>4 DEF L!Removed
  <2>2. l.next[c] \in Ids /\ l.prev[c] \in Ids /\ l.next[c] # l.prev[c]
    BY <1>4 DEF Pointers
  <2> HIDE DEF k
  <2>3. /\ k \in Pointers
        /\ k.head = l.head /\ k.tail = l.tail
        /\ k.next = [l.next EXCEPT ![l.prev[c]] = l.next[c], ![c] = Null]
        /\ k.prev = [l.prev EXCEPT ![l.next[c]] = l.prev[c], ![c] = Null]
    BY <1>1, <2>1, <2>2 DEF Pointers
  <2>4. ChainedOut(l, k, d, l.prev[c], c, l.next[c], Null)
    BY <1>1, <1>4, <2>2, <2>3 DEF ChainedOut, Pointers
  <2>5. QED BY <2>3, <2>4 DEF k
<1>5. QED BY <1>2, <1>3, <1>4

-----------------------------------------------------------------------------
(* What for_each() and rfor_each() meet *)

LEMMA Mirror ==
  \A n \in Nat : \A i \in 1..n :
    /\ n - i + 1 \in 1..n /\ (n - i + 1 = 1 <=> i = n)
    /\ i # n => i + 1 \in 1..n /\ n - (i + 1) + 1 = (n - i + 1) - 1
    /\ \A j \in 1..n : n - i + 1 = n - j + 1 => i = j
OBVIOUS

LEMMA ReverseElements ==
  ASSUME NEW S, NEW s \in Seq(S)
  PROVE  /\ Reverse(s) \in Seq(S) /\ Len(Reverse(s)) = Len(s)
         /\ \A i \in 1..Len(s) : Reverse(s)[i] = s[Len(s) - i + 1]
<1> DEFINE r == Reverse(s)
<1>1. r = [i \in 1..Len(s) |-> s[Len(s) - i + 1]]
  BY DEF Reverse
<1>2. Len(s) \in Nat /\ \A i \in 1..Len(s) : s[i] \in S
  BY LenProperties, ElementOfSeq
<1>3. \A i \in 1..Len(s) : Len(s) - i + 1 \in 1..Len(s)
  BY ONLY <1>2, Mirror
<1> HIDE DEF r
<1>4. r \in [1..Len(s) -> S]
  BY ONLY <1>1, <1>2, <1>3
<1>5. r \in Seq(S) /\ Len(r) = Len(s)
  BY ONLY <1>2, <1>4, SeqDef, LenProperties
<1>6. QED BY <1>1, <1>5 DEF r

LEMMA Met ==
  ASSUME NEW l \in Pointers, NEW q \in [Docks -> Seq(Ids)], Linked(l, q, Null), NEW d \in Docks
  PROVE  /\ Chase(l.head[d], l.next, Null) = q[d]
         /\ Chase(l.tail[d], l.prev, Null) = Reverse(q[d])
<1> DEFINE s == q[d]
           n == Len(s)
           r == Reverse(s)
<1>1. /\ Len(s) \in Nat /\ DOMAIN s = 1..Len(s)
      /\ \A j \in 1..Len(s) : s[j] \in Ids /\ s[j] # Null
      /\ l.head[d] = IF Len(s) = 0 THEN Null ELSE s[1]
      /\ l.tail[d] = IF Len(s) = 0 THEN Null ELSE s[Len(s)]
      /\ \A j \in 1..Len(s) :
           /\ l.next[s[j]] = IF j = Len(s) THEN Null ELSE s[j + 1]
           /\ l.prev[s[j]] = IF j = 1 THEN Null ELSE s[j - 1]
      /\ \A j, m \in 1..Len(s) : s[j] = s[m] => j = m
      /\ \A x \in Ids : (\A e \in Docks : x \notin ToSet(q[e])) =>
           /\ l.prev[x] = Null /\ l.next[x] = Null
           /\ \A j \in 1..Len(s) : s[j] # x
  BY LinkedMeans
<1>2. /\ s \in Seq(Ids) /\ (s = <<>> <=> Len(s) = 0)
      /\ l.next \in [Ids -> Ids \cup {Null}] /\ l.prev \in [Ids -> Ids \cup {Null}]
      /\ IsFiniteSet(Ids) /\ Null \notin Ids
  BY EmptySeq, ListAssumption DEF Pointers
<1>3. Chase(l.head[d], l.next, Null) = s
  <2> DEFINE x == l.head[d]
             f == l.next
  <2>1. /\ x = IF s = <<>> THEN Null ELSE s[1]
        /\ \A i \in DOMAIN s : f[s[i]] = IF i = Len(s) THEN Null ELSE s[i + 1]
        /\ \A i, j \in DOMAIN s : s[i] = s[j] => i = j
    BY <1>1, <1>2
  <2> HIDE DEF x, f, s
  <2>2. f \in [Ids -> Ids \cup {Null}]
    BY <1>2 DEF f
  <2>3. Chase(x, f, Null) = s
    BY ONLY <1>2, <2>1, <2>2, ChaseIs
  <2>4. QED BY <2>3 DEF x, f
<1>n. n \in Nat
  BY <1>1
<1>4. /\ r \in Seq(Ids) /\ Len(r) = n /\ DOMAIN r = 1..n /\ (r = <<>> <=> n = 0)
      /\ \A i \in 1..n : r[i] = s[n - i + 1]
  <2>1. r \in Seq(Ids) /\ Len(r) = n /\ \A i \in 1..n : r[i] = s[n - i + 1]
    BY <1>2, ReverseElements
  <2> HIDE DEF r
  <2>2. DOMAIN r = 1..Len(r) /\ (r = <<>> <=> Len(r) = 0)
    BY <2>1, LenProperties, EmptySeq
  <2>3. QED BY <2>1, <2>2
<1>5. Chase(l.tail[d], l.prev, Null) = r
  <2> DEFINE x == l.tail[d]
             f == l.prev
  <2>1. x = IF r = <<>> THEN Null ELSE r[1]
    <3>1. \A m \in Nat : m # 0 => 1 \in 1..m /\ m - 1 + 1 = m
      OBVIOUS
    <3>2. n # 0 => 1 \in 1..n /\ n - 1 + 1 = n
      BY ONLY <1>n, <3>1
    <3>3. x = IF n = 0 THEN Null ELSE s[n]
      BY ONLY <1>1
    <3> HIDE DEF r, x, s
    <3>4. n # 0 => r[1] = s[n - 1 + 1]
      BY ONLY <1>4, <3>2
    <3>5. s[n - 1 + 1] = s[n] \/ n = 0
      BY ONLY <3>2
    <3>6. QED BY ONLY <1>4, <3>3, <3>4, <3>5
  <2>2. \A i \in DOMAIN r : f[r[i]] = IF i = Len(r) THEN Null ELSE r[i + 1]
    <3>1. SUFFICES ASSUME NEW i \in 1..n PROVE f[r[i]] = IF i = n THEN Null ELSE r[i + 1]
      BY <1>4
    <3> DEFINE m == n - i + 1
    <3>2. m \in 1..n /\ (m = 1 <=> i = n) /\ (i # n => i + 1 \in 1..n /\ n - (i + 1) + 1 = m - 1)
      BY ONLY <1>n, Mirror
    <3>3. r[i] = s[m] /\ (i # n => r[i + 1] = s[n - (i + 1) + 1])
      BY <1>4, <3>2
    <3>4. f[s[m]] = IF m = 1 THEN Null ELSE s[m - 1]
      BY <1>1, <3>2
    <3> HIDE DEF m, f
    <3>5. QED BY <3>2, <3>3, <3>4
  <2>3. \A i, j \in DOMAIN r : r[i] = r[j] => i = j
    <3>1. SUFFICES ASSUME NEW i \in 1..n, NEW j \in 1..n, r[i] = r[j] PROVE i = j
      BY <1>4
    <3>2. n - i + 1 \in 1..n /\ n - j + 1 \in 1..n /\ (n - i + 1 = n - j + 1 => i = j)
      BY ONLY <1>n, Mirror
    <3>3. s[n - i + 1] = s[n - j + 1]
      BY <1>4, <3>1
    <3>4. s[n - i + 1] = s[n - j + 1] => n - i + 1 = n - j + 1
      BY ONLY <1>1, <3>2
    <3>5. QED BY ONLY <3>2, <3>3, <3>4
  <2>0. r \in Seq(Ids)
    BY <1>4
  <2>f. IsFiniteSet(Ids) /\ Null \notin Ids
    BY ListAssumption
  <2> HIDE DEF x, f, r
  <2>4. f \in [Ids -> Ids \cup {Null}]
    BY <1>2 DEF f
  <2>5. Chase(x, f, Null) = r
    BY ONLY <2>0, <2>1, <2>2, <2>3, <2>4, <2>f, ChaseIs
  <2>6. QED BY <2>5 DEF x, f
<1>6. QED BY <1>3, <1>5

\* The invariant, in the operators of this module.
LEMMA ListFacts ==
  ASSUME L!IInv
  PROVE  /\ L!Links \in Pointers /\ L!Lists \in [Docks -> Seq(Ids)] /\ Linked(L!Links, L!Lists, Null)
         /\ L!Links.head = head /\ L!Links.tail = tail /\ L!Links.prev = prev /\ L!Links.next = next
<1>1. /\ L!Links.head = head /\ L!Links.tail = tail /\ L!Links.prev = prev /\ L!Links.next = next
      /\ L!Links \in Pointers
  BY DEF L!IInv, L!TypeOK, L!Links, Pointers
<1>2. L!Lists \in [Docks -> Seq(Ids)] /\ L!Linked(L!Links, L!Lists, Null)
  BY DEF L!IInv
<1>3. QED BY <1>1, <1>2, SameOperators

\* An operation leaves the lists q when its links are those of q.
LEMMA Taken ==
  ASSUME NEW k \in Pointers, NEW q \in [Docks -> Seq(Ids)], Linked(k, q, Null), L!Take(k)
  PROVE  L!IInv' /\ L!Lists' = q
<1>1. head' = k.head /\ tail' = k.tail /\ prev' = k.prev /\ next' = k.next
  BY DEF L!Take
<1>2. \A d \in Docks : L!Forward(d)' = q[d]
  <2>1. \A d \in Docks : L!Forward(d)' = Chase(k.head[d], k.next, Null)
    BY <1>1, SameChase DEF L!Forward, L!Walk
  <2>2. QED BY <2>1, Met
<1>3. L!Lists' = q
  <2>1. L!Lists' = [d \in Docks |-> L!Forward(d)']
    BY DEF L!Lists
  <2>2. QED BY <1>2, <2>1
<1>4. L!TypeOK'
  <2>1. \A d \in Docks : k.head[d] = Null <=> k.tail[d] = Null
    <3>1. SUFFICES ASSUME NEW d \in Docks PROVE k.head[d] = Null <=> k.tail[d] = Null
      OBVIOUS
    <3> DEFINE s == q[d]
    <3>2. /\ Len(s) \in Nat
          /\ \A j \in 1..Len(s) : s[j] \in Ids /\ s[j] # Null
          /\ k.head[d] = IF Len(s) = 0 THEN Null ELSE s[1]
          /\ k.tail[d] = IF Len(s) = 0 THEN Null ELSE s[Len(s)]
      BY LinkedMeans
    <3> HIDE DEF s
    <3>3. Len(s) # 0 => 1 \in 1..Len(s) /\ Len(s) \in 1..Len(s)
      BY <3>2
    <3>4. QED BY <3>2, <3>3
  <2>2. QED BY <1>1, <2>1 DEF L!TypeOK, Pointers
<1>5. L!Links' = k
  BY <1>1 DEF L!Links, Pointers
<1>6. L!Linked(k, q, Null)
  BY SameOperators
<1>7. L!Linked(L!Links', L!Lists', Null)
  BY <1>3, <1>5, <1>6
<1>8. QED BY <1>3, <1>4, <1>7 DEF L!IInv

-----------------------------------------------------------------------------
(* What each operation leaves *)

\* Chained in at place i, c is inserted there.
LEMMA Inserting ==
  ASSUME NEW l \in Pointers, NEW q \in [Docks -> Seq(Ids)], Linked(l, q, Null), NEW d \in Docks,
         NEW c \in Ids, \A e \in Docks : c \notin ToSet(q[e]), NEW i \in 1..(Len(q[d]) + 1),
         NEW k \in Pointers,
         ChainedIn(l, k, d, Item(q[d], i - 1, Null), c, Item(q[d], i, Null), Null)
  PROVE  Linked(k, [q EXCEPT ![d] = InsertAt(@, i, c)], Null)
<1>1. DOMAIN l.head = Docks /\ DOMAIN l.next = Ids /\ DOMAIN k.next = Ids /\ Null \notin Ids
  BY ListAssumption DEF Pointers
<1>2. QED BY <1>1, InsertLinked

LEMMA Removing ==
  ASSUME NEW l \in Pointers, NEW q \in [Docks -> Seq(Ids)], Linked(l, q, Null), NEW d \in Docks,
         NEW i \in 1..Len(q[d]), NEW k \in Pointers,
         ChainedOut(l, k, d, Item(q[d], i - 1, Null), q[d][i], Item(q[d], i + 1, Null), Null)
  PROVE  Linked(k, [q EXCEPT ![d] = RemoveAt(@, i)], Null)
<1>1. DOMAIN l.head = Docks /\ DOMAIN l.next = Ids /\ DOMAIN k.next = Ids /\ Null \notin Ids
  BY ListAssumption DEF Pointers
<1>2. QED BY <1>1, RemoveLinked

-----------------------------------------------------------------------------
(* The places of a list *)

LEMMA Ends ==
  ASSUME NEW l \in Pointers, NEW q \in [Docks -> Seq(Ids)], Linked(l, q, Null), NEW d \in Docks
  PROVE  /\ Len(q[d]) \in Nat /\ 1 \in 1..(Len(q[d]) + 1) /\ Len(q[d]) + 1 \in 1..(Len(q[d]) + 1)
         /\ Item(q[d], 1 - 1, Null) = Null /\ Item(q[d], Len(q[d]) + 1, Null) = Null
         /\ Item(q[d], 1, Null) = l.head[d] /\ Item(q[d], Len(q[d]) + 1 - 1, Null) = l.tail[d]
         /\ (l.head[d] = Null <=> l.tail[d] = Null) /\ (l.head[d] = Null <=> q[d] = <<>>)
         /\ (q[d] # <<>> => 1 \in 1..Len(q[d]) /\ Len(q[d]) \in 1..Len(q[d]))
<1> DEFINE s == q[d]
<1>1. Len(s) \in Nat /\ DOMAIN s = 1..Len(s) /\ (s = <<>> <=> Len(s) = 0)
  BY LenProperties, EmptySeq
<1>2. \A n \in Nat : /\ 1 \in 1..(n + 1) /\ n + 1 \in 1..(n + 1) /\ 1 - 1 \notin 1..n
                     /\ n + 1 \notin 1..n /\ (n # 0 => 1 \in 1..n /\ n \in 1..n)
  OBVIOUS
<1>3. /\ 1 \in 1..(Len(s) + 1) /\ Len(s) + 1 \in 1..(Len(s) + 1)
      /\ (s # <<>> => 1 \in 1..Len(s) /\ Len(s) \in 1..Len(s))
  BY ONLY <1>1, <1>2
<1>4. Item(s, 1 - 1, Null) = Null /\ Item(s, Len(s) + 1, Null) = Null
  BY ONLY <1>1, <1>2 DEF Item
<1>5. /\ Item(s, 1, Null) \in Ids \cup {Null} /\ Item(s, Len(s) + 1 - 1, Null) \in Ids \cup {Null}
      /\ (Item(s, 1 - 1, Null) = Null <=> Item(s, 1, Null) = l.head[d])
      /\ (Item(s, 1, Null) = Null <=> Item(s, 1 - 1, Null) = l.tail[d])
      /\ (Item(s, Len(s) + 1, Null) = Null <=> Item(s, Len(s) + 1 - 1, Null) = l.tail[d])
  BY <1>3, Neighbours
<1>6. s = <<>> <=> Item(s, 1, Null) = Null
  <2>1. CASE s = <<>>
    BY ONLY <1>1, <1>4, <2>1
  <2>2. CASE s # <<>>
    <3>1. 1 \in 1..Len(s) /\ s[1] # Null
      BY <1>3, <2>2, LinkedMeans
    <3>2. QED BY ONLY <1>1, <2>2, <3>1 DEF Item
  <2>3. QED BY <2>1, <2>2
<1>7. QED BY ONLY <1>1, <1>3, <1>4, <1>5, <1>6

LEMMA Places ==
  ASSUME NEW l \in Pointers, NEW q \in [Docks -> Seq(Ids)], Linked(l, q, Null), NEW d \in Docks,
         NEW i \in 1..Len(q[d])
  PROVE  LET c == q[d][i]
         IN  /\ c \in Ids /\ Item(q[d], i, Null) = c
             /\ Item(q[d], i - 1, Null) = l.prev[c] /\ Item(q[d], i + 1, Null) = l.next[c]
             /\ l.prev[c] # c /\ l.next[c] # c /\ (l.prev[c] = l.next[c] => l.prev[c] = Null)
             /\ (l.prev[c] = Null <=> c = l.head[d]) /\ (l.next[c] = Null <=> c = l.tail[d])
             /\ i \in 1..(Len(q[d]) + 1) /\ i + 1 \in 1..(Len(q[d]) + 1) /\ i + 1 - 1 = i
<1> DEFINE s == q[d]
           c == s[i]
<1>1. /\ Len(s) \in Nat /\ DOMAIN s = 1..Len(s)
      /\ \A j \in 1..Len(s) : s[j] \in Ids /\ s[j] # Null
      /\ \A j, m \in 1..Len(s) : s[j] = s[m] => j = m
  <2>1. Len(s) \in Nat /\ DOMAIN s = 1..Len(s)
    BY LinkedMeans
  <2>2. \A j \in 1..Len(s) : s[j] \in Ids /\ s[j] # Null
    BY LinkedMeans
  <2>3. \A j, m \in 1..Len(s) : s[j] = s[m] => j = m
    BY LinkedMeans
  <2>4. QED BY <2>1, <2>2, <2>3
<1>2. \A n \in Nat : \A m \in 1..n :
        /\ m \in 1..(n + 1) /\ m + 1 \in 1..(n + 1) /\ m + 1 - 1 = m /\ m - 1 # m + 1
        /\ m - 1 # m /\ m + 1 # m
  OBVIOUS
<1>3. /\ i \in 1..(Len(s) + 1) /\ i + 1 \in 1..(Len(s) + 1) /\ i + 1 - 1 = i /\ i - 1 # i + 1
      /\ i - 1 # i /\ i + 1 # i
  BY ONLY <1>1, <1>2
<1>4. c \in Ids /\ c # Null /\ Item(s, i, Null) = c
  BY ONLY <1>1 DEF Item
<1> HIDE DEF c
<1>5. /\ l.prev[c] = Item(s, i - 1, Null)
      /\ (Item(s, i - 1, Null) = Null <=> c = l.head[d])
  <2>0. i \in 1..(Len(s) + 1)
    BY ONLY <1>3
  <2>1. Item(s, i, Null) # Null => l.prev[Item(s, i, Null)] = Item(s, i - 1, Null)
    BY <2>0, Neighbours
  <2>2. Item(s, i - 1, Null) = Null <=> Item(s, i, Null) = l.head[d]
    BY <1>3, Neighbours
  <2>3. QED BY ONLY <1>4, <2>1, <2>2
<1>6. /\ l.next[c] = Item(s, i + 1, Null)
      /\ (Item(s, i + 1, Null) = Null <=> c = l.tail[d])
  <2>1. /\ (Item(s, i + 1 - 1, Null) # Null => l.next[Item(s, i + 1 - 1, Null)] = Item(s, i + 1, Null))
        /\ (Item(s, i + 1, Null) = Null <=> Item(s, i + 1 - 1, Null) = l.tail[d])
    BY <1>3, Neighbours
  <2>2. Item(s, i + 1 - 1, Null) = c
    BY ONLY <1>3, <1>4
  <2>3. QED BY ONLY <1>4, <2>1, <2>2
<1>7. /\ Item(s, i - 1, Null) # c /\ Item(s, i + 1, Null) # c
      /\ (Item(s, i - 1, Null) = Item(s, i + 1, Null) => Item(s, i - 1, Null) = Null)
  BY ONLY <1>1, <1>3, <1>4 DEF Item, c
<1>8. QED BY ONLY <1>3, <1>4, <1>5, <1>6, <1>7 DEF c

\* A context in no list has a clean node.
LEMMA Fresh ==
  ASSUME NEW l \in Pointers, NEW q \in [Docks -> Seq(Ids)], Linked(l, q, Null), NEW d \in Docks,
         NEW c \in Ids, \A e \in Docks : c \notin ToSet(q[e])
  PROVE  /\ l.prev[c] = Null /\ l.next[c] = Null /\ l.head[d] # c /\ l.tail[d] # c
         /\ \A i \in 1..Len(q[d]) : q[d][i] # c /\ l.prev[q[d][i]] # c /\ l.next[q[d][i]] # c
<1>1. l.prev[c] = Null /\ l.next[c] = Null /\ \A i \in 1..Len(q[d]) : q[d][i] # c
  BY LinkedMeans
<1>2. /\ Item(q[d], 1, Null) # c /\ Item(q[d], Len(q[d]) + 1 - 1, Null) # c
  BY Ends, Neighbours
<1>3. l.head[d] # c /\ l.tail[d] # c
  BY <1>2, Ends
<1>4. ASSUME NEW i \in 1..Len(q[d])
      PROVE  l.prev[q[d][i]] # c /\ l.next[q[d][i]] # c
  <2>1. i \in 1..(Len(q[d]) + 1) /\ i + 1 \in 1..(Len(q[d]) + 1)
    BY Places
  <2>2. Item(q[d], i - 1, Null) # c /\ Item(q[d], i + 1, Null) # c
    BY <2>1, Neighbours
  <2>3. QED BY <2>2, Places
<1>5. QED BY <1>1, <1>3, <1>4

-----------------------------------------------------------------------------
(* The operations on the lists *)

LEMMA FrontPushedList ==
  ASSUME NEW l \in Pointers, NEW q \in [Docks -> Seq(Ids)], Linked(l, q, Null), NEW d \in Docks,
         NEW c \in Ids, \A e \in Docks : c \notin ToSet(q[e])
  PROVE  /\ L!FrontPushed(l, d, c) \in Pointers
         /\ Linked(L!FrontPushed(l, d, c), [q EXCEPT ![d] = InsertAt(@, 1, c)], Null)
<1> DEFINE k == L!FrontPushed(l, d, c)
<1>1. k \in Pointers /\ ChainedIn(l, k, d, Null, c, l.head[d], Null)
  BY FrontPushedChains, Ends, Fresh
<1> HIDE DEF k
<1>2. ChainedIn(l, k, d, Item(q[d], 1 - 1, Null), c, Item(q[d], 1, Null), Null)
  BY <1>1, Ends
<1>3. Linked(k, [q EXCEPT ![d] = InsertAt(@, 1, c)], Null)
  BY <1>1, <1>2, Ends, Inserting
<1>4. QED BY <1>1, <1>3 DEF k

LEMMA BackPushedList ==
  ASSUME NEW l \in Pointers, NEW q \in [Docks -> Seq(Ids)], Linked(l, q, Null), NEW d \in Docks,
         NEW c \in Ids, \A e \in Docks : c \notin ToSet(q[e])
  PROVE  /\ L!BackPushed(l, d, c) \in Pointers
         /\ Linked(L!BackPushed(l, d, c), [q EXCEPT ![d] = InsertAt(@, Len(q[d]) + 1, c)], Null)
<1> DEFINE k == L!BackPushed(l, d, c)
           i == Len(q[d]) + 1
<1>1. k \in Pointers /\ ChainedIn(l, k, d, l.tail[d], c, Null, Null)
  BY BackPushedChains, Ends, Fresh
<1> HIDE DEF k
<1>2. ChainedIn(l, k, d, Item(q[d], i - 1, Null), c, Item(q[d], i, Null), Null) /\ i \in 1..(Len(q[d]) + 1)
  BY <1>1, Ends
<1> HIDE DEF i
<1>3. Linked(k, [q EXCEPT ![d] = InsertAt(@, i, c)], Null)
  BY <1>1, <1>2, Inserting
<1>4. QED BY <1>1, <1>3 DEF k, i

LEMMA BeforeList ==
  ASSUME NEW l \in Pointers, NEW q \in [Docks -> Seq(Ids)], Linked(l, q, Null), NEW d \in Docks,
         NEW c \in Ids, \A e \in Docks : c \notin ToSet(q[e]), NEW i \in 1..Len(q[d])
  PROVE  /\ L!Before(l, d, q[d][i], c) \in Pointers
         /\ Linked(L!Before(l, d, q[d][i], c), [q EXCEPT ![d] = InsertAt(@, i, c)], Null)
<1> DEFINE k == L!Before(l, d, q[d][i], c)
           o == q[d][i]
<1>1. /\ o \in Ids /\ o # c /\ l.prev[o] # c /\ l.prev[o] # o /\ (l.prev[o] = Null <=> o = l.head[d])
      /\ Item(q[d], i - 1, Null) = l.prev[o] /\ Item(q[d], i, Null) = o /\ i \in 1..(Len(q[d]) + 1)
  BY Places, Fresh
<1>2. k \in Pointers /\ ChainedIn(l, k, d, l.prev[o], c, o, Null)
  <2> HIDE DEF o
  <2>1. L!Before(l, d, o, c) \in Pointers /\ ChainedIn(l, L!Before(l, d, o, c), d, l.prev[o], c, o, Null)
    BY <1>1, BeforeChains
  <2>2. QED BY <2>1 DEF o
<1> HIDE DEF k, o
<1>3. Linked(k, [q EXCEPT ![d] = InsertAt(@, i, c)], Null)
  BY <1>1, <1>2, Inserting
<1>4. QED BY <1>2, <1>3 DEF k

LEMMA AfterList ==
  ASSUME NEW l \in Pointers, NEW q \in [Docks -> Seq(Ids)], Linked(l, q, Null), NEW d \in Docks,
         NEW c \in Ids, \A e \in Docks : c \notin ToSet(q[e]), NEW i \in 1..Len(q[d])
  PROVE  /\ L!After(l, d, q[d][i], c) \in Pointers
         /\ Linked(L!After(l, d, q[d][i], c), [q EXCEPT ![d] = InsertAt(@, i + 1, c)], Null)
<1> DEFINE k == L!After(l, d, q[d][i], c)
           o == q[d][i]
           j == i + 1
<1>1. /\ o \in Ids /\ o # c /\ l.next[o] # c /\ l.next[o] # o /\ (l.next[o] = Null <=> o = l.tail[d])
      /\ Item(q[d], i, Null) = o /\ Item(q[d], j, Null) = l.next[o] /\ j \in 1..(Len(q[d]) + 1) /\ j - 1 = i
  BY Places, Fresh
<1>2. k \in Pointers /\ ChainedIn(l, k, d, o, c, l.next[o], Null)
  <2> HIDE DEF o
  <2>1. L!After(l, d, o, c) \in Pointers /\ ChainedIn(l, L!After(l, d, o, c), d, o, c, l.next[o], Null)
    BY <1>1, AfterChains
  <2>2. QED BY <2>1 DEF o
<1> HIDE DEF k, o, j
<1>3. Linked(k, [q EXCEPT ![d] = InsertAt(@, j, c)], Null)
  BY <1>1, <1>2, Inserting
<1>4. QED BY <1>2, <1>3 DEF k, j

LEMMA FrontPoppedList ==
  ASSUME NEW l \in Pointers, NEW q \in [Docks -> Seq(Ids)], Linked(l, q, Null), NEW d \in Docks,
         q[d] # <<>>
  PROVE  /\ L!FrontPopped(l, d) \in Pointers
         /\ Linked(L!FrontPopped(l, d), [q EXCEPT ![d] = RemoveAt(@, 1)], Null)
<1> DEFINE k == L!FrontPopped(l, d)
           i == 1
           c == q[d][i]
<1>1. i \in 1..Len(q[d])
  BY Ends
<1> HIDE DEF i
<1>2. /\ c \in Ids /\ l.next[c] # c /\ (l.prev[c] = Null <=> c = l.head[d])
      /\ (l.next[c] = Null <=> c = l.tail[d])
      /\ Item(q[d], i - 1, Null) = l.prev[c] /\ Item(q[d], i + 1, Null) = l.next[c]
  BY <1>1, Places
<1>3. l.prev[c] = Null
  BY <1>2, Ends DEF i
<1> HIDE DEF c
<1>4. k \in Pointers /\ ChainedOut(l, k, d, Null, c, l.next[c], Null)
  BY <1>2, <1>3, FrontPoppedChains
<1> HIDE DEF k
<1>5. ChainedOut(l, k, d, Item(q[d], i - 1, Null), c, Item(q[d], i + 1, Null), Null)
  BY <1>2, <1>3, <1>4
<1>6. Linked(k, [q EXCEPT ![d] = RemoveAt(@, i)], Null)
  BY <1>1, <1>4, <1>5, Removing DEF c
<1>7. QED BY <1>4, <1>6 DEF k, i

LEMMA BackPoppedList ==
  ASSUME NEW l \in Pointers, NEW q \in [Docks -> Seq(Ids)], Linked(l, q, Null), NEW d \in Docks,
         q[d] # <<>>
  PROVE  /\ L!BackPopped(l, d) \in Pointers
         /\ Linked(L!BackPopped(l, d), [q EXCEPT ![d] = RemoveAt(@, Len(q[d]))], Null)
<1> DEFINE k == L!BackPopped(l, d)
           i == Len(q[d])
           c == q[d][i]
<1>1. i \in 1..Len(q[d]) /\ Item(q[d], i + 1, Null) = Null
  BY Ends
<1> HIDE DEF i
<1>2. /\ c \in Ids /\ l.prev[c] # c /\ (l.prev[c] = Null <=> c = l.head[d])
      /\ (l.next[c] = Null <=> c = l.tail[d])
      /\ Item(q[d], i - 1, Null) = l.prev[c] /\ Item(q[d], i + 1, Null) = l.next[c]
  BY <1>1, Places
<1> HIDE DEF c
<1>3. l.next[c] = Null
  BY <1>1, <1>2
<1>4. k \in Pointers /\ ChainedOut(l, k, d, l.prev[c], c, Null, Null)
  BY <1>2, <1>3, BackPoppedChains
<1> HIDE DEF k
<1>5. ChainedOut(l, k, d, Item(q[d], i - 1, Null), c, Item(q[d], i + 1, Null), Null)
  BY <1>2, <1>3, <1>4
<1>6. Linked(k, [q EXCEPT ![d] = RemoveAt(@, i)], Null)
  BY <1>1, <1>4, <1>5, Removing DEF c
<1>7. QED BY <1>4, <1>6 DEF k, i

LEMMA RemovedList ==
  ASSUME NEW l \in Pointers, NEW q \in [Docks -> Seq(Ids)], Linked(l, q, Null), NEW d \in Docks,
         NEW i \in 1..Len(q[d])
  PROVE  /\ L!Removed(l, d, q[d][i]) \in Pointers
         /\ Linked(L!Removed(l, d, q[d][i]), [q EXCEPT ![d] = RemoveAt(@, i)], Null)
<1> DEFINE c == q[d][i]
           k == L!Removed(l, d, c)
<1>1. /\ c \in Ids /\ l.prev[c] # c /\ l.next[c] # c /\ (l.prev[c] = l.next[c] => l.prev[c] = Null)
      /\ (l.prev[c] = Null <=> c = l.head[d]) /\ (l.next[c] = Null <=> c = l.tail[d])
      /\ Item(q[d], i - 1, Null) = l.prev[c] /\ Item(q[d], i + 1, Null) = l.next[c]
  BY Places
<1> HIDE DEF c
<1>2. k \in Pointers /\ ChainedOut(l, k, d, l.prev[c], c, l.next[c], Null)
  BY <1>1, RemovedChains
<1> HIDE DEF k
<1>3. Linked(k, [q EXCEPT ![d] = RemoveAt(@, i)], Null)
  BY <1>1, <1>2, Removing DEF c
<1>4. QED BY <1>2, <1>3 DEF k, c

-----------------------------------------------------------------------------
(* Every operation keeps the invariant and is one of DockQueue *)

LEMMA Members ==
  ASSUME L!IInv
  PROVE  /\ \A d \in Docks : L!Forward(d) = L!Lists[d]
         /\ \A d \in Docks, c \in Ids : L!Member(d, c) <=> c \in ToSet(L!Lists[d])
         /\ \A c \in Ids : L!Free(c) <=> \A e \in Docks : c \notin ToSet(L!Lists[e])
         /\ \A c \in Ids : L!Free(c) <=> L!Abstract!Free(c)
         /\ \A d \in Docks : head[d] # Null <=> L!Lists[d] # <<>>
         /\ \A d \in Docks : L!Lists[d] # <<>> => /\ L!Lists[d][1] = head[d]
                                                  /\ L!Lists[d][Len(L!Lists[d])] = tail[d]
<1>1. \A d \in Docks : L!Forward(d) = L!Lists[d]
  BY DEF L!Lists
<1>2. \A d \in Docks, c \in Ids : L!Member(d, c) <=> c \in ToSet(L!Lists[d])
  BY <1>1, SameOperators DEF L!Member
<1>3. \A c \in Ids : L!Free(c) <=> \A e \in Docks : c \notin ToSet(L!Lists[e])
  BY <1>2 DEF L!Free
<1>4. \A c \in Ids : L!Free(c) <=> L!Abstract!Free(c)
  BY <1>3, SameOperators DEF L!Abstract!Free
<1>5. /\ L!Links \in Pointers /\ L!Lists \in [Docks -> Seq(Ids)] /\ Linked(L!Links, L!Lists, Null)
      /\ L!Links.head = head /\ L!Links.tail = tail
  BY ListFacts
<1>6. \A d \in Docks : head[d] # Null <=> L!Lists[d] # <<>>
  BY <1>5, Ends
<1>7. ASSUME NEW d \in Docks, L!Lists[d] # <<>>
      PROVE  L!Lists[d][1] = head[d] /\ L!Lists[d][Len(L!Lists[d])] = tail[d]
  <2> DEFINE q == L!Lists
             l == L!Links
  <2> HIDE DEF q, l
  <2>0. l \in Pointers /\ q \in [Docks -> Seq(Ids)] /\ Linked(l, q, Null)
    BY <1>5 DEF q, l
  <2>1. 1 \in 1..Len(q[d]) /\ Len(q[d]) \in 1..Len(q[d]) /\ Len(q[d]) \in Nat
    BY <1>7, <2>0, Ends DEF q
  <2>2. /\ l.head[d] = IF Len(q[d]) = 0 THEN Null ELSE q[d][1]
        /\ l.tail[d] = IF Len(q[d]) = 0 THEN Null ELSE q[d][Len(q[d])]
    BY <2>0, LinkedMeans
  <2>3. Len(q[d]) # 0
    BY <2>1
  <2>4. QED BY <1>5, <2>2, <2>3 DEF q, l
<1>8. QED BY <1>1, <1>2, <1>3, <1>4, <1>6, <1>7

LEMMA Putting ==
  ASSUME L!IInv, NEW d \in Docks, NEW c \in Ids, L!Free(c), NEW i \in 1..(Len(L!Lists[d]) + 1), NEW op,
         NEW k \in Pointers, Linked(k, [L!Lists EXCEPT ![d] = InsertAt(@, i, c)], Null),
         L!Take(k), did' = <<op, d, c>>
  PROVE  L!IInv' /\ L!Abstract!Put(op, d, c, i)
<1> DEFINE q == L!Lists
           w == [q EXCEPT ![d] = InsertAt(@, i, c)]
<1>1. q \in [Docks -> Seq(Ids)]
  BY ListFacts
<1>2. w \in [Docks -> Seq(Ids)]
  <2>1. InsertAt(q[d], i, c) \in Seq(Ids)
    BY <1>1, InsertAtElements
  <2>2. QED BY <1>1, <2>1
<1>3. L!IInv' /\ L!Lists' = w
  <2> HIDE DEF w
  <2>1. Linked(k, w, Null)
    BY DEF w
  <2>2. QED BY <1>2, <2>1, Taken
<1>4. L!Abstract!Free(c)
  BY Members
<1>5. L!Lists' = [L!Lists EXCEPT ![d] = L!Abstract!InsertAt(@, i, c)]
  BY <1>3, SameOperators
<1>6. QED BY <1>3, <1>4, <1>5 DEF L!Abstract!Put

LEMMA Dropping ==
  ASSUME L!IInv, NEW d \in Docks, NEW i \in 1..Len(L!Lists[d]), NEW op,
         NEW k \in Pointers, Linked(k, [L!Lists EXCEPT ![d] = RemoveAt(@, i)], Null),
         L!Take(k), did' = <<op, d, L!Lists[d][i]>>
  PROVE  L!IInv' /\ L!Lists[d][i] \in Ids /\ L!Abstract!Drop(op, d, L!Lists[d][i], i)
<1> DEFINE q == L!Lists
           w == [q EXCEPT ![d] = RemoveAt(@, i)]
<1>1. q \in [Docks -> Seq(Ids)]
  BY ListFacts
<1>2. w \in [Docks -> Seq(Ids)]
  <2>1. RemoveAt(q[d], i) \in Seq(Ids)
    BY <1>1, RemoveAtElements
  <2>2. QED BY <1>1, <2>1
<1>3. L!IInv' /\ L!Lists' = w
  <2> HIDE DEF w
  <2>1. Linked(k, w, Null)
    BY DEF w
  <2>2. QED BY <1>2, <2>1, Taken
<1>4. q[d][i] \in Ids /\ q[d][i] \in ToSet(q[d])
  BY <1>1, ElementOfSeq, LenProperties DEF ToSet
<1>5. L!Lists' = [L!Lists EXCEPT ![d] = L!Abstract!RemoveAt(@, i)]
  BY <1>3, SameOperators
<1>6. L!Lists[d][i] \in L!Abstract!ToSet(L!Lists[d])
  BY <1>4, SameOperators
<1> HIDE DEF q
<1>7. QED BY <1>3, <1>4, <1>5, <1>6 DEF L!Abstract!Drop, q

LEMMA Pushing ==
  ASSUME L!IInv, NEW d \in Docks, NEW c \in Ids, L!Push(d, c)
  PROVE  L!IInv' /\ L!Abstract!Next
<1> DEFINE l == L!Links
           q == L!Lists
<1>1. /\ l \in Pointers /\ q \in [Docks -> Seq(Ids)] /\ Linked(l, q, Null)
      /\ \A e \in Docks : c \notin ToSet(q[e])
  BY ListFacts, Members DEF L!Push
<1>2. L!Free(c)
  BY DEF L!Push
<1>e. Len(q[d]) \in Nat /\ 1 \in 1..(Len(q[d]) + 1) /\ Len(q[d]) + 1 \in 1..(Len(q[d]) + 1)
  BY <1>1, Ends
<1>3. CASE did' = <<"push_front", d, c>> /\ L!Take(L!FrontPushed(l, d, c))
  <2> DEFINE k == L!FrontPushed(l, d, c)
  <2>1. k \in Pointers /\ Linked(k, [q EXCEPT ![d] = InsertAt(@, 1, c)], Null)
    BY <1>1, FrontPushedList
  <2> HIDE DEF k
  <2>2. L!IInv' /\ L!Abstract!Put("push_front", d, c, 1)
    BY <1>2, <1>3, <1>e, <2>1, Putting DEF k
  <2>3. QED BY <2>2 DEF L!Abstract!Next
<1>4. CASE did' = <<"push_back", d, c>> /\ L!Take(L!BackPushed(l, d, c))
  <2> DEFINE k == L!BackPushed(l, d, c)
  <2>1. k \in Pointers /\ Linked(k, [q EXCEPT ![d] = InsertAt(@, Len(q[d]) + 1, c)], Null)
    BY <1>1, BackPushedList
  <2> HIDE DEF k
  <2>2. L!IInv' /\ L!Abstract!Put("push_back", d, c, Len(q[d]) + 1)
    BY <1>2, <1>4, <1>e, <2>1, Putting DEF k
  <2>3. QED BY <2>2 DEF L!Abstract!Next
<1>5. CASE did' = <<"push_sort", d, c>> /\ L!Take(L!Sorted(l, d, c))
  <2> DEFINE k == L!Sorted(l, d, c)
             i == L!Abstract!SortedPlace(d, c)
             greater == {j \in DOMAIN q[d] : c < q[d][j]}
  <2>1. i = (IF greater = {} THEN Len(q[d]) + 1 ELSE Min(greater))
    BY SameOperators DEF L!Abstract!SortedPlace
  <2>2. k = IF greater = {} THEN L!BackPushed(l, d, c) ELSE L!Before(l, d, q[d][Min(greater)], c)
    BY Members, SameOperators DEF L!Sorted
  <2>3. greater # {} => Min(greater) \in 1..Len(q[d])
    <3>1. DOMAIN q[d] = 1..Len(q[d]) /\ Len(q[d]) \in Nat
      BY <1>1, LinkedMeans
    <3>2. greater \in SUBSET Nat
      BY <3>1
    <3> HIDE DEF greater
    <3>3. SUFFICES ASSUME greater # {} PROVE Min(greater) \in greater
      BY <3>1 DEF greater
    <3>4. \E x \in greater : \A y \in greater : x <= y
      BY <3>2, <3>3, LeastNat
    <3>5. QED BY <3>4 DEF Min
  <2> HIDE DEF k, i, greater
  <2>4. /\ i \in 1..(Len(q[d]) + 1) /\ k \in Pointers
        /\ Linked(k, [q EXCEPT ![d] = InsertAt(@, i, c)], Null)
    <3>1. CASE greater = {}
      <4>1. k = L!BackPushed(l, d, c) /\ i = Len(q[d]) + 1
        BY <2>1, <2>2, <3>1
      <4> HIDE DEF l, q
      <4>2. QED BY <1>1, <1>e, <4>1, BackPushedList
    <3>2. CASE greater # {}
      <4>1. k = L!Before(l, d, q[d][i], c) /\ i \in 1..Len(q[d])
        BY <2>1, <2>2, <2>3, <3>2
      <4>2. i \in 1..(Len(q[d]) + 1)
        BY <1>1, <4>1, Places
      <4> HIDE DEF l, q
      <4>3. QED BY <1>1, <4>1, <4>2, BeforeList
    <3>3. QED BY <3>1, <3>2
  <2>5. L!IInv' /\ L!Abstract!Put("push_sort", d, c, i)
    BY <1>2, <1>5, <2>4, Putting DEF k
  <2>6. QED BY <2>5 DEF L!Abstract!Next, i
<1>6. QED BY <1>3, <1>4, <1>5 DEF L!Push

\* The place of a context in its list.
LEMMA Indexed ==
  ASSUME L!IInv, NEW d \in Docks, NEW c \in Ids, L!Member(d, c)
  PROVE  L!Abstract!Index(d, c) \in 1..Len(L!Lists[d]) /\ L!Lists[d][L!Abstract!Index(d, c)] = c
<1>1. L!Links \in Pointers /\ L!Lists \in [Docks -> Seq(Ids)] /\ Linked(L!Links, L!Lists, Null)
  BY ListFacts
<1>2. DOMAIN L!Lists[d] = 1..Len(L!Lists[d])
  BY <1>1, LinkedMeans
<1>3. \E i \in DOMAIN L!Lists[d] : L!Lists[d][i] = c
  BY Members DEF ToSet
<1>4. L!Abstract!Index(d, c) = CHOOSE i \in DOMAIN L!Lists[d] : L!Lists[d][i] = c
  BY DEF L!Abstract!Index
<1>5. QED BY <1>2, <1>3, <1>4

LEMMA PushingBeside ==
  ASSUME L!IInv, NEW d \in Docks, NEW o \in Ids, NEW c \in Ids, L!PushBeside(d, o, c)
  PROVE  L!IInv' /\ L!Abstract!Next
<1> DEFINE l == L!Links
           q == L!Lists
           i == L!Abstract!Index(d, o)
<1>1. /\ l \in Pointers /\ q \in [Docks -> Seq(Ids)] /\ Linked(l, q, Null)
      /\ \A e \in Docks : c \notin ToSet(q[e])
  BY ListFacts, Members DEF L!PushBeside
<1>2. L!Free(c) /\ i \in 1..Len(q[d]) /\ q[d][i] = o
  BY Indexed DEF L!PushBeside
<1>3. i \in 1..(Len(q[d]) + 1) /\ i + 1 \in 1..(Len(q[d]) + 1) /\ i \in Int /\ i + 0 = i
  <2>1. i \in 1..(Len(q[d]) + 1) /\ i + 1 \in 1..(Len(q[d]) + 1)
    BY <1>1, <1>2, Places
  <2> HIDE DEF i
  <2>2. QED BY <2>1
<1>4. o \in L!Abstract!ToSet(q[d])
  BY Members, SameOperators DEF L!PushBeside
<1>5. CASE did' = <<"push_before", d, c>> /\ L!Take(L!Before(l, d, o, c))
  <2> DEFINE k == L!Before(l, d, o, c)
  <2>1. k \in Pointers /\ Linked(k, [q EXCEPT ![d] = InsertAt(@, i, c)], Null)
    BY <1>1, <1>2, BeforeList
  <2> HIDE DEF k, i
  <2>2. L!IInv' /\ L!Abstract!Put("push_before", d, c, i)
    BY <1>2, <1>3, <1>5, <2>1, Putting DEF k
  <2>3. L!Abstract!PutBeside("push_before", d, o, c, 0)
    BY <1>3, <1>4, <1>5, <2>2 DEF L!Abstract!PutBeside, i
  <2>4. QED BY <2>2, <2>3 DEF L!Abstract!Next
<1>6. CASE did' = <<"push_after", d, c>> /\ L!Take(L!After(l, d, o, c))
  <2> DEFINE k == L!After(l, d, o, c)
             j == i + 1
  <2>1. k \in Pointers /\ Linked(k, [q EXCEPT ![d] = InsertAt(@, j, c)], Null)
    BY <1>1, <1>2, AfterList
  <2>2. j \in 1..(Len(q[d]) + 1)
    BY <1>3
  <2> HIDE DEF k, j
  <2>3. L!IInv' /\ L!Abstract!Put("push_after", d, c, j)
    BY <1>2, <2>2, <1>6, <2>1, Putting DEF k
  <2>4. L!Abstract!PutBeside("push_after", d, o, c, 1)
    BY <1>4, <1>6, <2>3 DEF L!Abstract!PutBeside, i, j
  <2>5. QED BY <2>3, <2>4 DEF L!Abstract!Next
<1>7. QED BY <1>5, <1>6 DEF L!PushBeside

LEMMA Popping ==
  ASSUME L!IInv, NEW d \in Docks, L!Pop(d)
  PROVE  L!IInv' /\ L!Abstract!Next
<1> DEFINE l == L!Links
           q == L!Lists
           n == Len(q[d])
<1>1. /\ l \in Pointers /\ q \in [Docks -> Seq(Ids)] /\ Linked(l, q, Null)
      /\ q[d] # <<>> /\ q[d][1] = head[d] /\ q[d][n] = tail[d]
  BY ListFacts, Members DEF L!Pop
<1>2. 1 \in 1..n /\ n \in 1..n
  BY <1>1, Ends
<1>3. CASE did' = <<"pop_front", d, head[d]>> /\ L!Take(L!FrontPopped(l, d))
  <2> DEFINE k == L!FrontPopped(l, d)
  <2>1. k \in Pointers /\ Linked(k, [q EXCEPT ![d] = RemoveAt(@, 1)], Null)
    BY <1>1, FrontPoppedList
  <2> HIDE DEF k
  <2>2. L!IInv' /\ q[d][1] \in Ids /\ L!Abstract!Drop("pop_front", d, q[d][1], 1)
    BY <1>1, <1>2, <1>3, <2>1, Dropping DEF k
  <2>3. QED BY <2>2 DEF L!Abstract!Next
<1>4. CASE did' = <<"pop_back", d, tail[d]>> /\ L!Take(L!BackPopped(l, d))
  <2> DEFINE k == L!BackPopped(l, d)
  <2>1. k \in Pointers /\ Linked(k, [q EXCEPT ![d] = RemoveAt(@, n)], Null)
    BY <1>1, BackPoppedList
  <2> HIDE DEF k
  <2>2. L!IInv' /\ q[d][n] \in Ids /\ L!Abstract!Drop("pop_back", d, q[d][n], n)
    BY <1>1, <1>2, <1>4, <2>1, Dropping DEF k
  <2>3. QED BY <2>2 DEF L!Abstract!Next
<1>5. QED BY <1>3, <1>4 DEF L!Pop

LEMMA Removing1 ==
  ASSUME L!IInv, NEW d \in Docks, NEW c \in Ids, L!Remove1(d, c)
  PROVE  L!IInv' /\ L!Abstract!Next
<1> DEFINE l == L!Links
           q == L!Lists
           i == L!Abstract!Index(d, c)
           k == L!Removed(l, d, c)
<1>1. l \in Pointers /\ q \in [Docks -> Seq(Ids)] /\ Linked(l, q, Null)
  BY ListFacts
<1>2. i \in 1..Len(q[d]) /\ q[d][i] = c /\ did' = <<"remove", d, c>> /\ L!Take(k)
  BY Indexed DEF L!Remove1
<1>3. k \in Pointers /\ Linked(k, [q EXCEPT ![d] = RemoveAt(@, i)], Null)
  BY <1>1, <1>2, RemovedList
<1> HIDE DEF k, i
<1>4. L!IInv' /\ L!Abstract!Drop("remove", d, q[d][i], i)
  BY <1>2, <1>3, Dropping
<1>5. QED BY <1>2, <1>4 DEF L!Abstract!Next, i

LEMMA Notifying ==
  ASSUME L!IInv, NEW d \in Docks, L!Notify(d)
  PROVE  L!IInv' /\ L!Abstract!Next
<1> DEFINE l == L!Links
           q == L!Lists
           s == q[d]
           c == s[1]
           m == L!FrontPopped(l, d)
           w == [q EXCEPT ![d] = RemoveAt(s, 1)]
           k == L!BackPushed(m, d, c)
           r == [w EXCEPT ![d] = InsertAt(w[d], Len(w[d]) + 1, c)]
<1>1. /\ l \in Pointers /\ q \in [Docks -> Seq(Ids)] /\ Linked(l, q, Null)
      /\ s # <<>> /\ c = head[d] /\ did' = <<"notify", d, c>> /\ L!Take(k)
  BY ListFacts, Members DEF L!Notify
<1>2. /\ 1 \in 1..Len(s) /\ s \in Seq(Ids) /\ c \in Ids /\ Len(s) \in Nat
  BY <1>1, Ends, ElementOfSeq
<1>3. m \in Pointers /\ Linked(m, w, Null)
  BY <1>1, FrontPoppedList
<1>4. /\ RemoveAt(s, 1) \in Seq(Ids) /\ Len(RemoveAt(s, 1)) = Len(s) - 1
      /\ \A j \in 1..(Len(s) - 1) : RemoveAt(s, 1)[j] = s[j + 1]
  <2>1. /\ RemoveAt(s, 1) \in Seq(Ids) /\ Len(RemoveAt(s, 1)) = Len(s) - 1
        /\ \A j \in 1..(Len(s) - 1) : RemoveAt(s, 1)[j] = IF j < 1 THEN s[j] ELSE s[j + 1]
    BY <1>2, RemoveAtElements
  <2>2. QED BY <1>2, <2>1
<1>5. w \in [Docks -> Seq(Ids)] /\ \A e \in Docks : c \notin ToSet(w[e])
  <2>1. w \in [Docks -> Seq(Ids)]
    BY <1>1, <1>4
  <2>2. \A e \in Docks : \A j \in DOMAIN q[e] : q[e][j] = c => e = d /\ j = 1
    <3>1. DOMAIN q = Docks /\ 1 \in DOMAIN q[d]
      BY <1>1, <1>2, LenProperties
    <3>2. QED BY <1>1, <3>1 DEF Linked
  <2>3. \A j \in DOMAIN w[d] : w[d][j] # c
    <3>1. w[d] = RemoveAt(s, 1) /\ DOMAIN w[d] = 1..(Len(s) - 1)
      BY <1>1, <1>4, LenProperties
    <3>2. \A j \in 1..(Len(s) - 1) : j + 1 \in DOMAIN q[d] /\ j + 1 # 1
      BY <1>2, LenProperties
    <3>3. QED BY <1>4, <2>2, <3>1, <3>2
  <2>4. \A e \in Docks : e # d => w[e] = q[e]
    BY <1>1
  <2>5. \A e \in Docks : c \notin ToSet(w[e])
    <3> HIDE DEF w, c
    <3>1. QED BY <2>2, <2>3, <2>4 DEF ToSet
  <2>6. QED BY <2>1, <2>5
<1>6. k \in Pointers /\ Linked(k, r, Null)
  <2> HIDE DEF m, w, c
  <2>1. QED BY <1>2, <1>3, <1>5, BackPushedList
<1>7. InsertAt(w[d], Len(w[d]) + 1, c) = Append(Tail(s), c)
  <2> DEFINE x == InsertAt(w[d], Len(w[d]) + 1, c)
             y == Append(Tail(s), c)
  <2>1. w[d] = RemoveAt(s, 1)
    BY <1>1
  <2>2. /\ x \in Seq(Ids) /\ Len(x) = Len(w[d]) + 1
        /\ \A j \in 1..(Len(w[d]) + 1) : x[j] = IF j < Len(w[d]) + 1 THEN w[d][j]
                                                ELSE IF j = Len(w[d]) + 1 THEN c ELSE w[d][j - 1]
    <3>1. \A z \in Seq(Ids) :
            /\ InsertAt(z, Len(z) + 1, c) \in Seq(Ids)
            /\ Len(InsertAt(z, Len(z) + 1, c)) = Len(z) + 1
            /\ \A j \in 1..(Len(z) + 1) :
                 InsertAt(z, Len(z) + 1, c)[j] = IF j < Len(z) + 1 THEN z[j]
                                                 ELSE IF j = Len(z) + 1 THEN c ELSE z[j - 1]
      <4>1. TAKE z \in Seq(Ids)
      <4> DEFINE i == Len(z) + 1
      <4>2. i \in 1..(Len(z) + 1) /\ c \in Ids
        BY <1>2, LenProperties
      <4> HIDE DEF i, c
      <4>3. InsertAt(z, i, c) \in Seq(Ids)
        BY ONLY <4>1, <4>2, InsertAtElements
      <4>4. Len(InsertAt(z, i, c)) = Len(z) + 1
        BY ONLY <4>1, <4>2, InsertAtElements
      <4>5. ASSUME NEW j \in 1..(Len(z) + 1)
            PROVE  InsertAt(z, i, c)[j] = IF j < i THEN z[j] ELSE IF j = i THEN c ELSE z[j - 1]
        BY ONLY z \in Seq(Ids), <4>2, <4>5, InsertAtElements
      <4>6. QED BY <4>3, <4>4, <4>5 DEF i
    <3>2. w[d] \in Seq(Ids)
      BY <1>4, <2>1
    <3> HIDE DEF w, c
    <3>3. QED BY <3>1, <3>2
  <2>3. /\ Tail(s) \in Seq(Ids) /\ Len(Tail(s)) = Len(s) - 1
        /\ \A j \in 1..(Len(s) - 1) : Tail(s)[j] = s[j + 1]
    BY <1>1, <1>2, HeadTailProperties
  <2>4. /\ y \in Seq(Ids) /\ Len(y) = Len(s)
        /\ \A j \in 1..Len(s) : y[j] = IF j < Len(s) THEN s[j + 1] ELSE c
    <3> DEFINE t == Tail(s)
    <3>1. t \in Seq(Ids) /\ Len(t) = Len(s) - 1 /\ c \in Ids
      BY <1>2, <2>3
    <3> HIDE DEF t, c
    <3>2. /\ Append(t, c) \in Seq(Ids) /\ Len(Append(t, c)) = Len(t) + 1
          /\ \A j \in 1..Len(t) : Append(t, c)[j] = t[j]
          /\ Append(t, c)[Len(t) + 1] = c
      BY <3>1, AppendProperties
    <3>3. QED BY <1>2, <2>3, <3>1, <3>2 DEF t
  <2>5. Len(x) = Len(s) /\ \A j \in 1..Len(s) : x[j] = IF j < Len(s) THEN s[j + 1] ELSE c
    <3> HIDE DEF x, w, c
    <3>1. Len(w[d]) + 1 = Len(s) /\ Len(w[d]) = Len(s) - 1
      BY <1>2, <1>4, <2>1
    <3>2. QED BY <1>2, <1>4, <2>1, <2>2, <3>1
  <2> HIDE DEF x, y
  <2>6. x = y
    BY ONLY <2>2, <2>4, <2>5, SeqEqual
  <2>7. QED BY <2>6 DEF x, y
<1>8. r = [q EXCEPT ![d] = Append(Tail(@), c)]
  <2>1. r = [q EXCEPT ![d] = InsertAt(w[d], Len(w[d]) + 1, c)]
    BY <1>1
  <2>2. QED BY <1>7, <2>1
<1>9. r \in [Docks -> Seq(Ids)]
  <2>1. Append(Tail(s), c) \in Seq(Ids)
    BY <1>1, <1>2, HeadTailProperties, AppendProperties
  <2>2. QED BY <1>1, <1>8, <2>1
<1>10. L!IInv' /\ L!Lists' = r
  <2> HIDE DEF k, r
  <2>1. QED BY <1>1, <1>6, <1>9, Taken
<1>11. Head(s) = c
  BY <1>1, <1>2, HeadTailProperties
<1>12. L!Abstract!Rotate(d, c)
  BY <1>1, <1>8, <1>10, <1>11 DEF L!Abstract!Rotate
<1>13. QED BY <1>2, <1>10, <1>12 DEF L!Abstract!Next


LEMMA ListStep ==
  ASSUME L!IInv, [L!Next]_L!vars
  PROVE  L!IInv' /\ [L!Abstract!Next]_<<L!Lists, did>>
<1>1. CASE L!Next
  <2>1. PICK d \in Docks : \/ \E c \in Ids : \/ L!Push(d, c) \/ L!Remove1(d, c)
                                             \/ \E o \in Ids : L!PushBeside(d, o, c)
                           \/ L!Pop(d)
                           \/ L!Notify(d)
    BY <1>1 DEF L!Next
  <2>2. ASSUME NEW c \in Ids, L!Push(d, c) PROVE L!IInv' /\ L!Abstract!Next
    BY <2>2, Pushing
  <2>3. ASSUME NEW c \in Ids, L!Remove1(d, c) PROVE L!IInv' /\ L!Abstract!Next
    BY <2>3, Removing1
  <2>4. ASSUME NEW c \in Ids, NEW o \in Ids, L!PushBeside(d, o, c) PROVE L!IInv' /\ L!Abstract!Next
    BY <2>4, PushingBeside
  <2>5. CASE L!Pop(d)
    BY <2>5, Popping
  <2>6. CASE L!Notify(d)
    BY <2>6, Notifying
  <2>7. QED BY <2>1, <2>2, <2>3, <2>4, <2>5, <2>6
<1>2. CASE UNCHANGED L!vars
  <2>1. head' = head /\ tail' = tail /\ prev' = prev /\ next' = next /\ did' = did
    BY <1>2 DEF L!vars
  <2> DEFINE k == L!Links
             q == L!Lists
  <2>2. k \in Pointers /\ q \in [Docks -> Seq(Ids)] /\ Linked(k, q, Null)
    BY ListFacts
  <2>3. L!Take(k)
    BY <2>1, ListFacts DEF L!Take
  <2> HIDE DEF k, q
  <2>4. L!IInv' /\ L!Lists' = q
    BY <2>2, <2>3, Taken
  <2>5. QED BY <2>1, <2>4 DEF q
<1>3. QED BY <1>1, <1>2

LEMMA ListStart ==
  ASSUME L!Init
  PROVE  L!IInv /\ L!Abstract!Init
<1> DEFINE l == L!Links
           q == [d \in Docks |-> <<>>]
<1>1. /\ l.head = [d \in Docks |-> Null] /\ l.tail = [d \in Docks |-> Null]
      /\ l.prev = [c \in Ids |-> Null] /\ l.next = [c \in Ids |-> Null]
      /\ head = l.head /\ tail = l.tail /\ prev = l.prev /\ next = l.next
  BY DEF L!Init, L!Links
<1>2. l \in Pointers
  BY DEF L!Init, L!Links, Pointers
<1>3. q \in [Docks -> Seq(Ids)] /\ \A d \in Docks : q[d] = <<>>
  OBVIOUS
<1>4. \A d \in Docks : DOMAIN q[d] = {} /\ ToSet(q[d]) = {}
  BY DEF ToSet
<1> HIDE DEF l, q
<1>5. Linked(l, q, Null)
  <2>1. DOMAIN q = Docks
    BY <1>3
  <2>2. \A c \in DOMAIN l.next : l.prev[c] = Null /\ l.next[c] = Null
    BY <1>1
  <2>3. QED BY <1>1, <1>3, <1>4, <2>1, <2>2 DEF Linked
<1>6. \A d \in Docks : L!Forward(d) = <<>>
  <2>1. \A d \in Docks : Chase(l.head[d], l.next, Null) = q[d]
    BY <1>2, <1>3, <1>5, Met
  <2>2. QED BY <1>1, <1>3, <2>1, SameChase DEF L!Forward, L!Walk
<1>7. L!Lists = q
  BY <1>3, <1>6 DEF L!Lists, q
<1>8. L!Linked(L!Links, q, Null)
  BY <1>5, SameOperators DEF l
<1>9. L!TypeOK
  BY DEF L!Init, L!TypeOK
<1>10. L!Abstract!Init
  BY <1>7 DEF L!Init, L!Abstract!Init, q
<1>11. QED BY <1>3, <1>7, <1>8, <1>9, <1>10 DEF L!IInv

LEMMA ListMeans ==
  ASSUME L!IInv
  PROVE  L!ChainsAgree /\ L!FreeNodesClean
<1> DEFINE l == L!Links
           q == L!Lists
<1>1. /\ l \in Pointers /\ q \in [Docks -> Seq(Ids)] /\ Linked(l, q, Null)
      /\ l.head = head /\ l.tail = tail /\ l.prev = prev /\ l.next = next
  BY ListFacts
<1>2. \A d \in Docks : L!Forward(d) = q[d]
  BY Members
<1>3. \A c \in Ids : L!Free(c) <=> \A d \in Docks : c \notin ToSet(q[d])
  BY Members
<1> HIDE DEF l, q
<1>4. \A d \in Docks : Chase(l.tail[d], l.prev, Null) = Reverse(q[d])
  BY <1>1, Met
<1>5. L!ChainsAgree
  BY <1>1, <1>2, <1>4, SameChase, SameOperators DEF L!ChainsAgree, L!Walk
<1>6. \A c \in Ids : L!Free(c) => l.prev[c] = Null /\ l.next[c] = Null
  <2>1. DOMAIN q = Docks /\ DOMAIN l.next = Ids
    BY <1>1 DEF Pointers
  <2>2. QED BY <1>1, <1>3, <2>1 DEF Linked
<1>7. L!FreeNodesClean
  BY <1>1, <1>6 DEF L!FreeNodesClean
<1>8. QED BY <1>5, <1>7

\* Every pointer of every list and of every context is that of the sequence its chain
\* spells, through push_front, push_back, push_sort, push_before, push_after, pop_front,
\* pop_back, remove and notify (ircd/ctx.cc, ctx::list).
THEOREM ListInvariance == McSpec => []L!IInv
<1>1. McInit => L!IInv
  BY ListStart DEF McInit
<1>2. L!IInv /\ [McNext]_<<which, vars, chains, lists>> => L!IInv'
  <2>1. [McNext]_<<which, vars, chains, lists>> => [L!Next]_L!vars
    BY DEF McNext, lists, L!vars
  <2>2. QED BY <2>1, ListStep
<1>3. QED BY <1>1, <1>2, PTL DEF McSpec

\* rfor_each() meets what for_each() meets, in reverse, and a context in no list has
\* null pointers, as the assertions of every push_ have it.
THEOREM ChainsAlwaysAgree == McSpec => []ChainsAgree
<1>1. L!IInv => ChainsAgree
  BY ListMeans DEF ChainsAgree
<1>2. QED BY <1>1, ListInvariance, PTL

\* The linked lists implement sequences of contexts: each operation inserts, drops or
\* rotates exactly the place of its list that its name says, and touches no other list.
THEOREM ListIsSequence == McSpec => ImplementsDockQueue
<1>1. McInit => L!Abstract!Init
  BY ListStart DEF McInit
<1>2. L!IInv /\ [McNext]_<<which, vars, chains, lists>> => [L!Abstract!Next]_<<L!Lists, did>>
  <2>1. [McNext]_<<which, vars, chains, lists>> => [L!Next]_L!vars
    BY DEF McNext, lists, L!vars
  <2>2. QED BY <2>1, ListStep
<1>3. QED BY <1>1, <1>2, ListInvariance, PTL
          DEF McSpec, ImplementsDockQueue, L!ImplementsDockQueue, L!Abstract!Spec
=============================================================================
