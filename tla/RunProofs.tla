------------------------------ MODULE RunProofs ------------------------------
(***************************************************************************)
(* Proofs about Run, for any set of contexts and any levels.               *)
(***************************************************************************)
EXTENDS Run, QueueLemmas

LEMMA InitIInv == Init => IInv
<1> SUFFICES ASSUME Init PROVE IInv
  OBVIOUS
<1>1. TypeOK /\ TransitionsExclude /\ BarrierOpens
  BY LevelsAssumption, NoneAssumption
     DEF Init, SchedInit, TypeOK, SchedTypeOK, Stages, Requests, TransitionsExclude, BarrierOpens
<1>2. DockIsWaiters
  BY DEF Init, DockIsWaiters, Waits, ToSet
<1>3. QED BY <1>1, <1>2 DEF IInv

\* The steps that leave the levels, the dock and everybody's place alone.
LEMMA Elsewhere ==
  ASSUME IInv, UNCHANGED run, NEW c \in Ctxs,
         Doze(c) \/ WakeElsewhere(c) \/ Interrupt(c) \/ Notify(c)
  PROVE  IInv'
<1> USE NoneAssumption DEF IInv, TypeOK, SchedTypeOK, Stages
<1>1. UNCHANGED <<level, chadburn, q, pc, target>>
  BY DEF run
<1>2. SchedTypeOK'
  <2>1. CASE Doze(c)
    BY <2>1 DEF Doze, Suspend
  <2>2. CASE WakeElsewhere(c)
    <3>1. pend' \in [Ctxs -> SUBSET Requests] /\ masked' \in [Ctxs -> BOOLEAN]
      <4>0. SchedTypeOK /\ c \in Ctxs
        OBVIOUS
      <4>1. CASE Thrown(c)
        BY ONLY <4>0, <4>1 DEF SchedTypeOK, Thrown
      <4>2. CASE UNCHANGED <<pend, masked>>
        BY <4>2
      <4>3. QED BY <2>2, <4>1, <4>2 DEF WakeElsewhere, Return
    <3>2. QED BY <2>2, <3>1 DEF WakeElsewhere, Return
  <2>3. CASE Interrupt(c)
    BY <2>3 DEF Interrupt, Request, Requests, Wake
  <2>4. CASE Notify(c)
    BY <2>4 DEF Notify, Rouse, Wake
  <2>5. QED BY <2>1, <2>2, <2>3, <2>4
<1>3. \A d \in Ctxs : pc[d] = "barrier" /\ stage'[d] = "asleep" => stage[d] = "asleep"
  <2>1. CASE Doze(c)
    BY <2>1 DEF Doze, Suspend
  <2>2. CASE WakeElsewhere(c)
    BY <2>2 DEF WakeElsewhere, Return
  <2>3. CASE Interrupt(c)
    BY <2>3 DEF Interrupt, Request, Wake
  <2>4. CASE Notify(c)
    BY <2>4 DEF Notify, Rouse, Wake
  <2>5. QED BY <2>1, <2>2, <2>3, <2>4
<1>4. QED BY <1>1, <1>2, <1>3 DEF TransitionsExclude, BarrierOpens, DockIsWaiters, Waits

\* A transition starts, out of the wait or at once, or is over on the main stack: whoever
\* sleeps in the dock is told of the new level.
LEMMA Starting ==
  ASSUME IInv, NEW c \in Ctxs, NEW new \in Levels, NEW k,
         level = chadburn, new # level, Start(c, new, k), UNCHANGED <<Quiet, chadburn, target>>,
         pc[c] # "barrier",
         k \in Seq(Ctxs), \A i, j \in DOMAIN k : k[i] = k[j] => i = j,
         ToSet(k) = ToSet(q) \ {c}
  PROVE  IInv'
<1> USE NoneAssumption DEF IInv, TypeOK, SchedTypeOK, Stages, Quiet
<1> DEFINE woken == Wake(stage, ToSet(k))
<1>1. /\ woken \in [Ctxs -> Stages]
      /\ \A d \in Ctxs : d \in ToSet(k) => woken[d] # "asleep"
  BY DEF Wake
<1>2. stage' = [woken EXCEPT ![c] = "running"]
  BY DEF Start
<1> HIDE DEF woken
<1>3. /\ stage' \in [Ctxs -> Stages] /\ stage'[c] = "running"
      /\ \A d \in Ctxs : d \in ToSet(k) => stage'[d] # "asleep"
  BY <1>1, <1>2
<1>4. level' = new /\ current' = c /\ q' = k /\ pc' = [pc EXCEPT ![c] = "handlers"]
  BY DEF Start, Goes
<1>5. TypeOK'
  BY <1>3, <1>4
<1>6. DockIsWaiters'
  BY <1>4 DEF DockIsWaiters, Waits
<1>7. TransitionsExclude'
  BY <1>4 DEF TransitionsExclude
<1>8. BarrierOpens'
  BY <1>3, <1>4 DEF BarrierOpens, DockIsWaiters, Waits
<1>9. QED BY <1>5, <1>6, <1>7, <1>8

\* The running context waits in the dock.
LEMMA Waiting ==
  ASSUME IInv, NEW c \in Ctxs, NEW to \in {"set", "barrier"},
         pc[c] = "out", Suspend(c), q' = Append(q, c), Goes(c, to),
         UNCHANGED <<Quiet, level, chadburn>>, target' \in [Ctxs -> Levels],
         to = "barrier" => level \notin Awaited
  PROVE  IInv'
<1> USE NoneAssumption DEF IInv, TypeOK, SchedTypeOK, Stages, Quiet
<1>1. c \notin ToSet(q)
  BY DEF DockIsWaiters, Waits
<1>2. /\ q' \in Seq(Ctxs)
      /\ \A i, j \in DOMAIN q' : q'[i] = q'[j] => i = j
      /\ ToSet(q') = ToSet(q) \cup {c}
  BY <1>1, AppendElements DEF DockIsWaiters
<1>3. TypeOK'
  BY <1>2 DEF Suspend, Goes
<1>4. DockIsWaiters'
  BY <1>2 DEF Goes, DockIsWaiters, Waits
<1>5. TransitionsExclude' /\ BarrierOpens'
  BY DEF Goes, Suspend, TransitionsExclude, BarrierOpens
<1>6. QED BY <1>3, <1>4, <1>5

\* A context leaves the dock and goes on, or throws; nobody falls asleep.
LEMMA Leaving ==
  ASSUME IInv, NEW c \in Ctxs, Waits(c), q' = Without(q, c), Goes(c, "out"), current' = c,
         pend' \in [Ctxs -> SUBSET Requests], masked' \in [Ctxs -> BOOLEAN],
         UNCHANGED <<level, chadburn, target>>,
         NEW W, stage' = [Wake(stage, W) EXCEPT ![c] = "running"]
  PROVE  IInv'
<1> USE NoneAssumption DEF IInv, TypeOK, SchedTypeOK, Stages
<1>1. /\ q' \in Seq(Ctxs)
      /\ \A i, j \in DOMAIN q' : q'[i] = q'[j] => i = j
      /\ ToSet(q') = ToSet(q) \ {c}
  BY WithoutElements DEF DockIsWaiters
<1>2. /\ stage' \in [Ctxs -> Stages]
      /\ \A d \in Ctxs : stage'[d] = "asleep" => stage[d] = "asleep"
  <2> DEFINE woken == Wake(stage, W)
  <2>1. woken \in [Ctxs -> Stages] /\ \A d \in Ctxs : woken[d] = "asleep" => stage[d] = "asleep"
    BY DEF Wake
  <2> HIDE DEF woken
  <2>2. stage' = [woken EXCEPT ![c] = "running"]
    BY DEF woken
  <2>3. QED BY <2>1, <2>2
<1>3. TypeOK'
  BY <1>1, <1>2 DEF Goes
<1>4. DockIsWaiters'
  BY <1>1 DEF Goes, DockIsWaiters, Waits
<1>5. TransitionsExclude' /\ BarrierOpens'
  BY <1>2 DEF Goes, Waits, TransitionsExclude, BarrierOpens
<1>6. QED BY <1>3, <1>4, <1>5

\* Waking nobody leaves the stages as they are.
LEMMA NobodyWoken == ASSUME stage \in [Ctxs -> Stages] PROVE Wake(stage, {}) = stage
BY DEF Wake

\* A waiter that resumes is in the queue; the wait of set() ends, starts a transition or
\* goes on, and that of a barrier ends or goes on.
LEMMA Waking ==
  ASSUME IInv, NEW c \in Ctxs, WakeSet(c) \/ WakeBarrier(c) \/ WakeThrown(c)
  PROVE  IInv'
<1>1. Waits(c) /\ c \in ToSet(q)
  BY DEF WakeSet, WakeBarrier, WakeThrown, Waits, IInv, DockIsWaiters
<1>2. ASSUME stage' = [stage EXCEPT ![c] = "asleep"], UNCHANGED <<current, pend, masked, run>>,
             pc[c] = "barrier" => level \notin Awaited
      PROVE  IInv'
  <2>1. UNCHANGED <<level, chadburn, q, pc, target>>
    BY <1>2 DEF run
  <2>2. QED BY <1>2, <2>1 DEF IInv, TypeOK, SchedTypeOK, Stages, DockIsWaiters, Waits,
                  TransitionsExclude, BarrierOpens
<1>3. ASSUME level = chadburn, target[c] # level, pc[c] = "set", Start(c, target[c], Without(q, c)),
             UNCHANGED <<Quiet, chadburn, target>>
      PROVE  IInv'
  <2>1. /\ Without(q, c) \in Seq(Ctxs)
        /\ \A i, j \in DOMAIN Without(q, c) : Without(q, c)[i] = Without(q, c)[j] => i = j
        /\ ToSet(Without(q, c)) = ToSet(q) \ {c}
    BY <1>1, WithoutElements DEF IInv, TypeOK, DockIsWaiters
  <2>2. target[c] \in Levels
    BY DEF IInv, TypeOK
  <2> HIDE DEF Start
  <2>3. QED BY <1>3, <2>1, <2>2, Starting
<1>4. ASSUME q' = Without(q, c), Goes(c, "out"), current' = c,
             stage' = [stage EXCEPT ![c] = "running"],
             UNCHANGED <<Quiet, level, chadburn, target>>
      PROVE  IInv'
  <2>1. stage' = [Wake(stage, {}) EXCEPT ![c] = "running"]
    BY <1>4, NobodyWoken DEF IInv, TypeOK, SchedTypeOK
  <2>2. pend' \in [Ctxs -> SUBSET Requests] /\ masked' \in [Ctxs -> BOOLEAN]
    BY <1>4 DEF IInv, TypeOK, SchedTypeOK, Quiet
  <2>3. QED BY <1>1, <1>4, <2>1, <2>2, Leaving
<1>5. CASE WakeSet(c)
  BY <1>2, <1>3, <1>4, <1>5 DEF WakeSet, Quiet, run
<1>6. CASE WakeBarrier(c)
  BY <1>2, <1>4, <1>6 DEF WakeBarrier, Quiet, run
<1>7. CASE WakeThrown(c)
  <2>1. pend' \in [Ctxs -> SUBSET Requests] /\ masked' \in [Ctxs -> BOOLEAN]
    BY <1>7 DEF WakeThrown, IInv, TypeOK, Thrown, SchedTypeOK
  <2>2. QED BY <1>1, <1>7, <2>1, Leaving DEF WakeThrown
<1>8. QED BY <1>5, <1>6, <1>7

\* Each step of the run levels preserves the invariant.
LEMMA NextIInv == IInv /\ [Next]_vars => IInv'
<1> SUFFICES ASSUME IInv, [Next]_vars PROVE IInv'
  OBVIOUS
<1>1. ASSUME NEW new \in Levels, SetOnMain(new) PROVE IInv'
  <2>1. /\ stage' \in [Ctxs -> Stages]
        /\ \A d \in Ctxs : d \in ToSet(q) => stage'[d] # "asleep"
    BY <1>1 DEF SetOnMain, Wake, IInv, TypeOK, SchedTypeOK, Stages
  <2>2. TypeOK' /\ DockIsWaiters' /\ TransitionsExclude'
    BY <1>1, <2>1 DEF SetOnMain, Quiet, IInv, TypeOK, SchedTypeOK, DockIsWaiters, Waits,
       TransitionsExclude
  <2>3. BarrierOpens'
    BY <1>1, <2>1 DEF SetOnMain, IInv, BarrierOpens, DockIsWaiters, Waits
  <2>4. QED BY <2>2, <2>3 DEF IInv
<1>2. ASSUME NEW new \in Levels, NEW c \in Ctxs, Set(c, new) PROVE IInv'
  <2>1. CASE level = chadburn /\ new # level /\ Start(c, new, q) /\ UNCHANGED target
    <3>1. q \in Seq(Ctxs) /\ c \notin ToSet(q) /\ pc[c] = "out"
      BY <1>2 DEF Set, IInv, TypeOK, DockIsWaiters, Waits
    <3>2. ToSet(q) = ToSet(q) \ {c}
      BY <3>1
    <3>3. QED BY <1>2, <2>1, <3>1, <3>2, Starting DEF Set, IInv, DockIsWaiters
  <2>2. CASE Suspend(c) /\ q' = Append(q, c) /\ Goes(c, "set") /\ UNCHANGED level
             /\ target' = [target EXCEPT ![c] = new]
    <3>1. target' \in [Ctxs -> Levels]
      BY <2>2 DEF IInv, TypeOK
    <3>2. QED BY <1>2, <2>2, <3>1, Waiting DEF Set
  <2>3. QED BY <1>2, <2>1, <2>2 DEF Set
<1>3. ASSUME NEW c \in Ctxs, Finish1(c) PROVE IInv'
  BY <1>3 DEF Finish1, Goes, sched, IInv, TypeOK, SchedTypeOK, DockIsWaiters, Waits,
     TransitionsExclude, BarrierOpens
<1>4. ASSUME NEW c \in Ctxs, Barrier(c) PROVE IInv'
  <2>1. target' \in [Ctxs -> Levels] /\ UNCHANGED Quiet
    BY <1>4 DEF Barrier, Suspend, IInv, TypeOK, Quiet
  <2>2. QED BY <1>4, <2>1, Waiting DEF Barrier
<1>5. ASSUME NEW c \in Ctxs, Doze(c) \/ WakeElsewhere(c) \/ Interrupt(c) \/ Notify(c) PROVE IInv'
  <2>1. UNCHANGED run
    BY <1>5 DEF Doze, WakeElsewhere, Interrupt, Notify
  <2>2. QED BY <1>5, <2>1, Elsewhere
<1>6. CASE UNCHANGED vars
  BY <1>6 DEF vars, sched, run, IInv, TypeOK, SchedTypeOK, DockIsWaiters, Waits,
     TransitionsExclude, BarrierOpens
<1>7. QED BY <1>1, <1>2, <1>3, <1>4, <1>5, <1>6, Waking DEF Next

\* The inductive invariant holds in every behaviour, for any contexts and levels.
THEOREM Invariance == Spec => []IInv
BY InitIInv, NextIInv, PTL DEF Spec

\* The program is between two levels exactly while one context, and no other, is in the
\* handlers of a transition: run::set() keeps every other transition out.
THEOREM OneTransition == Spec => []TransitionsExclude
BY Invariance, PTL DEF IInv

\* A context does not stay asleep in run::barrier at a level the barrier waits for.
THEOREM BarriersOpen == Spec => []BarrierOpens
BY Invariance, PTL DEF IInv
=============================================================================
