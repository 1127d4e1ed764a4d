----------------------------- MODULE SyncProofs -----------------------------
(***************************************************************************)
(* Proofs about what contexts wait in, as MCSync puts it side by side: the *)
(* mutex for any set of contexts; the offload engine, from OleProofs; the  *)
(* collections of futures; the handlers of run levels.  The inductive      *)
(* invariants are the IInv of each module, and each action is shown to     *)
(* preserve it in a lemma of its own kind.                                 *)
(***************************************************************************)
EXTENDS MCSync, QueueLemmas

-----------------------------------------------------------------------------
(* The mutex *)

LEMMA InitIInv == Init => IInv
<1> SUFFICES ASSUME Init PROVE IInv
  OBVIOUS
<1>1. TypeOK /\ OneRuns /\ OwnerInside /\ NoLostWakeup
  BY NoneAssumption DEF Init, SchedInit, TypeOK, SchedTypeOK, Stages, Requests, Places,
     OneRuns, OwnerInside, NoLostWakeup
<1>2. QueueIsWaiters
  BY DEF Init, SchedInit, QueueIsWaiters, Waits, ToSet
<1>3. QED BY <1>1, <1>2 DEF IInv

\* The steps that change neither the queue nor anybody's place in the program.
LEMMA Elsewhere ==
  ASSUME IInv, m' = m, q' = q, pc' = pc, due' = due, NEW c \in Ctxs,
         \/ Doze(c) \/ Leave(c) \/ Shield(c) \/ WakeInVain(c) \/ WakeElsewhere(c)
         \/ Interrupt(c) \/ Notify(c)
  PROVE  IInv'
<1> USE NoneAssumption DEF IInv, TypeOK, SchedTypeOK, Stages
<1>1. SchedTypeOK'
  <2>1. CASE Doze(c)
    BY <2>1 DEF Doze, Suspend
  <2>2. CASE Leave(c)
    BY <2>2 DEF Leave, Finish, Wake
  <2>3. CASE Shield(c)
    BY <2>3 DEF Shield, Mask
  <2>4. CASE WakeInVain(c)
    BY <2>4 DEF WakeInVain, Resumable
  <2>5. CASE WakeElsewhere(c)
    <3>1. pend' \in [Ctxs -> SUBSET Requests] /\ masked' \in [Ctxs -> BOOLEAN]
      <4>0. SchedTypeOK /\ c \in Ctxs
        OBVIOUS
      <4>1. CASE Thrown(c)
        BY ONLY <4>0, <4>1 DEF SchedTypeOK, Thrown
      <4>2. CASE UNCHANGED <<pend, masked>>
        BY <4>2
      <4>3. QED BY <2>5, <4>1, <4>2 DEF WakeElsewhere, Return
    <3>2. QED BY <2>5, <3>1 DEF WakeElsewhere, Return
  <2>6. CASE Interrupt(c)
    BY <2>6 DEF Interrupt, Request, Requests, Wake
  <2>7. CASE Notify(c)
    BY <2>7 DEF Notify, Rouse, Wake
  <2>8. QED BY <2>1, <2>2, <2>3, <2>4, <2>5, <2>6, <2>7
<1>2. OneRuns' /\ \A d \in Ctxs : Waits(d) => stage'[d] \in {"ready", "asleep"}
  <2> USE DEF OneRuns, QueueIsWaiters
  <2>1. CASE Doze(c)
    BY <2>1 DEF Doze, Suspend
  <2>2. CASE Leave(c)
    BY <2>2 DEF Leave, Finish, Wake, Waits
  <2>3. CASE Shield(c)
    BY <2>3 DEF Shield, Mask
  <2>4. CASE WakeInVain(c)
    BY <2>4 DEF WakeInVain, Resumable
  <2>5. CASE WakeElsewhere(c)
    BY <2>5 DEF WakeElsewhere, Return, Resumable
  <2>6. CASE Interrupt(c)
    BY <2>6 DEF Interrupt, Request, Wake
  <2>7. CASE Notify(c)
    BY <2>7 DEF Notify, Rouse, Wake
  <2>8. QED BY <2>1, <2>2, <2>3, <2>4, <2>5, <2>6, <2>7
<1>3. NoLostWakeup'
  <2> SUFFICES ASSUME m = None, q # <<>> PROVE stage'[Head(q)] = "ready"
    BY DEF NoLostWakeup
  <2>1. Head(q) \in Ctxs /\ Waits(Head(q)) /\ stage[Head(q)] = "ready"
    BY HeadElement DEF NoLostWakeup, QueueIsWaiters
  <2>2. CASE Doze(c)
    BY <2>1, <2>2 DEF Doze, Suspend
  <2>3. CASE Leave(c)
    BY <2>1, <2>3 DEF Leave, Finish, Wake, Waits
  <2>4. CASE Shield(c)
    BY <2>1, <2>4 DEF Shield, Mask
  <2>5. CASE WakeInVain(c)
    BY <2>5 DEF WakeInVain
  <2>6. CASE WakeElsewhere(c)
    BY <2>1, <2>6 DEF WakeElsewhere, Return
  <2>7. CASE Interrupt(c)
    BY <2>1, <2>7 DEF Interrupt, Request, Wake
  <2>8. CASE Notify(c)
    BY <2>1, <2>8 DEF Notify, Rouse, Wake
  <2>9. QED BY <2>2, <2>3, <2>4, <2>5, <2>6, <2>7, <2>8
<1>4. QED BY <1>1, <1>2, <1>3 DEF OwnerInside, QueueIsWaiters, Waits

\* lock() and unlock() by the running context.
LEMMA Running ==
  ASSUME IInv, NEW c \in Ctxs, Acquire(c) \/ Unlock(c) \/ \E call \in {"lock", "timed"} : Contend(c, call)
  PROVE  IInv'
<1> USE NoneAssumption DEF IInv, TypeOK, SchedTypeOK, Stages, Places
<1>1. CASE Acquire(c)
  BY <1>1 DEF Acquire, OneRuns, OwnerInside, QueueIsWaiters, NoLostWakeup, Waits
<1>2. CASE Unlock(c)
  <2>1. TypeOK' /\ OneRuns'
    BY <1>2 DEF Unlock, Wake, OneRuns
  <2>2. OwnerInside'
    BY <1>2 DEF Unlock, OwnerInside
  <2>3. QueueIsWaiters'
    BY <1>2 DEF Unlock, Wake, QueueIsWaiters, Waits
  <2>4. NoLostWakeup'
    <3> SUFFICES ASSUME q # <<>> PROVE stage'[Head(q)] = "ready"
      BY <1>2 DEF NoLostWakeup, Unlock
    <3>1. Head(q) \in Ctxs /\ stage[Head(q)] \in {"ready", "asleep"}
      BY HeadElement DEF QueueIsWaiters
    <3>2. QED BY <1>2, <3>1 DEF Unlock, Wake, Front1
  <2>5. QED BY <2>1, <2>2, <2>3, <2>4
<1>3. ASSUME NEW call \in {"lock", "timed"}, Contend(c, call) PROVE IInv'
  <2>1. c \notin ToSet(q)
    BY <1>3 DEF Contend, QueueIsWaiters, Waits
  <2>2. /\ q' \in Seq(Ctxs)
        /\ \A i, j \in DOMAIN q' : q'[i] = q'[j] => i = j
        /\ ToSet(q') = ToSet(q) \cup {c}
    BY <1>3, <2>1, AppendElements DEF Contend, QueueIsWaiters
  <2>3. TypeOK' /\ OneRuns' /\ OwnerInside' /\ NoLostWakeup'
    BY <1>3, <2>2 DEF Contend, Suspend, OneRuns, OwnerInside, NoLostWakeup
  <2>4. QueueIsWaiters'
    BY <1>3, <2>2 DEF Contend, Suspend, QueueIsWaiters, Waits
  <2>5. QED BY <2>3, <2>4
<1>4. QED BY <1>1, <1>2, <1>3

\* A context leaves the dock: with the mutex, without it, or by an exception.
LEMMA Leaving ==
  ASSUME IInv, NEW c \in Ctxs, WakeOwning(c) \/ WakeExpired(c) \/ WakeThrown(c)
  PROVE  IInv'
<1> USE NoneAssumption DEF IInv, TypeOK, SchedTypeOK, Stages, Places
<1>1. Waits(c) /\ c \in ToSet(q) /\ current = None /\ stage[c] = "ready" /\ q' = Without(q, c)
  BY DEF WakeOwning, WakeExpired, WakeThrown, Resumable, QueueIsWaiters
<1>2. /\ q' \in Seq(Ctxs)
      /\ \A i, j \in DOMAIN q' : q'[i] = q'[j] => i = j
      /\ ToSet(q') = ToSet(q) \ {c}
  BY <1>1, WithoutElements DEF QueueIsWaiters
<1>3. current' = c /\ UNCHANGED due /\ pc'[c] \in {"in", "out"} /\ pc' = [pc EXCEPT ![c] = pc'[c]]
  BY DEF WakeOwning, WakeExpired, WakeThrown
<1>4. /\ stage' \in [Ctxs -> Stages] /\ stage'[c] = "running"
      /\ \A d \in Ctxs \ {c} : \/ stage'[d] = stage[d]
                               \/ stage[d] = "asleep" /\ stage'[d] = "ready"
  <2>1. CASE stage' = [stage EXCEPT ![c] = "running"]
    BY <2>1
  <2>2. CASE stage' = [Wake(stage, Front1(q')) EXCEPT ![c] = "running"]
    <3> DEFINE woken == Wake(stage, Front1(q'))
    <3>1. /\ woken \in [Ctxs -> Stages]
          /\ \A d \in Ctxs : \/ woken[d] = stage[d]
                             \/ stage[d] = "asleep" /\ woken[d] = "ready"
      BY DEF Wake
    <3> HIDE DEF woken
    <3>2. stage' = [woken EXCEPT ![c] = "running"]
      BY <2>2 DEF woken
    <3>3. QED BY <3>1, <3>2
  <2>3. QED BY <2>1, <2>2 DEF WakeOwning, WakeExpired, WakeThrown
<1>5. TypeOK'
  <2>1. pend' \in [Ctxs -> SUBSET Requests] /\ masked' \in [Ctxs -> BOOLEAN]
    <3>0. SchedTypeOK /\ c \in Ctxs
      OBVIOUS
    <3>1. CASE Thrown(c)
      BY ONLY <3>0, <3>1 DEF SchedTypeOK, Thrown
    <3>2. CASE UNCHANGED <<pend, masked>>
      BY <3>2
    <3>3. QED BY <3>1, <3>2 DEF WakeOwning, WakeExpired, WakeThrown
  <2>2. m' \in Ctxs \cup {None}
    BY DEF WakeOwning, WakeExpired, WakeThrown
  <2>3. pc' \in [Ctxs -> Places] /\ due' \in [Ctxs -> BOOLEAN]
    BY DEF WakeOwning, WakeExpired, WakeThrown
  <2>4. QED BY <1>2, <1>3, <1>4, <2>1, <2>2, <2>3
<1>6. OneRuns'
  BY <1>1, <1>3, <1>4 DEF OneRuns
<1>7. OwnerInside'
  BY <1>1 DEF WakeOwning, WakeExpired, WakeThrown, OwnerInside, Waits
<1>8. QueueIsWaiters'
  BY <1>1, <1>2, <1>3, <1>4 DEF QueueIsWaiters, Waits
<1>9. NoLostWakeup'
  <2> SUFFICES ASSUME m' = None, q' # <<>> PROVE stage'[Head(q')] = "ready"
    BY DEF NoLostWakeup
  <2>1. WakeThrown(c)
    BY DEF WakeOwning, WakeExpired
  <2>2. Head(q') \in Ctxs \ {c} /\ stage[Head(q')] \in {"ready", "asleep"}
    BY <1>2, HeadElement DEF QueueIsWaiters
  <2>3. QED BY <2>1, <2>2 DEF WakeThrown, Wake, Front1
<1>10. QED BY <1>5, <1>6, <1>7, <1>8, <1>9

\* A deadline that passes wakes its context and nobody else.
LEMMA Expiring ==
  ASSUME IInv, NEW c \in Ctxs, Expire(c)
  PROVE  IInv'
<1> USE DEF IInv, TypeOK, SchedTypeOK, Stages, Expire, Wake
<1>1. TypeOK' /\ OneRuns' /\ OwnerInside'
  BY DEF OneRuns, OwnerInside
<1>2. QueueIsWaiters'
  BY DEF QueueIsWaiters, Waits
<1>3. NoLostWakeup'
  BY HeadElement DEF NoLostWakeup
<1>4. QED BY <1>1, <1>2, <1>3

LEMMA NextIInv == IInv /\ [Next]_vars => IInv'
<1> SUFFICES ASSUME IInv, [Next]_vars PROVE IInv'
  OBVIOUS
<1>1. CASE UNCHANGED vars
  BY <1>1 DEF vars, IInv, TypeOK, SchedTypeOK, OneRuns, OwnerInside, QueueIsWaiters,
     NoLostWakeup, Waits
<1>2. ASSUME NEW c \in Ctxs, Slice(c) PROVE IInv'
  <2>1. CASE Doze(c) \/ Leave(c) \/ Shield(c)
    BY <2>1, Elsewhere DEF Doze, Leave, Shield, lock
  <2>2. QED BY <1>2, <2>1, Running DEF Slice
<1>3. ASSUME NEW c \in Ctxs, Wakeup(c) PROVE IInv'
  <2>1. CASE WakeInVain(c) \/ WakeElsewhere(c)
    BY <2>1, Elsewhere DEF WakeInVain, WakeElsewhere, lock
  <2>2. QED BY <1>3, <2>1, Leaving DEF Wakeup
<1>4. ASSUME NEW c \in Ctxs, Interrupt(c) \/ Notify(c) PROVE IInv'
  BY <1>4, Elsewhere DEF Interrupt, Notify, lock
<1>5. QED BY <1>1, <1>2, <1>3, <1>4, Expiring DEF Next

-----------------------------------------------------------------------------
(* Theorems *)

\* IInv holds throughout, for any set of contexts.
THEOREM Invariance == Spec => []IInv
BY InitIInv, NextIInv, PTL DEF Spec

\* Every variable keeps its type (the members of mutex, dock and ctx).
THEOREM TypeCorrect == Spec => []TypeOK
<1>1. IInv => TypeOK
  BY DEF IInv
<1>2. QED BY <1>1, Invariance, PTL

\* mutex::lock(), try_lock() and try_lock_until() never let two contexts in.
THEOREM Exclusion == Spec => []MutualExclusion
<1>1. IInv => MutualExclusion
  BY DEF IInv, OwnerInside, MutualExclusion
<1>2. QED BY <1>1, Invariance, PTL

\* The dock of the mutex holds exactly the contexts that wait for it.
THEOREM Queueing == Spec => []QueueIsWaiters
<1>1. IInv => QueueIsWaiters
  BY DEF IInv
<1>2. QED BY <1>1, Invariance, PTL

\* unlock() and the continuation of the dock never lose the wake-up of the mutex.
THEOREM WakeupsKept == Spec => []NoLostWakeup
<1>1. IInv => NoLostWakeup
  BY DEF IInv
<1>2. QED BY <1>1, Invariance, PTL

-----------------------------------------------------------------------------
(* The offload engine, as OleProofs proves it *)

Engine == INSTANCE OleProofs WITH MaxStale <- 2, pc <- place

LEMMA SameFinite == \A S : Engine!IsFiniteSet(S) <=> IsFiniteSet(S)
BY DEF Engine!IsFiniteSet, IsFiniteSet

LEMMA SameCount == \A S : Engine!Cardinality(S) = O!Cardinality(S)
BY DEF Engine!Cardinality, O!Cardinality, Engine!IsFiniteSet, O!IsFiniteSet,
       Engine!ExistsBijection, O!ExistsBijection

LEMMA SameInvariant ==
  /\ Engine!IInv <=> O!IInv
  /\ Engine!FrameOutlivesFunction <=> O!FrameOutlivesFunction
  /\ Engine!NoStrandedContext <=> O!NoStrandedContext
<1>0. \A s : Engine!ToSet(s) = O!ToSet(s)
  BY DEF Engine!ToSet, O!ToSet
<1>1. Engine!TypeOK <=> O!TypeOK
  BY DEF Engine!TypeOK, O!TypeOK, Engine!SchedTypeOK, O!SchedTypeOK, Engine!Stages, O!Stages,
         Engine!Requests, O!Requests, Engine!ThreadPlaces, O!ThreadPlaces
<1>2. Engine!FrameOutlivesFunction <=> O!FrameOutlivesFunction
  BY <1>0 DEF Engine!FrameOutlivesFunction, O!FrameOutlivesFunction
<1>3. Engine!NoStrandedContext <=> O!NoStrandedContext
  BY <1>0 DEF Engine!NoStrandedContext, O!NoStrandedContext
<1>4. Engine!OnePlace <=> O!OnePlace
  BY <1>0 DEF Engine!OnePlace, O!OnePlace
<1>5. Engine!ThreadsRun <=> O!ThreadsRun
  BY SameCount DEF Engine!ThreadsRun, O!ThreadsRun
<1>6. Engine!LifeIsTermination <=> O!LifeIsTermination
  BY DEF Engine!LifeIsTermination, O!LifeIsTermination
<1>7. Engine!QueueIsServed <=> O!QueueIsServed
  BY DEF Engine!QueueIsServed, O!QueueIsServed, Engine!At, O!At
<1>8. QED BY <1>1, <1>2, <1>3, <1>4, <1>5, <1>6, <1>7 DEF Engine!IInv, O!IInv

LEMMA SameEngine ==
  /\ Engine!Init <=> O!Init
  /\ Engine!Next <=> O!Next
  /\ Engine!vars = O!vars
<1>1. Engine!Init <=> O!Init
  BY DEF Engine!Init, O!Init, Engine!SchedInit, O!SchedInit
<1>2. Engine!vars = O!vars
  BY DEF Engine!vars, O!vars, Engine!sched, O!sched, Engine!ole, O!ole
<1>3. ASSUME NEW c \in Ctxs
      PROVE  /\ Engine!Offload(c) <=> O!Offload(c)
             /\ Engine!Return1(c) <=> O!Return1(c)
             /\ Engine!Signalled(c) <=> O!Signalled(c)
             /\ Engine!WakeElsewhere(c) <=> O!WakeElsewhere(c)
             /\ Engine!Doze(c) <=> O!Doze(c)
             /\ Engine!Interrupt(c) <=> O!Interrupt(c)
             /\ Engine!Notify(c) <=> O!Notify(c)
  <2>1. Engine!NeedThread <=> O!NeedThread
    BY SameCount DEF Engine!NeedThread, O!NeedThread
  <2>2. Engine!Throws(c) <=> O!Throws(c)
    BY DEF Engine!Throws, O!Throws
  <2>3. Engine!Notified(tpc) = O!Notified(tpc)
    BY DEF Engine!Notified, O!Notified
  <2>4. Engine!Offload(c) <=> O!Offload(c)
    BY <2>1, <2>2, <2>3 DEF Engine!Offload, O!Offload, Engine!Pushed, O!Pushed
  <2>5. Engine!Wake(stage, {c}) = O!Wake(stage, {c})
    BY DEF Engine!Wake, O!Wake
  <2>6. Engine!Return1(c) <=> O!Return1(c)
    BY <2>2 DEF Engine!Return1, O!Return1, Engine!Resumable, O!Resumable
  <2>7. Engine!Signalled(c) <=> O!Signalled(c)
    BY <2>5 DEF Engine!Signalled, O!Signalled
  <2>8. (Engine!WakeElsewhere(c) <=> O!WakeElsewhere(c)) /\ (Engine!Doze(c) <=> O!Doze(c))
    BY <2>2 DEF Engine!WakeElsewhere, O!WakeElsewhere, Engine!Return, O!Return, Engine!Thrown, O!Thrown,
           Engine!Resumable, O!Resumable, Engine!Doze, O!Doze, Engine!Suspend, O!Suspend,
           Engine!ole, O!ole
  <2>9. (Engine!Interrupt(c) <=> O!Interrupt(c)) /\ (Engine!Notify(c) <=> O!Notify(c))
    BY <2>5 DEF Engine!Interrupt, O!Interrupt, Engine!Request, O!Request, Engine!Notify, O!Notify,
           Engine!Rouse, O!Rouse, Engine!ole, O!ole
  <2>10. QED BY <2>4, <2>6, <2>7, <2>8, <2>9
<1>4. ASSUME NEW t \in Threads
      PROVE  /\ Engine!Enter(t) <=> O!Enter(t)
             /\ Engine!Stop(t) <=> O!Stop(t)
             /\ Engine!Claim(t) <=> O!Claim(t)
             /\ Engine!Func(t) <=> O!Func(t)
             /\ Engine!worker_remove(t) <=> O!worker_remove(t)
  <2>1. Engine!Notified(tpc) = O!Notified(tpc)
    BY DEF Engine!Notified, O!Notified
  <2>2. \A x : Engine!Goes(t, x) <=> O!Goes(t, x)
    BY DEF Engine!Goes, O!Goes
  <2>3. \A w : Engine!Popped(t, w) <=> O!Popped(t, w)
    BY <2>2 DEF Engine!Popped, O!Popped
  <2>4. (Engine!Enter(t) <=> O!Enter(t)) /\ (Engine!Claim(t) <=> O!Claim(t))
    BY <2>3 DEF Engine!Enter, O!Enter, Engine!Claim, O!Claim, Engine!Main, O!Main
  <2>5. (Engine!Stop(t) <=> O!Stop(t)) /\ (Engine!Func(t) <=> O!Func(t))
    BY <2>2 DEF Engine!Stop, O!Stop, Engine!Func, O!Func, Engine!Main, O!Main
  <2>6. Engine!worker_remove(t) <=> O!worker_remove(t)
    BY <2>1 DEF Engine!worker_remove, O!worker_remove, Engine!Main, O!Main
  <2>7. QED BY <2>4, <2>5, <2>6
<1>5. /\ Engine!Shutdown <=> O!Shutdown
      /\ Engine!Over <=> O!Over
      /\ Engine!Restart <=> O!Restart
  <2>1. Engine!Notified(tpc) = O!Notified(tpc)
    BY DEF Engine!Notified, O!Notified
  <2>2. QED BY <2>1 DEF Engine!Shutdown, O!Shutdown, Engine!Over, O!Over, Engine!Restart, O!Restart,
             Engine!sched, O!sched
<1>6. Engine!Next <=> O!Next
  BY <1>3, <1>4, <1>5 DEF Engine!Next, O!Next
<1>7. QED BY <1>1, <1>2, <1>6

LEMMA EngineStarts ==
  ASSUME O!Init
  PROVE  O!IInv
<1>1. Engine!ThreadMax
  BY ThreadAssumption, SameFinite DEF Engine!ThreadMax
<1>2. Engine!ThreadMax /\ Engine!Init => Engine!IInv
  BY Engine!InitIInv, NoneAssumption
<1>3. QED BY <1>1, <1>2, SameEngine, SameInvariant

LEMMA EngineSteps == O!IInv /\ [O!Next]_O!vars => O!IInv'
<1>1. Engine!ThreadMax
  BY ThreadAssumption, SameFinite DEF Engine!ThreadMax
<1>2. Engine!ThreadMax /\ Engine!IInv /\ [Engine!Next]_Engine!vars => Engine!IInv'
  BY Engine!NextIInv, NoneAssumption
<1>3. (Engine!IInv <=> O!IInv)'
  BY SameInvariant, PTL
<1>4. [O!Next]_O!vars => [Engine!Next]_Engine!vars
  <2>1. O!Next => Engine!Next
    BY SameEngine
  <2>2. UNCHANGED O!vars => UNCHANGED Engine!vars
    BY DEF Engine!vars, O!vars, Engine!sched, O!sched, Engine!ole, O!ole
  <2>3. QED BY <2>1, <2>2
<1>5. QED BY <1>1, <1>2, <1>3, <1>4, SameInvariant

\* The invariant of the engine (OleProofs.tla) where the contexts have the engine to wait in.
LEMMA EngineKeeps == McSpec => [](which = "ole" => O!IInv)
<1> DEFINE Inv == which = "ole" => O!IInv
<1>1. McInit => Inv
  BY EngineStarts DEF McInit
<1>2. Inv /\ [McNext]_<<which, place, vars, condvar, run, ole, when, handlers>> => Inv'
  <2> SUFFICES ASSUME Inv, [McNext]_<<which, place, vars, condvar, run, ole, when, handlers>>,
                      which' = "ole"
               PROVE  O!IInv'
    OBVIOUS
  <2>1. which = "ole" /\ [O!Next]_O!vars
    BY DEF McNext, vars, ole, O!vars, O!sched, O!ole
  <2>2. O!IInv
    BY <2>1
  <2> HIDE DEF Inv
  <2>3. QED BY <2>1, <2>2, EngineSteps
<1>3. QED BY <1>1, <1>2, PTL DEF McSpec

\* A context stays in its wait, its frame with it, while a thread may still touch what the
\* function refers to: no interruption and no shutdown gets it out.
THEOREM FramesOutlive == McSpec => []FrameOutlivesFunction
<1>1. (which = "ole" => O!IInv) => FrameOutlivesFunction
  BY DEF O!IInv, FrameOutlivesFunction
<1>2. McSpec => [](which = "ole" => O!IInv)
  BY EngineKeeps
<1>3. QED BY <1>1, <1>2, PTL

\* Nobody waits for a function that no thread will come to: a queued one finds a thread
\* awake, in whatever order pushes, pops and the count of the working threads interleave,
\* unless the engine was told to end.
THEOREM NobodyStranded == McSpec => []NoStrandedContext
<1>1. (which = "ole" => O!IInv) => NoStrandedContext
  BY Engine!ServedUnlessEnded, NoneAssumption, SameInvariant DEF NoStrandedContext
<1>2. McSpec => [](which = "ole" => O!IInv)
  BY EngineKeeps
<1>3. QED BY <1>1, <1>2, PTL

-----------------------------------------------------------------------------
(* Collections of futures *)

LEMMA WhenStarts == W!Init => W!IInv
<1> SUFFICES ASSUME W!Init PROVE W!IInv
  OBVIOUS
<1>1. W!TypeOK
  BY DEF W!Init, W!TypeOK, W!Ends
<1>2. W!ClosuresWait /\ W!CallsHold /\ W!Marked
  BY WhenAssumption DEF W!Init, W!ClosuresWait, W!CallsHold, W!Marked
<1>3. W!IndicatedOnce /\ W!AllMeansAll /\ W!NoOrphan
  BY WhenAssumption DEF W!Init, W!IndicatedOnce, W!AllMeansAll, W!NoOrphan
<1>4. QED BY <1>1, <1>2, <1>3 DEF W!IInv

\* when_any() over a collection with a source that is ready takes it.
LEMMA TakesReady ==
  ASSUME W!IInv, NEW c \in Calls, NEW S \in SUBSET Sources, W!when_any_ready(c, S)
  PROVE  W!IInv'
<1> USE WhenAssumption DEF W!IInv, W!TypeOK, W!Ends
<1>1. PICK f \in Sources : /\ st[f] = "READY" /\ st' = [st EXCEPT ![f] = "OBSERVED"]
                           /\ ret' = [ret EXCEPT ![c] = f]
  BY DEF W!when_any_ready
<1>2. kind[c] = "none" /\ kind' = [kind EXCEPT ![c] = "any"] /\ UNCHANGED <<then, among>>
  BY DEF W!when_any_ready, W!Made
<1>3. /\ \A g \in Sources : st'[g] = IF g = f THEN "OBSERVED" ELSE st[g]
      /\ \A e \in Calls : ret'[e] = IF e = c THEN f ELSE ret[e]
      /\ \A e \in Calls : kind'[e] = IF e = c THEN "any" ELSE kind[e]
  BY <1>1, <1>2
<1>4. W!TypeOK'
  BY <1>1, <1>2
<1>5. W!ClosuresWait'
  BY <1>1, <1>2, <1>3 DEF W!ClosuresWait
<1>6. W!CallsHold' /\ W!Marked' /\ W!IndicatedOnce'
  BY <1>1, <1>2, <1>3 DEF W!CallsHold, W!Marked, W!IndicatedOnce
<1>7. W!AllMeansAll' /\ W!NoOrphan'
  BY <1>1, <1>2, <1>3 DEF W!AllMeansAll, W!NoOrphan, W!Pending
<1>8. QED BY <1>4, <1>5, <1>6, <1>7

\* when_any() and when_all() leave closures in the pending sources of S.
LEMMA Registers ==
  ASSUME W!IInv, NEW c \in Calls, NEW S \in SUBSET Sources, NEW k \in {"any", "all"},
         NEW none \in {"last", "void"}, W!Made(c, k, S), W!Register(c, S, none)
  PROVE  W!IInv'
<1> USE WhenAssumption DEF W!IInv, W!TypeOK, W!Ends
<1> DEFINE P == W!Pending(S)
<1>1. /\ kind[c] = "none" /\ ret[c] = "none" /\ among[c] = {}
      /\ kind' = [kind EXCEPT ![c] = k] /\ among' = [among EXCEPT ![c] = P] /\ st' = st
      /\ \A f \in P : then[f] # "none" => ret[then[f]] # "pending"
  BY DEF W!Made, W!Register, W!Left, W!CallsHold
<1>2. P \in SUBSET Sources /\ \A f \in P : f \in Sources /\ st[f] = "PENDING"
  BY DEF W!Pending
<1>3. \A f \in Sources : then'[f] = IF f \in P THEN c ELSE then[f]
  BY DEF W!Register, W!Closed
<1>4. \A e \in Calls :
        ret'[e] = IF e = c THEN IF P = {} THEN none ELSE "pending"
                  ELSE IF ret[e] = "pending" /\ W!Copies(then', e) = {} THEN "broken" ELSE ret[e]
  <2>1. P # {} => W!Copies(then', c) # {}
    BY <1>2, <1>3 DEF W!Copies
  <2>2. QED BY <2>1 DEF W!Register, W!After
<1>5. /\ \A e \in Calls : kind'[e] = IF e = c THEN k ELSE kind[e]
      /\ \A e \in Calls : among'[e] = IF e = c THEN P ELSE among[e]
  BY <1>1
<1>6. then' \in [Sources -> Calls \cup {"none"}] /\ ret' \in [Calls -> Sources \cup W!Ends \cup {"none", "pending"}]
  <2>1. ret' = [e \in Calls |-> ret'[e]] /\ then' = [f \in Sources |-> then'[f]]
    BY DEF W!Register, W!Closed, W!After
  <2>2. QED BY <1>3, <1>4, <2>1
<1> HIDE DEF P
<1>7. W!TypeOK'
  BY <1>1, <1>2, <1>6
<1>8. W!ClosuresWait'
  BY <1>1, <1>2, <1>3, <1>5 DEF W!ClosuresWait
<1>9. W!CallsHold'
  BY <1>1, <1>2, <1>3, <1>4, <1>5 DEF W!CallsHold, W!ClosuresWait
<1>10. W!Marked' /\ W!IndicatedOnce'
  BY <1>1, <1>4 DEF W!Marked, W!IndicatedOnce
<1>11. W!AllMeansAll'
  BY <1>1, <1>2, <1>4, <1>5 DEF W!AllMeansAll, W!Pending
<1>12. W!NoOrphan'
  <2> SUFFICES ASSUME NEW e \in Calls, ret'[e] = "pending"
               PROVE  /\ \E f \in among'[e] : st'[f] = "PENDING" /\ then'[f] = e
                      /\ kind'[e] = "any" => \A f \in among'[e] : st'[f] \in {"PENDING", "destroyed"}
    BY DEF W!NoOrphan
  <2>1. CASE e = c
    <3>1. P # {}
      BY <1>4, <2>1
    <3>2. QED BY <1>1, <1>2, <1>3, <1>5, <2>1, <3>1
  <2>2. CASE e # c
    <3>1. ret[e] = "pending" /\ W!Copies(then', e) # {}
      BY <1>4, <2>2
    <3>2. PICK f \in Sources : then'[f] = e
      BY <3>1 DEF W!Copies
    <3>3. then[f] = e /\ f \in among[e] /\ st[f] = "PENDING"
      BY <1>3, <2>2, <3>2 DEF W!ClosuresWait
    <3>4. QED BY <1>1, <1>5, <2>2, <3>1, <3>2, <3>3 DEF W!NoOrphan
  <2>3. QED BY <2>1, <2>2
<1>13. QED BY <1>7, <1>8, <1>9, <1>10, <1>11, <1>12

\* A source becomes ready: the closure in it, when it has one, runs and is gone.
LEMMA Resolves ==
  ASSUME W!IInv, NEW f \in Sources, W!Resolve(f)
  PROVE  W!IInv'
<1> USE WhenAssumption DEF W!IInv, W!TypeOK, W!Ends
<1>1. /\ st[f] = "PENDING" /\ then' = [then EXCEPT ![f] = "none"] /\ UNCHANGED <<kind, among>>
      /\ \A g \in Sources : then'[g] = IF g = f THEN "none" ELSE then[g]
  BY DEF W!Resolve
<1>2. /\ st' \in [Sources -> {"PENDING", "READY", "OBSERVED", "RETRIEVED", "destroyed"}]
      /\ \A g \in Sources : g # f => st'[g] = st[g]
      /\ st'[f] \in {"READY", "OBSERVED"}
  BY DEF W!Resolve, W!any_then, W!all_then
<1>3. ret' \in [Calls -> Sources \cup W!Ends \cup {"none", "pending"}]
  BY DEF W!Resolve, W!any_then, W!all_then
<1>4. \A e \in Calls : ret'[e] # ret[e] =>
        /\ then[f] = e /\ ret[e] = "pending"
        /\ \/ kind[e] = "any" /\ ret'[e] = f /\ st'[f] = "OBSERVED"
           \/ ret'[e] = "void" /\ W!Copies(then, e) = {f}
  BY DEF W!Resolve, W!any_then, W!all_then
<1>5. W!TypeOK'
  BY <1>1, <1>2, <1>3
<1>6. W!ClosuresWait'
  BY <1>1, <1>2 DEF W!ClosuresWait
<1>7. W!CallsHold'
  BY <1>1, <1>2, <1>4 DEF W!CallsHold
<1>8. W!Marked' /\ W!IndicatedOnce'
  BY <1>1, <1>2, <1>4 DEF W!Marked, W!IndicatedOnce
<1>9. W!AllMeansAll'
  <2> SUFFICES ASSUME NEW c \in Calls, ret'[c] = "void", NEW g \in among[c], st'[g] = "PENDING"
               PROVE  FALSE
    BY <1>1 DEF W!AllMeansAll, W!Pending
  <2>1. g # f /\ st[g] = "PENDING" /\ g \in Sources
    BY <1>2
  <2>2. ret[c] # "void"
    BY <2>1 DEF W!AllMeansAll, W!Pending
  <2>3. ret[c] = "pending" /\ W!Copies(then, c) = {f}
    BY <1>4, <2>2
  <2>4. then[g] = c
    BY <2>1, <2>3 DEF W!CallsHold
  <2>5. QED BY <2>1, <2>3, <2>4 DEF W!Copies
<1>10. W!NoOrphan'
  <2> SUFFICES ASSUME NEW e \in Calls, ret'[e] = "pending"
               PROVE  /\ \E g \in among[e] : st'[g] = "PENDING" /\ then'[g] = e
                      /\ kind[e] = "any" => \A g \in among[e] : st'[g] \in {"PENDING", "destroyed"}
    BY <1>1 DEF W!NoOrphan
  <2>1. ret[e] = "pending"
    BY <1>4
  <2>2. PICK h \in among[e] : st[h] = "PENDING" /\ then[h] = e
    BY <2>1 DEF W!NoOrphan
  <2>3. CASE then[f] # e
    <3>1. f \notin among[e]
      BY <1>1, <2>1, <2>3 DEF W!CallsHold
    <3>2. QED BY <1>1, <1>2, <2>1, <2>2, <2>3, <3>1 DEF W!NoOrphan
  <2>4. CASE then[f] = e
    <3>1. kind[e] # "any" /\ W!Copies(then, e) # {f}
      BY <1>1, <2>1, <2>4 DEF W!Resolve, W!any_then, W!all_then
    <3>2. f \in W!Copies(then, e)
      BY <2>4 DEF W!Copies
    <3>3. PICK g \in W!Copies(then, e) : g # f
      BY <3>1, <3>2
    <3>4. g \in Sources /\ then[g] = e
      BY <3>3 DEF W!Copies
    <3>5. g \in among[e] /\ st[g] = "PENDING"
      BY <3>4 DEF W!ClosuresWait
    <3>6. QED BY <1>1, <1>2, <3>1, <3>3, <3>4, <3>5
  <2>5. QED BY <2>3, <2>4
<1>11. QED BY <1>5, <1>6, <1>7, <1>8, <1>9, <1>10

LEMMA Gets ==
  ASSUME W!IInv, NEW f \in Sources, W!Get(f)
  PROVE  W!IInv'
<1> USE WhenAssumption DEF W!IInv, W!TypeOK, W!Ends
<1>1. /\ st[f] \in {"READY", "OBSERVED"} /\ st' = [st EXCEPT ![f] = "RETRIEVED"]
      /\ UNCHANGED <<then, kind, among, ret>>
      /\ \A g \in Sources : st'[g] = IF g = f THEN "RETRIEVED" ELSE st[g]
  BY DEF W!Get
<1>2. W!TypeOK' /\ W!ClosuresWait' /\ W!CallsHold' /\ W!Marked' /\ W!IndicatedOnce'
  BY <1>1 DEF W!ClosuresWait, W!CallsHold, W!Marked, W!IndicatedOnce
<1>3. W!AllMeansAll' /\ W!NoOrphan'
  BY <1>1 DEF W!AllMeansAll, W!NoOrphan, W!Pending
<1>4. QED BY <1>2, <1>3

\* A source goes, and the closure in it.
LEMMA Destroys ==
  ASSUME W!IInv, NEW f \in Sources, W!Destroy(f)
  PROVE  W!IInv'
<1> USE WhenAssumption DEF W!IInv, W!TypeOK, W!Ends
<1>1. /\ st' = [st EXCEPT ![f] = "destroyed"] /\ then' = [then EXCEPT ![f] = "none"]
      /\ UNCHANGED <<kind, among>>
      /\ \A g \in Sources : st'[g] = IF g = f THEN "destroyed" ELSE st[g]
      /\ \A g \in Sources : then'[g] = IF g = f THEN "none" ELSE then[g]
  BY DEF W!Destroy
<1>2. \A e \in Calls :
        ret'[e] = IF ret[e] = "pending" /\ W!Copies(then', e) = {} THEN "broken" ELSE ret[e]
  BY DEF W!Destroy, W!After
<1>3. ret' \in [Calls -> Sources \cup W!Ends \cup {"none", "pending"}]
  BY <1>2 DEF W!Destroy, W!After
<1>4. W!TypeOK' /\ W!ClosuresWait'
  BY <1>1, <1>3 DEF W!ClosuresWait
<1>5. W!CallsHold' /\ W!Marked' /\ W!IndicatedOnce'
  BY <1>1, <1>2 DEF W!CallsHold, W!Marked, W!IndicatedOnce
<1>6. W!AllMeansAll'
  BY <1>1, <1>2 DEF W!AllMeansAll, W!Pending
<1>7. W!NoOrphan'
  <2> SUFFICES ASSUME NEW e \in Calls, ret'[e] = "pending"
               PROVE  /\ \E g \in among[e] : st'[g] = "PENDING" /\ then'[g] = e
                      /\ kind[e] = "any" => \A g \in among[e] : st'[g] \in {"PENDING", "destroyed"}
    BY <1>1 DEF W!NoOrphan
  <2>1. ret[e] = "pending" /\ W!Copies(then', e) # {}
    BY <1>2
  <2>2. PICK g \in Sources : then'[g] = e
    BY <2>1 DEF W!Copies
  <2>3. g # f /\ then[g] = e /\ g \in among[e] /\ st'[g] = "PENDING"
    BY <1>1, <2>2 DEF W!ClosuresWait
  <2>4. QED BY <1>1, <2>1, <2>2, <2>3 DEF W!NoOrphan
<1>8. QED BY <1>4, <1>5, <1>6, <1>7

LEMMA Drops ==
  ASSUME W!IInv, NEW c \in Calls, W!DropReturned(c)
  PROVE  W!IInv'
<1> USE WhenAssumption DEF W!IInv, W!TypeOK, W!Ends
<1>1. /\ ret[c] \notin {"none", "dropped"} /\ ret' = [ret EXCEPT ![c] = "dropped"]
      /\ UNCHANGED <<st, then, kind, among>>
      /\ \A e \in Calls : ret'[e] = IF e = c THEN "dropped" ELSE ret[e]
  BY DEF W!DropReturned
<1>2. W!TypeOK' /\ W!ClosuresWait' /\ W!CallsHold' /\ W!Marked' /\ W!IndicatedOnce'
  BY <1>1 DEF W!ClosuresWait, W!CallsHold, W!Marked, W!IndicatedOnce
<1>3. W!AllMeansAll' /\ W!NoOrphan'
  BY <1>1 DEF W!AllMeansAll, W!NoOrphan, W!Pending
<1>4. QED BY <1>2, <1>3

\* A place of the collection gets a new future.
LEMMA Renews ==
  ASSUME W!IInv, NEW f \in Sources, W!Renew(f)
  PROVE  W!IInv'
<1> USE WhenAssumption DEF W!IInv, W!TypeOK, W!Ends
<1>1. /\ st[f] \in {"RETRIEVED", "destroyed"} /\ then[f] = "none"
      /\ \A c \in Calls : f \notin among[c] \/ ret[c] # "pending"
      /\ \A c \in Calls : ret[c] # f
      /\ st' = [st EXCEPT ![f] = "PENDING"] /\ UNCHANGED <<then, kind, ret>>
      /\ \A g \in Sources : st'[g] = IF g = f THEN "PENDING" ELSE st[g]
      /\ among' \in [Calls -> SUBSET Sources]
      /\ \A c \in Calls : among'[c] = among[c] \ {f}
  BY DEF W!Renew, W!ClosuresWait
<1>2. W!TypeOK' /\ W!ClosuresWait'
  BY <1>1 DEF W!ClosuresWait
<1>3. W!CallsHold' /\ W!Marked' /\ W!IndicatedOnce'
  BY <1>1 DEF W!CallsHold, W!Marked, W!IndicatedOnce
<1>4. W!AllMeansAll' /\ W!NoOrphan'
  BY <1>1 DEF W!AllMeansAll, W!NoOrphan, W!Pending
<1>5. QED BY <1>2, <1>3, <1>4

LEMMA WhenSteps == W!IInv /\ [W!Next]_W!vars => W!IInv'
<1> SUFFICES ASSUME W!IInv, [W!Next]_W!vars PROVE W!IInv'
  OBVIOUS
<1>1. CASE UNCHANGED W!vars
  <2>1. UNCHANGED <<st, then, kind, among, ret>>
    BY <1>1 DEF W!vars
  <2>2. W!TypeOK' /\ W!ClosuresWait' /\ W!CallsHold' /\ W!Marked'
    BY <2>1 DEF W!IInv, W!TypeOK, W!ClosuresWait, W!CallsHold, W!Marked
  <2>3. W!IndicatedOnce' /\ W!AllMeansAll' /\ W!NoOrphan'
    BY <2>1 DEF W!IInv, W!IndicatedOnce, W!AllMeansAll, W!NoOrphan, W!Pending
  <2>4. QED BY <2>2, <2>3 DEF W!IInv
<1>2. ASSUME NEW c \in Calls, NEW S \in SUBSET Sources, W!when_any(c, S) \/ W!when_all(c, S)
      PROVE  W!IInv'
  BY <1>2, Registers DEF W!when_any, W!when_all
<1>3. ASSUME NEW c \in Calls, NEW S \in SUBSET Sources, W!when_any_ready(c, S)
      PROVE  W!IInv'
  BY <1>3, TakesReady
<1>4. ASSUME NEW c \in Calls, W!DropReturned(c) PROVE W!IInv'
  BY <1>4, Drops
<1>5. ASSUME NEW f \in Sources, W!Resolve(f) \/ W!Get(f) \/ W!Destroy(f) \/ W!Renew(f)
      PROVE  W!IInv'
  BY <1>5, Resolves, Gets, Destroys, Renews
<1>6. QED BY <1>1, <1>2, <1>3, <1>4, <1>5 DEF W!Next

\* The invariant of the collections where they are what runs.
LEMMA WhenKeeps == McSpec => [](which = "when" => W!IInv)
<1> DEFINE Inv == which = "when" => W!IInv
<1>1. McInit => Inv
  BY WhenStarts DEF McInit
<1>2. Inv /\ [McNext]_<<which, place, vars, condvar, run, ole, when, handlers>> => Inv'
  <2> SUFFICES ASSUME Inv, [McNext]_<<which, place, vars, condvar, run, ole, when, handlers>>,
                      which' = "when"
               PROVE  W!IInv'
    OBVIOUS
  <2>1. which = "when" /\ [W!Next]_W!vars
    BY DEF McNext, when, W!vars
  <2>2. W!IInv
    BY <2>1
  <2> HIDE DEF Inv
  <2>3. QED BY <2>1, <2>2, WhenSteps
<1>3. QED BY <1>1, <1>2, PTL DEF McSpec

\* when_any() indicates a future once, when_all() becomes ready with the last of its
\* collection and not before, and a returned future that is pending has a closure to
\* come from, as long as no call is made over a pending future another call waits for.
THEOREM CollectionsAlwaysAgree == McSpec => []CollectionsAgree
<1>1. (which = "when" => W!IInv) => CollectionsAgree
  BY DEF W!IInv, CollectionsAgree
<1>2. QED BY <1>1, WhenKeeps, PTL

-----------------------------------------------------------------------------
(* The handlers of a run level *)

LEMMA HandlersSame ==
  /\ \A s : H!ToSet(s) = ToSet(s)
  /\ \A s, c : H!Without(s, c) = Without(s, c)
  /\ \A s : H!IsInjective(s) <=> \A i, j \in DOMAIN s : s[i] = s[j] => i = j
<1>1. \A s : H!ToSet(s) = ToSet(s)
  BY DEF H!ToSet, ToSet
<1>2. \A s, i : H!RemoveAt(s, i) = RemoveAt(s, i)
  BY DEF H!RemoveAt, RemoveAt
<1>3. \A s, c : H!Without(s, c) = Without(s, c)
  BY <1>2 DEF H!Without, Without
<1>4. \A s : H!IsInjective(s) <=> \A i, j \in DOMAIN s : s[i] = s[j] => i = j
  BY DEF H!IsInjective
<1>5. QED BY <1>1, <1>3, <1>4

\* The iterator stands on the one place of its instance, and those up to it were called.
Stands(s, a, t) == \E i \in 1..Len(s) : s[i] = a /\ t = {s[j] : j \in 1..i}

LEMMA IteratorStands ==
  H!TypeOK => (H!IteratorLives <=> (H!Changes => Stands(list, at, told)))
<1> SUFFICES ASSUME H!TypeOK, H!Changes
             PROVE  H!IteratorLives <=> Stands(list, at, told)
  BY DEF H!IteratorLives
<1> DEFINE i == CHOOSE i \in DOMAIN list : list[i] = at
<1>1. /\ list \in Seq(Ctxs) /\ DOMAIN list = 1..Len(list)
      /\ \A j, k \in DOMAIN list : list[j] = list[k] => j = k
  BY HandlersSame, LenProperties DEF H!TypeOK
<1>2. at \in ToSet(list) <=> \E j \in 1..Len(list) : list[j] = at
  BY <1>1 DEF ToSet
<1>3. \A k \in 1..Len(list) : list[k] = at => i = k
  BY <1>1
<1>4. H!IteratorLives <=> at \in ToSet(list) /\ told = {list[j] : j \in 1..i}
  BY HandlersSame DEF H!IteratorLives
<1> HIDE DEF i
<1>5. QED BY <1>2, <1>3, <1>4 DEF Stands

LEMMA Registered ==
  ASSUME H!IInv, NEW h \in Ctxs, H!Register(h)
  PROVE  H!IInv'
<1>1. /\ h \notin ToSet(list) /\ list' = Append(list, h)
      /\ UNCHANGED <<rung, chased, single, at, told, from, ended>>
      /\ list \in Seq(Ctxs) /\ \A i, j \in DOMAIN list : list[i] = list[j] => i = j
  BY HandlersSame DEF H!Register, H!IInv, H!TypeOK
<1>2. /\ list' \in Seq(Ctxs) /\ ToSet(list') = ToSet(list) \cup {h}
      /\ \A i, j \in DOMAIN list' : list'[i] = list'[j] => i = j
  BY <1>1, AppendElements
<1>3. H!TypeOK'
  BY <1>1, <1>2, HandlersSame DEF H!IInv, H!TypeOK
<1>4. Stands(list, at, told) => Stands(list', at', told')
  <2>1. /\ Len(list) \in Nat /\ Len(list') = Len(list) + 1
        /\ \A j \in 1..Len(list) : list'[j] = list[j]
    BY <1>1, LenProperties, AppendProperties
  <2>2. SUFFICES ASSUME NEW i \in 1..Len(list), list[i] = at, told = {list[j] : j \in 1..i}
                 PROVE  i \in 1..Len(list') /\ list'[i] = at /\ told = {list'[j] : j \in 1..i}
    BY <1>1 DEF Stands
  <2>3. \A j \in 1..i : j \in 1..Len(list)
    BY <2>1
  <2>4. i \in 1..Len(list')
    BY <2>1
  <2>5. QED BY <2>1, <2>2, <2>3, <2>4
<1>5. H!Changes' <=> H!Changes
  BY <1>1 DEF H!Changes
<1>6. H!IteratorLives'
  <2>1. (H!TypeOK => (H!IteratorLives <=> (H!Changes => Stands(list, at, told))))'
    BY IteratorStands, PTL
  <2>2. QED BY <1>3, <1>4, <1>5, <2>1, IteratorStands DEF H!IInv
<1>7. H!Changes' => from' \subseteq H!ToSet(list')
  BY <1>1, <1>2, <1>5, HandlersSame DEF H!IInv
<1>8. QED BY <1>3, <1>6, <1>7, HandlersSame DEF H!IInv, H!ToSet

\* An instance goes: not the one that is called, and those in front stay in front.
LEMMA Deregisters ==
  ASSUME H!IInv, NEW h \in Ctxs, H!Deregister(h)
  PROVE  H!IInv'
<1>1. /\ h \in ToSet(list) /\ h # at /\ list' = Without(list, h)
      /\ told' = told \ {h} /\ from' = from \ {h} /\ UNCHANGED <<rung, chased, single, at, ended>>
      /\ list \in Seq(Ctxs) /\ \A i, j \in DOMAIN list : list[i] = list[j] => i = j
  BY HandlersSame DEF H!Deregister, H!IInv, H!TypeOK
<1>2. /\ list' \in Seq(Ctxs) /\ ToSet(list') = ToSet(list) \ {h}
      /\ \A i, j \in DOMAIN list' : list'[i] = list'[j] => i = j
  BY <1>1, WithoutElements
<1>3. H!TypeOK'
  BY <1>1, <1>2, HandlersSame DEF H!IInv, H!TypeOK
<1>4. Stands(list, at, told) => Stands(list', at', told')
  <2> DEFINE k == CHOOSE k \in DOMAIN list : list[k] = h
  <2>1. Len(list) \in Nat /\ DOMAIN list = 1..Len(list)
    BY <1>1, LenProperties
  <2>2. k \in 1..Len(list) /\ list[k] = h /\ list' = RemoveAt(list, k)
    <3>1. \E j \in DOMAIN list : list[j] = h
      BY <1>1 DEF ToSet
    <3>2. QED BY <1>1, <2>1, <3>1 DEF Without
  <2> HIDE DEF k
  <2>3. /\ Len(list') = Len(list) - 1
        /\ \A j \in 1..(Len(list) - 1) : list'[j] = IF j < k THEN list[j] ELSE list[j + 1]
    BY <1>1, <2>2, RemoveAtElements
  <2>4. ASSUME NEW i \in 1..Len(list), list[i] = at, told = {list[j] : j \in 1..i}
        PROVE  Stands(list', at', told')
    <3> DEFINE new == IF k < i THEN i - 1 ELSE i
    <3>1. k # i
      BY <1>1, <2>2, <2>4
    <3>2. new \in 1..(Len(list) - 1) /\ list'[new] = at
      <4>1. new \in 1..(Len(list) - 1) /\ (new < k => new = i) /\ (~(new < k) => new + 1 = i)
        BY ONLY <2>1, <2>2, <2>4, <3>1
      <4>2. QED BY <2>3, <2>4, <4>1
    <3>3. ASSUME NEW j \in 1..new PROVE list'[j] \in told \ {h}
      <4>1. /\ j \in 1..(Len(list) - 1)
            /\ j < k => j \in 1..i
            /\ ~(j < k) => j + 1 \in 1..i /\ j + 1 # k /\ j + 1 \in 1..Len(list)
        BY ONLY <2>1, <2>2, <2>4, <3>1, <3>3
      <4>2. CASE j < k
        <5>1. list'[j] = list[j] /\ j # k /\ j \in 1..Len(list)
          BY <2>1, <2>2, <2>3, <4>1, <4>2
        <5>2. list[j] # h
          BY <1>1, <2>1, <2>2, <5>1
        <5>3. QED BY <2>4, <4>1, <4>2, <5>1, <5>2
      <4>3. CASE ~(j < k)
        <5>1. list'[j] = list[j + 1]
          BY <2>3, <4>1, <4>3
        <5>2. list[j + 1] # h
          BY <1>1, <2>1, <2>2, <4>1, <4>3
        <5>3. QED BY <2>4, <4>1, <4>3, <5>1, <5>2
      <4>4. QED BY <4>2, <4>3
    <3>4. ASSUME NEW j \in 1..i, list[j] # h PROVE \E e \in 1..new : list'[e] = list[j]
      <4> DEFINE e == IF k < j THEN j - 1 ELSE j
      <4>1. j # k
        BY <2>2, <3>4
      <4>2. e \in 1..new /\ e \in 1..(Len(list) - 1) /\ (e < k => e = j) /\ (~(e < k) => e + 1 = j)
        BY ONLY <2>1, <2>2, <2>4, <3>1, <3>4, <4>1
      <4> HIDE DEF e, new
      <4>3. list'[e] = list[j]
        BY <2>3, <4>2
      <4>4. QED BY <4>2, <4>3
    <3> HIDE DEF new
    <3>5. told' = {list'[j] : j \in 1..new}
      BY <1>1, <2>4, <3>3, <3>4
    <3>6. new \in 1..Len(list')
      BY <2>3, <3>2
    <3>7. QED BY <1>1, <3>2, <3>5, <3>6 DEF Stands
  <2>5. QED BY <2>4 DEF Stands
<1>5. H!Changes' <=> H!Changes
  BY <1>1 DEF H!Changes
<1>6. H!IteratorLives'
  <2>1. (H!TypeOK => (H!IteratorLives <=> (H!Changes => Stands(list, at, told))))'
    BY IteratorStands, PTL
  <2>2. QED BY <1>3, <1>4, <1>5, <2>1, IteratorStands DEF H!IInv
<1>7. H!Changes' => from' \subseteq H!ToSet(list')
  BY <1>1, <1>2, <1>5, HandlersSame DEF H!IInv
<1>8. QED BY <1>3, <1>6, <1>7, HandlersSame DEF H!IInv, H!ToSet

\* The next handler is called, who was not called before, or the transition is over, and
\* then all that were registered throughout have been called.
LEMMA Advances ==
  ASSUME H!IInv, H!Changes, H!NextIn(at), UNCHANGED <<rung, list, single>>,
         ended' \in {"none", "returned", "failed", "terminated"}
  PROVE  H!IInv' /\ (chased' = rung => from \subseteq told) /\ (H!Changes' => at' \notin told)
<1> DEFINE i == CHOOSE i \in DOMAIN list : list[i] = at
<1>1. /\ list \in Seq(Ctxs) /\ DOMAIN list = 1..Len(list) /\ Len(list) \in Nat
      /\ \A j, k \in DOMAIN list : list[j] = list[k] => j = k
      /\ rung \in H!Levels /\ chased \in H!Levels /\ rung # chased
      /\ single \in [Ctxs -> H!Levels \cup {"all"}]
      /\ at \in Ctxs \cup {None} /\ told \in SUBSET Ctxs /\ from \in SUBSET Ctxs
      /\ from \subseteq ToSet(list)
  BY HandlersSame, LenProperties DEF H!IInv, H!TypeOK, H!Changes
<1>2. i \in 1..Len(list) /\ list[i] = at /\ told = {list[j] : j \in 1..i}
  <2>1. Stands(list, at, told)
    BY IteratorStands DEF H!IInv
  <2>2. QED BY <1>1, <2>1 DEF Stands
<1>3. CASE i = Len(list) /\ H!Over
  <2>1. /\ chased' = rung /\ at' = None /\ told' = {} /\ from' = {} /\ ~H!Changes'
    BY <1>3 DEF H!Over, H!Changes
  <2>2. H!TypeOK'
    BY <1>1, <2>1 DEF H!IInv, H!TypeOK
  <2>3. from \subseteq told
    BY <1>1, <1>2, <1>3 DEF ToSet
  <2>4. QED BY <2>1, <2>2, <2>3 DEF H!IInv, H!IteratorLives
<1>4. CASE i # Len(list) /\ H!Called(list[i + 1]) /\ UNCHANGED <<chased, from>>
  <2> HIDE DEF i
  <2>0. Len(list) \in Nat /\ i \in 1..Len(list) /\ i # Len(list)
    BY <1>1, <1>2, <1>4
  <2>1. /\ i + 1 \in 1..Len(list) /\ \A j : j \in 1..(i + 1) <=> j \in 1..i \/ j = i + 1
        /\ \A j \in 1..i : j \in 1..Len(list) /\ j # i + 1
    BY ONLY <2>0
  <2>2. list[i + 1] \in Ctxs
    BY <1>1, <2>1, ElementOfSeq
  <2>3. at' = list[i + 1] /\ told' = told \cup {list[i + 1]} /\ chased' = chased /\ from' = from
    BY <1>4 DEF H!Called
  <2>4. H!TypeOK'
    BY <1>1, <2>2, <2>3 DEF H!IInv, H!TypeOK
  <2>5. told' = {list[j] : j \in 1..(i + 1)}
    BY <1>2, <2>1, <2>3
  <2>6. Stands(list', at', told')
    BY <2>1, <2>3, <2>5 DEF Stands
  <2>7. H!IteratorLives'
    <3>1. (H!TypeOK => (H!IteratorLives <=> (H!Changes => Stands(list, at, told))))'
      BY IteratorStands, PTL
    <3>2. QED BY <2>4, <2>6, <3>1
  <2>8. H!IInv'
    BY <1>1, <2>3, <2>4, <2>7, HandlersSame DEF H!IInv, H!ToSet
  <2>9. at' \notin told
    BY <1>1, <1>2, <2>1, <2>3
  <2>10. QED BY <1>1, <2>3, <2>8, <2>9
<1>5. QED BY <1>3, <1>4 DEF H!NextIn

LEMMA Sets ==
  ASSUME H!IInv, NEW new \in H!Levels, H!Set(new)
  PROVE  H!IInv'
<1>1. /\ list \in Seq(Ctxs) /\ DOMAIN list = 1..Len(list) /\ Len(list) \in Nat
      /\ rung \in H!Levels /\ chased \in H!Levels /\ rung' = new
      /\ at \in Ctxs \cup {None} /\ told \in SUBSET Ctxs /\ from \in SUBSET Ctxs
      /\ ended' = "none" /\ UNCHANGED <<list, single>>
  BY LenProperties DEF H!IInv, H!TypeOK, H!Set
<1>2. CASE list = <<>> /\ chased' = new /\ UNCHANGED <<at, told, from>>
  <2>1. H!TypeOK' /\ ~H!Changes'
    BY <1>1, <1>2 DEF H!IInv, H!TypeOK, H!Changes
  <2>2. QED BY <2>1 DEF H!IInv, H!IteratorLives
<1>3. CASE list # <<>> /\ chased' = rung /\ at' = Head(list) /\ told' = {Head(list)} /\ from' = H!ToSet(list)
  <2>1. Head(list) \in Ctxs /\ Head(list) = list[1] /\ 1 \in 1..Len(list)
    BY <1>1, <1>3, HeadElement, EmptySeq
  <2>2. ToSet(list) \in SUBSET Ctxs
    BY <1>1, ElementOfSeq DEF ToSet
  <2>3. H!TypeOK'
    BY <1>1, <1>3, <2>1, <2>2, HandlersSame DEF H!IInv, H!TypeOK
  <2>4. Stands(list', at', told')
    <3>1. told' = {list[j] : j \in 1..1}
      BY <1>3, <2>1
    <3>2. QED BY <1>1, <1>3, <2>1, <3>1 DEF Stands
  <2>5. H!IteratorLives'
    <3>1. (H!TypeOK => (H!IteratorLives <=> (H!Changes => Stands(list, at, told))))'
      BY IteratorStands, PTL
    <3>2. QED BY <2>3, <2>4, <3>1
  <2>6. QED BY <1>1, <1>3, <2>3, <2>5 DEF H!IInv, H!ToSet
<1>4. QED BY <1>2, <1>3 DEF H!Set

\* The transition ends: on the way up by any exception, anywhere by a termination.
LEMMA Ends ==
  ASSUME H!IInv, H!Over, UNCHANGED <<rung, list, single>>,
         ended' \in {"none", "returned", "failed", "terminated"}
  PROVE  H!IInv' /\ ~H!Changes'
<1>1. chased' = rung /\ at' = None /\ told' = {} /\ from' = {}
  BY DEF H!Over
<1>2. H!TypeOK' /\ ~H!Changes'
  BY <1>1 DEF H!IInv, H!TypeOK, H!Changes
<1>3. QED BY <1>2 DEF H!IInv, H!IteratorLives

LEMMA HandlersStart == H!Init => H!IInv
<1> SUFFICES ASSUME H!Init PROVE H!IInv
  OBVIOUS
<1>1. H!TypeOK
  BY HandlersSame DEF H!Init, H!TypeOK, H!Levels
<1>2. QED BY <1>1 DEF H!Init, H!IInv, H!IteratorLives, H!Changes

\* What EveryHandlerCalled says of a step.
AllCalled ==
  /\ H!Changes /\ chased' = rung /\ ~H!CutShort => from \subseteq told
  /\ (H!Returns \/ H!Throws) /\ H!Changes' => at' \notin told

LEMMA HandlersStep ==
  ASSUME H!IInv, [H!Next]_H!vars
  PROVE  H!IInv' /\ AllCalled
<1>1. ASSUME H!Returns \/ H!Throws
      PROVE  /\ H!IInv' /\ (H!Changes' => at' \notin told)
             /\ H!Changes /\ chased' = rung /\ ~H!CutShort => from \subseteq told
  <2>1. UNCHANGED <<rung, list, single>> /\ ended' \in {"returned", "failed"} /\ H!Changes
    BY <1>1 DEF H!Returns, H!Throws
  <2>2. CASE H!NextIn(at)
    BY <2>1, <2>2, Advances
  <2>3. CASE rung \notin H!Down /\ ended' = "failed" /\ H!Over
    BY <2>1, <2>3, Ends DEF H!CutShort
  <2>4. QED BY <1>1, <2>2, <2>3 DEF H!Returns, H!Throws
<1>2. ASSUME UNCHANGED H!vars PROVE H!IInv' /\ (H!Changes => chased' # rung)
  <2>1. UNCHANGED <<rung, chased, list, single, at, told, from, ended>>
    BY <1>2 DEF H!vars
  <2>2. H!IInv'
    BY <2>1 DEF H!IInv, H!TypeOK, H!IteratorLives, H!Changes, H!ToSet, H!IsInjective
  <2>3. QED BY <2>1, <2>2 DEF H!Changes
<1>3. ASSUME NEW h \in Ctxs, H!Register(h) \/ H!Deregister(h)
      PROVE  H!IInv' /\ (H!Changes => chased' # rung)
  BY <1>3, Registered, Deregisters DEF H!Register, H!Deregister, H!Changes
<1>4. ASSUME NEW new \in H!Levels, H!Set(new)
      PROVE  H!IInv' /\ ~H!Changes
  BY <1>4, Sets DEF H!Set
<1>5. ASSUME H!Terminated PROVE H!IInv' /\ H!CutShort
  <2>1. /\ UNCHANGED <<rung, list, single>> /\ H!Over
        /\ ended' = "terminated"
    BY <1>5 DEF H!Terminated
  <2>2. QED BY <2>1, Ends DEF H!CutShort
<1>6. H!IInv'
  BY <1>1, <1>2, <1>3, <1>4, <1>5 DEF H!Next
<1>7. H!Changes /\ chased' = rung /\ ~H!CutShort => from \subseteq told
  BY <1>1, <1>2, <1>3, <1>4, <1>5 DEF H!Next
<1>8. QED BY <1>1, <1>6, <1>7 DEF AllCalled

\* The invariant of the handlers where they are what runs, and the step it gives: all of
\* them were called.
LEMMA HandlersKeep == McSpec => [](which = "handlers" => H!IInv)
<1> DEFINE Inv == which = "handlers" => H!IInv
<1>1. McInit => Inv
  BY HandlersStart DEF McInit
<1>2. Inv /\ [McNext]_<<which, place, vars, condvar, run, ole, when, handlers>> => Inv'
  <2> SUFFICES ASSUME Inv, [McNext]_<<which, place, vars, condvar, run, ole, when, handlers>>,
                      which' = "handlers"
               PROVE  H!IInv'
    OBVIOUS
  <2>1. which = "handlers" /\ [H!Next]_H!vars
    BY DEF McNext, handlers, H!vars
  <2>2. H!IInv
    BY <2>1
  <2> HIDE DEF Inv
  <2>3. QED BY <2>1, <2>2, HandlersStep
<1>3. QED BY <1>1, <1>2, PTL DEF McSpec

\* A transition that neither an exception on the way up nor a termination of its context
\* cuts short is not over before every handler that was registered throughout was called,
\* and none is called twice, whatever came, went and threw.
THEOREM HandlersAllCalled == McSpec => EveryHandlerCalled
<1> DEFINE Inv == which = "handlers" => H!IInv
<1>1. Inv /\ [McNext]_<<which, place, vars, condvar, run, ole, when, handlers>> => [AllCalled]_H!vars
  <2> SUFFICES ASSUME Inv, [McNext]_<<which, place, vars, condvar, run, ole, when, handlers>>
               PROVE  [AllCalled]_H!vars
    OBVIOUS
  <2>1. CASE which = "handlers"
    <3>1. [H!Next]_H!vars
      BY <2>1 DEF McNext, handlers, H!vars
    <3>2. QED BY <2>1, <3>1, HandlersStep
  <2>2. CASE which # "handlers"
    BY <2>2 DEF McNext, handlers, H!vars
  <2>3. QED BY <2>1, <2>2
<1>2. McSpec => []Inv
  BY HandlersKeep
<1> HIDE DEF Inv
<1>3. QED BY <1>1, <1>2, PTL DEF McSpec, EveryHandlerCalled, H!EveryHandlerCalled, AllCalled
=============================================================================
