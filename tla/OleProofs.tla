------------------------------ MODULE OleProofs ------------------------------
(***************************************************************************)
(* Proofs about Ole, for any contexts and any finite number of threads,    *)
(* through shutdowns and restarts.                                         *)
(***************************************************************************)
EXTENDS Ole, QueueLemmas, FiniteSetTheorems

\* thread_max is finite and at least one: with none, a function is never run.
ThreadMax == IsFiniteSet(Threads) /\ Threads # {}

Busy == {t \in Threads : tpc[t] \in {"top", "func"}}

LEMMA Count ==
  ASSUME ThreadMax, NEW S \in SUBSET Threads, NEW t \in Threads
  PROVE  /\ Cardinality(S) \in Nat
         /\ t \in S => Cardinality(S) >= 1 /\ Cardinality(S \ {t}) = Cardinality(S) - 1
         /\ t \notin S => Cardinality(S \cup {t}) = Cardinality(S) + 1
<1>1. IsFiniteSet(S)
  BY FS_Subset DEF ThreadMax
<1>2. Cardinality(S) \in Nat
  BY <1>1, FS_CardinalityType
<1>3. t \notin S => Cardinality(S \cup {t}) = Cardinality(S) + 1
  BY <1>1, FS_AddElement
<1>4. ASSUME t \in S PROVE Cardinality(S) >= 1 /\ Cardinality(S \ {t}) = Cardinality(S) - 1
  <2>1. Cardinality(S \ {t}) = Cardinality(S) - 1
    BY <1>1, <1>4, FS_RemoveElement
  <2>2. Cardinality(S \ {t}) \in Nat
    BY <1>1, FS_RemoveElement, FS_CardinalityType
  <2>3. QED BY <1>2, <2>1, <2>2
<1>5. QED BY <1>2, <1>3, <1>4

LEMMA InitIInv == ThreadMax /\ Init => IInv
<1> SUFFICES ASSUME ThreadMax, Init PROVE IInv
  OBVIOUS
<1>1. TypeOK
  BY DEF Init, SchedInit, TypeOK, SchedTypeOK, Stages, Requests, ThreadPlaces
<1>2. FrameOutlivesFunction /\ OnePlace /\ LifeIsTermination /\ QueueIsServed
  <2>1. ToSet(queue) = {} /\ queue = <<>> /\ signals = {} /\ threads = {}
    BY DEF Init, ToSet
  <2>2. FrameOutlivesFunction
    BY <2>1 DEF Init, FrameOutlivesFunction
  <2>3. OnePlace
    BY <2>1 DEF Init, OnePlace
  <2>4. LifeIsTermination /\ QueueIsServed
    BY <2>1 DEF Init, LifeIsTermination, QueueIsServed
  <2>5. QED BY <2>2, <2>3, <2>4
<1>3. ThreadsRun
  <2>1. Busy = {}
    BY DEF Init, Busy
  <2>2. Cardinality(Busy) = 0 /\ working = 0
    BY <2>1, FS_EmptySet DEF Init
  <2>3. \A t \in Threads :
          /\ t \in threads <=> tpc[t] # "none"
          /\ job[t] # None <=> tpc[t] = "func"
          /\ tpc[t] = "exit" => termination
    BY DEF Init
  <2>4. Cardinality(Busy) <= working
    BY <2>2
  <2>5. QED BY <2>3, <2>4 DEF ThreadsRun, Busy
<1>4. QED BY <1>1, <1>2, <1>3 DEF IInv

-----------------------------------------------------------------------------
(* The contexts *)

\* A context offloads a function: it is queued, and a thread is told or added.
LEMMA Offloads ==
  ASSUME ThreadMax, IInv, NEW c \in Ctxs, Offload(c)
  PROVE  IInv'
<1> USE NoneAssumption DEF IInv, TypeOK, SchedTypeOK
<1>1. /\ queue' = Append(queue, c) /\ pc' = [pc EXCEPT ![c] = "wait"]
      /\ masked' = [masked EXCEPT ![c] = TRUE]
      /\ current' = None /\ stage' = [stage EXCEPT ![c] = "asleep"]
      /\ pc[c] = "out" /\ UNCHANGED <<pend, termination, job, signals, life>>
  BY DEF Offload, Pushed
<1>2. c \notin ToSet(queue) /\ c \notin signals /\ \A t \in Threads : job[t] # c
  BY <1>1 DEF FrameOutlivesFunction, ThreadsRun
<1>3. /\ queue' \in Seq(Ctxs) /\ queue' # <<>> /\ ToSet(queue') = ToSet(queue) \cup {c}
      /\ \A i, j \in DOMAIN queue' : queue'[i] = queue'[j] => i = j
  <2>1. \A i, j \in DOMAIN queue : queue[i] = queue[j] => i = j
    BY DEF OnePlace
  <2>2. /\ Append(queue, c) \in Seq(Ctxs)
        /\ \A i, j \in DOMAIN Append(queue, c) : Append(queue, c)[i] = Append(queue, c)[j] => i = j
        /\ ToSet(Append(queue, c)) = ToSet(queue) \cup {c}
    BY <1>2, <2>1, AppendElements
  <2>3. Append(queue, c) # <<>>
    BY AppendProperties
  <2>4. QED BY <1>1, <2>2, <2>3
<1>4. /\ \A e \in Ctxs : pc'[e] = IF e = c THEN "wait" ELSE pc[e]
      /\ \A e \in Ctxs : masked'[e] = IF e = c THEN TRUE ELSE masked[e]
      /\ pc' \in [Ctxs -> {"out", "wait", "back"}] /\ masked' \in [Ctxs -> BOOLEAN]
      /\ stage' \in [Ctxs -> Stages]
  BY <1>1 DEF Stages
<1>5. Notified(tpc) \in [Threads -> ThreadPlaces] /\ \A t \in Threads :
        Notified(tpc)[t] = IF tpc[t] = "cond" THEN "notified" ELSE tpc[t]
  BY DEF Notified, ThreadPlaces
<1>6. /\ tpc' \in [Threads -> ThreadPlaces] /\ threads' \in SUBSET Threads /\ working' \in Nat
      /\ \A t \in Threads :
           /\ t \in threads' <=> tpc'[t] # "none"
           /\ tpc'[t] = "func" <=> tpc[t] = "func"
           /\ tpc'[t] = "exit" => tpc[t] = "exit"
           /\ tpc'[t] # "cond"
      /\ threads' # {}
      /\ Cardinality(Busy') <= working'
  <2> DEFINE told == Notified(tpc)
  <2>0. told \in [Threads -> ThreadPlaces] /\ \A t \in Threads :
          told[t] = IF tpc[t] = "cond" THEN "notified" ELSE tpc[t]
    BY <1>5
  <2>1. CASE NeedThread /\ threads # Threads
    <3>1. PICK t \in Threads \ threads :
            /\ tpc[t] = "none" /\ threads' = threads \cup {t} /\ working' = working + 1
            /\ tpc' = [told EXCEPT ![t] = "top"]
      BY <2>1 DEF Offload, Pushed
    <3> HIDE DEF told
    <3>2. \A u \in Threads : tpc'[u] = IF u = t THEN "top" ELSE told[u]
      BY <2>0, <3>1
    <3>3. tpc' \in [Threads -> ThreadPlaces]
      BY <2>0, <3>1 DEF ThreadPlaces
    <3>4. Busy' = Busy \cup {t} /\ t \notin Busy
      BY <2>0, <3>1, <3>2 DEF Busy
    <3>5. Cardinality(Busy') = Cardinality(Busy) + 1 /\ Cardinality(Busy) \in Nat
      BY <3>4, Count DEF Busy
    <3>6. Cardinality(Busy) <= working
      BY DEF ThreadsRun, Busy
    <3>7. Cardinality(Busy') <= working' /\ working' \in Nat
      BY <3>1, <3>5, <3>6
    <3>8. \A u \in Threads : u \in threads <=> tpc[u] # "none"
      BY DEF ThreadsRun
    <3>9. QED BY <2>0, <3>1, <3>2, <3>3, <3>7, <3>8
  <2>2. CASE ~(NeedThread /\ threads # Threads)
    <3>1. tpc' = told /\ UNCHANGED <<threads, working>>
      BY <2>2 DEF Offload, Pushed
    <3> HIDE DEF told
    <3>2. Busy' = Busy
      BY <2>0, <3>1 DEF Busy
    <3>3. threads # {}
      BY <2>2 DEF NeedThread, ThreadMax
    <3>4. /\ Cardinality(Busy) <= working
          /\ \A u \in Threads : u \in threads <=> tpc[u] # "none"
      BY DEF ThreadsRun, Busy
    <3>5. QED BY <2>0, <3>1, <3>2, <3>3, <3>4
  <2>3. QED BY <2>1, <2>2
<1>7. TypeOK'
  BY <1>1, <1>3, <1>4, <1>6
<1>8. FrameOutlivesFunction'
  BY <1>1, <1>2, <1>3, <1>4, <1>6 DEF FrameOutlivesFunction
<1>9. OnePlace'
  <2>1. \A t \in Threads : job[t] # None => job[t] \notin ToSet(queue') \cup signals
    BY <1>2, <1>3 DEF OnePlace
  <2>2. signals \cap ToSet(queue') = {}
    BY <1>2, <1>3 DEF OnePlace
  <2>3. \A e \in Ctxs : pc'[e] # "out" => masked'[e]
    BY <1>4 DEF OnePlace
  <2>4. \A e \in Ctxs : pc'[e] = "wait" =>
          e \in ToSet(queue') \cup signals \/ \E t \in Threads : job[t] = e
    BY <1>3, <1>4 DEF OnePlace
  <2>5. \A t, u \in Threads : job[t] = job[u] /\ job[t] # None => t = u
    BY DEF OnePlace
  <2>6. QED BY <1>1, <1>3, <2>1, <2>2, <2>3, <2>4, <2>5 DEF OnePlace
<1>10. ThreadsRun'
  BY <1>1, <1>6 DEF ThreadsRun, Busy
<1>11. LifeIsTermination' /\ QueueIsServed'
  BY <1>1, <1>3, <1>6 DEF LifeIsTermination, QueueIsServed, At
<1>12. QED BY <1>7, <1>8, <1>9, <1>10, <1>11

\* Nothing of the engine moves, nobody enters or leaves the wait, and whoever waits stays
\* masked.
LEMMA EngineStays ==
  ASSUME IInv, SchedTypeOK', UNCHANGED ole, \A c \in Ctxs : pc[c] # "out" => masked'[c]
  PROVE  IInv'
<1>1. UNCHANGED <<queue, threads, working, termination, tpc, job, signals, pc, life>>
  BY DEF ole
<1>2. TypeOK' /\ FrameOutlivesFunction' /\ LifeIsTermination' /\ QueueIsServed'
  BY <1>1 DEF IInv, TypeOK, FrameOutlivesFunction, LifeIsTermination, QueueIsServed, At
<1>3. OnePlace'
  BY <1>1 DEF IInv, OnePlace
<1>4. ThreadsRun'
  BY <1>1 DEF IInv, ThreadsRun
<1>5. QED BY <1>2, <1>3, <1>4 DEF IInv

LEMMA Elsewhere ==
  ASSUME IInv, NEW c \in Ctxs, WakeElsewhere(c) \/ Doze(c) \/ Interrupt(c) \/ Notify(c)
  PROVE  IInv'
<1>0. SchedTypeOK /\ c \in Ctxs /\ \A e \in Ctxs : pc[e] # "out" => masked[e]
  BY DEF IInv, TypeOK, OnePlace
<1>1. CASE WakeElsewhere(c)
  <2>1. /\ pend' \in [Ctxs -> SUBSET Requests] /\ masked' \in [Ctxs -> BOOLEAN]
        /\ \A e \in Ctxs : masked[e] => masked'[e]
    <3>1. CASE Thrown(c)
      BY ONLY <1>0, <3>1 DEF SchedTypeOK, Thrown
    <3>2. CASE UNCHANGED <<pend, masked>>
      BY <1>0, <3>2 DEF SchedTypeOK
    <3>3. QED BY <1>1, <3>1, <3>2 DEF WakeElsewhere, Return
  <2>2. /\ current' = c /\ stage' = [stage EXCEPT ![c] = "running"] /\ UNCHANGED ole
    BY <1>1 DEF WakeElsewhere, Return
  <2>3. SchedTypeOK'
    BY <1>0, <2>1, <2>2 DEF SchedTypeOK, Stages
  <2>4. QED BY <1>0, <2>1, <2>2, <2>3, EngineStays
<1>2. CASE Doze(c)
  <2>1. SchedTypeOK' /\ UNCHANGED <<ole, masked>>
    BY <1>0, <1>2 DEF Doze, Suspend, SchedTypeOK, Stages, ole
  <2>2. QED BY <1>0, <2>1, EngineStays
<1>3. CASE Interrupt(c)
  <2>1. SchedTypeOK' /\ UNCHANGED <<ole, masked>>
    BY <1>0, <1>3 DEF Interrupt, Request, Wake, SchedTypeOK, Stages, Requests, ole
  <2>2. QED BY <1>0, <2>1, EngineStays
<1>4. CASE Notify(c)
  <2>1. SchedTypeOK' /\ UNCHANGED <<ole, masked>>
    BY <1>0, <1>4 DEF Notify, Rouse, Wake, SchedTypeOK, Stages, ole
  <2>2. QED BY <1>0, <2>1, EngineStays
<1>5. QED BY <1>1, <1>2, <1>3, <1>4

\* A context out of the wait: masked, it leaves when its latch was counted down and not
\* before, or sleeps on.
LEMMA Returns ==
  ASSUME IInv, NEW c \in Ctxs, Return1(c)
  PROVE  IInv'
<1> USE NoneAssumption DEF IInv, TypeOK, SchedTypeOK
<1>0. /\ pc[c] # "out" /\ ~Throws(c)
      /\ UNCHANGED <<queue, threads, working, termination, tpc, job, signals, life>>
  BY DEF Return1, OnePlace, Throws
<1>1. CASE /\ pc[c] = "back" /\ current' = c /\ stage' = [stage EXCEPT ![c] = "running"]
           /\ pc' = [pc EXCEPT ![c] = "out"]
           /\ masked' = [masked EXCEPT ![c] = FALSE]
           /\ pend' = [pend EXCEPT ![c] = {}]
  <2>1. TypeOK'
    BY <1>0, <1>1 DEF Stages
  <2>2. /\ \A e \in Ctxs : pc'[e] = "wait" <=> pc[e] = "wait"
        /\ \A e \in Ctxs : pc'[e] # "out" => masked'[e]
    BY <1>1 DEF OnePlace
  <2>3. FrameOutlivesFunction'
    BY <1>0, <2>2 DEF FrameOutlivesFunction, ToSet, ThreadsRun
  <2>4. OnePlace'
    BY <1>0, <2>2 DEF OnePlace
  <2>5. ThreadsRun' /\ LifeIsTermination' /\ QueueIsServed'
    BY <1>0 DEF ThreadsRun, LifeIsTermination, QueueIsServed, At
  <2>6. QED BY <2>1, <2>3, <2>4, <2>5
<1>2. CASE stage' = [stage EXCEPT ![c] = "asleep"] /\ UNCHANGED <<current, pend, masked, pc>>
  <2>1. SchedTypeOK' /\ UNCHANGED ole
    BY <1>0, <1>2 DEF ole, Stages
  <2>2. \A e \in Ctxs : pc[e] # "out" => masked'[e]
    BY <1>2 DEF OnePlace
  <2>3. QED BY <2>1, <2>2, EngineStays
<1>3. QED BY <1>0, <1>1, <1>2 DEF Return1

\* A latch is counted down: the context is in its wait, and in no other place.
LEMMA Signals ==
  ASSUME IInv, NEW c \in Ctxs, Signalled(c)
  PROVE  IInv'
<1> USE NoneAssumption DEF IInv, TypeOK, SchedTypeOK
<1>1. /\ c \in signals /\ signals' = signals \ {c} /\ stage' = Wake(stage, {c})
      /\ pc' = [pc EXCEPT ![c] = "back"]
      /\ UNCHANGED <<current, pend, masked, queue, threads, working, termination, tpc, job, life>>
  <2>1. c \in signals /\ pc[c] = "wait"
    BY DEF Signalled, FrameOutlivesFunction
  <2>2. QED BY <2>1 DEF Signalled
<1>2. TypeOK'
  BY <1>1 DEF Wake, Stages
<1>3. \A e \in Ctxs : pc'[e] = IF e = c THEN "back" ELSE pc[e]
  BY <1>1
<1>4. c \notin ToSet(queue) /\ \A t \in Threads : job[t] # c
  BY <1>1 DEF OnePlace
<1>5. FrameOutlivesFunction'
  BY <1>1, <1>3, <1>4 DEF FrameOutlivesFunction, ThreadsRun, ToSet
<1>6. OnePlace'
  <2>1. \A e \in Ctxs : pc'[e] # "out" => masked'[e]
    BY <1>1, <1>3 DEF OnePlace, FrameOutlivesFunction
  <2>2. \A e \in Ctxs : pc'[e] = "wait" =>
          e \in ToSet(queue) \cup signals' \/ \E t \in Threads : job[t] = e
    BY <1>1, <1>3 DEF OnePlace
  <2>3. QED BY <1>1, <2>1, <2>2 DEF OnePlace
<1>7. ThreadsRun' /\ LifeIsTermination' /\ QueueIsServed'
  BY <1>1 DEF ThreadsRun, LifeIsTermination, QueueIsServed, At
<1>8. QED BY <1>2, <1>5, <1>6, <1>7

-----------------------------------------------------------------------------
(* The threads *)

\* A thread comes to the head of the loop or out of cond.wait(): it ends, or waits over an
\* empty queue, or takes the context in front, whose function nobody else has.
LEMMA Pops ==
  ASSUME ThreadMax, IInv, NEW t \in Threads, NEW w,
         tpc[t] \in {"top", "cond", "notified"},
         w = (IF tpc[t] = "top" THEN working - 1 ELSE working),
         Popped(t, w), UNCHANGED <<Main, threads, termination, signals>>
  PROVE  IInv'
<1> USE NoneAssumption DEF IInv, TypeOK, SchedTypeOK
<1>1. UNCHANGED <<current, stage, pend, masked, pc, life, threads, termination, signals>>
  BY DEF Main
<1>2. w \in Nat /\ Cardinality(Busy \ {t}) <= w
      /\ Cardinality(Busy \cup {t}) <= w + 1
  <2>1. Busy \in SUBSET Threads /\ Cardinality(Busy) <= working /\ working \in Nat
    BY DEF Busy, ThreadsRun
  <2>2. t \in Busy <=> tpc[t] = "top"
    BY DEF Busy
  <2>3. /\ Cardinality(Busy) \in Nat
        /\ t \in Busy => Cardinality(Busy) >= 1 /\ Cardinality(Busy \ {t}) = Cardinality(Busy) - 1
        /\ t \notin Busy => Cardinality(Busy \cup {t}) = Cardinality(Busy) + 1
    BY <2>1, Count
  <2>4. /\ t \in Busy => Busy \cup {t} = Busy
        /\ t \notin Busy => Busy \ {t} = Busy
    OBVIOUS
  <2>5. CASE tpc[t] = "top"
    <3>1. w = working - 1 /\ t \in Busy
      BY <2>2, <2>5
    <3>2. /\ Cardinality(Busy \ {t}) = Cardinality(Busy) - 1
          /\ Cardinality(Busy \cup {t}) = Cardinality(Busy)
          /\ Cardinality(Busy) >= 1 /\ Cardinality(Busy) \in Nat
          /\ w = working - 1 /\ Cardinality(Busy) <= working /\ working \in Nat
      BY <2>1, <2>3, <2>4, <3>1
    <3>3. QED BY ONLY <3>2
  <2>6. CASE tpc[t] # "top"
    <3>1. w = working /\ t \notin Busy
      BY <2>2, <2>6
    <3>2. /\ Cardinality(Busy \ {t}) = Cardinality(Busy)
          /\ Cardinality(Busy \cup {t}) = Cardinality(Busy) + 1
          /\ Cardinality(Busy) \in Nat
          /\ w = working /\ Cardinality(Busy) <= working /\ working \in Nat
      BY <2>1, <2>3, <2>4, <3>1
    <3>3. QED BY ONLY <3>2
  <2>7. QED BY <2>5, <2>6
<1>3. /\ tpc[t] # "none" /\ tpc[t] # "func" /\ tpc[t] # "exit" /\ job[t] = None
      /\ t \in threads
  BY DEF ThreadsRun
<1>4. CASE /\ termination /\ tpc' = [tpc EXCEPT ![t] = "exit"] /\ working' = w
           /\ UNCHANGED <<queue, job>>
  <2>1. /\ tpc' \in [Threads -> ThreadPlaces]
        /\ \A u \in Threads : tpc'[u] = IF u = t THEN "exit" ELSE tpc[u]
    BY <1>4 DEF ThreadPlaces
  <2>2. TypeOK'
    BY <1>1, <1>2, <1>4, <2>1
  <2>3. \A u \in Threads : tpc'[u] = "func" <=> tpc[u] = "func"
    BY <1>3, <2>1
  <2>4. FrameOutlivesFunction' /\ OnePlace'
    BY <1>1, <1>4, <2>3 DEF FrameOutlivesFunction, OnePlace
  <2>5. ThreadsRun'
    <3>1. Busy' = Busy \ {t}
      BY <2>1 DEF Busy
    <3>2. Cardinality(Busy') <= working'
      BY <1>2, <1>4, <3>1
    <3>3. \A u \in Threads : /\ u \in threads <=> tpc'[u] # "none"
                             /\ job[u] # None <=> tpc'[u] = "func"
                             /\ tpc'[u] = "exit" => termination
      BY <1>3, <1>4, <2>1 DEF ThreadsRun
    <3>4. QED BY <1>1, <1>4, <3>2, <3>3 DEF ThreadsRun, Busy
  <2>6. LifeIsTermination' /\ QueueIsServed'
    BY <1>1, <1>4, <2>1 DEF LifeIsTermination, QueueIsServed, At
  <2>7. QED BY <2>2, <2>4, <2>5, <2>6
<1>5. CASE /\ ~termination /\ queue = <<>> /\ tpc' = [tpc EXCEPT ![t] = "cond"] /\ working' = w
           /\ UNCHANGED <<queue, job>>
  <2>1. /\ tpc' \in [Threads -> ThreadPlaces]
        /\ \A u \in Threads : tpc'[u] = IF u = t THEN "cond" ELSE tpc[u]
    BY <1>5 DEF ThreadPlaces
  <2>2. TypeOK'
    BY <1>1, <1>2, <1>5, <2>1
  <2>3. \A u \in Threads : tpc'[u] = "func" <=> tpc[u] = "func"
    BY <1>3, <2>1
  <2>4. FrameOutlivesFunction' /\ OnePlace'
    BY <1>1, <1>5, <2>3 DEF FrameOutlivesFunction, OnePlace
  <2>5. ThreadsRun'
    <3>1. Busy' = Busy \ {t}
      BY <2>1 DEF Busy
    <3>2. Cardinality(Busy') <= working'
      BY <1>2, <1>5, <3>1
    <3>3. \A u \in Threads : /\ u \in threads <=> tpc'[u] # "none"
                             /\ job[u] # None <=> tpc'[u] = "func"
                             /\ tpc'[u] = "exit" => termination
      BY <1>3, <1>5, <2>1 DEF ThreadsRun
    <3>4. QED BY <1>1, <1>5, <3>2, <3>3 DEF ThreadsRun, Busy
  <2>6. LifeIsTermination' /\ QueueIsServed'
    BY <1>1, <1>5 DEF LifeIsTermination, QueueIsServed
  <2>7. QED BY <2>2, <2>4, <2>5, <2>6
<1>6. CASE /\ ~termination /\ queue # <<>>
           /\ queue' = Tail(queue) /\ job' = [job EXCEPT ![t] = Head(queue)]
           /\ working' = w + 1 /\ tpc' = [tpc EXCEPT ![t] = "func"]
  <2>1. /\ tpc' \in [Threads -> ThreadPlaces]
        /\ \A u \in Threads : tpc'[u] = IF u = t THEN "func" ELSE tpc[u]
    BY <1>6 DEF ThreadPlaces
  <2> DEFINE c == Head(queue)
  <2>2. /\ c \in ToSet(queue) /\ c \in Ctxs /\ queue' \in Seq(Ctxs)
        /\ \A i, j \in DOMAIN queue' : queue'[i] = queue'[j] => i = j
        /\ ToSet(queue') = ToSet(queue) \ {c}
    <3>1. \A i, j \in DOMAIN queue : queue[i] = queue[j] => i = j
      BY DEF OnePlace
    <3>2. QED BY <1>6, <3>1, TailElements
  <2>3. /\ job' \in [Threads -> Ctxs \cup {None}]
        /\ \A u \in Threads : job'[u] = IF u = t THEN c ELSE job[u]
    BY <1>6, <2>2
  <2> HIDE DEF c
  <2>4. TypeOK'
    BY <1>1, <1>2, <1>6, <2>1, <2>2, <2>3
  <2>5. FrameOutlivesFunction'
    BY <1>1, <2>1, <2>2, <2>3 DEF FrameOutlivesFunction
  <2>6. OnePlace'
    <3>1. c # None /\ c \notin signals /\ \A u \in Threads : job[u] # c
      BY <2>2 DEF OnePlace
    <3>2. \A u \in Threads : job'[u] # None => job'[u] \notin ToSet(queue') \cup signals'
      BY <1>1, <2>2, <2>3, <3>1 DEF OnePlace
    <3>3. \A u, v \in Threads : job'[u] = job'[v] /\ job'[u] # None => u = v
      BY <2>3, <3>1 DEF OnePlace
    <3>4. \A e \in Ctxs : pc[e] = "wait" =>
            e \in ToSet(queue') \cup signals \/ \E u \in Threads : job'[u] = e
      <4>1. SUFFICES ASSUME NEW e \in Ctxs, pc[e] = "wait", e \notin ToSet(queue') \cup signals
                     PROVE  \E u \in Threads : job'[u] = e
        OBVIOUS
      <4>2. CASE e = c
        BY <2>3, <4>2
      <4>3. CASE e # c
        <5>1. PICK u \in Threads : job[u] = e
          BY <2>2, <4>1, <4>3 DEF OnePlace
        <5>2. u # t
          BY <1>3, <5>1
        <5>3. QED BY <2>3, <5>1, <5>2
      <4>4. QED BY <4>2, <4>3
    <3>5. QED BY <1>1, <2>2, <3>2, <3>3, <3>4 DEF OnePlace
  <2>7. ThreadsRun'
    <3>1. Busy' = Busy \cup {t}
      BY <2>1 DEF Busy
    <3>2. Cardinality(Busy') <= working'
      BY <1>2, <1>6, <3>1
    <3>3. \A u \in Threads : /\ u \in threads <=> tpc'[u] # "none"
                             /\ job'[u] # None <=> tpc'[u] = "func"
                             /\ tpc'[u] = "exit" => termination
      BY <1>3, <2>1, <2>2, <2>3 DEF ThreadsRun
    <3>4. QED BY <1>1, <3>2, <3>3 DEF ThreadsRun, Busy
  <2>8. LifeIsTermination' /\ QueueIsServed'
    BY <1>1, <1>3, <1>6, <2>1 DEF LifeIsTermination, QueueIsServed, At
  <2>9. QED BY <2>4, <2>5, <2>6, <2>7, <2>8
<1>7. QED BY <1>4, <1>5, <1>6 DEF Popped, Goes

LEMMA Loops ==
  ASSUME ThreadMax, IInv, NEW t \in Threads, Enter(t) \/ Stop(t) \/ Claim(t)
  PROVE  IInv'
<1>1. CASE Enter(t)
  <2>1. /\ tpc[t] \in {"top", "cond", "notified"}
        /\ working - 1 = (IF tpc[t] = "top" THEN working - 1 ELSE working)
        /\ Popped(t, working - 1) /\ UNCHANGED <<Main, threads, termination, signals>>
    BY <1>1 DEF Enter
  <2>2. QED BY <2>1, Pops
<1>2. CASE Claim(t)
  <2>1. /\ tpc[t] \in {"top", "cond", "notified"}
        /\ working = (IF tpc[t] = "top" THEN working - 1 ELSE working)
        /\ Popped(t, working) /\ UNCHANGED <<Main, threads, termination, signals>>
    BY <1>2 DEF Claim
  <2>2. QED BY <2>1, Pops
<1>3. CASE Stop(t)
  <2> USE NoneAssumption DEF IInv, TypeOK, SchedTypeOK
  <2>1. /\ tpc[t] = "top" /\ termination /\ tpc' = [tpc EXCEPT ![t] = "exit"]
        /\ UNCHANGED <<current, stage, pend, masked, pc, life>>
        /\ UNCHANGED <<queue, threads, working, termination, job, signals>>
    BY <1>3 DEF Stop, Goes, Main
  <2>2. /\ tpc' \in [Threads -> ThreadPlaces]
        /\ \A u \in Threads : tpc'[u] = IF u = t THEN "exit" ELSE tpc[u]
    BY <2>1 DEF ThreadPlaces
  <2>3. TypeOK'
    BY <2>1, <2>2
  <2>4. \A u \in Threads : tpc'[u] = "func" <=> tpc[u] = "func"
    BY <2>1, <2>2
  <2>7. FrameOutlivesFunction' /\ OnePlace'
    BY <2>1, <2>4 DEF FrameOutlivesFunction, OnePlace
  <2>8. LifeIsTermination' /\ QueueIsServed'
    BY <2>1, <2>2 DEF LifeIsTermination, QueueIsServed, At
  <2>5. ThreadsRun'
    <3>1. Busy \in SUBSET Threads /\ t \in Busy /\ Busy' = Busy \ {t}
      BY <2>1, <2>2 DEF Busy
    <3>2. Cardinality(Busy') = Cardinality(Busy) - 1 /\ Cardinality(Busy) \in Nat
      BY <3>1, Count
    <3>3. Cardinality(Busy) <= working /\ working \in Nat
      BY DEF ThreadsRun, Busy
    <3>4. Cardinality(Busy') <= working
      BY ONLY <3>2, <3>3
    <3>5. QED BY <2>1, <2>2, <3>4 DEF ThreadsRun, Busy
  <2>6. QED BY <2>3, <2>5, <2>7, <2>8
<1>4. QED BY <1>1, <1>2, <1>3

\* The function is over: its context has the signal instead of the thread.
LEMMA Runs ==
  ASSUME IInv, NEW t \in Threads, Func(t)
  PROVE  IInv'
<1> USE NoneAssumption DEF IInv, TypeOK, SchedTypeOK
<1>1. /\ tpc[t] = "func" /\ tpc' = [tpc EXCEPT ![t] = "top"]
      /\ signals' = signals \cup {job[t]} /\ job' = [job EXCEPT ![t] = None]
      /\ UNCHANGED <<current, stage, pend, masked, pc, life>>
      /\ UNCHANGED <<queue, threads, working, termination>>
  BY DEF Func, Goes, Main
<1>2. /\ job[t] \in Ctxs /\ pc[job[t]] = "wait" /\ job[t] \notin ToSet(queue)
  BY <1>1 DEF ThreadsRun, FrameOutlivesFunction, OnePlace
<1>3. /\ tpc' \in [Threads -> ThreadPlaces] /\ job' \in [Threads -> Ctxs \cup {None}]
      /\ \A u \in Threads : tpc'[u] = IF u = t THEN "top" ELSE tpc[u]
      /\ \A u \in Threads : job'[u] = IF u = t THEN None ELSE job[u]
  BY <1>1 DEF ThreadPlaces
<1>4. TypeOK'
  BY <1>1, <1>2, <1>3
<1>5. FrameOutlivesFunction'
  BY <1>1, <1>2, <1>3 DEF FrameOutlivesFunction
<1>6. OnePlace'
  <2>1. \A u \in Threads : job'[u] # None => job'[u] \notin ToSet(queue) \cup signals'
    BY <1>1, <1>2, <1>3 DEF OnePlace
  <2>2. \A e \in Ctxs : pc[e] = "wait" =>
          e \in ToSet(queue) \cup signals' \/ \E u \in Threads : job'[u] = e
    BY <1>1, <1>3 DEF OnePlace
  <2>3. signals' \cap ToSet(queue) = {}
    BY <1>1, <1>2 DEF OnePlace
  <2>4. \A u, v \in Threads : job'[u] = job'[v] /\ job'[u] # None => u = v
    BY <1>3 DEF OnePlace
  <2>5. QED BY <1>1, <2>1, <2>2, <2>3, <2>4 DEF OnePlace
<1>7. ThreadsRun'
  <2>1. Busy' = Busy
    BY <1>1, <1>3 DEF Busy
  <2>2. QED BY <1>1, <1>3, <2>1 DEF ThreadsRun, Busy
<1>8. LifeIsTermination' /\ QueueIsServed'
  BY <1>1, <1>3 DEF LifeIsTermination, QueueIsServed, At
<1>9. QED BY <1>4, <1>5, <1>6, <1>7, <1>8

LEMMA NotifiedPlaces ==
  ASSUME IInv
  PROVE  /\ Notified(tpc) \in [Threads -> ThreadPlaces]
         /\ \A t \in Threads :
              Notified(tpc)[t] = IF tpc[t] = "cond" THEN "notified" ELSE tpc[t]
BY DEF IInv, TypeOK, Notified, ThreadPlaces

\* A thread leaves the vector: it ends because the engine does, and tells the others.
LEMMA Leaves ==
  ASSUME IInv, NEW t \in Threads, worker_remove(t)
  PROVE  IInv'
<1> USE NoneAssumption DEF IInv, TypeOK, SchedTypeOK
<1>1. /\ tpc[t] = "exit" /\ threads' = threads \ {t}
      /\ tpc' = [Notified(tpc) EXCEPT ![t] = "none"]
      /\ UNCHANGED <<current, stage, pend, masked, pc, life>>
      /\ UNCHANGED <<queue, working, termination, job, signals>>
  BY DEF worker_remove, Main
<1>2. /\ tpc' \in [Threads -> ThreadPlaces]
      /\ \A u \in Threads : tpc'[u] = IF u = t THEN "none"
                                      ELSE IF tpc[u] = "cond" THEN "notified" ELSE tpc[u]
  BY <1>1, NotifiedPlaces DEF ThreadPlaces
<1>3. TypeOK'
  BY <1>1, <1>2
<1>4. \A u \in Threads : tpc'[u] \in {"top", "func"} <=> tpc[u] \in {"top", "func"}
  BY <1>1, <1>2
<1>5. \A u \in Threads : tpc'[u] = "func" <=> tpc[u] = "func"
  BY <1>1, <1>2
<1>6. FrameOutlivesFunction' /\ OnePlace'
  BY <1>1, <1>5 DEF FrameOutlivesFunction, OnePlace
<1>7. ThreadsRun'
  <2>1. Busy' = Busy
    BY <1>4 DEF Busy
  <2>2. QED BY <1>1, <1>2, <2>1 DEF ThreadsRun, Busy
<1>8. termination
  BY <1>1 DEF ThreadsRun
<1>9. LifeIsTermination' /\ QueueIsServed'
  BY <1>1, <1>2, <1>8 DEF LifeIsTermination, QueueIsServed, At
<1>10. QED BY <1>3, <1>6, <1>7, <1>9

-----------------------------------------------------------------------------
(* Shutdown and restart *)

LEMMA Lives ==
  ASSUME IInv, Shutdown \/ Over \/ Restart
  PROVE  IInv'
<1> USE DEF IInv, TypeOK, SchedTypeOK
<1>1. /\ UNCHANGED <<current, stage, pend, masked>>
      /\ UNCHANGED <<queue, threads, working, job, signals, pc>>
      /\ tpc' = tpc \/ tpc' = Notified(tpc)
  BY DEF Shutdown, Over, Restart, sched
<1>2. /\ tpc' \in [Threads -> ThreadPlaces]
      /\ \A t \in Threads : tpc'[t] = tpc[t] \/ (tpc[t] = "cond" /\ tpc'[t] = "notified")
  BY <1>1, NotifiedPlaces
<1>3. TypeOK'
  BY <1>1, <1>2
<1>4. FrameOutlivesFunction' /\ OnePlace'
  BY <1>1, <1>2 DEF FrameOutlivesFunction, OnePlace
<1>5. LifeIsTermination'
  BY <1>1 DEF LifeIsTermination, Shutdown, Over, Restart
<1>6. ThreadsRun'
  <2>1. Busy' = Busy
    BY <1>2 DEF Busy
  <2>2. \A t \in Threads : tpc'[t] = "exit" => termination'
    <3>1. CASE Restart
      <4>1. threads = {}
        BY <3>1 DEF Restart, LifeIsTermination
      <4>2. \A t \in Threads : tpc[t] = "none"
        BY <4>1 DEF ThreadsRun
      <4>3. QED BY <1>2, <4>2
    <3>2. CASE Shutdown \/ Over
      BY <1>2, <3>2 DEF Shutdown, Over, ThreadsRun
    <3>3. QED BY <3>1, <3>2
  <2>3. \A t \in Threads : /\ t \in threads <=> tpc'[t] # "none"
                           /\ job[t] # None <=> tpc'[t] = "func"
    BY <1>2 DEF ThreadsRun
  <2>4. QED BY <1>1, <2>1, <2>2, <2>3 DEF ThreadsRun, Busy
<1>7. QueueIsServed'
  <2>1. queue # <<>> => At("cond") = {}
    BY DEF QueueIsServed
  <2>2. queue # <<>> => At("cond")' = {}
    BY <1>2, <2>1 DEF At
  <2>3. queue # <<>> => termination' \/ threads # {}
    BY DEF Shutdown, Over, Restart, QueueIsServed
  <2>4. QED BY <1>1, <2>2, <2>3 DEF QueueIsServed
<1>8. QED BY <1>3, <1>4, <1>5, <1>6, <1>7

-----------------------------------------------------------------------------

LEMMA NextIInv == ThreadMax /\ IInv /\ [Next]_vars => IInv'
<1> SUFFICES ASSUME ThreadMax, IInv, [Next]_vars PROVE IInv'
  OBVIOUS
<1>1. CASE UNCHANGED vars
  <2>1. UNCHANGED <<sched, ole>>
    BY <1>1 DEF vars
  <2>2. SchedTypeOK' /\ \A c \in Ctxs : pc[c] # "out" => masked'[c]
    BY <2>1 DEF IInv, TypeOK, SchedTypeOK, OnePlace, sched
  <2>3. QED BY <2>1, <2>2, EngineStays
<1>2. ASSUME NEW c \in Ctxs,
             Offload(c) \/ Return1(c) \/ Signalled(c)
             \/ WakeElsewhere(c) \/ Doze(c) \/ Interrupt(c) \/ Notify(c)
      PROVE  IInv'
  BY <1>2, Offloads, Returns, Signals, Elsewhere
<1>3. ASSUME NEW t \in Threads,
             Enter(t) \/ Stop(t) \/ Claim(t) \/ Func(t) \/ worker_remove(t)
      PROVE  IInv'
  BY <1>3, Loops, Runs, Leaves
<1>4. CASE Shutdown \/ Over \/ Restart
  BY <1>4, Lives
<1>5. QED BY <1>1, <1>2, <1>3, <1>4 DEF Next

\* The inductive invariant holds in every behaviour of the engine.
THEOREM Invariance ==
  ASSUME ThreadMax
  PROVE  Spec => []IInv
<1>1. Init => IInv
  BY InitIInv
<1>2. IInv /\ [Next]_vars => IInv'
  BY NextIInv
<1>3. QED BY <1>1, <1>2, PTL DEF Spec

\* Whoever waits is queued, in a thread or signalled, and a queue that is not empty has a
\* thread that is awake unless the engine was told to end.
LEMMA ServedUnlessEnded == IInv => NoStrandedContext
<1> SUFFICES ASSUME IInv, NEW c \in Ctxs, pc[c] = "wait"
             PROVE  \/ c \in signals \/ \E t \in Threads : job[t] = c
                    \/ /\ c \in ToSet(queue)
                       /\ termination \/ \E t \in threads : tpc[t] # "cond" /\ tpc[t] # "exit"
  BY DEF NoStrandedContext
<1>1. c \in ToSet(queue) \cup signals \/ \E t \in Threads : job[t] = c
  BY DEF IInv, OnePlace
<1>2. ASSUME c \in ToSet(queue), ~termination
      PROVE  \E t \in threads : tpc[t] # "cond" /\ tpc[t] # "exit"
  <2>1. queue # <<>>
    BY <1>2 DEF ToSet
  <2>2. PICK t \in threads : TRUE
    BY <1>2, <2>1 DEF IInv, QueueIsServed
  <2>3. t \in Threads /\ tpc[t] # "cond" /\ tpc[t] # "exit"
    BY <1>2, <2>1, <2>2 DEF IInv, TypeOK, QueueIsServed, ThreadsRun, At
  <2>4. QED BY <2>2, <2>3
<1>3. QED BY <1>1, <1>2
=============================================================================
