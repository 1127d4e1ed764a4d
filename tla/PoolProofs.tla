----------------------------- MODULE PoolProofs -----------------------------
(***************************************************************************)
(* Proofs about Pool, for any workers, clients, limits and options.        *)
(***************************************************************************)
EXTENDS Pool, QueueLemmas, FiniteSetTheorems

(* The two invariants against stalls, without the sizes of sets. *)
JobsCalled ==
  (\A w \in Workers : "TERMINATED" \notin pend[w]) /\ queued > 0 /\ d # <<>> =>
    \E w \in Workers : pc[w] \in {"loop", "work"} \/ (pc[w] = "idle" /\ stage[w] = "ready")
ClientsCalled ==
  /\ qmax # <<>> /\ queued = 0
  /\ Soft # 0 \/ \E w \in Workers : pc[w] \in {"loop", "idle"}
  =>
  \/ \E c \in ToSet(qmax) : stage[c] = "ready"
  \/ \E w \in Workers : pc[w] = "work"
PInv ==
  TypeOK /\ DocksAreWaiters /\ JobsBounded /\ WaitersSuspended /\ JobsCalled /\ ClientsCalled

\* With nothing queued a submission blocks exactly when no worker is available and the
\* soft limit is zero.
LEMMA Room ==
  TypeOK => (queued = 0 => (wouldblock <=> Soft = 0 /\ \A w \in Workers : pc[w] \notin {"loop", "idle"}))
<1> SUFFICES ASSUME TypeOK, queued = 0
             PROVE  wouldblock <=> Soft = 0 /\ \A w \in Workers : pc[w] \notin {"loop", "idle"}
  OBVIOUS
<1> DEFINE here == At({"loop", "idle"})
<1>1. IsFiniteSet(here)
  BY PoolAssumption, FS_Subset DEF At
<1>2. Cardinality(here) \in Nat /\ (Cardinality(here) = 0 <=> here = {})
  BY <1>1, FS_CardinalityType, FS_EmptySet
<1>3. here = {} <=> \A w \in Workers : pc[w] \notin {"loop", "idle"}
  BY DEF At
<1>4. avail = Cardinality(here)
  BY DEF avail
<1> HIDE DEF here
<1>5. QED BY <1>2, <1>3, <1>4, PoolAssumption DEF wouldblock, Unlimited

LEMMA Invariants == PInv <=> IInv
<1>1. ASSUME TypeOK PROVE JobsCalled <=> (Terminating = {} => NoStall)
  BY <1>1 DEF JobsCalled, Terminating, NoStall
<1>2. ASSUME TypeOK PROVE ClientsCalled <=> NoClientStall
  <2>1. queued = 0 \/ queued > 0
    BY <1>2 DEF TypeOK
  <2>2. Soft # 0 \/ Soft = 0
    OBVIOUS
  <2>3. At({"work"}) # {} <=> \E w \in Workers : pc[w] = "work"
    BY DEF At
  <2>4. CASE queued > 0
    BY <2>4 DEF ClientsCalled, NoClientStall
  <2>5. CASE queued = 0
    <3>1. ~wouldblock <=> (Soft # 0 \/ \E w \in Workers : pc[w] \in {"loop", "idle"})
      BY <1>2, <2>5, Room
    <3>2. QED BY <2>3, <2>5, <3>1 DEF ClientsCalled, NoClientStall
  <2>6. QED BY <2>1, <2>4, <2>5
<1>3. QED BY <1>1, <1>2 DEF PInv, IInv, NobodyStalls

LEMMA InitPInv == Init => PInv
<1> SUFFICES ASSUME Init PROVE PInv
  OBVIOUS
<1>1. TypeOK
  <2>1. SchedTypeOK
    BY DEF Init, SchedTypeOK, Stages, Requests
  <2>2. /\ pc \in [Ctxs -> WorkerPlaces \cup ClientPlaces]
        /\ \A c \in Ctxs : pc[c] \in WorkerPlaces <=> c \in Workers
    BY DEF Init, WorkerPlaces, ClientPlaces
  <2>3. QED BY <2>1, <2>2, PoolAssumption DEF Init, TypeOK
<1>2. DocksAreWaiters /\ WaitersSuspended
  BY PoolAssumption DEF Init, DocksAreWaiters, WaitersSuspended, Distinct, ToSet, Clients
<1>3. JobsBounded /\ JobsCalled /\ ClientsCalled
  BY PoolAssumption DEF Init, JobsBounded, JobsCalled, ClientsCalled
<1>4. QED BY <1>1, <1>2, <1>3 DEF PInv

-----------------------------------------------------------------------------
(* Stages and flags *)

\* Waking takes contexts from asleep to ready and does nothing else.
LEMMA Woken ==
  ASSUME NEW s \in [Ctxs -> Stages], NEW W
  PROVE  /\ Wake(s, W) \in [Ctxs -> Stages]
         /\ \A e \in Ctxs : \/ Wake(s, W)[e] = s[e]
                            \/ s[e] = "asleep" /\ Wake(s, W)[e] = "ready"
         /\ \A e \in Ctxs : e \in W /\ s[e] \in {"ready", "asleep"} => Wake(s, W)[e] = "ready"
BY DEF Wake, Stages

LEMMA WokenExcept ==
  ASSUME NEW s \in [Ctxs -> Stages], NEW W, NEW c \in Ctxs, NEW to \in Stages
  PROVE  /\ [Wake(s, W) EXCEPT ![c] = to] \in [Ctxs -> Stages]
         /\ [Wake(s, W) EXCEPT ![c] = to][c] = to
         /\ \A e \in Ctxs \ {c} : \/ [Wake(s, W) EXCEPT ![c] = to][e] = s[e]
                                  \/ s[e] = "asleep" /\ [Wake(s, W) EXCEPT ![c] = to][e] = "ready"
         /\ \A e \in Ctxs \ {c} : e \in W /\ s[e] \in {"ready", "asleep"} =>
              [Wake(s, W) EXCEPT ![c] = to][e] = "ready"
<1> DEFINE woken == Wake(s, W)
<1>1. /\ woken \in [Ctxs -> Stages]
      /\ \A e \in Ctxs : \/ woken[e] = s[e]
                         \/ s[e] = "asleep" /\ woken[e] = "ready"
      /\ \A e \in Ctxs : e \in W /\ s[e] \in {"ready", "asleep"} => woken[e] = "ready"
  BY Woken
<1> HIDE DEF woken
<1>2. /\ [woken EXCEPT ![c] = to] \in [Ctxs -> Stages] /\ [woken EXCEPT ![c] = to][c] = to
      /\ \A e \in Ctxs \ {c} : [woken EXCEPT ![c] = to][e] = woken[e]
  BY <1>1
<1>3. QED BY <1>1, <1>2 DEF woken

\* A termination stays flagged, whatever is thrown.
LEMMA ThrownKeeps ==
  ASSUME SchedTypeOK, NEW c \in Ctxs, Thrown(c)
  PROVE  \A e \in Ctxs : "TERMINATED" \in pend[e] => "TERMINATED" \in pend'[e]
BY DEF SchedTypeOK, Thrown

-----------------------------------------------------------------------------
(* What a step may do *)

\* A step that moves neither queue, nor anybody into or out of a dock or a job, nor a
\* worker out of the loop that is not terminated.
LEMMA Aside ==
  ASSUME PInv, TypeOK', UNCHANGED <<queued, submitted, d, qmax>>,
         \A e \in Ctxs : \/ pc'[e] = pc[e]
                         \/ /\ pc[e] \notin {"idle", "blocked", "work"}
                            /\ pc'[e] \notin {"idle", "blocked", "loop"}
         ,
         \A w \in Workers : pc[w] = "loop" /\ pc'[w] # "loop" => "TERMINATED" \in pend[w],
         \A w \in Workers : "TERMINATED" \in pend[w] => "TERMINATED" \in pend'[w],
         \A e \in Ctxs : pc[e] \in {"idle", "blocked"} =>
           stage'[e] = stage[e] \/ (stage[e] = "asleep" /\ stage'[e] = "ready")
  PROVE  PInv'
<1> Workers \subseteq Ctxs /\ Clients \subseteq Ctxs
  BY PoolAssumption DEF Clients
<1>1. DocksAreWaiters'
  <2>1. \A e \in Ctxs : /\ pc'[e] = "idle" <=> pc[e] = "idle"
                        /\ pc'[e] = "blocked" <=> pc[e] = "blocked"
    OBVIOUS
  <2>2. QED BY <2>1 DEF PInv, DocksAreWaiters
<1>2. JobsBounded'
  BY DEF PInv, JobsBounded
<1>3. WaitersSuspended'
  BY DEF PInv, WaitersSuspended
<1>4. JobsCalled'
  <2> SUFFICES ASSUME \A w \in Workers : "TERMINATED" \notin pend'[w], queued > 0, d # <<>>
               PROVE  \E w \in Workers : \/ pc'[w] \in {"loop", "work"}
                                         \/ pc'[w] = "idle" /\ stage'[w] = "ready"
    BY DEF JobsCalled
  <2>1. PICK w \in Workers : pc[w] \in {"loop", "work"} \/ (pc[w] = "idle" /\ stage[w] = "ready")
    BY DEF PInv, JobsCalled
  <2>2. pc'[w] = pc[w] /\ (pc[w] = "idle" => stage'[w] = stage[w])
    BY <2>1
  <2>3. QED BY <2>1, <2>2
<1>5. ClientsCalled'
  <2> SUFFICES ASSUME qmax # <<>>, queued = 0,
                      Soft # 0 \/ \E w \in Workers : pc'[w] \in {"loop", "idle"}
               PROVE  \/ \E c \in ToSet(qmax) : stage'[c] = "ready"
                      \/ \E w \in Workers : pc'[w] = "work"
    BY DEF ClientsCalled
  <2>1. Soft # 0 \/ \E w \in Workers : pc[w] \in {"loop", "idle"}
    OBVIOUS
  <2>2. CASE \E w \in Workers : pc[w] = "work"
    BY <2>2
  <2>3. CASE \E c \in ToSet(qmax) : stage[c] = "ready"
    <3>1. PICK c \in ToSet(qmax) : stage[c] = "ready"
      BY <2>3
    <3>2. c \in Ctxs /\ pc[c] = "blocked"
      BY DEF PInv, TypeOK, DocksAreWaiters, ToSet
    <3>3. QED BY <3>1, <3>2
  <2>4. QED BY <2>1, <2>2, <2>3 DEF PInv, ClientsCalled
<1>6. QED BY <1>1, <1>2, <1>3, <1>4, <1>5 DEF PInv

\* The actions that are such steps: a worker leaves the loop or finishes, contexts sleep
\* and wake elsewhere, are noted, asked, joined, and the pool is resized or destroyed.
LEMMA AsideActions ==
  ASSUME PInv, NEW c \in Ctxs,
         \/ c \in Workers /\ Exit(c)
         \/ c \in Workers /\ Add(c)
         \/ c \in Clients /\ (Del(c) \/ Joined(c) \/ Destroy(c) \/ Destroyed(c) \/ Leave(c))
         \/ Doze(c) \/ Awake(c) \/ Notify(c) \/ Interrupt(c)
  PROVE  PInv'
<1> USE NoneAssumption, PoolAssumption DEF PInv, TypeOK, SchedTypeOK
<1> DEFINE Steady ==
      \A e \in Ctxs : \/ pc'[e] = pc[e]
                      \/ /\ pc[e] \notin {"idle", "blocked", "work", "loop"}
                         /\ pc'[e] \notin {"idle", "blocked", "loop"}
    Kept ==
      /\ \A e \in Ctxs : "TERMINATED" \in pend[e] => "TERMINATED" \in pend'[e]
      /\ \A e \in Ctxs : pc[e] \in {"idle", "blocked"} =>
           stage'[e] = stage[e] \/ (stage[e] = "asleep" /\ stage'[e] = "ready")
<1>1. CASE c \in Workers /\ Exit(c)
  <2>1. TypeOK' /\ Steady /\ Kept /\ UNCHANGED <<queued, submitted, d, qmax>>
    <3>1. /\ stage' \in [Ctxs -> Stages]
          /\ \A e \in Ctxs \ {c} : \/ stage'[e] = stage[e]
                                   \/ stage[e] = "asleep" /\ stage'[e] = "ready"
      <4>1. /\ stage \in [Ctxs -> Stages] /\ c \in Ctxs /\ "done" \in Stages
            /\ stage' = [Wake(stage, Joiners) EXCEPT ![c] = "done"]
        BY <1>1 DEF Exit, Stages
      <4>2. QED BY ONLY <4>1, WokenExcept
    <3>2. QED BY <1>1, <3>1 DEF Exit, WorkerPlaces
  <2>2. QED BY <2>1, Aside
<1>2. CASE c \in Workers /\ Add(c)
  <2>1. TypeOK' /\ Steady /\ Kept /\ UNCHANGED <<queued, submitted, d, qmax>>
    <3>1. ctxs' \in Seq(Workers)
      BY <1>2, AppendProperties DEF Add
    <3>2. QED BY <1>2, <3>1 DEF Add, WorkerPlaces, Stages
  <2>2. QED BY <2>1, Aside
<1>3. CASE c \in Clients /\ Del(c)
  <2> DEFINE w == Last(ctxs)
  <2>1. w \in Workers /\ Front(ctxs) \in Seq(Workers) /\ w \in Ctxs
    <3>1. Len(ctxs) \in Nat /\ Len(ctxs) >= 1 /\ DOMAIN ctxs = 1..Len(ctxs)
      BY <1>3, LenProperties, EmptySeq DEF Del
    <3>2. Last(ctxs) \in Workers
      BY <3>1, ElementOfSeq DEF Last
    <3>3. Front(ctxs) \in Seq(Workers)
      BY <3>1, SubSeqProperties DEF Front
    <3>4. QED BY <3>2, <3>3
  <2>2. ctxs' = Front(ctxs) /\ pc[c] \in {"out", "destroy"}
    BY <1>3 DEF Del
  <2> HIDE DEF w
  <2>3. CASE pc[w] = "gone"
    <3>1. UNCHANGED <<current, stage, pend, masked, pc, joinee, queued, submitted, d, qmax, life>>
      BY <1>3, <2>3 DEF Del, w, sched
    <3>2. TypeOK' /\ Steady /\ Kept
      BY <2>1, <2>2, <3>1
    <3>3. QED BY <3>1, <3>2, Aside
  <2>4. CASE pc[w] # "gone"
    <3>1. /\ pc' = [pc EXCEPT ![c] = "joining"] /\ joinee' = [joinee EXCEPT ![c] = w]
          /\ current' = None
          /\ masked' = [masked EXCEPT ![c] = TRUE]
          /\ pend' = [pend EXCEPT ![w] = @ \cup {"TERMINATED"}]
          /\ stage' = [Wake(stage, {w} \ Terminating) EXCEPT ![c] = "asleep"]
          /\ UNCHANGED <<queued, submitted, d, qmax, life>>
      BY <1>3, <2>4 DEF Del, w
    <3>2. /\ stage' \in [Ctxs -> Stages]
          /\ \A e \in Ctxs \ {c} : \/ stage'[e] = stage[e]
                                   \/ stage[e] = "asleep" /\ stage'[e] = "ready"
      <4>1. /\ stage \in [Ctxs -> Stages] /\ c \in Ctxs /\ "asleep" \in Stages
            /\ stage' = [Wake(stage, {w} \ Terminating) EXCEPT ![c] = "asleep"]
        BY <3>1 DEF Stages
      <4>2. QED BY ONLY <4>1, WokenExcept
    <3>3. pend' \in [Ctxs -> SUBSET Requests]
      BY <2>1, <3>1 DEF Requests
    <3>4. TypeOK' /\ Steady /\ Kept
      BY <1>3, <2>1, <2>2, <3>1, <3>2, <3>3 DEF ClientPlaces, WorkerPlaces
    <3>5. QED BY <3>1, <3>4, Aside
  <2>5. QED BY <2>3, <2>4
<1>4. CASE c \in Clients /\ Joined(c)
  <2>1. TypeOK' /\ Steady /\ Kept /\ UNCHANGED <<queued, submitted, d, qmax>>
    <3>1. /\ pc[c] = "joining" /\ UNCHANGED <<pend, queued, submitted, d, qmax, ctxs, life>>
          /\ \E to \in {"running", "asleep"} : stage' = [stage EXCEPT ![c] = to]
          /\ \E at \in {"destroy", "out", "joining"} : pc' = [pc EXCEPT ![c] = at]
          /\ joinee' \in [Clients -> Workers \cup {None}]
          /\ current' \in Ctxs \cup {None} /\ masked' \in [Ctxs -> BOOLEAN]
      <4>1. CASE pc[joinee[c]] = "gone"
        BY <1>4, <4>1 DEF Joined
      <4>2. CASE pc[joinee[c]] # "gone"
        BY <1>4, <4>2 DEF Joined
      <4>3. QED BY <4>1, <4>2
    <3>2. TypeOK'
      <4>1. stage' \in [Ctxs -> Stages]
        <5>1. PICK to \in {"running", "asleep"} : stage' = [stage EXCEPT ![c] = to]
          BY <3>1
        <5>2. QED BY <5>1 DEF Stages
      <4>2. /\ pc' \in [Ctxs -> WorkerPlaces \cup ClientPlaces]
            /\ \A e \in Ctxs : pc'[e] \in WorkerPlaces <=> e \in Workers
        <5>1. PICK at \in {"destroy", "out", "joining"} : pc' = [pc EXCEPT ![c] = at]
          BY <3>1
        <5>2. at \in ClientPlaces /\ at \notin WorkerPlaces /\ c \notin Workers
          BY <1>4 DEF ClientPlaces, WorkerPlaces, Clients
        <5>3. QED BY <5>1, <5>2
      <4>3. QED BY <3>1, <4>1, <4>2
    <3>3. Steady /\ Kept
      BY <3>1
    <3>4. QED BY <3>1, <3>2, <3>3
  <2>2. QED BY <2>1, Aside
<1>5. CASE c \in Clients /\ Destroy(c)
  <2>1. /\ stage' \in [Ctxs -> Stages]
        /\ \A e \in Ctxs : stage'[e] = stage[e] \/ (stage[e] = "asleep" /\ stage'[e] = "ready")
    BY <1>5, Woken DEF Destroy, Requested
  <2>2. /\ pend' \in [Ctxs -> SUBSET Requests]
        /\ \A e \in Ctxs : "TERMINATED" \in pend[e] => "TERMINATED" \in pend'[e]
    BY <1>5 DEF Destroy, Requested, Requests
  <2>3. TypeOK' /\ Steady /\ Kept /\ UNCHANGED <<queued, submitted, d, qmax>>
    BY <1>5, <2>1, <2>2 DEF Destroy, ClientPlaces, WorkerPlaces
  <2>4. QED BY <2>3, Aside
<1>6. CASE c \in Clients /\ Destroyed(c)
  <2>1. TypeOK' /\ Steady /\ Kept /\ UNCHANGED <<queued, submitted, d, qmax>>
    BY <1>6 DEF Destroyed, ClientPlaces, WorkerPlaces, sched
  <2>2. QED BY <2>1, Aside
<1>7. CASE c \in Clients /\ Leave(c)
  <2>1. /\ stage' \in [Ctxs -> Stages]
        /\ \A e \in Ctxs \ {c} : \/ stage'[e] = stage[e]
                                 \/ stage[e] = "asleep" /\ stage'[e] = "ready"
    <3>1. /\ stage \in [Ctxs -> Stages] /\ c \in Ctxs /\ "done" \in Stages
          /\ stage' = [Wake(stage, Joiners) EXCEPT ![c] = "done"]
      BY <1>7 DEF Leave, Stages
    <3>2. QED BY ONLY <3>1, WokenExcept
  <2>2. TypeOK' /\ Steady /\ Kept /\ UNCHANGED <<queued, submitted, d, qmax>>
    BY <1>7, <2>1 DEF Leave, pool
  <2>3. QED BY <2>2, Aside
<1>8. CASE Doze(c) \/ Awake(c) \/ Notify(c) \/ Interrupt(c)
  <2>1. UNCHANGED <<pc, queued, d, qmax, ctxs, joinee, life, submitted>>
    BY <1>8 DEF Doze, Awake, Notify, Interrupt, pool
  <2>2. SchedTypeOK' /\ Kept
    <3>1. CASE Doze(c)
      BY <3>1 DEF Doze, Own, Suspend, Stages
    <3>2. CASE Awake(c)
      <4>1. /\ pend' \in [Ctxs -> SUBSET Requests] /\ masked' \in [Ctxs -> BOOLEAN]
            /\ \A e \in Ctxs : "TERMINATED" \in pend[e] => "TERMINATED" \in pend'[e]
        <5>0. SchedTypeOK /\ c \in Ctxs
          OBVIOUS
        <5>1. CASE Thrown(c)
          BY ONLY <5>0, <5>1, ThrownKeeps DEF SchedTypeOK, Thrown
        <5>2. CASE UNCHANGED <<pend, masked>>
          BY <5>2
        <5>3. QED BY <3>2, <5>1, <5>2 DEF Awake, Return
      <4>2. QED BY <3>2, <4>1 DEF Awake, Own, Return, Resumable, Stages
    <3>3. CASE Notify(c)
      BY <3>3, Woken DEF Notify, Rouse
    <3>4. CASE Interrupt(c)
      <4>1. /\ stage' \in [Ctxs -> Stages]
            /\ \A e \in Ctxs : stage'[e] = stage[e] \/ (stage[e] = "asleep" /\ stage'[e] = "ready")
        BY <3>4, Woken DEF Interrupt, Request
      <4>2. QED BY <3>4, <4>1 DEF Interrupt, Request, Requests
    <3>5. QED BY <1>8, <3>1, <3>2, <3>3, <3>4
  <2>3. TypeOK' /\ Steady
    BY <2>1, <2>2
  <2>4. QED BY <2>1, <2>2, <2>3, Aside
<1>9. QED BY <1>1, <1>2, <1>3, <1>4, <1>5, <1>6, <1>7, <1>8

LEMMA Asking ==
  ASSUME PInv, NEW r \in Requests, RequestAll(r)
  PROVE  PInv'
<1> USE DEF PInv, TypeOK, SchedTypeOK
<1>1. UNCHANGED <<current, masked, pc, queued, d, qmax, ctxs, joinee, life, submitted>>
  BY DEF RequestAll, pool
<1>2. /\ stage' \in [Ctxs -> Stages]
      /\ \A e \in Ctxs : stage'[e] = stage[e] \/ (stage[e] = "asleep" /\ stage'[e] = "ready")
  BY Woken DEF RequestAll, Requested
<1>3. /\ pend' \in [Ctxs -> SUBSET Requests]
      /\ \A e \in Ctxs : "TERMINATED" \in pend[e] => "TERMINATED" \in pend'[e]
  BY DEF RequestAll, Requested, Requests
<1>4. TypeOK'
  BY <1>1, <1>2, <1>3
<1>5. Workers \subseteq Ctxs
  BY PoolAssumption
<1>6. QED BY <1>1, <1>2, <1>3, <1>4, <1>5, Aside

-----------------------------------------------------------------------------
(* Steps in which one context moves *)

\* Nobody but c goes anywhere; others may only be woken.
OnlyMoves(c) ==
  \A e \in Ctxs \ {c} :
    /\ pc'[e] = pc[e]
    /\ stage'[e] = stage[e] \/ (stage[e] = "asleep" /\ stage'[e] = "ready")

\* The docks gain and lose nobody but c, and hold it where it says it waits.
Docked(c) ==
  /\ Distinct(d)' /\ Distinct(qmax)'
  /\ \A e \in Ctxs \ {c} : /\ e \in ToSet(d') <=> e \in ToSet(d)
                           /\ e \in ToSet(qmax') <=> e \in ToSet(qmax)
  /\ c \in Workers => (pc'[c] = "idle" <=> c \in ToSet(d'))
  /\ c \in Clients => (pc'[c] = "blocked" <=> c \in ToSet(qmax'))
  /\ c \in Ctxs /\ pc'[c] \in {"idle", "blocked"} => stage'[c] \in {"ready", "asleep"}

LEMMA Moved ==
  ASSUME PInv, NEW c, OnlyMoves(c), Docked(c),
         TypeOK', JobsBounded', JobsCalled', ClientsCalled'
  PROVE  PInv'
<1> Workers \subseteq Ctxs /\ Clients \subseteq Ctxs
  BY PoolAssumption DEF Clients
<1>1. DocksAreWaiters'
  <2>1. ASSUME NEW w \in Workers PROVE pc'[w] = "idle" <=> w \in ToSet(d')
    BY DEF PInv, DocksAreWaiters, OnlyMoves, Docked
  <2>2. ASSUME NEW e \in Clients PROVE pc'[e] = "blocked" <=> e \in ToSet(qmax')
    BY DEF PInv, DocksAreWaiters, OnlyMoves, Docked
  <2>3. QED BY <2>1, <2>2 DEF Docked, DocksAreWaiters
<1>2. WaitersSuspended'
  BY DEF PInv, WaitersSuspended, OnlyMoves, Docked
<1>3. QED BY <1>1, <1>2 DEF PInv

\* Jobs stay called for while a worker that is not terminated is on its way.
LEMMA OnItsWay ==
  ASSUME NEW w \in Workers, pc'[w] \in {"loop", "work"} \/ "TERMINATED" \in pend'[w]
  PROVE  JobsCalled'
BY DEF JobsCalled

\* A client that comes or goes with no job pushed leaves the jobs called for.
LEMMA StillCalled ==
  ASSUME PInv, NEW c \in Clients, OnlyMoves(c), UNCHANGED <<queued, d>>,
         \A w \in Workers : "TERMINATED" \in pend[w] => "TERMINATED" \in pend'[w]
  PROVE  JobsCalled'
<1> SUFFICES ASSUME \A w \in Workers : "TERMINATED" \notin pend'[w], queued > 0, d # <<>>
             PROVE  \E w \in Workers : \/ pc'[w] \in {"loop", "work"}
                                       \/ pc'[w] = "idle" /\ stage'[w] = "ready"
  BY DEF JobsCalled
<1>1. PICK w \in Workers : pc[w] \in {"loop", "work"} \/ (pc[w] = "idle" /\ stage[w] = "ready")
  BY DEF PInv, JobsCalled
<1>2. w \in Ctxs \ {c}
  BY PoolAssumption DEF Clients
<1>3. QED BY <1>1, <1>2 DEF OnlyMoves

\* A worker that becomes available by no more than it was leaves the clients called.
LEMMA NoMoreRoom ==
  ASSUME PInv, NEW w \in Workers, OnlyMoves(w), UNCHANGED <<queued, qmax>>,
         pc[w] # "work", pc'[w] \in {"loop", "idle"} => pc[w] \in {"loop", "idle"}
  PROVE  ClientsCalled'
<1> SUFFICES ASSUME qmax # <<>>, queued = 0,
                    Soft # 0 \/ \E e \in Workers : pc'[e] \in {"loop", "idle"}
             PROVE  \/ \E c \in ToSet(qmax) : stage'[c] = "ready"
                    \/ \E e \in Workers : pc'[e] = "work"
  BY DEF ClientsCalled
<1> Workers \subseteq Ctxs
  BY PoolAssumption
<1>1. Soft # 0 \/ \E e \in Workers : pc[e] \in {"loop", "idle"}
  BY DEF OnlyMoves
<1>2. CASE \E e \in Workers : pc[e] = "work"
  BY <1>2 DEF OnlyMoves
<1>3. CASE \E c \in ToSet(qmax) : stage[c] = "ready"
  <2>1. PICK c \in ToSet(qmax) : stage[c] = "ready"
    BY <1>3
  <2>2. c \in Ctxs \ {w}
    BY DEF PInv, TypeOK, Clients, ToSet
  <2>3. QED BY <2>1, <2>2 DEF OnlyMoves
<1>4. QED BY <1>1, <1>2, <1>3 DEF PInv, ClientsCalled

\* The client at the front of q_max is woken.
LEMMA FrontWoken ==
  ASSUME PInv, NEW c \in Ctxs, NEW q \in Seq(Clients), ToSet(q) \subseteq ToSet(qmax),
         c \notin ToSet(q), OnlyMoves(c),
         \A e \in Ctxs \ {c} : e \in Front1(q) /\ stage[e] \in {"ready", "asleep"} => stage'[e] = "ready",
         ToSet(qmax') = ToSet(q), qmax' # <<>> => q # <<>>
  PROVE  ClientsCalled'
<1> SUFFICES ASSUME qmax' # <<>> PROVE \E e \in ToSet(qmax') : stage'[e] = "ready"
  BY DEF ClientsCalled
<1> DEFINE e == Head(q)
<1>1. e \in ToSet(q) /\ e \in Clients /\ e \in Front1(q)
  BY HeadElement DEF Front1
<1> HIDE DEF e
<1>2. pc[e] = "blocked" /\ e \in Ctxs \ {c}
  BY <1>1 DEF PInv, DocksAreWaiters, Clients
<1>3. stage'[e] = "ready"
  BY <1>1, <1>2 DEF PInv, WaitersSuspended
<1>4. QED BY <1>1, <1>3

\* A job is pushed: the worker at the front of the dock is woken for it.
LEMMA PushCalls ==
  ASSUME PInv, NEW c, c \notin Workers, OnlyMoves(c), queued' = queued + 1, d' = Rotated(d),
         \A e \in Ctxs \ {c} : e \in Front1(d) /\ stage[e] \in {"ready", "asleep"} => stage'[e] = "ready"
  PROVE  JobsCalled' /\ ClientsCalled'
<1>1. ClientsCalled'
  BY DEF PInv, TypeOK, ClientsCalled
<1>2. JobsCalled'
  <2> SUFFICES ASSUME d' # <<>>
               PROVE  \E w \in Workers : pc'[w] = "idle" /\ stage'[w] = "ready"
    BY DEF JobsCalled
  <2>1. d # <<>> /\ d \in Seq(Workers)
    BY DEF Rotated, PInv, TypeOK
  <2> DEFINE w == Head(d)
  <2>2. w \in ToSet(d) /\ w \in Workers /\ w \in Front1(d)
    BY <2>1, HeadElement DEF Front1
  <2> HIDE DEF w
  <2>3. w \in Ctxs \ {c} /\ pc[w] = "idle"
    BY <2>2, PoolAssumption DEF PInv, DocksAreWaiters
  <2>4. pc'[w] = "idle" /\ stage'[w] = "ready"
    BY <2>2, <2>3 DEF OnlyMoves, PInv, WaitersSuspended
  <2>5. QED BY <2>2, <2>4
<1>3. QED BY <1>1, <1>2

\* Nobody pushes, blocks or finds room under a hard limit of zero.
LEMMA HardZero ==
  ASSUME PInv
  PROVE  /\ Full => queued > 0 \/ Hard = 0
         /\ ~Full => Hard # 0
         /\ Hard = 0 => queued = 0 /\ qmax = <<>>
BY PoolAssumption DEF PInv, TypeOK, JobsBounded, Full, Unlimited

-----------------------------------------------------------------------------
(* The clients *)

LEMMA Submits ==
  ASSUME PInv, NEW c \in Clients \cup {None}, Submit(c)
  PROVE  PInv'
<1>0. c \notin Workers
  BY NoneAssumption, PoolAssumption DEF Clients
<1>1. UNCHANGED <<current, pend, masked, pc, qmax, ctxs, joinee, life>>
  BY DEF Submit
<1>2. CASE Full
  <2>1. UNCHANGED <<queued, submitted, d, stage>>
    BY <1>2 DEF Submit, Push
  <2>2. QED BY <1>1, <2>1
       DEF PInv, TypeOK, SchedTypeOK, DocksAreWaiters, Distinct, JobsBounded, WaitersSuspended,
           JobsCalled, ClientsCalled
<1>3. CASE ~Full
  <2>1. /\ queued' = queued + 1 /\ submitted' = submitted + 1
        /\ d' = Rotated(d) /\ stage' = Wake(stage, Front1(d))
    BY <1>3 DEF Submit, Push
  <2>2. /\ stage' \in [Ctxs -> Stages]
        /\ \A e \in Ctxs : \/ stage'[e] = stage[e]
                           \/ stage[e] = "asleep" /\ stage'[e] = "ready"
        /\ \A e \in Ctxs : e \in Front1(d) /\ stage[e] \in {"ready", "asleep"} => stage'[e] = "ready"
    BY <2>1, Woken DEF PInv, TypeOK, SchedTypeOK
  <2>3. /\ d' \in Seq(Workers) /\ ToSet(d') = ToSet(d) /\ Distinct(d)'
    BY <2>1, RotatedElements DEF PInv, TypeOK, DocksAreWaiters, Distinct
  <2>4. JobsBounded' /\ submitted' \in 0..MaxJobs /\ queued' \in 0..MaxJobs
    <3>1. Len(qmax) \in Nat
      BY LenProperties DEF PInv, TypeOK
    <3>2. submitted + Len(qmax) < MaxJobs
      BY DEF Submit, Left
    <3>3. Hard # 0
      BY <1>3, HardZero
    <3>4. QED BY <1>1, <2>1, <3>1, <3>2, <3>3, PoolAssumption DEF PInv, TypeOK, JobsBounded
  <2>5. TypeOK'
    BY <1>1, <2>2, <2>3, <2>4 DEF PInv, TypeOK, SchedTypeOK
  <2>6. OnlyMoves(c)
    BY <1>1, <2>2 DEF OnlyMoves
  <2>7. Docked(c)
    <3>1. Distinct(qmax)'
      BY <1>1 DEF PInv, DocksAreWaiters, Distinct
    <3>2. c \in Clients => (pc'[c] = "blocked" <=> c \in ToSet(qmax'))
      BY <1>1 DEF PInv, DocksAreWaiters
    <3>3. c \in Ctxs /\ pc'[c] \in {"idle", "blocked"} => stage'[c] \in {"ready", "asleep"}
      BY <1>1, <2>2 DEF PInv, WaitersSuspended
    <3>4. QED BY <1>0, <1>1, <2>3, <3>1, <3>2, <3>3 DEF Docked
  <2>8. JobsCalled' /\ ClientsCalled'
    BY <1>0, <2>1, <2>2, <2>6, PushCalls
  <2>9. QED BY <2>4, <2>5, <2>6, <2>7, <2>8, Moved
<1>4. QED BY <1>2, <1>3

LEMMA Blocks ==
  ASSUME PInv, NEW c \in Clients, Block(c)
  PROVE  PInv'
<1>0. c \in Ctxs /\ c \notin Workers
  BY DEF Clients
<1>1. /\ current' = None /\ stage' = [stage EXCEPT ![c] = "asleep"]
      /\ pc' = [pc EXCEPT ![c] = "blocked"] /\ qmax' = Append(qmax, c)
      /\ UNCHANGED <<pend, masked, queued, submitted, d, ctxs, joinee, life>>
  BY DEF Block, Suspend
<1>2. /\ pc[c] = "out" /\ submitted + Len(qmax) < MaxJobs
      /\ Soft >= 0 /\ queued > Soft
  BY DEF Block, Waits, Left
<1>3. c \notin ToSet(qmax) /\ c \notin ToSet(d)
  BY <1>0, <1>2 DEF PInv, DocksAreWaiters, TypeOK, ToSet
<1>4. /\ qmax' \in Seq(Clients) /\ ToSet(qmax') = ToSet(qmax) \cup {c} /\ Distinct(qmax)'
  BY <1>1, <1>3, AppendElements DEF PInv, TypeOK, DocksAreWaiters, Distinct
<1>5. Len(qmax') = Len(qmax) + 1 /\ Len(qmax) \in Nat
  BY <1>1, AppendProperties, LenProperties DEF PInv, TypeOK
<1>6. queued > 0
  BY <1>2, PoolAssumption DEF PInv, TypeOK, Unlimited
<1>7. JobsBounded'
  <2>1. Hard # 0
    BY <1>6, HardZero
  <2>2. QED BY <1>1, <1>2, <1>5, <2>1, PoolAssumption DEF PInv, TypeOK, JobsBounded
<1>8. TypeOK'
  <2>1. /\ pc' \in [Ctxs -> WorkerPlaces \cup ClientPlaces]
        /\ \A e \in Ctxs : pc'[e] \in WorkerPlaces <=> e \in Workers
    BY <1>0, <1>1 DEF PInv, TypeOK, WorkerPlaces, ClientPlaces
  <2>2. QED BY <1>0, <1>1, <1>4, <2>1 DEF PInv, TypeOK, SchedTypeOK, Stages
<1>9. OnlyMoves(c)
  BY <1>0, <1>1 DEF PInv, TypeOK, SchedTypeOK, OnlyMoves
<1>10. Docked(c)
  <2>1. Distinct(d)'
    BY <1>1 DEF PInv, DocksAreWaiters, Distinct
  <2>2. stage'[c] = "asleep" /\ pc'[c] = "blocked"
    BY <1>0, <1>1 DEF PInv, TypeOK, SchedTypeOK
  <2>3. QED BY <1>0, <1>1, <1>4, <2>1, <2>2 DEF Docked
<1>11. JobsCalled'
  BY <1>1, <1>9, StillCalled
<1>12. ClientsCalled'
  BY <1>1, <1>6 DEF ClientsCalled
<1>13. QED BY <1>0, <1>7, <1>8, <1>9, <1>10, <1>11, <1>12, Moved

\* A blocked client leaves the dock: what is left of q_max, and of the bound.
LEMMA LeavesQmax ==
  ASSUME PInv, NEW c \in Clients, pc[c] = "blocked", qmax' = Without(qmax, c)
  PROVE  /\ qmax' \in Seq(Clients) /\ ToSet(qmax') = ToSet(qmax) \ {c} /\ Distinct(qmax)'
         /\ Len(qmax') = Len(qmax) - 1 /\ Len(qmax) \in Nat /\ qmax # <<>>
<1>1. c \in ToSet(qmax)
  BY DEF PInv, DocksAreWaiters
<1>2. qmax \in Seq(Clients) /\ \A i, j \in DOMAIN qmax : qmax[i] = qmax[j] => i = j
  BY DEF PInv, TypeOK, DocksAreWaiters, Distinct
<1>3. /\ Without(qmax, c) \in Seq(Clients)
      /\ \A i, j \in DOMAIN Without(qmax, c) :
           Without(qmax, c)[i] = Without(qmax, c)[j] => i = j
      /\ ToSet(Without(qmax, c)) = ToSet(qmax) \ {c}
      /\ Len(Without(qmax, c)) = Len(qmax) - 1
  BY ONLY <1>1, <1>2, WithoutElements
<1>4. qmax # <<>>
  BY <1>1 DEF ToSet
<1>5. QED BY <1>2, <1>3, <1>4, LenProperties DEF Distinct

LEMMA Unblocks ==
  ASSUME PInv, NEW c \in Clients, Unblock(c)
  PROVE  PInv'
<1>0. c \in Ctxs /\ c \notin Workers
  BY DEF Clients
<1>1. current = None /\ stage[c] = "ready" /\ pc[c] = "blocked" /\ UNCHANGED <<ctxs, joinee, life>>
  BY DEF Unblock, Resumable
<1>2. stage \in [Ctxs -> Stages] /\ {"running", "asleep"} \subseteq Stages
  BY DEF PInv, TypeOK, SchedTypeOK, Stages
<1>3. ASSUME pc' = [pc EXCEPT ![c] = "out"]
      PROVE  /\ pc' \in [Ctxs -> WorkerPlaces \cup ClientPlaces] /\ pc'[c] = "out"
             /\ \A e \in Ctxs : pc'[e] \in WorkerPlaces <=> e \in Workers
             /\ \A e \in Ctxs \ {c} : pc'[e] = pc[e]
  BY <1>0, <1>3 DEF PInv, TypeOK, WorkerPlaces, ClientPlaces
<1>4. CASE Throws(c)
  <2>1. /\ qmax' = Without(qmax, c) /\ pc' = [pc EXCEPT ![c] = "out"] /\ current' = c
        /\ stage' = [Wake(stage, Front1(qmax')) EXCEPT ![c] = "running"]
        /\ Thrown(c) /\ UNCHANGED <<queued, submitted, d>>
    BY <1>4 DEF Unblock
  <2>2. /\ stage' \in [Ctxs -> Stages]
        /\ \A e \in Ctxs \ {c} : \/ stage'[e] = stage[e]
                                 \/ stage[e] = "asleep" /\ stage'[e] = "ready"
        /\ \A e \in Ctxs \ {c} : e \in Front1(qmax') /\ stage[e] \in {"ready", "asleep"} =>
             stage'[e] = "ready"
    BY <1>0, <1>2, <2>1, WokenExcept
  <2>3. /\ pend' \in [Ctxs -> SUBSET Requests] /\ masked' \in [Ctxs -> BOOLEAN]
        /\ \A e \in Ctxs : "TERMINATED" \in pend[e] => "TERMINATED" \in pend'[e]
    BY <1>0, <2>1, ThrownKeeps DEF PInv, TypeOK, Thrown, SchedTypeOK
  <2>4. /\ qmax' \in Seq(Clients) /\ ToSet(qmax') = ToSet(qmax) \ {c} /\ Distinct(qmax)'
        /\ Len(qmax') = Len(qmax) - 1 /\ Len(qmax) \in Nat /\ qmax # <<>>
    BY <1>1, <2>1, LeavesQmax
  <2>5. TypeOK'
    BY <1>0, <1>1, <1>3, <2>1, <2>2, <2>3, <2>4 DEF PInv, TypeOK, SchedTypeOK
  <2>6. OnlyMoves(c)
    BY <1>3, <2>1, <2>2 DEF OnlyMoves
  <2>7. Docked(c)
    <3>1. Distinct(d)'
      BY <2>1 DEF PInv, DocksAreWaiters, Distinct
    <3>2. QED BY <1>0, <1>3, <2>1, <2>4, <3>1 DEF Docked
  <2>8. JobsBounded'
    <3>1. Hard # 0
      BY <2>4, HardZero
    <3>2. QED BY <2>1, <2>4, <3>1, PoolAssumption DEF PInv, TypeOK, JobsBounded
  <2>9. JobsCalled'
    BY <2>1, <2>3, <2>6, StillCalled, PoolAssumption
  <2>10. ClientsCalled'
    <3>1. ToSet(qmax') \subseteq ToSet(qmax) /\ c \notin ToSet(qmax')
      BY <2>4
    <3>2. QED BY <1>0, <2>2, <2>4, <2>6, <3>1, FrontWoken
  <2>11. QED BY <1>0, <2>5, <2>6, <2>7, <2>8, <2>9, <2>10, Moved
<1>5. CASE ~Throws(c) /\ wouldblock
  <2>1. /\ stage' = [stage EXCEPT ![c] = "asleep"]
        /\ UNCHANGED <<pend, masked, current, pc, qmax, queued, submitted, d, ctxs, joinee, life>>
    BY <1>1, <1>5 DEF Unblock
  <2>2. /\ stage' \in [Ctxs -> Stages] /\ stage'[c] = "asleep"
        /\ \A e \in Ctxs \ {c} : stage'[e] = stage[e]
    BY <1>0, <1>2, <2>1
  <2>3. TypeOK' /\ OnlyMoves(c) /\ JobsBounded'
    BY <2>1, <2>2 DEF PInv, TypeOK, SchedTypeOK, OnlyMoves, JobsBounded
  <2>4. Docked(c)
    <3>1. Distinct(d)' /\ Distinct(qmax)'
      BY <2>1 DEF PInv, DocksAreWaiters, Distinct
    <3>2. c \in Clients => (pc'[c] = "blocked" <=> c \in ToSet(qmax'))
      BY <2>1 DEF PInv, DocksAreWaiters
    <3>3. QED BY <1>0, <2>1, <2>2, <3>1, <3>2 DEF Docked
  <2>5. JobsCalled'
    BY <2>1, <2>3, StillCalled
  <2>6. ClientsCalled'
    <3>1. queued = 0 => Soft = 0 /\ \A w \in Workers : pc[w] \notin {"loop", "idle"}
      BY <1>5, Room DEF PInv
    <3>2. QED BY <2>1, <3>1 DEF ClientsCalled
  <2>7. QED BY <1>0, <2>3, <2>4, <2>5, <2>6, Moved
<1>6. CASE ~Throws(c) /\ ~wouldblock
  <2>1. /\ qmax' = Without(qmax, c) /\ pc' = [pc EXCEPT ![c] = "out"] /\ current' = c
        /\ UNCHANGED <<pend, masked, ctxs, joinee, life>>
    BY <1>1, <1>6 DEF Unblock
  <2>2. /\ qmax' \in Seq(Clients) /\ ToSet(qmax') = ToSet(qmax) \ {c} /\ Distinct(qmax)'
        /\ Len(qmax') = Len(qmax) - 1 /\ Len(qmax) \in Nat /\ qmax # <<>>
    BY <1>1, <2>1, LeavesQmax
  <2>3. Hard # 0
    BY <2>2, HardZero
  <2>4. CASE Full
    <3>1. stage' = [stage EXCEPT ![c] = "running"] /\ UNCHANGED <<queued, submitted, d>>
      BY <1>6, <2>4 DEF Unblock
    <3>2. /\ stage' \in [Ctxs -> Stages]
          /\ \A e \in Ctxs \ {c} : stage'[e] = stage[e]
      BY <1>0, <1>2, <3>1
    <3>3. TypeOK'
      BY <1>0, <1>3, <2>1, <2>2, <3>1, <3>2 DEF PInv, TypeOK, SchedTypeOK
    <3>4. OnlyMoves(c)
      BY <1>3, <2>1, <3>2 DEF OnlyMoves
    <3>5. Docked(c)
      <4>1. Distinct(d)'
        BY <3>1 DEF PInv, DocksAreWaiters, Distinct
      <4>2. QED BY <1>0, <1>3, <2>1, <2>2, <3>1, <4>1 DEF Docked
    <3>6. JobsBounded'
      BY <2>2, <2>3, <3>1, PoolAssumption DEF PInv, TypeOK, JobsBounded
    <3>7. JobsCalled'
      BY <2>1, <3>1, <3>4, StillCalled
    <3>8. ClientsCalled'
      <4>1. queued' > 0
        BY <2>3, <2>4, <3>1, HardZero
      <4>2. QED BY <4>1 DEF ClientsCalled
    <3>9. QED BY <1>0, <3>3, <3>4, <3>5, <3>6, <3>7, <3>8, Moved
  <2>5. CASE ~Full
    <3>1. /\ queued' = queued + 1 /\ submitted' = submitted + 1
          /\ d' = Rotated(d)
          /\ stage' = [Wake(stage, Front1(d)) EXCEPT ![c] = "running"]
      BY <1>6, <2>5 DEF Unblock
    <3>2. /\ stage' \in [Ctxs -> Stages]
          /\ \A e \in Ctxs \ {c} : \/ stage'[e] = stage[e]
                                   \/ stage[e] = "asleep" /\ stage'[e] = "ready"
          /\ \A e \in Ctxs \ {c} : e \in Front1(d) /\ stage[e] \in {"ready", "asleep"} =>
               stage'[e] = "ready"
      BY <1>0, <1>2, <3>1, WokenExcept
    <3>3. /\ d' \in Seq(Workers) /\ ToSet(d') = ToSet(d) /\ Distinct(d)'
      BY <3>1, RotatedElements DEF PInv, TypeOK, DocksAreWaiters, Distinct
    <3>4. JobsBounded' /\ submitted' \in 0..MaxJobs /\ queued' \in 0..MaxJobs
      BY <2>2, <2>3, <3>1, PoolAssumption DEF PInv, TypeOK, JobsBounded
    <3>5. TypeOK'
      BY <1>0, <1>3, <2>1, <2>2, <3>2, <3>3, <3>4 DEF PInv, TypeOK, SchedTypeOK
    <3>6. OnlyMoves(c)
      BY <1>3, <2>1, <3>2 DEF OnlyMoves
    <3>7. Docked(c)
      BY <1>0, <1>3, <2>1, <2>2, <3>3 DEF Docked
    <3>8. JobsCalled' /\ ClientsCalled'
      BY <1>0, <3>1, <3>2, <3>6, PushCalls
    <3>9. QED BY <1>0, <3>4, <3>5, <3>6, <3>7, <3>8, Moved
  <2>6. QED BY <2>4, <2>5
<1>7. QED BY <1>4, <1>5, <1>6

-----------------------------------------------------------------------------
(* The workers *)

\* Where a worker goes, and that nobody else does.
LEMMA Placed ==
  ASSUME PInv, NEW w \in Workers, NEW to \in WorkerPlaces, pc' = [pc EXCEPT ![w] = to]
  PROVE  /\ pc' \in [Ctxs -> WorkerPlaces \cup ClientPlaces] /\ pc'[w] = to
         /\ \A e \in Ctxs : pc'[e] \in WorkerPlaces <=> e \in Workers
         /\ \A e \in Ctxs \ {w} : pc'[e] = pc[e]
BY PoolAssumption DEF PInv, TypeOK

\* A worker notifies q_max and goes on with the loop, or leaves it terminated.
LEMMA MakesRoom ==
  ASSUME PInv, NEW w \in Workers, pc[w] \in {"born", "work"}, NEW to \in {"loop", "exit"},
         pc' = [pc EXCEPT ![w] = to], to = "exit" => "TERMINATED" \in pend'[w],
         current' = w, stage' = [Wake(stage, Front1(qmax)) EXCEPT ![w] = "running"],
         qmax' = Rotated(qmax), pend' \in [Ctxs -> SUBSET Requests], masked' \in [Ctxs -> BOOLEAN],
         UNCHANGED <<queued, submitted, d, ctxs, joinee, life>>
  PROVE  PInv'
<1>0. w \in Ctxs /\ w \notin Clients /\ to \in WorkerPlaces
  BY PoolAssumption DEF Clients, WorkerPlaces
<1>1. /\ pc' \in [Ctxs -> WorkerPlaces \cup ClientPlaces] /\ pc'[w] = to
      /\ \A e \in Ctxs : pc'[e] \in WorkerPlaces <=> e \in Workers
      /\ \A e \in Ctxs \ {w} : pc'[e] = pc[e]
  BY <1>0, Placed
<1>2. /\ stage' \in [Ctxs -> Stages]
      /\ \A e \in Ctxs \ {w} : \/ stage'[e] = stage[e]
                               \/ stage[e] = "asleep" /\ stage'[e] = "ready"
      /\ \A e \in Ctxs \ {w} : e \in Front1(qmax) /\ stage[e] \in {"ready", "asleep"} =>
           stage'[e] = "ready"
  <2>1. stage \in [Ctxs -> Stages] /\ "running" \in Stages
    BY DEF PInv, TypeOK, SchedTypeOK, Stages
  <2>2. QED BY <1>0, <2>1, WokenExcept
<1>3. /\ qmax' \in Seq(Clients) /\ ToSet(qmax') = ToSet(qmax) /\ Distinct(qmax)'
      /\ Len(qmax') = Len(qmax) /\ (qmax' # <<>> => qmax # <<>>)
  <2>1. qmax' # <<>> => qmax # <<>>
    BY DEF Rotated
  <2>2. QED BY <2>1, RotatedElements DEF PInv, TypeOK, DocksAreWaiters, Distinct
<1>4. TypeOK'
  BY <1>0, <1>1, <1>2, <1>3 DEF PInv, TypeOK, SchedTypeOK
<1>5. OnlyMoves(w)
  BY <1>1, <1>2 DEF OnlyMoves
<1>6. Docked(w)
  <2>1. Distinct(d)' /\ w \notin ToSet(d)
    BY DEF PInv, DocksAreWaiters, Distinct
  <2>2. QED BY <1>0, <1>1, <1>3, <2>1 DEF Docked
<1>7. JobsBounded'
  <2>1. Hard = 0 => qmax' = <<>>
    BY DEF PInv, JobsBounded, Rotated
  <2>2. QED BY <1>3, <2>1 DEF PInv, JobsBounded
<1>8. JobsCalled'
  BY <1>1, OnItsWay
<1>9. ClientsCalled'
  <2>1. w \notin ToSet(qmax) /\ qmax \in Seq(Clients)
    BY <1>0 DEF PInv, TypeOK, ToSet
  <2>2. QED BY <1>0, <1>2, <1>3, <1>5, <2>1, FrontWoken
<1>10. QED BY <1>4, <1>5, <1>6, <1>7, <1>8, <1>9, Moved

LEMMA Enters ==
  ASSUME PInv, NEW w \in Workers, Enter(w)
  PROVE  PInv'
<1>0. w \in Ctxs /\ pc[w] = "born"
  BY PoolAssumption DEF Enter
<1>1. CASE Throws(w)
  <2>1. /\ current' = w /\ Thrown(w) /\ pc' = [pc EXCEPT ![w] = "exit"]
        /\ stage' = [stage EXCEPT ![w] = "running"]
        /\ UNCHANGED <<qmax, queued, submitted, d, ctxs, joinee, life>>
    BY <1>1 DEF Enter
  <2>2. /\ pend' \in [Ctxs -> SUBSET Requests] /\ masked' \in [Ctxs -> BOOLEAN]
        /\ \A e \in Ctxs : "TERMINATED" \in pend[e] => "TERMINATED" \in pend'[e]
    BY <1>0, <2>1, ThrownKeeps DEF PInv, TypeOK, Thrown, SchedTypeOK
  <2>3. /\ pc' \in [Ctxs -> WorkerPlaces \cup ClientPlaces] /\ pc'[w] = "exit"
        /\ \A e \in Ctxs : pc'[e] \in WorkerPlaces <=> e \in Workers
        /\ \A e \in Ctxs \ {w} : pc'[e] = pc[e]
    <3>1. "exit" \in WorkerPlaces
      BY DEF WorkerPlaces
    <3>2. QED BY <2>1, <3>1, Placed
  <2>4. stage' \in [Ctxs -> Stages] /\ \A e \in Ctxs \ {w} : stage'[e] = stage[e]
    BY <1>0, <2>1 DEF PInv, TypeOK, SchedTypeOK, Stages
  <2>5. TypeOK'
    BY <1>0, <2>1, <2>2, <2>3, <2>4 DEF PInv, TypeOK, SchedTypeOK
  <2>6. \A e \in Ctxs : \/ pc'[e] = pc[e]
                       \/ /\ pc[e] \notin {"idle", "blocked", "work"}
                          /\ pc'[e] \notin {"idle", "blocked", "loop"}
    BY <1>0, <2>3
  <2>7. \A e \in Workers : pc[e] = "loop" /\ pc'[e] # "loop" => "TERMINATED" \in pend[e]
    BY <1>0, <2>3, PoolAssumption
  <2>8. \A e \in Ctxs : pc[e] \in {"idle", "blocked"} => stage'[e] = stage[e]
    BY <1>0, <2>4
  <2>9. QED BY <2>1, <2>2, <2>5, <2>6, <2>7, <2>8, Aside, PoolAssumption
<1>2. CASE ~Throws(w)
  <2>1. /\ current' = w /\ pc' = [pc EXCEPT ![w] = "loop"]
        /\ stage' = [Wake(stage, Front1(qmax)) EXCEPT ![w] = "running"]
        /\ qmax' = Rotated(qmax)
        /\ UNCHANGED <<pend, masked, queued, submitted, d, ctxs, joinee, life>>
    BY <1>2 DEF Enter
  <2>2. pend' \in [Ctxs -> SUBSET Requests] /\ masked' \in [Ctxs -> BOOLEAN]
    BY <2>1 DEF PInv, TypeOK, SchedTypeOK
  <2>3. QED BY <1>0, <2>1, <2>2, MakesRoom
<1>3. QED BY <1>1, <1>2

LEMMA Finishes ==
  ASSUME PInv, NEW w \in Workers, Done(w)
  PROVE  PInv'
<1>0. w \in Ctxs /\ pc[w] = "work"
  BY PoolAssumption DEF Done
<1>1. /\ current' = w /\ stage' = [Wake(stage, Front1(qmax)) EXCEPT ![w] = "running"]
      /\ qmax' = Rotated(qmax) /\ UNCHANGED <<queued, submitted, d, ctxs, joinee, life>>
  BY DEF Done
<1>2. CASE /\ Thrown(w)
           /\ pc' = [pc EXCEPT ![w] = IF "TERMINATED" \in pend[w] THEN "exit" ELSE "loop"]
  <2> DEFINE to == IF "TERMINATED" \in pend[w] THEN "exit" ELSE "loop"
  <2>1. /\ pend' \in [Ctxs -> SUBSET Requests] /\ masked' \in [Ctxs -> BOOLEAN]
        /\ "TERMINATED" \in pend[w] => "TERMINATED" \in pend'[w]
    BY <1>0, <1>2, ThrownKeeps DEF PInv, TypeOK, Thrown, SchedTypeOK
  <2>2. /\ to \in {"loop", "exit"} /\ pc' = [pc EXCEPT ![w] = to]
        /\ to = "exit" => "TERMINATED" \in pend'[w]
    BY <1>2, <2>1
  <2> HIDE DEF to
  <2>3. QED BY <1>0, <1>1, <2>1, <2>2, MakesRoom
<1>3. CASE UNCHANGED <<pend, masked>> /\ pc' = [pc EXCEPT ![w] = "loop"]
  <2>1. pend' \in [Ctxs -> SUBSET Requests] /\ masked' \in [Ctxs -> BOOLEAN]
    BY <1>3 DEF PInv, TypeOK, SchedTypeOK
  <2>2. QED BY <1>0, <1>1, <1>3, <2>1, MakesRoom
<1>4. QED BY <1>2, <1>3 DEF Done

\* A worker takes a job, from the top of the loop or out of the dock.
LEMMA Takes ==
  ASSUME PInv, NEW w \in Workers, pc[w] \in {"loop", "idle"}, queued > 0, queued' = queued - 1,
         pc' = [pc EXCEPT ![w] = "work"],
         IF pc[w] = "idle" THEN d' = Without(d, w) ELSE d' = d,
         stage' \in [Ctxs -> Stages], \A e \in Ctxs \ {w} : stage'[e] = stage[e],
         current' \in Ctxs \cup {None},
         UNCHANGED <<pend, masked, submitted, qmax, ctxs, joinee, life>>
  PROVE  PInv'
<1>0. w \in Ctxs /\ w \notin Clients
  BY PoolAssumption DEF Clients
<1>1. /\ pc' \in [Ctxs -> WorkerPlaces \cup ClientPlaces] /\ pc'[w] = "work"
      /\ \A e \in Ctxs : pc'[e] \in WorkerPlaces <=> e \in Workers
      /\ \A e \in Ctxs \ {w} : pc'[e] = pc[e]
  <2>1. "work" \in WorkerPlaces
    BY DEF WorkerPlaces
  <2>2. QED BY <2>1, Placed
<1>2. d' \in Seq(Workers) /\ ToSet(d') = ToSet(d) \ {w} /\ Distinct(d)'
  <2>1. d \in Seq(Workers) /\ \A i, j \in DOMAIN d : d[i] = d[j] => i = j
    BY DEF PInv, TypeOK, DocksAreWaiters, Distinct
  <2>2. w \in ToSet(d) <=> pc[w] = "idle"
    BY DEF PInv, DocksAreWaiters
  <2>3. CASE pc[w] = "idle"
    <3>1. /\ Without(d, w) \in Seq(Workers)
          /\ \A i, j \in DOMAIN Without(d, w) : Without(d, w)[i] = Without(d, w)[j] => i = j
          /\ ToSet(Without(d, w)) = ToSet(d) \ {w}
      BY <2>1, <2>2, <2>3, WithoutElements
    <3>2. QED BY <2>3, <3>1 DEF Distinct
  <2>4. CASE pc[w] # "idle"
    <3>1. d' = d /\ w \notin ToSet(d)
      BY <2>2, <2>4
    <3>2. QED BY <2>1, <3>1 DEF Distinct
  <2>5. QED BY <2>3, <2>4
<1>3. JobsBounded' /\ queued' \in 0..MaxJobs
  <2>1. Hard # 0
    BY HardZero
  <2>2. QED BY <2>1, PoolAssumption, LenProperties DEF PInv, TypeOK, JobsBounded
<1>4. TypeOK'
  BY <1>1, <1>2, <1>3 DEF PInv, TypeOK, SchedTypeOK
<1>5. OnlyMoves(w)
  BY <1>1 DEF OnlyMoves
<1>6. Docked(w)
  <2>1. Distinct(qmax)'
    BY DEF PInv, DocksAreWaiters, Distinct
  <2>2. QED BY <1>0, <1>1, <1>2, <2>1 DEF Docked
<1>7. JobsCalled'
  BY <1>1, OnItsWay
<1>8. ClientsCalled'
  BY <1>1 DEF ClientsCalled
<1>9. QED BY <1>3, <1>4, <1>5, <1>6, <1>7, <1>8, Moved

LEMMA Loops ==
  ASSUME PInv, NEW w \in Workers, Loop(w)
  PROVE  PInv'
<1>0. w \in Ctxs /\ w \notin Clients /\ current = w /\ pc[w] = "loop"
  BY PoolAssumption DEF Loop, Clients
<1>1. UNCHANGED <<submitted, qmax, ctxs, joinee, life>>
  BY DEF Loop
<1>2. CASE /\ "TERMINATED" \in pend[w]
           /\ pc' = [pc EXCEPT ![w] = "exit"]
           /\ UNCHANGED <<sched, queued, d>>
  <2>1. UNCHANGED <<current, stage, pend, masked, queued, d>>
    BY <1>2 DEF sched
  <2>2. /\ pc' \in [Ctxs -> WorkerPlaces \cup ClientPlaces] /\ pc'[w] = "exit"
        /\ \A e \in Ctxs : pc'[e] \in WorkerPlaces <=> e \in Workers
        /\ \A e \in Ctxs \ {w} : pc'[e] = pc[e]
    <3>1. "exit" \in WorkerPlaces
      BY DEF WorkerPlaces
    <3>2. QED BY <1>2, <3>1, Placed
  <2>3. TypeOK'
    BY <1>1, <2>1, <2>2 DEF PInv, TypeOK, SchedTypeOK
  <2>4. \A e \in Ctxs : \/ pc'[e] = pc[e]
                       \/ /\ pc[e] \notin {"idle", "blocked", "work"}
                          /\ pc'[e] \notin {"idle", "blocked", "loop"}
    BY <1>0, <2>2
  <2>5. \A e \in Workers : pc[e] = "loop" /\ pc'[e] # "loop" => "TERMINATED" \in pend[e]
    BY <1>2, <2>2, PoolAssumption
  <2>6. QED BY <1>1, <2>1, <2>3, <2>4, <2>5, Aside
<1>3. CASE /\ queued > 0 /\ queued' = queued - 1
           /\ pc' = [pc EXCEPT ![w] = "work"]
           /\ UNCHANGED <<sched, d>>
  <2>1. UNCHANGED <<current, stage, pend, masked, d>>
    BY <1>3 DEF sched
  <2>2. stage' \in [Ctxs -> Stages] /\ current' \in Ctxs \cup {None}
    BY <2>1 DEF PInv, TypeOK, SchedTypeOK
  <2>3. QED BY <1>0, <1>1, <1>3, <2>1, <2>2, Takes
<1>4. CASE /\ queued = 0 /\ Suspend(w)
           /\ pc' = [pc EXCEPT ![w] = "idle"]
           /\ d' = <<w>> \o d
           /\ UNCHANGED queued
  <2>1. /\ current' = None /\ stage' = [stage EXCEPT ![w] = "asleep"]
        /\ UNCHANGED <<pend, masked>>
    BY <1>4 DEF Suspend
  <2>2. /\ pc' \in [Ctxs -> WorkerPlaces \cup ClientPlaces] /\ pc'[w] = "idle"
        /\ \A e \in Ctxs : pc'[e] \in WorkerPlaces <=> e \in Workers
        /\ \A e \in Ctxs \ {w} : pc'[e] = pc[e]
    <3>1. "idle" \in WorkerPlaces
      BY DEF WorkerPlaces
    <3>2. QED BY <1>4, <3>1, Placed
  <2>3. d' \in Seq(Workers) /\ ToSet(d') = ToSet(d) \cup {w} /\ Distinct(d)'
    <3>1. d \in Seq(Workers) /\ \A i, j \in DOMAIN d : d[i] = d[j] => i = j
      BY DEF PInv, TypeOK, DocksAreWaiters, Distinct
    <3>2. w \notin ToSet(d)
      BY <1>0 DEF PInv, DocksAreWaiters
    <3>3. QED BY <1>4, <3>1, <3>2, PrependElements DEF Distinct
  <2>4. /\ stage' \in [Ctxs -> Stages] /\ stage'[w] = "asleep"
        /\ \A e \in Ctxs \ {w} : stage'[e] = stage[e]
    BY <1>0, <2>1 DEF PInv, TypeOK, SchedTypeOK, Stages
  <2>5. TypeOK' /\ JobsBounded'
    BY <1>1, <1>4, <2>1, <2>2, <2>3, <2>4 DEF PInv, TypeOK, SchedTypeOK, JobsBounded
  <2>6. OnlyMoves(w)
    BY <2>2, <2>4 DEF OnlyMoves
  <2>7. Docked(w)
    <3>1. Distinct(qmax)'
      BY <1>1 DEF PInv, DocksAreWaiters, Distinct
    <3>2. QED BY <1>0, <1>1, <2>2, <2>3, <2>4, <3>1 DEF Docked
  <2>8. JobsCalled'
    BY <1>4 DEF JobsCalled
  <2>9. ClientsCalled'
    BY <1>0, <1>1, <1>4, <2>6, NoMoreRoom
  <2>10. QED BY <2>5, <2>6, <2>7, <2>8, <2>9, Moved
<1>5. QED BY <1>2, <1>3, <1>4 DEF Loop

LEMMA Pops ==
  ASSUME PInv, NEW w \in Workers, Pop(w)
  PROVE  PInv'
<1>0. w \in Ctxs /\ w \notin Clients /\ pc[w] = "idle"
  BY PoolAssumption DEF Pop, Clients
<1>1. UNCHANGED <<submitted, qmax, ctxs, joinee, life>>
  BY DEF Pop
<1>2. stage \in [Ctxs -> Stages] /\ {"running", "asleep"} \subseteq Stages
  BY DEF PInv, TypeOK, SchedTypeOK, Stages
<1>3. CASE Throws(w)
  <2> DEFINE to == IF "TERMINATED" \in pend[w] THEN "exit" ELSE "loop"
  <2>1. /\ d' = Without(d, w) /\ current' = w
        /\ stage' = [Wake(stage, Front1(d')) EXCEPT ![w] = "running"]
        /\ Thrown(w) /\ pc' = [pc EXCEPT ![w] = to] /\ UNCHANGED queued
    BY <1>3 DEF Pop
  <2>2. /\ pend' \in [Ctxs -> SUBSET Requests] /\ masked' \in [Ctxs -> BOOLEAN]
        /\ "TERMINATED" \in pend[w] => "TERMINATED" \in pend'[w]
    BY <1>0, <2>1, ThrownKeeps DEF PInv, TypeOK, Thrown, SchedTypeOK
  <2>3. to \in {"exit", "loop"} /\ to \in WorkerPlaces /\ (to = "exit" => "TERMINATED" \in pend'[w])
    BY <2>2 DEF WorkerPlaces
  <2> HIDE DEF to
  <2>4. /\ pc' \in [Ctxs -> WorkerPlaces \cup ClientPlaces] /\ pc'[w] = to
        /\ \A e \in Ctxs : pc'[e] \in WorkerPlaces <=> e \in Workers
        /\ \A e \in Ctxs \ {w} : pc'[e] = pc[e]
    BY <2>1, <2>3, Placed
  <2>5. /\ stage' \in [Ctxs -> Stages]
        /\ \A e \in Ctxs \ {w} : \/ stage'[e] = stage[e]
                                 \/ stage[e] = "asleep" /\ stage'[e] = "ready"
    BY <1>0, <1>2, <2>1, WokenExcept
  <2>6. d' \in Seq(Workers) /\ ToSet(d') = ToSet(d) \ {w} /\ Distinct(d)'
    <3>1. d \in Seq(Workers) /\ \A i, j \in DOMAIN d : d[i] = d[j] => i = j
      BY DEF PInv, TypeOK, DocksAreWaiters, Distinct
    <3>2. w \in ToSet(d)
      BY <1>0 DEF PInv, DocksAreWaiters
    <3>3. QED BY <2>1, <3>1, <3>2, WithoutElements DEF Distinct
  <2>7. TypeOK' /\ JobsBounded'
    BY <1>0, <1>1, <2>1, <2>2, <2>4, <2>5, <2>6 DEF PInv, TypeOK, SchedTypeOK, JobsBounded
  <2>8. OnlyMoves(w)
    BY <2>4, <2>5 DEF OnlyMoves
  <2>9. Docked(w)
    <3>1. Distinct(qmax)'
      BY <1>1 DEF PInv, DocksAreWaiters, Distinct
    <3>2. QED BY <1>0, <1>1, <2>3, <2>4, <2>6, <3>1 DEF Docked
  <2>10. JobsCalled'
    BY <2>3, <2>4, OnItsWay
  <2>11. ClientsCalled'
    BY <1>0, <1>1, <2>1, <2>8, NoMoreRoom
  <2>12. QED BY <2>7, <2>8, <2>9, <2>10, <2>11, Moved
<1>4. CASE ~Throws(w) /\ queued = 0
  <2>1. /\ stage' = [stage EXCEPT ![w] = "asleep"]
        /\ UNCHANGED <<pend, masked, current, pc, queued, d>>
    BY <1>4 DEF Pop
  <2>2. /\ stage' \in [Ctxs -> Stages] /\ stage'[w] = "asleep"
        /\ \A e \in Ctxs \ {w} : stage'[e] = stage[e]
    BY <1>0, <1>2, <2>1
  <2>3. TypeOK' /\ OnlyMoves(w) /\ JobsBounded'
    BY <1>1, <2>1, <2>2 DEF PInv, TypeOK, SchedTypeOK, OnlyMoves, JobsBounded
  <2>4. Docked(w)
    <3>1. Distinct(d)' /\ Distinct(qmax)'
      BY <1>1, <2>1 DEF PInv, DocksAreWaiters, Distinct
    <3>2. pc'[w] = "idle" <=> w \in ToSet(d')
      BY <2>1 DEF PInv, DocksAreWaiters
    <3>3. QED BY <1>0, <1>1, <2>1, <2>2, <3>1, <3>2 DEF Docked
  <2>5. JobsCalled'
    BY <1>4, <2>1 DEF JobsCalled
  <2>6. ClientsCalled'
    BY <1>0, <1>1, <2>1, <2>3, NoMoreRoom
  <2>7. QED BY <2>3, <2>4, <2>5, <2>6, Moved
<1>5. CASE ~Throws(w) /\ queued # 0
  <2>1. /\ d' = Without(d, w) /\ current' = w /\ stage' = [stage EXCEPT ![w] = "running"]
        /\ queued' = queued - 1 /\ pc' = [pc EXCEPT ![w] = "work"] /\ UNCHANGED <<pend, masked>>
    BY <1>5 DEF Pop
  <2>2. queued > 0
    BY <1>5 DEF PInv, TypeOK
  <2>3. stage' \in [Ctxs -> Stages] /\ (\A e \in Ctxs \ {w} : stage'[e] = stage[e])
    BY <1>0, <1>2, <2>1
  <2>4. QED BY <1>0, <1>1, <2>1, <2>2, <2>3, Takes
<1>6. QED BY <1>3, <1>4, <1>5

-----------------------------------------------------------------------------
(* The theorems *)

LEMMA NextPInv == PInv /\ [Next]_vars => PInv'
<1> SUFFICES ASSUME PInv, [Next]_vars PROVE PInv'
  OBVIOUS
<1> Workers \subseteq Ctxs /\ Clients \subseteq Ctxs
  BY PoolAssumption DEF Clients
<1>1. ASSUME NEW c \in Ctxs, Resumes(c) PROVE PInv'
  BY <1>1, Enters, Pops, Finishes, Unblocks, AsideActions DEF Resumes
<1>2. ASSUME NEW c \in Ctxs, Doze(c) \/ Notify(c) \/ Interrupt(c) PROVE PInv'
  BY <1>2, AsideActions
<1>3. ASSUME NEW w \in Workers, Loop(w) \/ Done(w) \/ Exit(w) \/ Add(w) PROVE PInv'
  BY <1>3, Loops, Finishes, AsideActions
<1>4. ASSUME NEW c \in Clients, Block(c) \/ Del(c) \/ Destroy(c) \/ Destroyed(c) \/ Leave(c)
      PROVE  PInv'
  BY <1>4, Blocks, AsideActions
<1>5. ASSUME NEW c \in Clients \cup {None}, Submit(c) PROVE PInv'
  BY <1>5, Submits
<1>6. ASSUME NEW r \in Requests, RequestAll(r) PROVE PInv'
  BY <1>6, Asking
<1>7. CASE UNCHANGED vars
  BY <1>7 DEF vars, sched, pool, PInv, TypeOK, SchedTypeOK, DocksAreWaiters, Distinct, JobsBounded,
              WaitersSuspended, JobsCalled, ClientsCalled
<1>8. QED BY <1>1, <1>2, <1>3, <1>4, <1>5, <1>6, <1>7 DEF Next

\* The inductive invariant of the pool holds in every state, whatever is submitted,
\* interrupted, terminated, resized and destroyed in whichever order.
THEOREM Invariance == Spec => []IInv
<1>1. Spec => []PInv
  BY InitPInv, NextPInv, PTL DEF Spec
<1>2. QED BY <1>1, Invariants, PTL

\* As long as no worker is terminated, no job stays queued with all who could take it
\* asleep; and no submitter ever sleeps while there is room and nobody left to say so.
THEOREM JobsAndClients == Spec => []NobodyStalls
<1>1. IInv => NobodyStalls
  BY DEF IInv
<1>2. QED BY <1>1, Invariance, PTL
=============================================================================
