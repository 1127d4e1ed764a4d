------------------------------ MODULE CtxProofs ------------------------------
(***************************************************************************)
(* Proofs about Ctx: the machine invariant IInv and the refinement of      *)
(* Sched, for any set of contexts and any scopes.                          *)
(***************************************************************************)
EXTENDS Ctx, QueueLemmas

LEMMA InitIInv == Init => IInv
<1> SUFFICES ASSUME Init PROVE IInv
  OBVIOUS
<1>1. TypeOK
  BY CtxAssumption DEF Init, TypeOK, Frames, Alarms
<1>2. AlarmsAgree /\ JoinersQueued /\ SleepersResume
  BY DEF Init, AlarmsAgree, JoinersQueued, SleepersResume, NotesResume, NoJoinOnFinished,
     Finished, ToSet
<1>3. QED BY <1>1, <1>2 DEF IInv

\* Notes keep their types, queue whom they wake and touch no other alarm.
LEMMA NotesQueue ==
  ASSUME TypeOK, NEW W
  PROVE  /\ Noted(notes, W) \in [Ctxs -> 0..2]
         /\ Alarmed(alarm, W) \in [Ctxs -> Alarms]
         /\ \A d \in Ctxs : /\ d \in W => Noted(notes, W)[d] > 0
                            /\ d \notin W => Noted(notes, W)[d] = notes[d]
         /\ \A d \in Ctxs :
              Alarmed(alarm, W)[d] # alarm[d] =>
                Alarmed(alarm, W)[d] = "queued" /\ alarm[d] \in {"untimed", "timed"}
         /\ \A d \in W \cap Ctxs : notes[d] = 0 /\ d # current =>
              Alarmed(alarm, W)[d] \notin {"untimed", "timed"}
BY DEF TypeOK, Noted, Alarmed, Alarms, Woken

\* Throwing an interruption keeps the types, and unwinds a context in its function.
LEMMA UnwoundTypes ==
  ASSUME TypeOK, NEW c \in Ctxs, NEW threw \in BOOLEAN
  PROVE  /\ Unwound(c, threw) \in [Ctxs -> Frames]
         /\ \A d \in Ctxs \ {c} : Unwound(c, threw)[d] = frame[d]
         /\ Unwound(c, threw)[c] \in {frame[c], "unwind"}
         /\ Consumed(flags[c]) \in SUBSET Flags
BY DEF TypeOK, Unwound, Frames, Consumed, Flags

-----------------------------------------------------------------------------
(* The steps *)

LEMMA Entering ==
  ASSUME IInv, NEW c \in Ctxs, Enter(c)
  PROVE  IInv'
<1> USE DEF IInv, Enter
<1>1. TypeOK'
  BY UnwoundTypes DEF TypeOK, Frames
<1>2. AlarmsAgree' /\ JoinersQueued'
  BY CtxAssumption DEF TypeOK, AlarmsAgree, JoinersQueued
<1>3. SleepersResume'
  BY CtxAssumption DEF TypeOK, AlarmsAgree, JoinersQueued, SleepersResume, NotesResume, NoJoinOnFinished,
     Finished
<1>4. QED BY <1>1, <1>2, <1>3

LEMMA Exiting ==
  ASSUME IInv, NEW c \in Ctxs, Exit(c)
  PROVE  IInv'
<1> USE DEF IInv, Exit
<1>1. joining[c] = None
  BY DEF Runs, JoinersQueued
<1>2. \A d \in Ctxs : d \in Joiners <=> joining[d] # None
  BY DEF JoinersQueued, Joiners
<1> DEFINE n == Noted(notes, Joiners)
           a == Alarmed(alarm, Joiners)
<1>3. /\ n \in [Ctxs -> 0..2] /\ a \in [Ctxs -> Alarms]
      /\ \A d \in Ctxs : joining[d] = None => n[d] = notes[d]
      /\ \A d \in Ctxs : a[d] # alarm[d] => a[d] = "queued" /\ alarm[d] \in {"untimed", "timed"}
      /\ \A d \in Ctxs : joining[d] # None /\ notes[d] = 0 /\ d # current
                         => a[d] \notin {"untimed", "timed"}
  <2>1. TypeOK
    OBVIOUS
  <2>2. \A d \in Ctxs : d \in Joiners =>
        (notes[d] = 0 /\ d # current => a[d] \notin {"untimed", "timed"})
    BY <2>1, NotesQueue
  <2>3. \A d \in Ctxs : d \notin Joiners => n[d] = notes[d]
    BY <2>1, NotesQueue
  <2>4. /\ n \in [Ctxs -> 0..2] /\ a \in [Ctxs -> Alarms]
        /\ \A d \in Ctxs : a[d] # alarm[d] => a[d] = "queued" /\ alarm[d] \in {"untimed", "timed"}
    BY <2>1, NotesQueue
  <2>5. QED BY <1>2, <2>2, <2>3, <2>4
<1>4. /\ frame' = [frame EXCEPT ![c] = "gone"] /\ notes' = [n EXCEPT ![c] = 0] /\ alarm' = a
      /\ current = c /\ current' = None /\ UNCHANGED <<cont, flags, scopes, joining, adjoindre>>
  BY DEF Runs
<1> HIDE DEF n, a, Exit
<1>5. TypeOK'
  BY <1>3, <1>4 DEF TypeOK, Frames
<1>6. AlarmsAgree' /\ JoinersQueued'
  BY <1>1, <1>3, <1>4, CtxAssumption DEF TypeOK, AlarmsAgree, JoinersQueued
<1>7. SleepersResume'
  <2> SUFFICES ASSUME NEW d \in Ctxs
               PROVE  /\ notes'[d] > 0 /\ current' # d => alarm'[d] \notin {"untimed", "timed"}
                      /\ joining'[d] # None /\ Finished(joining[d])'
                         => current' = d \/ alarm'[d] = "queued"
    BY <1>4 DEF SleepersResume, NotesResume, NoJoinOnFinished
  <2>1. /\ notes[d] \in 0..2 /\ alarm[d] \in Alarms /\ a[d] \in Alarms
        /\ notes'[d] = IF d = c THEN 0 ELSE n[d]
    BY <1>3, <1>4 DEF TypeOK
  <2>2. /\ d = c => alarm[d] = "none"
        /\ joining[d] # None => d # c /\ alarm[d] # "none"
    BY <1>1, <1>4 DEF AlarmsAgree, JoinersQueued
  <2>3. notes[d] > 0 /\ d # c => alarm[d] \notin {"untimed", "timed"}
    BY <1>4 DEF SleepersResume, NotesResume
  <2>4. QED BY <2>1, <2>2, <2>3, <1>3, <1>4 DEF Alarms
<1>8. QED BY <1>5, <1>6, <1>7

\* Nobody but c is concerned, whose flags change and whose function may unwind.
LEMMA Flagging ==
  ASSUME IInv, NEW c \in Ctxs, current = c, frame[c] \in {"body", "unwind"},
         frame' \in [Ctxs -> Frames], frame'[c] \in {"body", "unwind"},
         \A d \in Ctxs \ {c} : frame'[d] = frame[d],
         UNCHANGED <<current, notes, alarm, cont, joining, adjoindre>>
  PROVE  AlarmsAgree' /\ JoinersQueued' /\ SleepersResume'
<1> USE DEF IInv
<1>1. AlarmsAgree'
  BY CtxAssumption DEF AlarmsAgree
<1>2. JoinersQueued'
  BY DEF JoinersQueued
<1>3. SleepersResume'
  <2>1. NotesResume'
    BY DEF SleepersResume, NotesResume
  <2>2. \A d \in Ctxs : joining[d] # None => joining[d] \in Ctxs
    BY DEF TypeOK
  <2>3. NoJoinOnFinished'
    BY <2>2 DEF SleepersResume, NoJoinOnFinished, Finished
  <2>4. QED BY <2>1, <2>3 DEF SleepersResume
<1>4. QED BY <1>1, <1>2, <1>3

LEMMA FlagTypes ==
  ASSUME NEW f \in SUBSET Flags, NEW b \in BOOLEAN
  PROVE  Set(f, b) \in SUBSET Flags /\ Edge(f, b) \in SUBSET Flags /\ Consumed(f) \in SUBSET Flags
BY DEF Set, Edge, EdgeThrows, Consumed, Flags

\* The scopes of a context that has some: the innermost one, and the others.
LEMMA LastScope ==
  ASSUME NEW S, NEW s \in Seq(S), s # <<>>
  PROVE  Last(s) \in S /\ Last(s) = s[Len(s)] /\ Len(s) \in Nat \ {0}
BY LenProperties DEF Last

LEMMA FrontScopes ==
  ASSUME NEW S, NEW s \in Seq(S), s # <<>>
  PROVE  /\ Front(s) \in Seq(S) /\ Len(Front(s)) = Len(s) - 1
         /\ \A i \in 1..(Len(s) - 1) : Front(s)[i] = s[i]
<1>1. Len(s) \in Nat \ {0} /\ \A i \in 1..(Len(s) - 1) : s[i] \in S
  BY LenProperties
<1>2. /\ SubSeq(s, 1, Len(s) - 1) \in Seq(S)
      /\ Len(SubSeq(s, 1, Len(s) - 1)) = Len(s) - 1
      /\ \A i \in 1..(Len(s) - 1) : SubSeq(s, 1, Len(s) - 1)[i] = s[i]
  <2> DEFINE l == Len(s) - 1
  <2>1. l \in Int /\ l \in Nat /\ (IF 1 <= l THEN l - 1 + 1 ELSE 0) = l /\ l - 1 + 1 = l
    <3>1. l \in Nat
      BY <1>1
    <3> HIDE DEF l
    <3>2. QED BY <3>1
  <2>2. \A i \in 1..l : s[i] \in S
    BY <1>1
  <2> HIDE DEF l
  <2>3. /\ SubSeq(s, 1, l) \in Seq(S)
        /\ Len(SubSeq(s, 1, l)) = IF 1 <= l THEN l - 1 + 1 ELSE 0
        /\ \A i \in 1..(l - 1 + 1) : SubSeq(s, 1, l)[i] = s[1 + i - 1]
    BY <2>1, <2>2, SubSeqProperties
  <2>4. \A i \in 1..l : 1 + i - 1 = i
    BY <2>1
  <2>5. QED BY <2>1, <2>3, <2>4 DEF l
<1>3. QED BY <1>2 DEF Front

LEMMA AppendScope ==
  ASSUME NEW S, NEW s \in Seq(S), NEW x \in S
  PROVE  /\ Append(s, x) # <<>> /\ 1 \in DOMAIN Append(s, x)
         /\ \A i \in DOMAIN Append(s, x) :
              \/ i \in DOMAIN s /\ Append(s, x)[i] = s[i]
              \/ i = Len(s) + 1 /\ Append(s, x)[i] = x
         /\ s = <<>> => Append(s, x)[1] = x /\ \A i \in DOMAIN Append(s, x) : ~(i > 1)
         /\ s # <<>> => Append(s, x)[1] = s[1] /\ 1 \in DOMAIN s /\ Len(s) + 1 > 1
<1>1. /\ Append(s, x) \in Seq(S) /\ Len(Append(s, x)) = Len(s) + 1
      /\ \A i \in 1..Len(s) : Append(s, x)[i] = s[i]
      /\ Append(s, x)[Len(s) + 1] = x
  BY AppendProperties
<1>2. Len(s) \in Nat /\ DOMAIN s = 1..Len(s) /\ DOMAIN Append(s, x) = 1..(Len(s) + 1)
      /\ (s = <<>> <=> Len(s) = 0)
  BY <1>1, LenProperties, EmptySeq
<1> DEFINE t == Append(s, x)
<1> HIDE DEF t
<1>3. t # <<>>
  BY <1>1, <1>2, EmptySeq DEF t
<1>4. QED BY <1>1, <1>2, <1>3 DEF t

\* Interruption points and the scopes of the running context.
LEMMA Scoping ==
  ASSUME IInv, NEW c \in Ctxs,
         \/ Point(c) \/ CloseScope(c)
         \/ \E ours \in Ours, throws \in BOOLEAN : OpenScope(c, ours, throws)
  PROVE  IInv'
<1>1. /\ Runs(c) /\ UNCHANGED <<current, notes, alarm, cont, joining, adjoindre>>
      /\ \E threw \in BOOLEAN : frame' = Unwound(c, threw)
  <2>1. CASE Point(c)
    BY <2>1 DEF Point
  <2>2. CASE CloseScope(c)
    BY <2>2 DEF CloseScope, Restored, EdgeThrows
  <2>3. ASSUME NEW ours \in Ours, NEW throws \in BOOLEAN, OpenScope(c, ours, throws)
        PROVE  <1>1!:
    BY <2>3 DEF OpenScope, EdgeThrows
  <2>4. QED BY <2>1, <2>2, <2>3
<1>2. frame' \in [Ctxs -> Frames] /\ frame'[c] \in {"body", "unwind"}
      /\ \A d \in Ctxs \ {c} : frame'[d] = frame[d]
  BY <1>1, UnwoundTypes DEF IInv, Runs
<1>3. TypeOK'
  <2>1. flags' \in [Ctxs -> SUBSET Flags]
    <3>1. flags[c] \in SUBSET Flags
      BY DEF IInv, TypeOK
    <3>2. CASE Point(c)
      BY <3>1, <3>2, FlagTypes DEF IInv, TypeOK, Point
    <3>3. CASE CloseScope(c)
      <4>1. scopes[c] \in Seq(Scope) /\ scopes[c] # <<>>
        BY <3>3 DEF IInv, TypeOK, CloseScope
      <4>3. Last(scopes[c]) \in Scope
        BY <4>1, LastScope
      <4>4. Last(scopes[c]).theirs \in BOOLEAN
        BY <4>3 DEF Scope
      <4>2. QED BY <3>1, <3>3, <4>4, FlagTypes DEF IInv, TypeOK, CloseScope, Restored
    <3>4. ASSUME NEW ours \in Ours, NEW throws \in BOOLEAN, OpenScope(c, ours, throws)
          PROVE  <2>1!:
      <4>1. Set(flags[c], ~ours) \in SUBSET Flags /\ Edge(flags[c], ~ours) \in SUBSET Flags
        BY <3>1, FlagTypes
      <4>2. QED BY <3>4, <4>1 DEF IInv, TypeOK, OpenScope
    <3>5. QED BY <3>2, <3>3, <3>4
  <2>2. scopes' \in [Ctxs -> Seq(Scope)] /\ \A d \in Ctxs : Len(scopes'[d]) <= MaxScopes
    <3>1. CASE Point(c)
      BY <3>1 DEF IInv, TypeOK, Point
    <3>2. CASE CloseScope(c)
      <4>1. scopes[c] \in Seq(Scope) /\ scopes[c] # <<>> /\ scopes' = [scopes EXCEPT ![c] = Front(@)]
        BY <3>2 DEF IInv, TypeOK, CloseScope
      <4>2. Front(scopes[c]) \in Seq(Scope) /\ Len(Front(scopes[c])) = Len(scopes[c]) - 1
        BY <4>1, FrontScopes
      <4>3. scopes \in [Ctxs -> Seq(Scope)] /\ \A d \in Ctxs : Len(scopes[d]) <= MaxScopes
        BY DEF IInv, TypeOK
      <4>4. Len(scopes[c]) \in Nat
        BY <4>1, LenProperties
      <4>5. QED BY <4>1, <4>2, <4>3, <4>4, CtxAssumption
    <3>3. ASSUME NEW ours \in Ours, NEW throws \in BOOLEAN, OpenScope(c, ours, throws)
          PROVE  <2>2!:
      <4> DEFINE scope == [ours |-> ours, theirs |-> "NOINTERRUPT" \notin flags[c],
                           throws |-> throws]
      <4>1. scope \in Scope
        BY CtxAssumption DEF Scope
      <4> HIDE DEF scope
      <4>2. scopes' = [scopes EXCEPT ![c] = Append(@, scope)] \/ scopes' = scopes
        BY <3>3 DEF OpenScope, scope, IInv, TypeOK
      <4>3. Append(scopes[c], scope) \in Seq(Scope)
            /\ Len(Append(scopes[c], scope)) = Len(scopes[c]) + 1
        BY <4>1, AppendProperties DEF IInv, TypeOK
      <4>4. Len(scopes[c]) < MaxScopes /\ Len(scopes[c]) \in Nat
        BY <3>3, LenProperties DEF OpenScope, IInv, TypeOK
      <4>6. scopes \in [Ctxs -> Seq(Scope)] /\ \A d \in Ctxs : Len(scopes[d]) <= MaxScopes
        BY DEF IInv, TypeOK
      <4>7. scopes' \in [Ctxs -> Seq(Scope)]
        BY <4>2, <4>3, <4>6
      <4>8. ASSUME NEW d \in Ctxs PROVE Len(scopes'[d]) <= MaxScopes
        <5>1. scopes'[d] = scopes[d] \/ (d = c /\ scopes'[d] = Append(scopes[c], scope))
          BY <4>2, <4>6
        <5>2. QED BY <5>1, <4>3, <4>4, <4>6, CtxAssumption
      <4>5. QED BY <4>7, <4>8
    <3>4. QED BY <3>1, <3>2, <3>3
  <2>3. QED BY <1>1, <1>2, <2>1, <2>2 DEF IInv, TypeOK
<1>4. QED BY <1>1, <1>2, <1>3, Flagging DEF IInv, Runs

\* The running context suspends: in wait(), on its way into join() or for another turn of it.
LEMMA Waiting ==
  ASSUME IInv, NEW c \in Ctxs, NEW how \in {"untimed", "timed"}, Wait(c, how)
  PROVE  IInv'
<1> USE DEF IInv, Wait, Suspends, Runs
<1>1. TypeOK'
  BY DEF TypeOK, Alarms
<1>2. AlarmsAgree' /\ JoinersQueued'
  BY CtxAssumption DEF TypeOK, AlarmsAgree, JoinersQueued
<1>3. SleepersResume'
  BY DEF TypeOK, SleepersResume, NotesResume, NoJoinOnFinished, Finished, JoinersQueued
<1>4. QED BY <1>1, <1>2, <1>3

LEMMA Joining ==
  ASSUME IInv, NEW c \in Ctxs, NEW d \in Ctxs, Join(c, d)
  PROVE  IInv'
<1> DEFINE q == Append(adjoindre, c)
<1>1. /\ adjoindre \in Seq(Ctxs) /\ c \notin ToSet(adjoindre)
      /\ \A i, j \in DOMAIN adjoindre : adjoindre[i] = adjoindre[j] => i = j
  BY DEF IInv, TypeOK, JoinersQueued, Join, Runs
<1>2. /\ q \in Seq(Ctxs) /\ ToSet(q) = ToSet(adjoindre) \cup {c}
      /\ \A i, j \in DOMAIN q : q[i] = q[j] => i = j
  BY <1>1, AppendElements
<1>3. adjoindre' = q
  BY DEF Join
<1> HIDE DEF q
<1>4. TypeOK'
  BY <1>2, <1>3 DEF IInv, Join, Suspends, TypeOK, Alarms
<1>5. AlarmsAgree'
  BY CtxAssumption DEF IInv, Join, Suspends, Runs, TypeOK, AlarmsAgree
<1>6. JoinersQueued'
  BY <1>2, <1>3, CtxAssumption DEF IInv, Join, Suspends, Runs, TypeOK, JoinersQueued
<1>7. SleepersResume'
  <2> SUFFICES ASSUME NEW e \in Ctxs
               PROVE  /\ notes'[e] > 0 /\ current' # e => alarm'[e] \notin {"untimed", "timed"}
                      /\ joining'[e] # None /\ Finished(joining[e])'
                         => current' = e \/ alarm'[e] = "queued"
    BY DEF Join, SleepersResume, NotesResume, NoJoinOnFinished
  <2>1. CASE e = c
    BY <2>1 DEF IInv, Join, Suspends, TypeOK, Finished
  <2>2. CASE e # c
    BY <2>2, CtxAssumption DEF IInv, Join, Suspends, Runs, TypeOK, Finished, SleepersResume, NotesResume,
       NoJoinOnFinished
  <2>3. QED BY <2>1, <2>2
<1>8. QED BY <1>4, <1>5, <1>6, <1>7 DEF IInv

LEMMA Rejoining ==
  ASSUME IInv, NEW c \in Ctxs, Joined(c)
  PROVE  IInv'
<1> DEFINE q == Without(adjoindre, c)
<1>1. /\ adjoindre \in Seq(Ctxs) /\ c \in ToSet(adjoindre)
      /\ \A i, j \in DOMAIN adjoindre : adjoindre[i] = adjoindre[j] => i = j
  BY DEF IInv, TypeOK, JoinersQueued, Joined
<1>2. /\ q \in Seq(Ctxs) /\ ToSet(q) = ToSet(adjoindre) \ {c}
      /\ \A i, j \in DOMAIN q : q[i] = q[j] => i = j
  BY <1>1, WithoutElements
<1> HIDE DEF q
<1>3. CASE Finished(joining[c])
  <2>1. /\ joining' = [joining EXCEPT ![c] = None] /\ adjoindre' = q
        /\ UNCHANGED <<current, notes, alarm, cont, frame, flags, scopes>>
    BY <1>3 DEF Joined, q
  <2>2. TypeOK'
    BY <1>2, <2>1 DEF IInv, TypeOK
  <2>3. AlarmsAgree'
    BY <2>1 DEF IInv, AlarmsAgree
  <2>4. JoinersQueued'
    BY <1>2, <2>1 DEF IInv, TypeOK, JoinersQueued
  <2>5. SleepersResume'
    BY <2>1 DEF IInv, TypeOK, SleepersResume, NotesResume, NoJoinOnFinished, Finished
  <2>6. QED BY <2>2, <2>3, <2>4, <2>5 DEF IInv
<1>4. CASE ~Finished(joining[c])
  <2>1. /\ current = c /\ Suspends(c, "untimed")
        /\ UNCHANGED <<joining, adjoindre, frame, flags, scopes>>
    BY <1>4 DEF Joined
  <2>2. frame[c] \in {"body", "unwind"}
    BY DEF IInv, JoinersQueued, Joined
  <2>3. TypeOK'
    BY <2>1 DEF IInv, TypeOK, Suspends, Alarms
  <2>4. AlarmsAgree'
    BY <2>1, <2>2, CtxAssumption DEF IInv, TypeOK, AlarmsAgree, Suspends
  <2>5. JoinersQueued'
    BY <2>1 DEF IInv, JoinersQueued
  <2>6. SleepersResume'
    BY <1>4, <2>1 DEF IInv, TypeOK, SleepersResume, NotesResume, NoJoinOnFinished, Finished, Suspends
  <2>7. QED BY <2>3, <2>4, <2>5, <2>6 DEF IInv
<1>5. QED BY <1>3, <1>4

\* The wake-ups: the deadline of a timed wait, notify(), interrupt() and terminate().
LEMMA Expiring ==
  ASSUME IInv, NEW c \in Ctxs, Expire(c)
  PROVE  IInv'
<1> USE DEF IInv, Expire
<1>1. TypeOK'
  BY DEF TypeOK, Alarms
<1>2. AlarmsAgree' /\ JoinersQueued'
  BY DEF TypeOK, AlarmsAgree, JoinersQueued
<1>3. SleepersResume'
  BY DEF TypeOK, SleepersResume, NotesResume, NoJoinOnFinished, Finished
<1>4. QED BY <1>1, <1>2, <1>3

LEMMA Notifying ==
  ASSUME IInv, NEW c \in Ctxs, Notify(c)
  PROVE  IInv'
<1> DEFINE n == Noted(notes, {c})
           a == Alarmed(alarm, {c})
<1>1. /\ notes' = n /\ alarm' = a
      /\ UNCHANGED <<current, frame, cont, flags, scopes, joining, adjoindre>>
  BY DEF Notify
<1>2. /\ n \in [Ctxs -> 0..2] /\ a \in [Ctxs -> Alarms]
      /\ \A d \in Ctxs : d # c => n[d] = notes[d]
      /\ \A d \in Ctxs : a[d] # alarm[d] => a[d] = "queued" /\ alarm[d] \in {"untimed", "timed"}
      /\ notes[c] = 0 /\ c # current => a[c] \notin {"untimed", "timed"}
  <2>1. TypeOK
    BY DEF IInv
  <2>2. \A d \in Ctxs : d \notin {c} => n[d] = notes[d]
    BY <2>1, NotesQueue
  <2>3. /\ n \in [Ctxs -> 0..2] /\ a \in [Ctxs -> Alarms]
        /\ \A d \in Ctxs : a[d] # alarm[d] => a[d] = "queued" /\ alarm[d] \in {"untimed", "timed"}
        /\ \A d \in {c} \cap Ctxs : notes[d] = 0 /\ d # current => a[d] \notin {"untimed", "timed"}
    BY <2>1, NotesQueue
  <2> HIDE DEF n, a
  <2>4. QED BY <2>2, <2>3
<1> HIDE DEF n, a
<1>3. TypeOK'
  BY <1>1, <1>2 DEF IInv, TypeOK
<1>4. AlarmsAgree' /\ JoinersQueued'
  BY <1>1, <1>2 DEF IInv, AlarmsAgree, JoinersQueued
<1>5. SleepersResume'
  <2> SUFFICES ASSUME NEW d \in Ctxs
               PROVE  /\ n[d] > 0 /\ current # d => a[d] \notin {"untimed", "timed"}
                      /\ joining[d] # None /\ Finished(joining[d])
                         => current = d \/ a[d] = "queued"
    BY <1>1 DEF SleepersResume, NotesResume, NoJoinOnFinished, Finished
  <2>1. /\ notes[d] > 0 /\ current # d => alarm[d] \notin {"untimed", "timed"}
        /\ joining[d] # None /\ Finished(joining[d]) => current = d \/ alarm[d] = "queued"
        /\ notes[d] \in 0..2
    BY DEF IInv, TypeOK, SleepersResume, NotesResume, NoJoinOnFinished
  <2>2. QED BY <1>2, <2>1
<1>6. QED BY <1>3, <1>4, <1>5 DEF IInv

LEMMA Requesting ==
  ASSUME IInv, NEW c \in Ctxs, NEW r \in Asked, Request(c, r)
  PROVE  IInv'
<1>1. /\ UNCHANGED <<current, frame, notes, cont, scopes, joining, adjoindre>>
      /\ alarm' = alarm \/ alarm' = [alarm EXCEPT ![c] = Woken(@)]
      /\ flags' = [flags EXCEPT ![c] = @ \cup {r}] /\ r \in Flags
  BY CtxAssumption DEF Request, Flags
<1>2. /\ \A d \in Ctxs : alarm'[d] # alarm[d] => alarm'[d] = "queued" /\ alarm[d] \in {"untimed", "timed"}
      /\ alarm' \in [Ctxs -> Alarms]
  BY <1>1 DEF IInv, TypeOK, Woken, Alarms
<1>3. TypeOK'
  BY <1>1, <1>2 DEF IInv, TypeOK
<1>4. AlarmsAgree' /\ JoinersQueued'
  BY <1>1, <1>2 DEF IInv, AlarmsAgree, JoinersQueued
<1>5. SleepersResume'
  BY <1>1, <1>2 DEF IInv, SleepersResume, NotesResume, NoJoinOnFinished, Finished
<1>6. QED BY <1>3, <1>4, <1>5 DEF IInv

\* The switch back into a context, which may throw it out of join().
LEMMA Resuming ==
  ASSUME IInv, NEW c \in Ctxs, Resume(c)
  PROVE  IInv'
<1> DEFINE threw == Interruption(flags[c])
           left == threw /\ joining[c] # None
           q == IF left THEN Without(adjoindre, c) ELSE adjoindre
           W == IF left THEN Front1(q) ELSE {}
           n == Noted(notes, W)
           a == Alarmed(alarm, W)
<1>1. /\ current = None /\ alarm[c] = "queued" /\ current' = c
      /\ notes' = [n EXCEPT ![c] = 1] /\ alarm' = [a EXCEPT ![c] = "none"]
      /\ flags' = [flags EXCEPT ![c] = IF threw THEN Consumed(@) ELSE @]
      /\ frame' = Unwound(c, threw) /\ threw \in BOOLEAN
      /\ joining' = [joining EXCEPT ![c] = IF left THEN None ELSE @]
      /\ adjoindre' = q /\ UNCHANGED <<cont, scopes>>
  BY DEF Resume, Interruption
<1>2. /\ q \in Seq(Ctxs) /\ ToSet(q) = IF left THEN ToSet(adjoindre) \ {c} ELSE ToSet(adjoindre)
      /\ \A i, j \in DOMAIN q : q[i] = q[j] => i = j
  <2>1. /\ adjoindre \in Seq(Ctxs) /\ (left => c \in ToSet(adjoindre))
        /\ \A i, j \in DOMAIN adjoindre : adjoindre[i] = adjoindre[j] => i = j
    BY DEF IInv, TypeOK, JoinersQueued
  <2>5. /\ left => q = Without(adjoindre, c)
        /\ ~left => q = adjoindre
    OBVIOUS
  <2> HIDE DEF left, q
  <2>2. CASE left
    BY <2>1, <2>2, <2>5, WithoutElements
  <2>3. CASE ~left
    BY <2>1, <2>3, <2>5
  <2>4. QED BY <2>2, <2>3
<1>3. /\ n \in [Ctxs -> 0..2] /\ a \in [Ctxs -> Alarms]
      /\ \A d \in Ctxs : d \notin W => n[d] = notes[d]
      /\ \A d \in Ctxs : a[d] # alarm[d] => a[d] = "queued" /\ alarm[d] \in {"untimed", "timed"}
      /\ \A d \in W \cap Ctxs : notes[d] = 0 /\ d # current => a[d] \notin {"untimed", "timed"}
  <2>1. TypeOK
    BY DEF IInv
  <2> HIDE DEF W
  <2>2. QED BY <2>1, NotesQueue
<1>4. frame' \in [Ctxs -> Frames] /\ (\A d \in Ctxs \ {c} : frame'[d] = frame[d])
      /\ frame'[c] \in {frame[c], "unwind"} /\ Consumed(flags[c]) \in SUBSET Flags
  BY <1>1, UnwoundTypes DEF IInv
<1> HIDE DEF threw, left, q, W, n, a
<1>5. frame[c] \in {"body", "unwind"}
  BY <1>1 DEF IInv, AlarmsAgree
<1>6. TypeOK'
  <2>1. flags' \in [Ctxs -> SUBSET Flags]
    BY <1>1, <1>4 DEF IInv, TypeOK
  <2>2. QED BY <1>1, <1>2, <1>3, <1>4, <2>1 DEF IInv, TypeOK, Alarms
<1>7. AlarmsAgree'
  <2>1. \A d \in Ctxs : alarm'[d] = IF d = c THEN "none" ELSE a[d]
    BY <1>1, <1>3
  <2>2. QED BY <1>1, <1>3, <1>4, <1>5, <2>1, CtxAssumption DEF IInv, AlarmsAgree
<1>8. JoinersQueued'
  <2>1. \A d \in Ctxs : joining'[d] = IF d = c /\ left THEN None ELSE joining[d]
    BY <1>1 DEF IInv, TypeOK
  <2>2. QED BY <1>1, <1>2, <1>4, <1>5, <2>1 DEF IInv, JoinersQueued
<1>9. SleepersResume'
  <2> SUFFICES ASSUME NEW d \in Ctxs
               PROVE  /\ notes'[d] > 0 /\ current' # d => alarm'[d] \notin {"untimed", "timed"}
                      /\ joining'[d] # None /\ Finished(joining[d])'
                         => current' = d \/ alarm'[d] = "queued"
    BY DEF SleepersResume, NotesResume, NoJoinOnFinished
  <2>1. CASE d = c
    BY <1>1, <2>1
  <2>2. CASE d # c
    <3>1. /\ notes'[d] = n[d] /\ alarm'[d] = a[d] /\ joining'[d] = joining[d] /\ current # d
          /\ notes[d] \in 0..2
      BY <1>1, <1>3, <2>2, CtxAssumption DEF IInv, TypeOK
    <3>2. /\ notes[d] > 0 => alarm[d] \notin {"untimed", "timed"}
          /\ joining[d] # None /\ Finished(joining[d]) => alarm[d] = "queued"
      BY <3>1 DEF IInv, SleepersResume, NotesResume, NoJoinOnFinished
    <3>3. notes'[d] > 0 => alarm'[d] \notin {"untimed", "timed"}
      <4>1. CASE d \in W
        BY <1>3, <3>1, <3>2, <4>1
      <4>2. CASE d \notin W
        BY <1>3, <3>1, <3>2, <4>2
      <4>3. QED BY <4>1, <4>2
    <3>4. Finished(joining[d])' /\ joining[d] # None => Finished(joining[d])
      BY <1>4, <1>5, <3>1 DEF IInv, TypeOK, Finished
    <3>5. QED BY <1>3, <3>1, <3>2, <3>3, <3>4
  <2>3. QED BY <2>1, <2>2
<1>10. QED BY <1>6, <1>7, <1>8, <1>9 DEF IInv

-----------------------------------------------------------------------------
(* The invariants *)

LEMMA NextIInv == IInv /\ [Next]_vars => IInv'
<1> SUFFICES ASSUME IInv, [Next]_vars PROVE IInv'
  OBVIOUS
<1>1. CASE Next
  <2> PICK c \in Ctxs :
        \/ Enter(c) \/ Exit(c) \/ Expire(c) \/ Resume(c) \/ Joined(c) \/ Notify(c) \/ Point(c)
        \/ \E how \in {"untimed", "timed"} : Wait(c, how)
        \/ \E d \in Ctxs : Join(c, d)
        \/ \E r \in Asked : Request(c, r)
        \/ \E ours \in Ours, throws \in BOOLEAN : OpenScope(c, ours, throws)
        \/ CloseScope(c)
    BY <1>1 DEF Next
  <2>1. QED BY Entering, Exiting, Expiring, Resuming, Rejoining, Notifying, Waiting, Joining,
               Requesting, Scoping
<1>2. CASE UNCHANGED vars
  BY <1>2 DEF vars, IInv, TypeOK, AlarmsAgree, JoinersQueued, SleepersResume, NotesResume,
     NoJoinOnFinished, Finished
<1>3. QED BY <1>1, <1>2

\* The machine's invariant: types, who may be suspended, and who is on `adjoindre`.
THEOREM CtxInvariant == Spec => []IInv
BY InitIInv, NextIInv, PTL DEF Spec

\* note(), atexit and the dock's continuation: whoever was notified, or waits to join a
\* context that finished, is resumed.
THEOREM NobodySleepsOn == Spec => []SleepersResume
<1>1. IInv => SleepersResume
  BY DEF IInv
<1>2. QED BY <1>1, CtxInvariant, PTL

-----------------------------------------------------------------------------
(* Suppression *)

\* ScopesNest and RequestsHonoured of a context with flags f, scopes s and frame fr.
Masks(f, s, fr) ==
  /\ \A i \in DOMAIN s : s[i].ours /\ (i > 1 => ~s[i].theirs)
  /\ s # <<>> => "NOINTERRUPT" \in f
  /\ s # <<>> /\ ~s[1].theirs => "TERMINATED" \in f
  /\ s # <<>> /\ fr = "unwind" => ~s[1].theirs
  /\ fr = "unborn" => s = <<>> /\ "NOINTERRUPT" \notin f
  /\ fr = "aborted" => s = <<>>
  /\ fr = "unwind" => "TERMINATED" \in f
  /\ s = <<>> /\ "NOINTERRUPT" \in f => "TERMINATED" \in f
  /\ fr \in {"unwind", "aborted"} /\ "TERMINATED" \in f => "NOINTERRUPT" \in f

AllMasks == \A c \in Ctxs : Masks(flags[c], scopes[c], frame[c])

LEMMA MasksAgree == TypeOK => (ScopesNest /\ RequestsHonoured <=> AllMasks)
<1> SUFFICES ASSUME TypeOK
             PROVE  ScopesNest /\ RequestsHonoured <=> AllMasks
  OBVIOUS
<1>1. ASSUME NEW c \in Ctxs, Masks(flags[c], scopes[c], frame[c]), scopes[c] # <<>>
      PROVE  Last(scopes[c]).ours
  <2>1. Last(scopes[c]) = scopes[c][Len(scopes[c])] /\ Len(scopes[c]) \in DOMAIN scopes[c]
    BY <1>1, LenProperties DEF TypeOK, Last
  <2>2. QED BY <1>1, <2>1 DEF Masks
<1>2. ASSUME \A c \in Ctxs : Masks(flags[c], scopes[c], frame[c])
      PROVE  ScopesNest /\ RequestsHonoured
  BY <1>1, <1>2 DEF Masks, ScopesNest, RequestsHonoured, NoMaskLeak, ScopeSuppresses, TerminatesOnce
<1>3. ASSUME ScopesNest, RequestsHonoured, NEW c \in Ctxs
      PROVE  Masks(flags[c], scopes[c], frame[c])
  BY <1>3 DEF Masks, ScopesNest, RequestsHonoured, NoMaskLeak, TerminatesOnce
<1>4. QED BY <1>2, <1>3 DEF AllMasks

\* An interruption thrown at a context that does not suppress it.
LEMMA ThrowMasks ==
  ASSUME NEW f \in SUBSET Flags, NEW s, NEW fr \in {"body", "unwind"},
         Masks(f, s, fr), Requested(f), "NOINTERRUPT" \notin f
  PROVE  Masks(Consumed(f), s, IF "TERMINATED" \in f THEN "unwind" ELSE fr)
BY DEF Masks, Consumed, Requested

\* Enter and Resume throw what is not suppressed; a scope is opened and closed.
LEMMA StepMasks ==
  ASSUME IInv, NEW c \in Ctxs, Ours = {TRUE},
         Masks(flags[c], scopes[c], frame[c]),
         \/ Enter(c) \/ Resume(c) \/ Point(c) \/ CloseScope(c)
         \/ \E ours \in Ours, throws \in BOOLEAN : OpenScope(c, ours, throws)
  PROVE  /\ Masks(flags'[c], scopes'[c], frame'[c])
         /\ \A d \in Ctxs \ {c} :
              flags'[d] = flags[d] /\ scopes'[d] = scopes[d] /\ frame'[d] = frame[d]
<1> DEFINE f == flags[c]
           s == scopes[c]
           u == IF "TERMINATED" \in f THEN "unwind" ELSE frame[c]
<1>1. /\ f \in SUBSET Flags /\ s \in Seq(Scope)
      /\ flags \in [Ctxs -> SUBSET Flags] /\ scopes \in [Ctxs -> Seq(Scope)]
      /\ frame \in [Ctxs -> Frames]
  BY DEF IInv, TypeOK
<1>2. CASE Enter(c)
  BY <1>1, <1>2 DEF Enter, Masks, Interruption, Requested, Consumed
<1>3. CASE Resume(c)
  <2>1. frame[c] \in {"body", "unwind"} /\ scopes' = scopes
    BY <1>3 DEF Resume, IInv, AlarmsAgree
  <2>2. flags' = [flags EXCEPT ![c] = IF Interruption(f) THEN Consumed(f) ELSE f]
        /\ frame' = IF Interruption(f) THEN [frame EXCEPT ![c] = u] ELSE frame
    BY <1>1, <1>3 DEF Resume, Unwound
  <2> HIDE DEF f, s, u
  <2>3. QED BY <1>1, <2>1, <2>2, ThrowMasks DEF Interruption, f, s, u
<1>4. CASE Point(c)
  <2>1. frame[c] \in {"body", "unwind"} /\ scopes' = scopes /\ Interruption(f)
    BY <1>4 DEF Point, Runs
  <2>2. flags' = [flags EXCEPT ![c] = Consumed(f)] /\ frame' = [frame EXCEPT ![c] = u]
    BY <1>1, <1>4 DEF Point, Unwound
  <2>3. QED BY <1>1, <2>1, <2>2, ThrowMasks DEF Interruption
<1>5. ASSUME NEW ours \in Ours, NEW throws \in BOOLEAN, OpenScope(c, ours, throws)
      PROVE  /\ Masks(flags'[c], scopes'[c], frame'[c])
             /\ \A d \in Ctxs \ {c} :
                  flags'[d] = flags[d] /\ scopes'[d] = scopes[d] /\ frame'[d] = frame[d]
  <2> DEFINE scope == [ours |-> TRUE, theirs |-> "NOINTERRUPT" \notin f, throws |-> throws]
             threw == throws /\ Requested(f) /\ "NOINTERRUPT" \notin f
  <2>1. /\ flags' = [flags EXCEPT ![c] = IF threw THEN Consumed(f) ELSE f \cup {"NOINTERRUPT"}]
        /\ frame' = IF threw THEN [frame EXCEPT ![c] = u] ELSE frame
        /\ scopes' = [scopes EXCEPT ![c] = IF threw THEN s ELSE Append(s, scope)]
        /\ frame[c] \in {"body", "unwind"}
    <3>1. ours = TRUE
      OBVIOUS
    <3>2. EdgeThrows(f, ~ours) <=> Requested(f) /\ "NOINTERRUPT" \notin f
      BY <3>1 DEF EdgeThrows
    <3>3. /\ Edge(f, ~ours) = IF Requested(f) /\ "NOINTERRUPT" \notin f THEN Consumed(f)
                             ELSE f \cup {"NOINTERRUPT"}
          /\ Set(f, ~ours) = f \cup {"NOINTERRUPT"}
      BY <3>1, <3>2 DEF Edge, Set
    <3>4. QED BY <1>1, <1>5, <3>1, <3>2, <3>3 DEF OpenScope, Unwound, Runs
  <2>2. scope.ours /\ scope.theirs = ("NOINTERRUPT" \notin f) /\ scope \in Scope
    BY DEF Scope
  <2> HIDE DEF scope, threw
  <2>4. CASE threw
    <3>1. Requested(f) /\ "NOINTERRUPT" \notin f
      BY <2>4 DEF threw
    <3> HIDE DEF f, s, u
    <3>2. QED BY <1>1, <2>1, <2>4, <3>1, ThrowMasks DEF f, s, u
  <2>5. CASE ~threw
    <3> DEFINE g == f \cup {"NOINTERRUPT"}
               t == Append(s, scope)
    <3>1. flags'[c] = g /\ scopes'[c] = t /\ frame'[c] = frame[c]
          /\ \A d \in Ctxs \ {c} :
               flags'[d] = flags[d] /\ scopes'[d] = scopes[d] /\ frame'[d] = frame[d]
      BY <1>1, <2>1, <2>5
    <3>2. Masks(f, s, frame[c])
      OBVIOUS
    <3> HIDE DEF f, s, u
    <3>3. s \in Seq(Scope) /\ scope \in Scope
      BY <1>1, <2>2
    <3>9. /\ t # <<>> /\ 1 \in DOMAIN t
          /\ \A i \in DOMAIN t :
               \/ i \in DOMAIN s /\ t[i] = s[i]
               \/ i = Len(s) + 1 /\ t[i] = scope
          /\ s = <<>> => t[1] = scope /\ \A i \in DOMAIN t : ~(i > 1)
          /\ s # <<>> => t[1] = s[1] /\ 1 \in DOMAIN s /\ Len(s) + 1 > 1
      BY ONLY <3>3, AppendScope
    <3> HIDE DEF t
    <3>4. \A i \in DOMAIN t : t[i].ours /\ (i > 1 => ~t[i].theirs)
      BY <2>2, <3>2, <3>9 DEF Masks
    <3>5. ~t[1].theirs => "TERMINATED" \in f
      BY <2>2, <3>2, <3>9 DEF Masks
    <3>6. frame[c] = "unwind" => ~t[1].theirs
      BY <2>2, <3>2, <3>9 DEF Masks
    <3>8. Masks(g, t, frame[c])
      BY <2>1, <3>2, <3>9, <3>4, <3>5, <3>6 DEF Masks
    <3>7. QED BY <3>1, <3>8
  <2>6. QED BY <2>4, <2>5
<1>6. CASE CloseScope(c)
  <2> DEFINE scope == Last(s)
             t == Front(s)
             threw == scope.throws /\ EdgeThrows(f, scope.theirs)
  <2>1. s # <<>> /\ frame[c] \in {"body", "unwind"}
    BY <1>6 DEF CloseScope, Runs
  <2>2. /\ scope \in Scope /\ scope = s[Len(s)] /\ Len(s) \in Nat \ {0}
        /\ t \in Seq(Scope) /\ Len(t) = Len(s) - 1
        /\ \A i \in 1..(Len(s) - 1) : t[i] = s[i]
    <3> HIDE DEF s
    <3>1. QED BY <1>1, <2>1, LastScope, FrontScopes
  <2>3. /\ flags' = [flags EXCEPT ![c] = IF scope.throws THEN Edge(f, scope.theirs)
                                                        ELSE Set(f, scope.theirs)]
        /\ frame' = IF threw /\ "TERMINATED" \in f THEN [frame EXCEPT ![c] = "unwind"] ELSE frame
        /\ scopes' = [scopes EXCEPT ![c] = t]
    BY <1>1, <1>6 DEF CloseScope, Restored, Unwound
  <2> HIDE DEF scope, t, threw, f, s
  <2>8. s # <<>> /\ Masks(f, s, frame[c]) /\ f \in SUBSET Flags /\ DOMAIN s = 1..Len(s)
    BY <1>1, <2>1, LenProperties DEF f, s
  <2>4. /\ scope.theirs \in BOOLEAN /\ scope.throws \in BOOLEAN
        /\ "NOINTERRUPT" \in f
        /\ ~scope.theirs => Len(s) > 1 \/ "TERMINATED" \in f
        /\ scope.theirs => Len(s) = 1 /\ frame[c] # "unwind"
    <3>1. scope.theirs \in BOOLEAN /\ scope.throws \in BOOLEAN
      BY <2>2 DEF Scope
    <3>2. CASE Len(s) = 1
      <4>1. scope = s[1]
        BY <2>2, <3>2
      <4>2. QED BY <2>8, <3>1, <3>2, <4>1 DEF Masks
    <3>3. CASE Len(s) > 1
      <4>1. ~scope.theirs
        BY <2>2, <2>8, <3>3 DEF Masks
      <4>2. QED BY <2>8, <3>1, <3>3, <4>1 DEF Masks
    <3>4. QED BY <2>2, <3>2, <3>3
  <2>9. DOMAIN t = 1..(Len(s) - 1) /\ (t = <<>> <=> Len(s) = 1)
    BY <2>2, LenProperties, EmptySeq
  <2>5. CASE ~scope.theirs
    <3>1. ~EdgeThrows(f, scope.theirs) /\ Edge(f, scope.theirs) = f /\ Set(f, scope.theirs) = f
      BY <2>4, <2>5 DEF Edge, EdgeThrows, Set
    <3>2. ~threw
      BY <3>1 DEF threw
    <3>3. Masks(f, t, frame[c])
      <4>1. CASE Len(s) = 1
        BY <2>4, <2>5, <2>8, <2>9, <4>1 DEF Masks
      <4>2. CASE Len(s) > 1
        <5>1. t # <<>> /\ (\A i \in DOMAIN t : i \in DOMAIN s /\ t[i] = s[i]) /\ t[1] = s[1]
          BY <2>2, <2>8, <2>9, <4>2
        <5>2. QED BY <2>8, <5>1 DEF Masks
      <4>3. QED BY <2>2, <4>1, <4>2
    <3>4. flags' = flags /\ frame' = frame
      BY <1>1, <2>3, <3>1, <3>2 DEF f
    <3>5. QED BY <1>1, <2>3, <3>3, <3>4 DEF f
  <2>6. CASE scope.theirs
    <3>1. t = <<>> /\ frame[c] = "body" /\ DOMAIN t = {}
      BY <2>1, <2>4, <2>6, <2>9
    <3> DEFINE g == f \ {"NOINTERRUPT"}
    <3>2. /\ EdgeThrows(f, scope.theirs) <=> Requested(f)
          /\ Set(f, scope.theirs) = g
          /\ Edge(f, scope.theirs) = IF Requested(f) THEN Consumed(g) ELSE g
      BY <2>4, <2>6 DEF Edge, EdgeThrows, Set
    <3>3. Masks(g, t, "body") /\ (Requested(f) => Requested(g)) /\ g \in SUBSET Flags
      BY <2>8, <3>1 DEF Masks, Requested
    <3>4. Requested(f) => Masks(Consumed(g), t, IF "TERMINATED" \in g THEN "unwind" ELSE "body")
      BY <3>3, ThrowMasks
    <3> HIDE DEF g
    <3>5. CASE threw
      <4>1. scope.throws /\ Requested(f) /\ ("TERMINATED" \in f <=> "TERMINATED" \in g)
        BY <3>2, <3>5 DEF threw, g
      <4>2. QED BY <1>1, <2>3, <3>1, <3>2, <3>4, <3>5, <4>1
    <3>6. CASE ~threw
      <4>1. ~(scope.throws /\ Requested(f))
        BY <3>2, <3>6 DEF threw
      <4>2. QED BY <1>1, <2>3, <3>1, <3>2, <3>3, <3>6, <4>1
    <3>7. QED BY <3>5, <3>6
  <2>7. QED BY <2>4, <2>5, <2>6
<1>7. QED BY <1>2, <1>3, <1>4, <1>5, <1>6

\* The other steps: a request adds to the flags, Exit ends the frame of a context that has
\* no scope left, and the rest leaves the flags, the scopes and the frames alone.
LEMMA OtherMasks ==
  ASSUME IInv, NEW c \in Ctxs,
         \/ Exit(c) \/ Expire(c) \/ Joined(c) \/ Notify(c)
         \/ \E how \in {"untimed", "timed"} : Wait(c, how)
         \/ \E d \in Ctxs : Join(c, d)
         \/ \E r \in Asked : Request(c, r)
  PROVE  \A d \in Ctxs : Masks(flags[d], scopes[d], frame[d])
                        => Masks(flags'[d], scopes'[d], frame'[d])
<1>1. CASE Exit(c)
  BY <1>1 DEF Exit, Runs, Masks, IInv, TypeOK
<1>2. ASSUME NEW r \in Asked, Request(c, r)
      PROVE  \A d \in Ctxs : Masks(flags[d], scopes[d], frame[d])
                            => Masks(flags'[d], scopes'[d], frame'[d])
  <2>1. frame[c] # "aborted" /\ r \in {"INTERRUPTED", "TERMINATED"}
    BY <1>2, CtxAssumption DEF Request, Caller, Runs, IInv, AlarmsAgree
  <2>2. scopes' = scopes /\ frame' = frame /\ flags' = [flags EXCEPT ![c] = @ \cup {r}]
        /\ flags \in [Ctxs -> SUBSET Flags]
    BY <1>2 DEF Request, IInv, TypeOK
  <2>3. QED BY <2>1, <2>2 DEF Masks
<1>3. ASSUME UNCHANGED <<flags, scopes, frame>>
      PROVE  \A d \in Ctxs : Masks(flags[d], scopes[d], frame[d])
                            => Masks(flags'[d], scopes'[d], frame'[d])
  BY <1>3
<1>4. QED BY <1>1, <1>2, <1>3 DEF Expire, Joined, Notify, Wait, Join

LEMMA NextMasks ==
  ASSUME Ours = {TRUE}
  PROVE  IInv /\ ScopesNest /\ RequestsHonoured /\ [Next]_vars
         => ScopesNest' /\ RequestsHonoured'
<1> SUFFICES ASSUME IInv, ScopesNest, RequestsHonoured, [Next]_vars
             PROVE  ScopesNest' /\ RequestsHonoured'
  OBVIOUS
<1>1. TypeOK /\ TypeOK'
  BY NextIInv DEF IInv
<1>2. \A d \in Ctxs : Masks(flags[d], scopes[d], frame[d])
  BY <1>1, MasksAgree DEF AllMasks
<1>3. \A d \in Ctxs : Masks(flags'[d], scopes'[d], frame'[d])
  <2>1. CASE Next
    <3> PICK c \in Ctxs :
          \/ Enter(c) \/ Exit(c) \/ Expire(c) \/ Resume(c) \/ Joined(c) \/ Notify(c) \/ Point(c)
          \/ \E how \in {"untimed", "timed"} : Wait(c, how)
          \/ \E d \in Ctxs : Join(c, d)
          \/ \E r \in Asked : Request(c, r)
          \/ \E ours \in Ours, throws \in BOOLEAN : OpenScope(c, ours, throws)
          \/ CloseScope(c)
      BY <2>1 DEF Next
    <3>1. CASE \/ Enter(c) \/ Resume(c) \/ Point(c) \/ CloseScope(c)
               \/ \E ours \in Ours, throws \in BOOLEAN : OpenScope(c, ours, throws)
      <4>1. /\ Masks(flags'[c], scopes'[c], frame'[c])
            /\ \A d \in Ctxs \ {c} :
                 flags'[d] = flags[d] /\ scopes'[d] = scopes[d] /\ frame'[d] = frame[d]
        BY <1>2, <3>1, StepMasks
      <4>2. QED BY <1>2, <4>1
    <3>2. CASE \/ Exit(c) \/ Expire(c) \/ Joined(c) \/ Notify(c)
               \/ \E how \in {"untimed", "timed"} : Wait(c, how)
               \/ \E d \in Ctxs : Join(c, d)
               \/ \E r \in Asked : Request(c, r)
      BY <1>2, <3>2, OtherMasks
    <3>3. QED BY <3>1, <3>2
  <2>2. CASE UNCHANGED vars
    BY <1>2, <2>2 DEF vars
  <2>3. QED BY <2>1, <2>2
<1>4. TypeOK' => (ScopesNest' /\ RequestsHonoured' <=> AllMasks')
  BY MasksAgree, PTL
<1>5. QED BY <1>1, <1>3, <1>4 DEF AllMasks

\* uninterruptible.h, with the argument every use of it in the program has: requests are
\* suppressed exactly while a scope lives, and `terminated` is thrown once.
THEOREM RequestsAreHonoured ==
  ASSUME Ours = {TRUE}
  PROVE  Spec => []RequestsHonoured
<1>1. Init => ScopesNest /\ RequestsHonoured
  BY DEF Init, ScopesNest, RequestsHonoured, NoMaskLeak, ScopeSuppresses, TerminatesOnce
<1>2. QED BY <1>1, NextMasks, CtxInvariant, PTL DEF Spec

-----------------------------------------------------------------------------
(* Ctx implements Sched *)

\* What the abstract scheduler sees, without the order of the cases.
StagesAgree ==
  \A d \in Ctxs : /\ Stage[d] = "done" <=> Finished(d)
                  /\ Stage[d] = "running" <=> current = d
                  /\ Stage[d] = "asleep" <=> alarm[d] \in {"untimed", "timed"}
                  /\ Stage[d] \in {"done", "running", "asleep", "ready"}

LEMMA StageCases == IInv => StagesAgree
<1> SUFFICES ASSUME IInv, NEW d \in Ctxs
             PROVE  /\ Stage[d] = "done" <=> Finished(d)
                    /\ Stage[d] = "running" <=> current = d
                    /\ Stage[d] = "asleep" <=> alarm[d] \in {"untimed", "timed"}
                    /\ Stage[d] \in {"done", "running", "asleep", "ready"}
  BY DEF StagesAgree
<1>1. /\ current = d => ~Finished(d) /\ alarm[d] = "none"
      /\ alarm[d] # "none" => ~Finished(d) /\ current # d
  BY CtxAssumption DEF IInv, AlarmsAgree, Finished
<1>2. Stage[d] = CASE Finished(d) -> "done"
                   [] current = d -> "running"
                   [] alarm[d] \in {"untimed", "timed"} -> "asleep"
                   [] OTHER -> "ready"
  BY DEF Stage
<1>3. QED BY <1>1, <1>2

\* The stages after a step that wakes the contexts of W and touches c besides.
LEMMA StagesAfter ==
  ASSUME IInv, IInv', NEW c \in Ctxs, NEW W \in SUBSET (Ctxs \ {c}),
         \A d \in Ctxs \ {c} :
           /\ Finished(d)' <=> Finished(d)
           /\ current' = d <=> current = d
           /\ alarm'[d] \in {"untimed", "timed"} <=> alarm[d] \in {"untimed", "timed"} /\ d \notin W
  PROVE  Stage' = [Abstract!Wake(Stage, W) EXCEPT ![c] = Stage'[c]]
<1>1. ASSUME NEW d \in Ctxs \ {c} PROVE Stage'[d] = Abstract!Wake(Stage, W)[d]
  <2>1. /\ Stage[d] = "done" <=> Finished(d)
        /\ Stage[d] = "running" <=> current = d
        /\ Stage[d] = "asleep" <=> alarm[d] \in {"untimed", "timed"}
        /\ Stage[d] \in {"done", "running", "asleep", "ready"}
    BY StageCases DEF StagesAgree
  <2>2. /\ Stage'[d] = "done" <=> Finished(d)'
        /\ Stage'[d] = "running" <=> current' = d
        /\ Stage'[d] = "asleep" <=> alarm'[d] \in {"untimed", "timed"}
        /\ Stage'[d] \in {"done", "running", "asleep", "ready"}
    <3>1. StagesAgree'
      BY StageCases, PTL
    <3>2. QED BY <3>1 DEF StagesAgree
  <2>3. QED BY <2>1, <2>2 DEF Abstract!Wake
<1>2. /\ Stage' = [d \in Ctxs |-> Stage'[d]]
      /\ Abstract!Wake(Stage, W) = [d \in Ctxs |-> Abstract!Wake(Stage, W)[d]]
  BY DEF Stage, Abstract!Wake
<1> DEFINE s == Stage'
           w == Abstract!Wake(Stage, W)
<1> HIDE DEF s, w
<1>3. [w EXCEPT ![c] = s[c]] = [d \in Ctxs |-> IF d = c THEN s[c] ELSE w[d]]
  BY <1>2 DEF s, w
<1>4. s = [w EXCEPT ![c] = s[c]]
  BY <1>1, <1>2, <1>3 DEF s, w
<1>5. QED BY <1>4 DEF s, w

\* The flags: what is requested and suppressed, and what a throw does to it.
LEMMA FlagsThrown ==
  ASSUME TypeOK, NEW c \in Ctxs
  PROVE  /\ Abstract!Throws(c) <=> Interruption(flags[c])
         /\ Pend[c] # {} <=> Requested(flags[c])
         /\ flags' = [flags EXCEPT ![c] = Consumed(@)] => Abstract!Thrown(c)
         /\ flags' = flags => Pend' = Pend /\ Masked' = Masked
<1>1. flags \in [Ctxs -> SUBSET Flags]
  BY DEF TypeOK
<1>2. ASSUME flags' = [flags EXCEPT ![c] = Consumed(@)] PROVE Abstract!Thrown(c)
  <2>1. \A d \in Ctxs : flags'[d] = IF d = c THEN Consumed(flags[c]) ELSE flags[d]
    BY <1>1, <1>2
  <2>2. CASE "TERMINATED" \in flags[c]
    <3>1. "TERMINATED" \in Pend[c]
      BY <2>2 DEF Pend
    <3>2. Pend' = Pend
      BY <2>1, <2>2 DEF Pend, Consumed
    <3>3. Masked' = [Masked EXCEPT ![c] = TRUE]
      BY <2>1, <2>2 DEF Masked, Consumed
    <3>4. QED BY <3>1, <3>2, <3>3 DEF Abstract!Thrown
  <2>3. CASE "TERMINATED" \notin flags[c]
    <3>1. "TERMINATED" \notin Pend[c]
      BY <2>3 DEF Pend
    <3>2. Pend' = [Pend EXCEPT ![c] = @ \ {"INTERRUPTED"}]
      BY <2>1, <2>3 DEF Pend, Consumed
    <3>3. Masked' = Masked
      BY <2>1, <2>3 DEF Masked, Consumed
    <3>4. QED BY <3>1, <3>2, <3>3 DEF Abstract!Thrown
  <2>4. QED BY <2>2, <2>3
<1>3. Abstract!Throws(c) <=> Interruption(flags[c])
  BY DEF Abstract!Throws, Interruption, Requested, Pend, Masked
<1>4. QED BY <1>2, <1>3 DEF Pend, Masked, Requested

LEMMA EnterSimulates ==
  ASSUME IInv, IInv', NEW c \in Ctxs, Enter(c)
  PROVE  Abstract!SchedNext
<1>1. /\ current = None /\ frame[c] = "unborn" /\ current' = c
      /\ UNCHANGED alarm /\ frame'[c] \in {"aborted", "body"}
      /\ \A d \in Ctxs \ {c} : frame'[d] = frame[d]
      /\ flags' = IF Interruption(flags[c]) THEN [flags EXCEPT ![c] = Consumed(@)] ELSE flags
  BY DEF IInv, TypeOK, Enter
<1>2. Stage[c] = "ready" /\ Stage'[c] = "running"
  <2>1. StagesAgree /\ StagesAgree'
    BY StageCases, PTL
  <2>2. alarm[c] = "none"
    BY <1>1 DEF IInv, AlarmsAgree
  <2>3. QED BY <1>1, <2>1, <2>2, CtxAssumption DEF StagesAgree, Finished
<1>3. Stage' = [Abstract!Wake(Stage, {}) EXCEPT ![c] = Stage'[c]]
  <2>1. \A d \in Ctxs \ {c} :
          /\ Finished(d)' <=> Finished(d)
          /\ current' = d <=> current = d
          /\ alarm'[d] \in {"untimed", "timed"} <=> alarm[d] \in {"untimed", "timed"} /\ d \notin {}
    BY <1>1, CtxAssumption DEF Finished
  <2>2. {} \in SUBSET (Ctxs \ {c})
    OBVIOUS
  <2>3. QED BY <2>1, <2>2, StagesAfter
<1>4. CASE Interruption(flags[c])
  <2>1. Abstract!ResumeThrown(c)
    <3>1. Abstract!Resumable(c) /\ Abstract!Throws(c) /\ Abstract!Thrown(c)
      BY <1>1, <1>2, <1>4, FlagsThrown DEF IInv, Abstract!Resumable
    <3>2. QED BY <1>1, <1>2, <1>3, <3>1 DEF Abstract!ResumeThrown
  <2>2. QED BY <2>1 DEF Abstract!SchedNext
<1>5. CASE ~Interruption(flags[c])
  <2>1. Abstract!Resume(c)
    <3>1. Abstract!Resumable(c) /\ ~Abstract!Throws(c) /\ Pend' = Pend /\ Masked' = Masked
      BY <1>1, <1>2, <1>5, FlagsThrown DEF IInv, Abstract!Resumable
    <3>2. Abstract!Wake(Stage, {}) = Stage
      BY DEF Abstract!Wake, Stage
    <3>3. QED BY <1>1, <1>2, <1>3, <3>1, <3>2 DEF Abstract!Resume
  <2>2. QED BY <2>1 DEF Abstract!SchedNext
<1>6. QED BY <1>4, <1>5

\* The alarms after a step that notifies the contexts of W.
LEMMA NotesWake ==
  ASSUME IInv, NEW W
  PROVE  \A d \in Ctxs : d # current =>
           (Alarmed(alarm, W)[d] \in {"untimed", "timed"}
            <=> alarm[d] \in {"untimed", "timed"} /\ d \notin W)
<1> SUFFICES ASSUME NEW d \in Ctxs, d # current
             PROVE  Alarmed(alarm, W)[d] \in {"untimed", "timed"}
                    <=> alarm[d] \in {"untimed", "timed"} /\ d \notin W
  OBVIOUS
<1>1. notes[d] \in 0..2 /\ (notes[d] > 0 => alarm[d] \notin {"untimed", "timed"})
  BY DEF IInv, TypeOK, SleepersResume, NotesResume
<1>2. QED BY <1>1 DEF Alarmed, Woken

LEMMA ResumeSimulates ==
  ASSUME IInv, IInv', NEW c \in Ctxs, Resume(c)
  PROVE  Abstract!SchedNext
<1> DEFINE threw == Interruption(flags[c])
           left == threw /\ joining[c] # None
           q == IF left THEN Without(adjoindre, c) ELSE adjoindre
           W == IF left THEN Front1(q) ELSE {}
           a == Alarmed(alarm, W)
<1>1. /\ current = None /\ alarm[c] = "queued" /\ current' = c
      /\ alarm' = [a EXCEPT ![c] = "none"]
      /\ flags' = [flags EXCEPT ![c] = IF threw THEN Consumed(@) ELSE @]
      /\ frame' = Unwound(c, threw) /\ threw \in BOOLEAN
  BY DEF Resume, Interruption
<1>2. W \in SUBSET (Ctxs \ {c}) /\ (~threw => W = {})
  <2>1. CASE left
    <3>1. /\ adjoindre \in Seq(Ctxs) /\ c \in ToSet(adjoindre)
          /\ \A i, j \in DOMAIN adjoindre : adjoindre[i] = adjoindre[j] => i = j
      BY <2>1 DEF IInv, TypeOK, JoinersQueued
    <3>2. q = Without(adjoindre, c) /\ W = Front1(q)
      BY <2>1
    <3> HIDE DEF q
    <3>3. q \in Seq(Ctxs) /\ ToSet(q) = ToSet(adjoindre) \ {c}
      BY <3>1, <3>2, WithoutElements
    <3>4. q # <<>> => Head(q) \in ToSet(q) /\ Head(q) \in Ctxs
      BY <3>3, HeadElement
    <3>5. Front1(q) \in SUBSET (Ctxs \ {c})
      BY <3>3, <3>4 DEF Front1
    <3>6. QED BY <2>1, <3>2, <3>5
  <2>2. CASE ~left
    BY <2>2
  <2>3. QED BY <2>1, <2>2
<1>3. \A d \in Ctxs \ {c} : a[d] \in {"untimed", "timed"}
                             <=> alarm[d] \in {"untimed", "timed"} /\ d \notin W
  <2> HIDE DEF W
  <2>1. QED BY <1>1, NotesWake, CtxAssumption
<1>4. /\ (\A d \in Ctxs \ {c} : frame'[d] = frame[d])
      /\ frame[c] \in {"body", "unwind"} /\ frame'[c] \in {frame[c], "unwind"}
  BY <1>1, UnwoundTypes DEF IInv, AlarmsAgree
<1>5. /\ flags' = [flags EXCEPT ![c] = IF threw THEN Consumed(flags[c]) ELSE flags[c]]
      /\ ~threw => flags' = flags
  BY <1>1 DEF IInv, TypeOK
<1>6. a = [d \in Ctxs |-> a[d]]
  BY DEF Alarmed
<1> HIDE DEF threw, left, q, W, a
<1>7. Stage[c] = "ready" /\ Stage'[c] = "running"
  <2>1. StagesAgree /\ StagesAgree'
    BY StageCases, PTL
  <2>2. QED BY <1>1, <1>4, <2>1, CtxAssumption DEF StagesAgree, Finished
<1>8. Stage' = [Abstract!Wake(Stage, W) EXCEPT ![c] = Stage'[c]]
  <2>1. \A d \in Ctxs \ {c} :
          /\ Finished(d)' <=> Finished(d)
          /\ current' = d <=> current = d
          /\ alarm'[d] \in {"untimed", "timed"} <=> alarm[d] \in {"untimed", "timed"} /\ d \notin W
    BY <1>1, <1>3, <1>4, <1>6, CtxAssumption DEF Finished
  <2>2. QED BY <1>2, <2>1, StagesAfter
<1>9. CASE threw
  <2>1. Abstract!ResumeThrown(c)
    <3>1. Abstract!Resumable(c) /\ Abstract!Throws(c) /\ Abstract!Thrown(c)
      BY <1>1, <1>7, <1>9, FlagsThrown DEF IInv, Abstract!Resumable, threw
    <3>2. QED BY <1>1, <1>2, <1>7, <1>8, <3>1 DEF Abstract!ResumeThrown
  <2>2. QED BY <2>1 DEF Abstract!SchedNext
<1>10. CASE ~threw
  <2>1. Abstract!Resume(c)
    <3>1. Abstract!Resumable(c) /\ ~Abstract!Throws(c) /\ Pend' = Pend /\ Masked' = Masked
      BY <1>1, <1>5, <1>7, <1>10, FlagsThrown DEF IInv, Abstract!Resumable, threw
    <3>2. Abstract!Wake(Stage, {}) = Stage
      BY DEF Abstract!Wake, Stage
    <3>3. QED BY <1>1, <1>2, <1>7, <1>8, <1>10, <3>1, <3>2 DEF Abstract!Resume
  <2>2. QED BY <2>1 DEF Abstract!SchedNext
<1>11. QED BY <1>9, <1>10

LEMMA ExitSimulates ==
  ASSUME IInv, IInv', NEW c \in Ctxs, Exit(c)
  PROVE  Abstract!SchedNext
<1>1. /\ current = c /\ current' = None /\ frame' = [frame EXCEPT ![c] = "gone"]
      /\ alarm' = Alarmed(alarm, Joiners) /\ UNCHANGED flags /\ frame \in [Ctxs -> Frames]
  BY DEF Exit, Runs, IInv, TypeOK
<1>2. Joiners \in SUBSET (Ctxs \ {c})
  <2>1. joining[c] = None
    BY DEF IInv, Exit, Runs, JoinersQueued
  <2>2. QED BY <2>1 DEF IInv, TypeOK, JoinersQueued, Joiners, ToSet
<1>3. Stage'[c] = "done"
  <2>1. StagesAgree'
    BY StageCases, PTL
  <2>2. QED BY <1>1, <2>1 DEF StagesAgree, Finished
<1>4. Stage' = [Abstract!Wake(Stage, Joiners) EXCEPT ![c] = Stage'[c]]
  <2>1. \A d \in Ctxs \ {c} :
          /\ Finished(d)' <=> Finished(d)
          /\ current' = d <=> current = d
          /\ alarm'[d] \in {"untimed", "timed"} <=> alarm[d] \in {"untimed", "timed"} /\ d \notin Joiners
    BY <1>1, NotesWake, CtxAssumption DEF Finished
  <2>2. QED BY <1>2, <2>1, StagesAfter
<1>5. Abstract!Finish(c)
  <2>1. Pend' = Pend /\ Masked' = Masked
    BY <1>1 DEF Pend, Masked
  <2>2. QED BY <1>1, <1>2, <1>3, <1>4, <2>1 DEF Abstract!Finish
<1>6. QED BY <1>5 DEF Abstract!SchedNext

LEMMA SuspendSimulates ==
  ASSUME IInv, IInv', NEW c \in Ctxs, NEW how \in {"untimed", "timed"}, current = c,
         Suspends(c, how), UNCHANGED <<frame, flags>>
  PROVE  Abstract!SchedNext
<1>1. current' = None /\ alarm' = [alarm EXCEPT ![c] = how] /\ alarm \in [Ctxs -> Alarms]
  BY DEF Suspends, IInv, TypeOK
<1>2. Stage'[c] = "asleep"
  <2>1. StagesAgree'
    BY StageCases, PTL
  <2>2. QED BY <1>1, <2>1 DEF StagesAgree
<1>3. Stage' = [Abstract!Wake(Stage, {}) EXCEPT ![c] = Stage'[c]]
  <2>1. \A d \in Ctxs \ {c} :
          /\ Finished(d)' <=> Finished(d)
          /\ current' = d <=> current = d
          /\ alarm'[d] \in {"untimed", "timed"} <=> alarm[d] \in {"untimed", "timed"} /\ d \notin {}
    BY <1>1, CtxAssumption DEF Finished
  <2>2. {} \in SUBSET (Ctxs \ {c})
    OBVIOUS
  <2>3. QED BY <2>1, <2>2, StagesAfter
<1>4. Abstract!Suspend(c)
  <2>1. Pend' = Pend /\ Masked' = Masked /\ Abstract!Wake(Stage, {}) = Stage
    BY DEF Pend, Masked, Abstract!Wake, Stage
  <2>2. QED BY <1>1, <1>2, <1>3, <2>1 DEF Abstract!Suspend
<1>5. QED BY <1>4 DEF Abstract!SchedNext

\* A wake-up of c, and nothing else that the scheduler sees.
LEMMA StagesWake ==
  ASSUME IInv, IInv', NEW c \in Ctxs, UNCHANGED <<current, frame>>,
         \A d \in Ctxs : alarm'[d] \in {"untimed", "timed"}
                         <=> alarm[d] \in {"untimed", "timed"} /\ d # c
  PROVE  Stage' = Abstract!Wake(Stage, {c})
<1>1. StagesAgree /\ StagesAgree'
  BY StageCases, PTL
<1>2. \A d \in Ctxs : Finished(d)' <=> Finished(d)
  BY DEF Finished
<1>3. ASSUME NEW d \in Ctxs PROVE Stage'[d] = Abstract!Wake(Stage, {c})[d]
  BY <1>1, <1>2 DEF StagesAgree, Abstract!Wake
<1>4. /\ Stage' = [d \in Ctxs |-> Stage'[d]]
      /\ Abstract!Wake(Stage, {c}) = [d \in Ctxs |-> Abstract!Wake(Stage, {c})[d]]
  BY DEF Stage, Abstract!Wake
<1> DEFINE s == Stage'
           w == Abstract!Wake(Stage, {c})
<1> HIDE DEF s, w
<1>5. s = w
  BY <1>3, <1>4 DEF s, w
<1>6. QED BY <1>5 DEF s, w

LEMMA WakeSimulates ==
  ASSUME IInv, IInv', NEW c \in Ctxs,
         \/ Expire(c) \/ Notify(c) \/ \E r \in Asked : Request(c, r)
  PROVE  Abstract!SchedNext
<1>1. CASE Expire(c)
  <2>1. Stage' = Abstract!Wake(Stage, {c})
    BY <1>1, StagesWake DEF IInv, TypeOK, Expire
  <2>2. Abstract!Rouse(c)
    BY <1>1, <2>1 DEF Expire, Abstract!Rouse, Pend, Masked
  <2>3. QED BY <2>2 DEF Abstract!SchedNext
<1>2. CASE Notify(c)
  <2>1. /\ \A d \in Ctxs : d # current =>
             (alarm'[d] \in {"untimed", "timed"} <=> alarm[d] \in {"untimed", "timed"} /\ d \notin {c})
        /\ alarm' = Alarmed(alarm, {c}) /\ UNCHANGED <<current, frame, flags>>
    BY <1>2, NotesWake DEF Notify
  <2>2. \A d \in Ctxs : d = current => alarm[d] = "none" /\ alarm'[d] = "none"
    BY <2>1 DEF IInv, AlarmsAgree
  <2>3. \A d \in Ctxs : alarm'[d] \in {"untimed", "timed"}
                         <=> alarm[d] \in {"untimed", "timed"} /\ d # c
    BY <2>1, <2>2
  <2>4. Stage' = Abstract!Wake(Stage, {c})
    BY <2>1, <2>3, StagesWake
  <2>5. Abstract!Rouse(c)
    BY <2>1, <2>4 DEF Abstract!Rouse, Pend, Masked
  <2>6. QED BY <2>5 DEF Abstract!SchedNext
<1>3. ASSUME NEW r \in Asked, Request(c, r)
      PROVE  Abstract!SchedNext
  <2>1. /\ UNCHANGED <<current, frame>> /\ ~Finished(c) /\ r \notin flags[c]
        /\ flags' = [flags EXCEPT ![c] = @ \cup {r}] /\ flags \in [Ctxs -> SUBSET Flags]
        /\ r \in {"INTERRUPTED", "TERMINATED"}
    BY <1>3, CtxAssumption DEF Request, Requestable, IInv, TypeOK
  <2>2. /\ \A d \in Ctxs \ {c} : alarm'[d] = alarm[d]
        /\ alarm'[c] \notin {"untimed", "timed"}
    BY <1>3 DEF Request, IInv, TypeOK, AlarmsAgree, Woken
  <2>3. Stage' = Abstract!Wake(Stage, {c})
    BY <2>1, <2>2, StagesWake
  <2>4. Stage[c] # "done" /\ r \notin Pend[c]
    BY <2>1, StageCases DEF StagesAgree, Pend
  <2>5. Pend' = [Pend EXCEPT ![c] = @ \cup {r}] /\ Masked' = Masked
    <3>1. \A d \in Ctxs : flags'[d] = IF d = c THEN flags[c] \cup {r} ELSE flags[d]
      BY <2>1
    <3>2. (flags[c] \cup {r}) \cap {"INTERRUPTED", "TERMINATED"}
          = (flags[c] \cap {"INTERRUPTED", "TERMINATED"}) \cup {r}
      BY <2>1
    <3>3. Pend' = [Pend EXCEPT ![c] = @ \cup {r}]
      BY <3>1, <3>2 DEF Pend
    <3>4. Masked' = Masked
      BY <2>1, <3>1 DEF Masked
    <3>5. QED BY <3>3, <3>4
  <2>6. Abstract!Request(c, r) /\ r \in Abstract!Requests
    BY <2>1, <2>3, <2>4, <2>5 DEF Abstract!Request, Abstract!Requests
  <2>7. QED BY <2>6 DEF Abstract!SchedNext
<1>4. QED BY <1>1, <1>2, <1>3

LEMMA MaskedAfter ==
  ASSUME NEW c \in Ctxs, NEW g, NEW m \in BOOLEAN, "NOINTERRUPT" \in g <=> m,
         \A d \in Ctxs : flags'[d] = IF d = c THEN g ELSE flags[d]
  PROVE  Masked' = [Masked EXCEPT ![c] = m]
<1>1. Masked' = [d \in Ctxs |-> "NOINTERRUPT" \in flags'[d]]
  BY DEF Masked
<1>2. [Masked EXCEPT ![c] = m]
      = [d \in Ctxs |-> IF d = c THEN m ELSE "NOINTERRUPT" \in flags[d]]
  BY DEF Masked
<1>3. ASSUME NEW d \in Ctxs
      PROVE  ("NOINTERRUPT" \in flags'[d]) = (IF d = c THEN m ELSE "NOINTERRUPT" \in flags[d])
  OBVIOUS
<1>4. QED BY <1>1, <1>2, <1>3, Zenon

\* Interruption points and scopes: only the flags of the running context change.
LEMMA ScopeSimulates ==
  ASSUME IInv, IInv', NEW c \in Ctxs,
         \/ Point(c) \/ CloseScope(c)
         \/ \E ours \in Ours, throws \in BOOLEAN : OpenScope(c, ours, throws)
  PROVE  Abstract!SchedNext
<1> DEFINE f == flags[c]
<1>1. /\ current = c /\ current' = c /\ flags \in [Ctxs -> SUBSET Flags] /\ f \in SUBSET Flags
      /\ Stage' = Stage
  <2>1. /\ Runs(c) /\ UNCHANGED <<current, alarm>> /\ \E threw \in BOOLEAN : frame' = Unwound(c, threw)
    <3>1. CASE Point(c)
      BY <3>1 DEF Point
    <3>2. CASE CloseScope(c)
      BY <3>2 DEF CloseScope, Restored, EdgeThrows
    <3>3. ASSUME NEW ours \in Ours, NEW throws \in BOOLEAN, OpenScope(c, ours, throws)
          PROVE  <2>1!:
      BY <3>3 DEF OpenScope, EdgeThrows
    <3>4. QED BY <3>1, <3>2, <3>3
  <2>2. \A d \in Ctxs : Finished(d)' <=> Finished(d)
    BY <2>1, UnwoundTypes DEF IInv, Runs, Finished
  <2>3. Stage' = Stage
    BY <2>1, <2>2 DEF Stage
  <2>4. QED BY <2>1, <2>3 DEF IInv, TypeOK, Runs
<1>2. ASSUME flags' = [flags EXCEPT ![c] = Consumed(@)], Requested(f) PROVE Abstract!SchedNext
  <2>1. Abstract!Thrown(c) /\ Pend[c] # {}
    BY <1>2, FlagsThrown DEF IInv
  <2>2. Abstract!Point(c)
    BY <1>1, <2>1 DEF Abstract!Point
  <2>3. QED BY <2>2 DEF Abstract!SchedNext
<1>3. ASSUME NEW b \in BOOLEAN, flags' = [flags EXCEPT ![c] = Set(f, b)] PROVE Abstract!SchedNext
  <2>1. \A d \in Ctxs : flags'[d] = IF d = c THEN Set(f, b) ELSE flags[d]
    BY <1>1, <1>3
  <2>2. Pend' = Pend
    BY <2>1 DEF Pend, Set
  <2>3. Masked' = [Masked EXCEPT ![c] = ~b]
    <3>1. "NOINTERRUPT" \in Set(f, b) <=> ~b
      BY DEF Set
    <3>2. QED BY <2>1, <3>1, MaskedAfter
  <2>4. Abstract!Mask(c, ~b)
    BY <1>1, <2>2, <2>3 DEF Abstract!Mask
  <2>5. QED BY <2>4 DEF Abstract!SchedNext
<1>4. ASSUME NEW b \in BOOLEAN, flags' = [flags EXCEPT ![c] = Edge(f, b)] PROVE Abstract!SchedNext
  <2>1. CASE ~EdgeThrows(f, b)
    BY <1>3, <1>4, <2>1 DEF Edge
  <2>2. CASE EdgeThrows(f, b) /\ ~b
    BY <1>2, <1>4, <2>2 DEF Edge, EdgeThrows
  <2>3. CASE EdgeThrows(f, b) /\ b /\ "TERMINATED" \in f
    <3>1. Edge(f, b) = Consumed(f) /\ Requested(f)
      BY <2>3 DEF Edge, EdgeThrows, Consumed, Set
    <3>2. QED BY <1>2, <1>4, <3>1
  <2>4. CASE EdgeThrows(f, b) /\ b /\ "TERMINATED" \notin f
    <3>1. Edge(f, b) = f \ {"NOINTERRUPT", "INTERRUPTED"}
      BY <2>4 DEF Edge, Consumed, Set
    <3>2. \A d \in Ctxs : flags'[d] = IF d = c THEN f \ {"NOINTERRUPT", "INTERRUPTED"} ELSE flags[d]
      BY <1>1, <1>4, <3>1
    <3>3. Pend' = [Pend EXCEPT ![c] = @ \ {"INTERRUPTED"}]
      BY <3>2 DEF Pend
    <3>4. Masked' = [Masked EXCEPT ![c] = FALSE]
      BY <3>2, MaskedAfter
    <3>5. Abstract!Mask(c, FALSE)
      BY <1>1, <3>3, <3>4 DEF Abstract!Mask
    <3>6. QED BY <3>5 DEF Abstract!SchedNext
  <2>5. QED BY <2>1, <2>2, <2>3, <2>4
<1>5. CASE Point(c)
  BY <1>2, <1>5 DEF Point, Interruption
<1>6. CASE CloseScope(c)
  <2> DEFINE scope == Last(scopes[c])
  <2>1. scopes[c] \in Seq(Scope) /\ scopes[c] # <<>>
    BY <1>6 DEF IInv, TypeOK, CloseScope
  <2>2. scope \in Scope
    BY <2>1, LastScope
  <2>3. flags' = [flags EXCEPT ![c] = IF scope.throws THEN Edge(f, scope.theirs) ELSE Set(f, scope.theirs)]
    BY <1>1, <1>6 DEF CloseScope, Restored
  <2> HIDE DEF scope
  <2>4. scope.theirs \in BOOLEAN /\ scope.throws \in BOOLEAN
    BY <2>2 DEF Scope
  <2>5. QED BY <1>3, <1>4, <2>3, <2>4
<1>7. ASSUME NEW ours \in Ours, NEW throws \in BOOLEAN, OpenScope(c, ours, throws)
      PROVE  Abstract!SchedNext
  <2>1. flags' = [flags EXCEPT ![c] = IF throws THEN Edge(f, ~ours) ELSE Set(f, ~ours)]
    BY <1>1, <1>7 DEF OpenScope
  <2>2. QED BY <1>3, <1>4, <2>1
<1>8. QED BY <1>5, <1>6, <1>7

\* Ctx implements the scheduler of Sched, which the models of the primitives rely on: what
\* they assume of a suspension, a wake-up and an interruption is what the machine does.
THEOREM Implementation == Spec => ImplementsSched
<1>1. Init => Abstract!SchedInit
  <2> SUFFICES ASSUME Init PROVE Abstract!SchedInit
    OBVIOUS
  <2>1. Stage = [c \in Ctxs |-> "ready"]
    BY CtxAssumption DEF Init, Stage, Finished
  <2>2. Pend = [c \in Ctxs |-> {}]
    BY DEF Init, Pend
  <2>3. Masked = [c \in Ctxs |-> FALSE]
    <3>1. \A c \in Ctxs : ("NOINTERRUPT" \in flags[c]) = FALSE
      BY DEF Init
    <3>2. QED BY <3>1, Zenon DEF Masked
  <2>4. QED BY <2>1, <2>2, <2>3 DEF Init, Abstract!SchedInit
<1>2. IInv /\ IInv' /\ [Next]_vars => [Abstract!SchedNext]_(Abstract!sched)
  <2> SUFFICES ASSUME IInv, IInv', [Next]_vars
               PROVE  Abstract!SchedNext \/ UNCHANGED Abstract!sched
    OBVIOUS
  <2>1. CASE Next
    <3> PICK c \in Ctxs :
          \/ Enter(c) \/ Exit(c) \/ Expire(c) \/ Resume(c) \/ Joined(c) \/ Notify(c) \/ Point(c)
          \/ \E how \in {"untimed", "timed"} : Wait(c, how)
          \/ \E d \in Ctxs : Join(c, d)
          \/ \E r \in Asked : Request(c, r)
          \/ \E ours \in Ours, throws \in BOOLEAN : OpenScope(c, ours, throws)
          \/ CloseScope(c)
      BY <2>1 DEF Next
    <3>1. CASE Joined(c)
      <4>1. CASE Finished(joining[c])
        <5>1. UNCHANGED <<current, alarm, frame, flags>>
          BY <3>1, <4>1 DEF Joined
        <5>2. Stage' = Stage /\ Pend' = Pend /\ Masked' = Masked
          BY <5>1 DEF Stage, Finished, Pend, Masked
        <5>3. QED BY <5>1, <5>2 DEF Abstract!sched
      <4>2. CASE ~Finished(joining[c])
        BY <3>1, <4>2, SuspendSimulates DEF Joined
      <4>3. QED BY <4>1, <4>2
    <3>2. ASSUME NEW how \in {"untimed", "timed"}, Wait(c, how) PROVE Abstract!SchedNext
      BY <3>2, SuspendSimulates DEF Wait, Runs
    <3>3. ASSUME NEW d \in Ctxs, Join(c, d) PROVE Abstract!SchedNext
      BY <3>3, SuspendSimulates DEF Join, Runs
    <3>4. QED BY <3>1, <3>2, <3>3, EnterSimulates, ExitSimulates, ResumeSimulates, WakeSimulates,
                 ScopeSimulates
  <2>2. CASE UNCHANGED vars
    BY <2>2 DEF vars, Abstract!sched, Stage, Finished, Pend, Masked
  <2>3. QED BY <2>1, <2>2
<1>3. QED BY <1>1, <1>2, CtxInvariant, PTL DEF Spec, ImplementsSched, Abstract!SchedSpec
=============================================================================
