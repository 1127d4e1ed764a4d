--------------------------------- MODULE View ---------------------------------
(***************************************************************************)
(* ctx::view: a producer shows an object on its stack to the contexts that *)
(* wait for it, each of which looks at it under the mutex the view is, and *)
(* goes on only when all of them are done.                                 *)
(***************************************************************************)
EXTENDS Sched, Integers

CONSTANTS
  Producers  \* the contexts that call operator(): the doc knows a single one

VARIABLES
  m, mq,   \* the mutex: its owner and the queue of its dock
  q,       \* the queue of the view's own dock
  t,       \* the pointer is not null
  wanting, waiting,  \* the semaphores
  pc, due

vars == <<sched, m, mq, q, t, wanting, waiting, pc, due>>

Consumers == Ctxs \ Producers

\* In the dock of the view: a consumer until the pointer is null (want1) and until
\* it is not (want2), the producer until a semaphore is zero (show1, show2).
Docked == {"want1", "want2", "show1", "show2"}
\* In the dock of the mutex: out of want1 or want2 by the predicate, or by a throw;
\* the producer; a client that locks.
Queued == {"back1", "back2", "fail1", "fail2", "take1", "take2", "lock"}
Places == Docked \cup Queued \cup {"out", "in", "view"}

Holds(c) == pc[c] \in {"in", "view"}

TypeOK ==
  /\ SchedTypeOK
  /\ m \in Ctxs \cup {None} /\ mq \in Seq(Ctxs) /\ q \in Seq(Ctxs) /\ t \in BOOLEAN
  /\ wanting \in 0..Cardinality(Ctxs) /\ waiting \in 0..Cardinality(Ctxs)
  /\ pc \in [Ctxs -> Places] /\ due \in [Ctxs -> BOOLEAN]

Init ==
  /\ SchedInit
  /\ m = None /\ mq = <<>> /\ q = <<>> /\ t = FALSE
  /\ wanting = 0 /\ waiting = 0
  /\ pc = [c \in Ctxs |-> "out"] /\ due = [c \in Ctxs |-> FALSE]

-----------------------------------------------------------------------------
(* How a slice of c ends: it sleeps or runs on, and W was notified *)

Sleep(c, place, W) ==
  /\ current' = None
  /\ stage' = [Wake(stage, W) EXCEPT ![c] = "asleep"]
  /\ pc' = [pc EXCEPT ![c] = place]

Run(c, place, W) ==
  /\ current' = c
  /\ stage' = [Wake(stage, W) EXCEPT ![c] = "running"]
  /\ pc' = [pc EXCEPT ![c] = place]

\* c queues for the mutex.
Queue(c, place) == Sleep(c, place, {}) /\ mq' = Append(mq, c) /\ UNCHANGED m

-----------------------------------------------------------------------------
(* wait() and wait_until(), from the mutex taken to the mutex given up; k and d are *)
(* the queues of the mutex and of the view without c, W who was notified so far     *)

\* The second consume(): nothing is shown yet, or the object is looked at.
Consume2(c, k, d, W) ==
  LET woken == W \cup Front1(k)
  IN  /\ mq' = k
      /\ \/ /\ t
            /\ m' = c /\ q' = d
            /\ Run(c, "view", woken \cup ToSet(d))
            /\ UNCHANGED waiting
         \/ /\ ~t
            /\ m' = None /\ q' = Append(d, c)
            /\ waiting' = waiting + 1
            /\ Sleep(c, "want2", woken)

\* The first one is over: wanting is what it was before it.
Consumed1(c, k, d, before) ==
  /\ wanting' = before
  /\ Consume2(c, k, d, ToSet(d))

Consume1(c) ==
  /\ current = c /\ c \in Consumers /\ Holds(c)
  /\ \/ ~t /\ Consumed1(c, mq, q, wanting)
     \/ /\ t
        /\ m' = None /\ q' = Append(q, c)
        /\ wanting' = wanting + 1
        /\ Sleep(c, "want1", Front1(mq))
        /\ UNCHANGED <<mq, waiting>>
  /\ due' = [due EXCEPT ![c] = FALSE]
  /\ UNCHANGED <<pend, masked, t>>

\* The second one is over: the caller has its view.
Consumed2(c, k, d) ==
  /\ waiting' = waiting - 1
  /\ m' = c /\ mq' = k /\ q' = d
  /\ Run(c, "view", ToSet(d))
  /\ UNCHANGED wanting

\* A throw in either: the semaphore is given back under the mutex.
Failed(c, k, d, first) ==
  /\ wanting' = IF first THEN wanting - 1 ELSE wanting
  /\ waiting' = IF first THEN waiting ELSE waiting - 1
  /\ m' = c /\ mq' = k /\ q' = d
  /\ Run(c, "in", ToSet(d))

-----------------------------------------------------------------------------
(* operator(), under a suppression scope *)

Publish(c, k, d) ==
  /\ m' = None /\ mq' = k
  /\ \/ /\ waiting = 0  \* nobody looks: the pointer is set and null again
        /\ q' = d /\ t' = FALSE
        /\ Run(c, "out", ToSet(d) \cup Front1(k))
        /\ masked' = [masked EXCEPT ![c] = FALSE] /\ pend' = [pend EXCEPT ![c] = {}]
     \/ /\ waiting > 0
        /\ q' = Append(d, c) /\ t' = TRUE
        /\ Sleep(c, "show2", ToSet(d) \cup Front1(k))
        /\ masked' = [masked EXCEPT ![c] = TRUE] /\ UNCHANGED pend

Retract(c, k, d) ==
  /\ m' = None /\ mq' = k /\ q' = d /\ t' = FALSE
  /\ Run(c, "out", ToSet(d) \cup Front1(k))
  /\ masked' = [masked EXCEPT ![c] = FALSE] /\ pend' = [pend EXCEPT ![c] = {}]

Produce(c) ==
  /\ current = c /\ c \in Producers /\ pc[c] = "out" /\ ~Throws(c)
  /\ \/ wanting = 0 /\ m = None /\ Publish(c, mq, q)
     \/ wanting = 0 /\ m # None /\ Queue(c, "take1")
        /\ masked' = [masked EXCEPT ![c] = TRUE] /\ UNCHANGED <<pend, q, t>>
     \/ wanting > 0 /\ Sleep(c, "show1", {}) /\ q' = Append(q, c)
        /\ masked' = [masked EXCEPT ![c] = TRUE] /\ UNCHANGED <<pend, m, mq, t>>
  /\ UNCHANGED <<wanting, waiting, due>>

-----------------------------------------------------------------------------
(* Resumption *)

Awake(c, places) == Resumable(c) /\ pc[c] \in places

ReadyShown(c) ==  \* mutant: the producer goes on when it is notified
  CASE pc[c] = "want1" -> ~t
    [] pc[c] = "want2" -> t
    [] pc[c] = "show1" -> wanting = 0
    [] pc[c] = "show2" -> TRUE

\* The predicate of the dock of the view.
Ready(c) ==
  CASE pc[c] = "want1" -> ~t
    [] pc[c] = "want2" -> t
    [] pc[c] = "show1" -> wanting = 0
    [] pc[c] = "show2" -> waiting = 0

WakeInVain(c) ==
  /\ \/ Awake(c, Docked) /\ ~Ready(c) /\ ~due[c]
     \/ Awake(c, Queued) /\ m # None
  /\ ~Throws(c)
  /\ stage' = [stage EXCEPT ![c] = "asleep"]
  /\ UNCHANGED <<current, pend, masked, m, mq, q, t, wanting, waiting, pc, due>>

WakeConsumer(c) ==
  /\ Awake(c, {"want1", "want2"}) /\ ~Throws(c) /\ Ready(c)
  /\ IF m # None
     THEN /\ Queue(c, IF pc[c] = "want1" THEN "back1" ELSE "back2")
          /\ q' = Without(q, c) /\ UNCHANGED <<wanting, waiting>>
     ELSE IF pc[c] = "want1" THEN Consumed1(c, mq, Without(q, c), wanting - 1)
     ELSE Consumed2(c, mq, Without(q, c))
  /\ UNCHANGED <<pend, masked, t, due>>

\* The deadline, or an interruption, which notifies another context.
WakeFailing(c) ==
  /\ Awake(c, {"want1", "want2"}) /\ (Throws(c) \/ (~Ready(c) /\ due[c]))
  /\ IF Throws(c) THEN Thrown(c) ELSE UNCHANGED <<pend, masked>>
  /\ LET d == Without(q, c)
     IN  IF m = None THEN Failed(c, mq, d, pc[c] = "want1")
         ELSE /\ current' = None
              /\ stage' = [Wake(stage, IF Throws(c) THEN Front1(d) ELSE {}) EXCEPT ![c] = "asleep"]
              /\ pc' = [pc EXCEPT ![c] = IF @ = "want1" THEN "fail1" ELSE "fail2"]
              /\ mq' = Append(mq, c) /\ q' = d
              /\ UNCHANGED <<m, wanting, waiting>>
  /\ UNCHANGED <<t, due>>

WakeProducer(c) ==
  /\ Awake(c, {"show1", "show2"}) /\ Ready(c)
  /\ IF m # None
     THEN /\ Queue(c, IF pc[c] = "show1" THEN "take1" ELSE "take2")
          /\ q' = Without(q, c) /\ UNCHANGED <<pend, masked, t>>
     ELSE IF pc[c] = "show1" THEN Publish(c, mq, Without(q, c))
     ELSE Retract(c, mq, Without(q, c))
  /\ UNCHANGED <<wanting, waiting, due>>

\* Out of the dock of the mutex. (No interruption reaches ~unlock_guard, which is
\* noexcept: it would end the program.)
WakeOwning(c) ==
  /\ Awake(c, Queued) /\ m = None /\ ~Throws(c)
  /\ LET k == Without(mq, c)
     IN  \/ pc[c] = "back1" /\ Consumed1(c, k, q, wanting - 1) /\ UNCHANGED <<pend, masked, t>>
         \/ pc[c] = "back2" /\ Consumed2(c, k, q) /\ UNCHANGED <<pend, masked, t>>
         \/ pc[c] \in {"fail1", "fail2"} /\ Failed(c, k, q, pc[c] = "fail1")
              /\ UNCHANGED <<pend, masked, t>>
         \/ pc[c] = "take1" /\ Publish(c, k, q) /\ UNCHANGED <<wanting, waiting>>
         \/ pc[c] = "take2" /\ Retract(c, k, q) /\ UNCHANGED <<wanting, waiting>>
         \/ pc[c] = "lock" /\ Run(c, "in", {}) /\ m' = c /\ mq' = k
              /\ UNCHANGED <<pend, masked, q, t, wanting, waiting>>
  /\ UNCHANGED due

WakeThrown(c) ==
  /\ Awake(c, {"lock"}) /\ Throws(c)
  /\ mq' = Without(mq, c)
  /\ Run(c, "out", Front1(mq'))
  /\ Thrown(c)
  /\ UNCHANGED <<m, q, t, wanting, waiting, due>>

-----------------------------------------------------------------------------
(* The clients, and the rest of the program *)

Lock(c) ==
  /\ current = c /\ c \in Consumers /\ pc[c] = "out"
  /\ IF m = None THEN m' = c /\ Run(c, "in", {}) /\ UNCHANGED mq ELSE Queue(c, "lock")
  /\ UNCHANGED <<pend, masked, q, t, wanting, waiting, due>>

Unlock(c) ==
  /\ current = c /\ Holds(c)
  /\ m' = None /\ Run(c, "out", Front1(mq))
  /\ UNCHANGED <<pend, masked, mq, q, t, wanting, waiting, due>>

Doze(c) == pc[c] \in {"out", "in", "view"} /\ Suspend(c)
           /\ UNCHANGED <<m, mq, q, t, wanting, waiting, pc, due>>
WakeElsewhere(c) == pc[c] \in {"out", "in", "view"} /\ Return(c)
                    /\ UNCHANGED <<m, mq, q, t, wanting, waiting, pc, due>>

Expire(c) ==
  /\ pc[c] \in {"want1", "want2"} /\ ~due[c]
  /\ due' = [due EXCEPT ![c] = TRUE]
  /\ stage' = Wake(stage, {c})
  /\ UNCHANGED <<current, pend, masked, m, mq, q, t, wanting, waiting, pc>>

Interrupt(c) ==
  /\ pc[c] \notin Queued /\ Request(c, "INTERRUPTED")
  /\ UNCHANGED <<m, mq, q, t, wanting, waiting, pc, due>>

Notify(c) == Rouse(c) /\ UNCHANGED <<m, mq, q, t, wanting, waiting, pc, due>>

Next ==
  \E c \in Ctxs :
    \/ Produce(c) \/ Lock(c) \/ Consume1(c) \/ Unlock(c) \/ Doze(c)
    \/ WakeInVain(c) \/ WakeConsumer(c) \/ WakeFailing(c) \/ WakeProducer(c)
    \/ WakeOwning(c) \/ WakeThrown(c) \/ WakeElsewhere(c) \/ Expire(c) \/ Interrupt(c) \/ Notify(c)

Spec == Init /\ [][Next]_vars

-----------------------------------------------------------------------------
(* Properties *)

\* view.h: assert(t != nullptr) where wait() returns. A consumer that returned from
\* wait() looks at the object until it gives the mutex up: "The producer is blocked
\* until all consumers are finished with their view."
ViewLasts == \A c \in Ctxs : pc[c] = "view" => t

\* The semaphores count the consumers inside each consume(), those that left it by a
\* throw and wait for the mutex included.
SemaphoresCount ==
  /\ wanting = Cardinality({c \in Ctxs : pc[c] \in {"want1", "back1", "fail1"}})
  /\ waiting = Cardinality({c \in Ctxs : pc[c] \in {"want2", "back2", "fail2"}})

\* Nobody sleeps in the dock past the moment its predicate holds, and a free mutex
\* has the first of its queue on the way.
NoStall ==
  /\ \A c \in Ctxs : pc[c] \in Docked /\ stage[c] = "asleep" => ~Ready(c)
  /\ m = None /\ mq # <<>> => stage[Head(mq)] = "ready"

\* Why the properties hold. The docks hold exactly those inside wait() of theirs, each
\* once; the owner of the mutex is who says that it holds it; nobody executes who sleeps.
Once(s) == \A i, j \in DOMAIN s : s[i] = s[j] => i = j
DockHolds == Once(q) /\ ToSet(q) = {c \in Ctxs : pc[c] \in Docked}
MutexHolds == Once(mq) /\ ToSet(mq) = {c \in Ctxs : pc[c] \in Queued}
OwnerHolds == \A c \in Ctxs : Holds(c) <=> m = c
Executes ==
  \A c \in Ctxs :
    /\ stage[c] = "running" <=> current = c
    /\ stage[c] # "done"
    /\ pc[c] \in Docked \cup Queued => stage[c] # "running"

\* Whoever is to look at the object finds it: it is taken back when nobody waits for it,
\* and who comes while it is shown waits for the next one.
Shown ==
  \A c \in Ctxs :
    /\ pc[c] \in {"show1", "show2", "take1", "take2"} => c \in Producers
    /\ pc[c] \in {"back2", "show2", "take2"} => t
    /\ pc[c] = "take2" => waiting = 0

IInv ==
  /\ TypeOK /\ DockHolds /\ MutexHolds /\ OwnerHolds /\ Executes /\ Shown
  /\ ViewLasts /\ SemaphoresCount /\ NoStall
=============================================================================
