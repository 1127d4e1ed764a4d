------------------------------ MODULE Concurrent ------------------------------
(***************************************************************************)
(* ctx::concurrent, ctx::concurrent_for_each and the ctx::latch under the  *)
(* latter: a caller gives one job per item to a pool and waits for all of  *)
(* them.  Of the pool (Pool.tla) only what a caller meets is kept: it may  *)
(* block, it refuses a job over its hard limit, and it runs the others.    *)
(***************************************************************************)
EXTENDS Sched, Integers

CONSTANTS
  Caller,  \* the context that has the object on its stack
  Items,   \* how many items it has
  Hard     \* the hard limit of the queue of the pool

Workers == Ctxs \ {Caller}
Kinds == {"concurrent", "for_each", "latch"}  \* "latch": contexts that meet at one

VARIABLES
  kind,
  snd, rcv, fin,  \* the counters
  eptr,           \* a job has thrown
  count,          \* latch::count
  queued,         \* the jobs in the queue of the pool
  d,              \* the queue of the dock the object or its latch has
  place,          \* where each context is
  refused         \* a submission was left by an exception

vars == <<sched, kind, snd, rcv, fin, eptr, count, queued, d, place, refused>>

Init ==
  /\ SchedInit
  /\ kind \in Kinds
  /\ snd = 0 /\ rcv = 0 /\ fin = 0 /\ eptr = FALSE
  /\ queued = 0 /\ d = <<>> /\ refused = FALSE
  /\ count = IF kind = "latch" THEN Cardinality(Workers) + 1 ELSE Items
  /\ place = [c \in Ctxs |-> IF c \in Workers THEN "idle" ELSE IF kind = "latch" THEN "end" ELSE "send"]

TypeOK ==
  /\ SchedTypeOK /\ kind \in Kinds /\ d \in Seq(Ctxs) /\ {eptr, refused} \subseteq BOOLEAN
  /\ {snd, rcv, fin, queued, count} \subseteq 0..(Items + Cardinality(Ctxs))
  /\ place \in [Ctxs -> {"send", "blocked", "end", "wait", "left", "idle", "job"}]

Goes(c, to) == place' = [place EXCEPT ![c] = to]

-----------------------------------------------------------------------------
(* The caller *)

\* The pool takes the job (an exception of an earlier one is thrown here, out of
\* concurrent::operator(), whose object is then destroyed), or it throws: ~concurrent()
\* waits, and the constructor of concurrent_for_each is left with its latch and
\* all that its jobs refer to.
Submitted ==
  \/ /\ queued < Hard
     /\ queued' = queued + 1
     /\ Goes(Caller, IF kind = "concurrent" /\ eptr THEN "end" ELSE "send")
     /\ UNCHANGED refused
  \/ /\ queued >= Hard
     /\ refused' = TRUE
     /\ Goes(Caller, IF kind = "concurrent" THEN "end" ELSE "left")
     /\ UNCHANGED queued

More == snd < Items /\ ~(kind = "for_each" /\ eptr)

\* The job is counted, then submitted; the pool may block the caller first.
Send ==
  /\ current = Caller /\ place[Caller] = "send" /\ More
  /\ snd' = snd + 1
  /\ \/ Submitted /\ UNCHANGED sched
     \/ Suspend(Caller) /\ Goes(Caller, "blocked") /\ UNCHANGED <<queued, refused>>
  /\ UNCHANGED <<kind, rcv, fin, eptr, count, d>>

\* Out of that, by an interruption too where nothing masks it.
Unblock ==
  /\ place[Caller] = "blocked" /\ Return(Caller)
  /\ \/ Submitted
     \/ kind = "concurrent" /\ refused' = TRUE /\ Goes(Caller, "end") /\ UNCHANGED queued
  /\ UNCHANGED <<kind, snd, rcv, fin, eptr, count, d>>

Sent ==
  /\ current = Caller /\ place[Caller] = "send" /\ ~More
  /\ Goes(Caller, "end")
  /\ UNCHANGED <<sched, kind, snd, rcv, fin, eptr, count, queued, d, refused>>

AwaitedOrThrown(f, n) ==  \* mutant: an exception ends the wait
  eptr \/ (IF kind = "concurrent" THEN snd = f ELSE n = 0)

\* latch::is_ready(), or snd == fin.
Awaited(f, n) == IF kind = "concurrent" THEN snd = f ELSE n = 0

\* latch::wait(), count_down_and_wait() and ~concurrent(): the wait begins, or is over.
Counted == IF kind = "latch" THEN count - 1 ELSE count
Await(c) ==
  /\ current = c /\ place[c] = IF c = Caller THEN "end" ELSE "job"
  /\ c = Caller \/ kind = "latch"
  /\ count' = Counted
  /\ IF Awaited(fin, Counted)
     THEN /\ Goes(c, "left")
          /\ stage' = Wake(stage, IF kind = "latch" THEN ToSet(d) ELSE {})
          /\ UNCHANGED <<current, pend, masked, d>>
     ELSE Suspend(c) /\ Goes(c, "wait") /\ d' = Append(d, c)
  /\ UNCHANGED <<kind, snd, rcv, fin, eptr, queued, refused>>

Leave(c) ==
  /\ Resumable(c) /\ place[c] = "wait"
  /\ IF Awaited(fin, count)
     THEN /\ d' = Without(d, c) /\ Goes(c, "left")
          /\ current' = c /\ stage' = [stage EXCEPT ![c] = "running"]
     ELSE stage' = [stage EXCEPT ![c] = "asleep"] /\ UNCHANGED <<current, d, place>>
  /\ UNCHANGED <<pend, masked, kind, snd, rcv, fin, eptr, count, queued, refused>>

\* An interruption leaves the wait of a bare latch, and the dock notifies its front; the
\* objects that have jobs mask theirs.
Interrupted(c) ==
  /\ kind = "latch" /\ Resumable(c) /\ place[c] = "wait"
  /\ d' = Without(d, c) /\ Goes(c, "left")
  /\ current' = c /\ stage' = [Wake(stage, Front1(d')) EXCEPT ![c] = "running"]
  /\ UNCHANGED <<pend, masked, kind, snd, rcv, fin, eptr, count, queued, refused>>

-----------------------------------------------------------------------------
(* The workers *)

Start(w) ==
  /\ current = w /\ place[w] = "idle"
  /\ IF kind = "latch" THEN UNCHANGED <<queued, rcv>>
     ELSE queued > 0 /\ queued' = queued - 1 /\ rcv' = rcv + 1
  /\ Goes(w, "job")
  /\ UNCHANGED <<sched, kind, snd, fin, eptr, count, d, refused>>

\* The job is over, by an exception or not (an interruption is one more of those):
\* ++fin and notify_all(), or count_down(), which notifies at zero.
End(w) ==
  /\ current = w /\ place[w] = "job" /\ kind # "latch"
  /\ eptr' \in {eptr, TRUE}
  /\ fin' = fin + 1
  /\ count' = IF kind = "for_each" THEN count - 1 ELSE count
  /\ stage' = Wake(stage, IF kind = "concurrent" \/ count' = 0 THEN ToSet(d) ELSE {})
  /\ Goes(w, "idle")
  /\ UNCHANGED <<current, pend, masked, kind, snd, rcv, queued, d, refused>>

-----------------------------------------------------------------------------
(* The rest of the program *)

Elsewhere(c) == place[c] \in {"idle", "job", "left"} \/ (c = Caller /\ place[c] = "send")
Doze(c) == Elsewhere(c) /\ Suspend(c)
           /\ UNCHANGED <<kind, snd, rcv, fin, eptr, count, queued, d, place, refused>>
WakeElsewhere(c) == Elsewhere(c) /\ Return(c)
                    /\ UNCHANGED <<kind, snd, rcv, fin, eptr, count, queued, d, place, refused>>
Notify(c) == Rouse(c) /\ UNCHANGED <<kind, snd, rcv, fin, eptr, count, queued, d, place, refused>>

Next ==
  \/ Send \/ Unblock \/ Sent
  \/ \E c \in Ctxs :
       Await(c) \/ Leave(c) \/ Interrupted(c) \/ Doze(c) \/ WakeElsewhere(c) \/ Notify(c)
  \/ \E w \in Workers : Start(w) \/ End(w)

Spec == Init /\ [][Next]_vars

-----------------------------------------------------------------------------
(* Properties *)

\* Jobs that are to be counted, or contexts that have not come to the latch.
Outstanding ==
  \/ queued > 0 \/ \E w \in Workers : place[w] = "job"
  \/ kind = "latch" /\ \E c \in Ctxs : place[c] \in {"idle", "end"}

\* Whoever waits is woken by the last of what it waits for. The one way to wait for
\* ever: a submission that was counted and refused, or a concurrent_for_each whose
\* loop stopped at an exception while its latch counts every item.
WaitsForSomething ==
  (\E c \in Ctxs : place[c] = "wait" /\ stage[c] = "asleep") /\ ~Outstanding
    => refused \/ (kind = "for_each" /\ eptr /\ snd < Items)

\* The jobs refer to the object on the caller's stack: it outlives them, unless the
\* pool refused one to concurrent_for_each, whose constructor then throws at once.
OutlivesItsJobs ==
  place[Caller] = "left" /\ Outstanding /\ kind # "latch" => kind = "for_each" /\ refused

\* Why the properties hold. The dock holds who waits; every job that was counted is on its
\* way, in the pool, with a worker or over, unless it was refused; a latch counts those who
\* have not come; and nobody sleeps who has nothing to wait for.
Jobs == Cardinality({w \in Workers : place[w] = "job"})
Blocked == IF place[Caller] = "blocked" THEN 1 ELSE 0

DockHolds ==
  /\ \A i, j \in DOMAIN d : d[i] = d[j] => i = j
  /\ ToSet(d) = {c \in Ctxs : place[c] = "wait"}

Roles ==
  IF kind = "latch"
  THEN place[Caller] \in {"end", "wait", "left"}
       /\ \A w \in Workers : place[w] \in {"idle", "job", "wait", "left"}
  ELSE place[Caller] \in {"send", "blocked", "end", "wait", "left"}
       /\ \A w \in Workers : place[w] \in {"idle", "job"}

JobsCounted ==
  IF kind = "latch"
  THEN queued = 0 /\ rcv = 0 /\ fin = 0 /\ snd = 0
       /\ count = Cardinality({c \in Ctxs : place[c] \in {"idle", "job", "end"}})
  ELSE /\ rcv = fin + Jobs /\ snd <= Items
       /\ snd >= fin + Jobs + queued + Blocked
       /\ ~refused => snd = fin + Jobs + queued + Blocked
       /\ count = IF kind = "for_each" THEN Items - fin ELSE Items

SleepersWait == \A c \in Ctxs : place[c] = "wait" /\ stage[c] = "asleep" => ~Awaited(fin, count)

CallerLeft ==
  kind # "latch" =>
    /\ place[Caller] = "left" => Awaited(fin, count) \/ (kind = "for_each" /\ refused)
    /\ kind = "for_each" /\ place[Caller] \in {"end", "wait"} => snd = Items \/ eptr

IInv == TypeOK /\ DockHolds /\ Roles /\ JobsCounted /\ SleepersWait /\ CallerLeft
=============================================================================
