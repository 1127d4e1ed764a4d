-------------------------------- MODULE Pool --------------------------------
(***************************************************************************)
(* ctx::pool over ctx::queue and two docks: contexts that submit jobs to   *)
(* a pool, resize it, interrupt it, terminate it and destroy it, and the   *)
(* worker contexts that pop the jobs and run them.                         *)
(***************************************************************************)
EXTENDS Sched, Integers

CONSTANTS
  Workers,      \* the contexts the pool may spawn, each once
  Soft, Hard,   \* opts::queue_max_soft and queue_max_hard; Unlimited is no limit
  Blocking,     \* opts::queue_max_blocking
  Warning,      \* opts::queue_max_dwarning
  MaxJobs,      \* bound on the jobs ever submitted
  FromMain      \* jobs are also submitted from the program's main stack

Unlimited == -1

ASSUME PoolAssumption ==
  /\ Workers \subseteq Ctxs /\ IsFiniteSet(Workers) /\ MaxJobs \in Nat
  /\ Soft \in Nat \cup {Unlimited} /\ Hard \in Nat \cup {Unlimited}
  /\ Blocking \in BOOLEAN /\ Warning \in BOOLEAN /\ FromMain \in BOOLEAN

Clients == Ctxs \ Workers

VARIABLES
  pc,         \* where each context is in the code of the pool
  queued,     \* pool::q.q.size()
  d,          \* the queue of pool::q.d, on which the workers wait for a job
  qmax,       \* the queue of pool::q_max, on which the clients wait for room
  ctxs,       \* pool::ctxs, in order
  joinee,     \* the worker a client is joining
  life,       \* the pool is alive, being destroyed, or destroyed
  submitted   \* the number of jobs pushed so far

pool == <<pc, queued, d, qmax, ctxs, joinee, life, submitted>>
vars == <<sched, pool>>

\* Workers: not spawned, posted, at the top of main()'s loop, in q.pop(), in a job,
\* past the loop, finished. Clients: in their own code, in operator(), in ~context,
\* in ~pool.
WorkerPlaces == {"none", "born", "loop", "idle", "work", "exit", "gone"}
ClientPlaces == {"out", "blocked", "joining", "destroy"}

TypeOK ==
  /\ SchedTypeOK
  /\ pc \in [Ctxs -> WorkerPlaces \cup ClientPlaces]
  /\ \A c \in Ctxs : pc[c] \in WorkerPlaces <=> c \in Workers
  /\ queued \in 0..MaxJobs /\ submitted \in 0..MaxJobs
  /\ d \in Seq(Workers) /\ qmax \in Seq(Clients) /\ ctxs \in Seq(Workers)
  /\ joinee \in [Clients -> Workers \cup {None}]
  /\ life \in {"alive", "dying", "dead"}

Init ==
  /\ current = None
  /\ stage = [c \in Ctxs |-> IF c \in Workers THEN "done" ELSE "ready"]
  /\ pend = [c \in Ctxs |-> {}] /\ masked = [c \in Ctxs |-> FALSE]
  /\ pc = [c \in Ctxs |-> IF c \in Workers THEN "none" ELSE "out"]
  /\ queued = 0 /\ submitted = 0
  /\ d = <<>> /\ qmax = <<>> /\ ctxs = <<>>
  /\ joinee = [c \in Clients |-> None]
  /\ life = "alive"

-----------------------------------------------------------------------------
(* Indicators *)

At(places) == {w \in Workers : pc[w] \in places}
avail == Cardinality(At({"loop", "idle"}))

wouldblock ==
  /\ ~(Soft = Unlimited \/ queued < Soft)
  /\ ~(Soft = 0 /\ queued < avail)

\* The warning whose text is commented out governs the statement after it: a
\* client waits for room only where the warning would be logged.
Waits(c) ==
  /\ avail = 0 /\ Soft >= 0 /\ queued > Soft /\ Warning
  /\ c # None /\ Blocking
  /\ wouldblock

Full == Hard >= 0 /\ queued >= Hard

\* The bound: every client that blocks is left a job to push.
Left == submitted + Len(qmax) < MaxJobs

\* Who may call: the main stack, a client's own code, or a job.
Caller == current \in Ctxs => pc[current] \in {"out", "work"}

-----------------------------------------------------------------------------
(* pool::operator() *)

\* queue::push() of a job, which notifies a worker; over the hard limit it throws.
PushSilent ==  \* mutant: no worker is notified
  IF Full THEN UNCHANGED <<queued, submitted, d, stage>>
  ELSE /\ queued' = queued + 1 /\ submitted' = submitted + 1
       /\ UNCHANGED <<d, stage>>

Push ==
  IF Full THEN UNCHANGED <<queued, submitted, d, stage>>
  ELSE /\ queued' = queued + 1 /\ submitted' = submitted + 1
       /\ d' = Rotated(d)
       /\ stage' = Wake(stage, Front1(d))

Submit(c) ==
  /\ life = "alive" /\ Left /\ ~Waits(c)
  /\ current = c
  /\ IF c = None THEN FromMain ELSE pc[c] = "out"
  /\ Push
  /\ UNCHANGED <<current, pend, masked, pc, qmax, ctxs, joinee, life>>

Block(c) ==
  /\ life = "alive" /\ Left /\ pc[c] = "out" /\ Waits(c)
  /\ Suspend(c)
  /\ pc' = [pc EXCEPT ![c] = "blocked"]
  /\ qmax' = Append(qmax, c)
  /\ UNCHANGED <<queued, submitted, d, ctxs, joinee, life>>

\* A blocked client resumes: there is room, there is none, or it is interrupted
\* (it leaves the dock, which notifies the client then at its front).
Unblock(c) ==
  /\ Resumable(c) /\ pc[c] = "blocked"
  /\ IF Throws(c)
     THEN /\ qmax' = Without(qmax, c) /\ pc' = [pc EXCEPT ![c] = "out"]
          /\ current' = c
          /\ stage' = [Wake(stage, Front1(qmax')) EXCEPT ![c] = "running"]
          /\ Thrown(c)
          /\ UNCHANGED <<queued, submitted, d>>
     ELSE /\ UNCHANGED <<pend, masked>>
          /\ IF wouldblock
             THEN stage' = [stage EXCEPT ![c] = "asleep"]
                  /\ UNCHANGED <<current, pc, qmax, queued, submitted, d>>
             ELSE /\ qmax' = Without(qmax, c) /\ pc' = [pc EXCEPT ![c] = "out"]
                  /\ current' = c
                  /\ IF Full
                     THEN stage' = [stage EXCEPT ![c] = "running"]
                          /\ UNCHANGED <<queued, submitted, d>>
                     ELSE /\ queued' = queued + 1 /\ submitted' = submitted + 1
                          /\ d' = Rotated(d)
                          /\ stage' = [Wake(stage, Front1(d)) EXCEPT ![c] = "running"]
  /\ UNCHANGED <<ctxs, joinee, life>>

-----------------------------------------------------------------------------
(* The workers: pool::main() and pool::work() *)

\* First entry: the interruption point of the base frame, then main() makes room
\* for a blocked client.
Enter(w) ==
  /\ Resumable(w) /\ pc[w] = "born"
  /\ current' = w
  /\ IF Throws(w)
     THEN /\ Thrown(w) /\ pc' = [pc EXCEPT ![w] = "exit"]
          /\ stage' = [stage EXCEPT ![w] = "running"] /\ UNCHANGED qmax
     ELSE /\ pc' = [pc EXCEPT ![w] = "loop"]
          /\ stage' = [Wake(stage, Front1(qmax)) EXCEPT ![w] = "running"]
          /\ qmax' = Rotated(qmax) /\ UNCHANGED <<pend, masked>>
  /\ UNCHANGED <<queued, submitted, d, ctxs, joinee, life>>

\* The loop: leave when terminated, else pop a job, else wait for one. The default
\* dispatch is LIFO.
Loop(w) ==
  /\ current = w /\ pc[w] = "loop"
  /\ \/ /\ "TERMINATED" \in pend[w]
        /\ pc' = [pc EXCEPT ![w] = "exit"]
        /\ UNCHANGED <<sched, queued, d>>
     \/ /\ "TERMINATED" \notin pend[w] /\ queued > 0
        /\ queued' = queued - 1
        /\ pc' = [pc EXCEPT ![w] = "work"]
        /\ UNCHANGED <<sched, d>>
     \/ /\ "TERMINATED" \notin pend[w] /\ queued = 0
        /\ Suspend(w)
        /\ pc' = [pc EXCEPT ![w] = "idle"]
        /\ d' = <<w>> \o d
        /\ UNCHANGED queued
  /\ UNCHANGED <<submitted, qmax, ctxs, joinee, life>>

\* A waiting worker resumes: a job, none, or an interruption, which hands the
\* notification on and goes no further than work().
Pop(w) ==
  /\ Resumable(w) /\ pc[w] = "idle"
  /\ IF Throws(w)
     THEN /\ d' = Without(d, w) /\ current' = w
          /\ stage' = [Wake(stage, Front1(d')) EXCEPT ![w] = "running"]
          /\ Thrown(w)
          /\ pc' = [pc EXCEPT ![w] = IF "TERMINATED" \in pend[w] THEN "exit" ELSE "loop"]
          /\ UNCHANGED queued
     ELSE /\ UNCHANGED <<pend, masked>>
          /\ IF queued = 0
             THEN stage' = [stage EXCEPT ![w] = "asleep"] /\ UNCHANGED <<current, pc, queued, d>>
             ELSE /\ d' = Without(d, w) /\ current' = w
                  /\ stage' = [stage EXCEPT ![w] = "running"]
                  /\ queued' = queued - 1
                  /\ pc' = [pc EXCEPT ![w] = "work"]
  /\ UNCHANGED <<submitted, qmax, ctxs, joinee, life>>

\* The job is over: an interruption leaves it or is found by the point after it, or
\* there is none, or an exception of its own passes that point by. Then scope_notify
\* tells q_max.
DoneSilent(w) ==  \* mutant: nobody is told of the room a finished job leaves
  /\ pc[w] = "work"
  /\ \/ current = w
     \/ Resumable(w) /\ Throws(w)
  /\ current' = w
  /\ \/ /\ Throws(w) /\ Thrown(w)
        /\ pc' = [pc EXCEPT ![w] = IF "TERMINATED" \in pend[w] THEN "exit" ELSE "loop"]
     \/ current = w /\ UNCHANGED <<pend, masked>> /\ pc' = [pc EXCEPT ![w] = "loop"]
  /\ stage' = [stage EXCEPT ![w] = "running"]
  /\ UNCHANGED <<queued, submitted, d, qmax, ctxs, joinee, life>>

Done(w) ==
  /\ pc[w] = "work"
  /\ \/ current = w
     \/ Resumable(w) /\ Throws(w)
  /\ current' = w
  /\ \/ /\ Throws(w) /\ Thrown(w)
        /\ pc' = [pc EXCEPT ![w] = IF "TERMINATED" \in pend[w] THEN "exit" ELSE "loop"]
     \/ current = w /\ UNCHANGED <<pend, masked>> /\ pc' = [pc EXCEPT ![w] = "loop"]
  /\ stage' = [Wake(stage, Front1(qmax)) EXCEPT ![w] = "running"]
  /\ qmax' = Rotated(qmax)
  /\ UNCHANGED <<queued, submitted, d, ctxs, joinee, life>>

\* The base frame of the worker returns: whoever joins a context is notified.
Joiners == {c \in Clients : pc[c] = "joining"}

ExitSilent(w) ==  \* mutant: nobody who joins the worker is notified
  /\ current = w /\ pc[w] = "exit"
  /\ current' = None
  /\ pc' = [pc EXCEPT ![w] = "gone"]
  /\ stage' = [stage EXCEPT ![w] = "done"]
  /\ UNCHANGED <<pend, masked, queued, submitted, d, qmax, ctxs, joinee, life>>

Exit(w) ==
  /\ current = w /\ pc[w] = "exit"
  /\ current' = None
  /\ pc' = [pc EXCEPT ![w] = "gone"]
  /\ stage' = [Wake(stage, Joiners) EXCEPT ![w] = "done"]
  /\ UNCHANGED <<pend, masked, queued, submitted, d, qmax, ctxs, joinee, life>>

-----------------------------------------------------------------------------
(* The control panel *)

\* add(1): a worker is spawned with POST. (While a del() joins, emplace_back() would
\* construct the new context where the old one is being destroyed: left out.)
Add(w) ==
  /\ life = "alive" /\ Caller /\ pc[w] = "none"
  /\ \A c \in Clients : joinee[c] = None
  /\ ctxs' = Append(ctxs, w)
  /\ pc' = [pc EXCEPT ![w] = "born"]
  /\ stage' = [stage EXCEPT ![w] = "ready"]
  /\ UNCHANGED <<current, pend, masked, queued, submitted, d, qmax, joinee, life>>

\* The flags and stages once r is requested of the workers of W.
Requested(W, r) ==
  LET hit == {w \in W : stage[w] # "done" /\ r \notin pend[w]}
  IN  /\ pend' = [c \in Ctxs |-> IF c \in hit THEN pend[c] \cup {r} ELSE pend[c]]
      /\ stage' = Wake(stage, hit)

\* interrupt() and terminate()
RequestAll(r) ==
  /\ life = "alive" /\ Caller
  /\ Requested(ToSet(ctxs), r)
  /\ UNCHANGED <<current, masked, pool>>

Terminating == {w \in Workers : "TERMINATED" \in pend[w]}

\* del(1) pops the last context, whose destructor terminates and joins it.
Del(c) ==
  LET w == Last(ctxs) IN
  /\ current = c /\ ctxs # <<>>
  /\ \/ life = "alive" /\ pc[c] = "out" /\ ~masked[c]
     \/ pc[c] = "destroy"
  /\ ctxs' = Front(ctxs)
  /\ IF pc[w] = "gone"
     THEN UNCHANGED <<sched, pc, joinee>>
     ELSE /\ pc' = [pc EXCEPT ![c] = "joining"] /\ joinee' = [joinee EXCEPT ![c] = w]
          /\ current' = None
          /\ masked' = [masked EXCEPT ![c] = TRUE]
          /\ pend' = [pend EXCEPT ![w] = @ \cup {"TERMINATED"}]
          /\ stage' = [Wake(stage, {w} \ Terminating) EXCEPT ![c] = "asleep"]
  /\ UNCHANGED <<queued, submitted, d, qmax, life>>

\* The joining client resumes: until the worker has finished it suspends again.
Joined(c) ==
  /\ Resumable(c) /\ pc[c] = "joining"
  /\ IF pc[joinee[c]] = "gone"
     THEN /\ pc' = [pc EXCEPT ![c] = IF life = "dying" THEN "destroy" ELSE "out"]
          /\ joinee' = [joinee EXCEPT ![c] = None]
          /\ current' = c
          /\ stage' = [stage EXCEPT ![c] = "running"]
          /\ masked' = [masked EXCEPT ![c] = FALSE]
     ELSE stage' = [stage EXCEPT ![c] = "asleep"] /\ UNCHANGED <<current, masked, pc, joinee>>
  /\ UNCHANGED <<pend, queued, submitted, d, qmax, ctxs, life>>

\* ~pool(): terminate(), then join(), which is del() of all; nobody else uses it.
Destroy(c) ==
  /\ current = c /\ pc[c] = "out" /\ life = "alive" /\ ~masked[c]
  /\ \A e \in Clients : pc[e] = "out"
  /\ life' = "dying"
  /\ pc' = [pc EXCEPT ![c] = "destroy"]
  /\ Requested(ToSet(ctxs), "TERMINATED")
  /\ UNCHANGED <<current, masked, queued, submitted, d, qmax, ctxs, joinee>>

Destroyed(c) ==
  /\ current = c /\ pc[c] = "destroy" /\ ctxs = <<>>
  /\ life' = "dead"
  /\ pc' = [pc EXCEPT ![c] = "out"]
  /\ UNCHANGED <<sched, queued, submitted, d, qmax, ctxs, joinee>>

-----------------------------------------------------------------------------
(* The rest of the program *)

\* A client or a job suspends for a reason of its own and resumes; a client returns.
Own(c) == pc[c] \in {"out", "work"}
Doze(c) == Own(c) /\ Suspend(c) /\ UNCHANGED pool
Awake(c) == Own(c) /\ Return(c) /\ UNCHANGED pool
Leave(c) ==
  /\ pc[c] = "out" /\ current = c
  /\ current' = None /\ stage' = [Wake(stage, Joiners) EXCEPT ![c] = "done"]
  /\ UNCHANGED <<pend, masked, pool>>

Notify(c) == Caller /\ Rouse(c) /\ UNCHANGED pool
Interrupt(c) == Caller /\ Request(c, "INTERRUPTED") /\ UNCHANGED pool

Resumes(c) ==
  \/ c \in Workers /\ (Enter(c) \/ Pop(c) \/ (current = None /\ Done(c)))
  \/ c \in Clients /\ (Unblock(c) \/ Joined(c))
  \/ Awake(c)

Next ==
  \/ \E c \in Ctxs : Resumes(c) \/ Doze(c) \/ Notify(c) \/ Interrupt(c)
  \/ \E w \in Workers : Loop(w) \/ Done(w) \/ Exit(w) \/ Add(w)
  \/ \E c \in Clients : Block(c) \/ Del(c) \/ Destroy(c) \/ Destroyed(c) \/ Leave(c)
  \/ \E c \in Clients \cup {None} : Submit(c)
  \/ \E r \in Requests : RequestAll(r)

\* The event loop reaches every queued resumption; jobs and slices end; a job that
\* sleeps is notified by what it waits for.
Fairness ==
  /\ \A c \in Ctxs : SF_vars(Resumes(c))
  /\ \A w \in Workers :
       /\ WF_vars(Loop(w) \/ Exit(w)) /\ SF_vars(Done(w))
       /\ SF_vars(pc[w] = "work" /\ Notify(w))
  /\ \A c \in Clients : WF_vars(Del(c) /\ pc[c] = "destroy") /\ WF_vars(Destroyed(c) \/ Doze(c))

Spec == Init /\ [][Next]_vars
FairSpec == Spec /\ Fairness

-----------------------------------------------------------------------------
(* Properties *)

\* The two docks hold exactly who waits on them, each once, whichever way the
\* waits end: a job, room, an interruption, a termination, a spurious note.
Distinct(q) == \A i, j \in DOMAIN q : q[i] = q[j] => i = j
DocksAreWaiters ==
  /\ \A w \in Workers : pc[w] = "idle" <=> w \in ToSet(d)
  /\ \A c \in Clients : pc[c] = "blocked" <=> c \in ToSet(qmax)
  /\ Distinct(d) /\ Distinct(qmax)

\* The pool does not sleep over a job: with jobs queued and workers waiting for one,
\* some worker is on its way to the queue or is in a job it returns from. Two workers
\* keep this whatever happens. Three do not when one is terminated: the notification it
\* hands on goes to the front of the dock, which stays there, so that the next push
\* notifies the same worker again; terminated in turn, that one leaves a job behind that
\* nobody was notified of.
NoStall ==
  queued > 0 /\ d # <<>> =>
    \E w \in Workers : pc[w] \in {"loop", "work"} \/ (pc[w] = "idle" /\ stage[w] = "ready")

\* A client never sleeps in operator() while the pool has room and nothing left to
\* do: then some blocked client is on its way, or a worker will notify q_max.
NoClientStall ==
  qmax # <<>> /\ ~wouldblock =>
    \/ \E c \in ToSet(qmax) : stage[c] = "ready"
    \/ queued > 0
    \/ At({"work"}) # {}

\* No queued job is slept over until a worker is terminated, and no room ever is.
NobodyStalls == (Terminating = {} => NoStall) /\ NoClientStall

\* The inductive invariant: besides, every job counts once against the bound, a hard
\* limit of zero lets nobody queue or block, and whoever is in a dock sleeps or was woken.
JobsBounded ==
  /\ queued <= submitted /\ submitted + Len(qmax) <= MaxJobs
  /\ Hard = 0 => queued = 0 /\ qmax = <<>>
WaitersSuspended ==
  \A c \in Ctxs : pc[c] \in {"idle", "blocked"} => stage[c] \in {"ready", "asleep"}
IInv == TypeOK /\ DocksAreWaiters /\ JobsBounded /\ WaitersSuspended /\ NobodyStalls

\* Every queued job is popped and every blocked client gets out, as long as the
\* pool has workers; whoever shrinks or destroys the pool gets done.
Manned == At({"born", "loop", "idle", "work"}) # {}
JobsServed == queued > 0 /\ Manned ~> queued = 0 \/ ~Manned
ClientsServed ==
  \A c \in Clients : pc[c] = "blocked" /\ Manned ~> pc[c] # "blocked" \/ ~Manned
JoinsEnd == \A c \in Clients : pc[c] = "joining" ~> pc[c] # "joining"
=============================================================================
