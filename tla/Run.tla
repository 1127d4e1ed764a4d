---------------------------------- MODULE Run ----------------------------------
(***************************************************************************)
(* The run levels: contexts, and the main stack, change the level of the   *)
(* program; the handlers of a change may suspend the context they run on;  *)
(* others wait in run::changed::dock for levels or for a change to be over.*)
(***************************************************************************)
EXTENDS Sched, Integers

CONSTANTS
  Levels,   \* the levels the instance goes through, of run::level
  Awaited   \* the levels a barrier waits for: RUN and QUIT

ASSUME LevelsAssumption == "HALT" \in Levels

VARIABLES
  level,    \* run::level
  chadburn, \* run::chadburn
  q,        \* the queue of run::changed::dock
  pc,       \* each context: "out", in set(): waiting ("set") or in its handlers
            \* ("handlers"), in a barrier ("barrier")
  target    \* the level it waits to set

run == <<level, chadburn, q, pc, target>>
vars == <<sched, run>>

TypeOK ==
  /\ SchedTypeOK
  /\ {level, chadburn} \subseteq Levels /\ q \in Seq(Ctxs)
  /\ pc \in [Ctxs -> {"out", "set", "handlers", "barrier"}]
  /\ target \in [Ctxs -> Levels]

Init ==
  /\ SchedInit
  /\ level = "HALT" /\ chadburn = "HALT"
  /\ q = <<>> /\ pc = [c \in Ctxs |-> "out"] /\ target = [c \in Ctxs |-> "HALT"]

Goes(c, to) == pc' = [pc EXCEPT ![c] = to]
Quiet == <<pend, masked>>

-----------------------------------------------------------------------------
(* set() *)

StartSilent(c, new, k) ==  \* mutant: nobody in the dock is told
  /\ level' = new
  /\ Goes(c, "handlers")
  /\ q' = k
  /\ current' = c
  /\ stage' = [stage EXCEPT ![c] = "running"]

\* The transition starts: the level, then everybody in the dock is told.
Start(c, new, k) ==
  /\ level' = new
  /\ Goes(c, "handlers")
  /\ q' = k
  /\ current' = c
  /\ stage' = [Wake(stage, ToSet(k)) EXCEPT ![c] = "running"]

SetAtOnce(c, new) ==  \* mutant: a transition in progress is not waited for
  /\ current = c /\ pc[c] = "out" /\ new # chadburn /\ new # level
  /\ Start(c, new, q)
  /\ UNCHANGED <<Quiet, chadburn, target>>

\* A call that the checks at the top let through: it waits for the transition in
\* progress, or starts its own unless the level is that already.
Set(c, new) ==
  /\ current = c /\ pc[c] = "out" /\ new # chadburn
  /\ \/ level = chadburn /\ new # level /\ Start(c, new, q) /\ UNCHANGED target
     \/ /\ level # chadburn
        /\ Suspend(c) /\ q' = Append(q, c) /\ Goes(c, "set")
        /\ target' = [target EXCEPT ![c] = new]
        /\ UNCHANGED level
  /\ UNCHANGED <<Quiet, chadburn>>

\* On the main stack the handlers cannot suspend: the transition is over at once.
\* (While another is in progress the call panics.)
SetOnMain(new) ==
  /\ current = None /\ new # chadburn /\ level = chadburn
  /\ level' = new /\ chadburn' = new
  /\ stage' = Wake(stage, ToSet(q))
  /\ UNCHANGED <<current, Quiet, q, pc, target>>

\* The handlers are done, or one of them threw: chadburn = level on the way out.
Finish1(c) ==
  /\ current = c /\ pc[c] = "handlers"
  /\ chadburn' = level
  /\ Goes(c, "out")
  /\ UNCHANGED <<sched, level, q, target>>

\* A handler suspends.
Doze(c) == pc[c] \in {"out", "handlers"} /\ Suspend(c) /\ UNCHANGED run
WakeElsewhere(c) == pc[c] \in {"out", "handlers"} /\ Return(c) /\ UNCHANGED run

\* Out of the wait of set().
WakeSet(c) ==
  /\ Resumable(c) /\ pc[c] = "set" /\ ~Throws(c)
  /\ \/ level # chadburn /\ stage' = [stage EXCEPT ![c] = "asleep"]
        /\ UNCHANGED <<current, level, q, pc>>
     \/ level = chadburn /\ target[c] # level /\ Start(c, target[c], Without(q, c))
     \/ /\ level = chadburn /\ target[c] = level
        /\ current' = c /\ stage' = [stage EXCEPT ![c] = "running"]
        /\ q' = Without(q, c) /\ Goes(c, "out") /\ UNCHANGED level
  /\ UNCHANGED <<Quiet, chadburn, target>>

-----------------------------------------------------------------------------
(* run::barrier *)

Barrier(c) ==
  /\ current = c /\ pc[c] = "out" /\ level \notin Awaited
  /\ Suspend(c) /\ q' = Append(q, c) /\ Goes(c, "barrier")
  /\ UNCHANGED <<level, chadburn, target>>

WakeBarrier(c) ==
  /\ Resumable(c) /\ pc[c] = "barrier" /\ ~Throws(c)
  /\ IF level \in Awaited
     THEN /\ current' = c /\ stage' = [stage EXCEPT ![c] = "running"]
          /\ q' = Without(q, c) /\ Goes(c, "out")
     ELSE stage' = [stage EXCEPT ![c] = "asleep"] /\ UNCHANGED <<current, q, pc>>
  /\ UNCHANGED <<Quiet, level, chadburn, target>>

\* An interruption leaves either wait, and the dock notifies its front.
WakeThrown(c) ==
  /\ Resumable(c) /\ pc[c] \in {"set", "barrier"} /\ Throws(c)
  /\ q' = Without(q, c) /\ Goes(c, "out")
  /\ current' = c /\ stage' = [Wake(stage, Front1(q')) EXCEPT ![c] = "running"]
  /\ Thrown(c)
  /\ UNCHANGED <<level, chadburn, target>>

\* ctx::terminate(), and ctx::interrupt(), which at QUIT terminates.
Interrupt(c) ==
  \E r \in Requests : (r = "INTERRUPTED" => level # "QUIT") /\ Request(c, r) /\ UNCHANGED run

Notify(c) == Rouse(c) /\ UNCHANGED run

Next ==
  \/ \E new \in Levels : SetOnMain(new) \/ \E c \in Ctxs : Set(c, new)
  \/ \E c \in Ctxs :
       \/ Finish1(c) \/ Doze(c) \/ WakeElsewhere(c) \/ WakeSet(c) \/ WakeThrown(c)
       \/ Barrier(c) \/ WakeBarrier(c) \/ Interrupt(c) \/ Notify(c)

Spec == Init /\ [][Next]_vars

-----------------------------------------------------------------------------
(* Properties *)

\* run.h: "When this differs from the current level, a command to change the runlevel
\* has been given but not all tasks have completed": exactly then one context, and
\* no two, is in the handlers of a transition.
TransitionsExclude ==
  /\ level # chadburn <=> \E c \in Ctxs : pc[c] = "handlers"
  /\ \A c, e \in Ctxs : pc[c] = "handlers" /\ pc[e] = "handlers" => c = e

\* Nobody sleeps in a barrier at a level it waits for.
BarrierOpens == \A c \in Ctxs : pc[c] = "barrier" /\ stage[c] = "asleep" => level \notin Awaited

\* run.cc: "Wait for any pending runlevel transition to complete before continuing with
\* another transition": once it is complete the wait is over.
SetContinues == \A c \in Ctxs : pc[c] = "set" /\ stage[c] = "asleep" => level # chadburn

\* The queue of the dock holds exactly the contexts inside its waits, each once.
Waits(c) == pc[c] \in {"set", "barrier"}
DockIsWaiters ==
  /\ \A c \in Ctxs : Waits(c) <=> c \in ToSet(q)
  /\ \A i, j \in DOMAIN q : q[i] = q[j] => i = j

\* The inductive invariant: a new level reaches whoever sleeps in a barrier because the
\* queue is exact.
IInv == TypeOK /\ DockIsWaiters /\ TransitionsExclude /\ BarrierOpens
=============================================================================
