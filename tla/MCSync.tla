-------------------------------- MODULE MCSync --------------------------------
(* What contexts wait in, each by itself and over the same contexts: the mutex,  *)
(* the condition variable, the run levels and the offload engine.  The collections *)
(* of futures and the handlers of a run level, which nobody waits in here, are   *)
(* checked along.                                                                *)
EXTENDS Mutex, TLC

CONSTANTS Threads, Sources, Calls

VARIABLES
  which, place,
  l, owner, tardy, tokens, how, threw,
  changed, level, chadburn, target,
  queue, threads, working, termination, tpc, job, signals, life,
  st, then, kind, among, ret,
  rung, chased, list, single, at, told, from, ended

\* The contexts offload to one thread or more, of finitely many.
ASSUME ThreadAssumption == IsFiniteSet(Threads) /\ Threads # {}

\* How a collection ended, and nothing, are not futures or calls.
ASSUME WhenAssumption ==
  /\ Sources \cap {"broken", "void", "last", "dropped", "none", "pending"} = {}
  /\ "none" \notin Calls

condvar == <<l, owner, tardy, tokens, how, threw>>
run == <<changed, level, chadburn, target>>
ole == <<queue, threads, working, termination, tpc, job, signals, life>>
when == <<st, then, kind, among, ret>>
handlers == <<rung, chased, list, single, at, told, from, ended>>

C == INSTANCE CondVar WITH Tokens <- 2, HoldsAsleep <- FALSE, m <- owner, pc <- place, due <- tardy
R == INSTANCE Run WITH
  Levels <- {"HALT", "RUN", "QUIT"}, Awaited <- {"RUN", "QUIT"}, q <- changed, pc <- place
O == INSTANCE Ole WITH MaxStale <- 2, pc <- place
W == INSTANCE When WITH Overlap <- FALSE
H == INSTANCE Handlers WITH Instances <- Ctxs, level <- rung, chadburn <- chased

Sym == Permutations(Ctxs)

\* The variables of the modules that do not run are zero.
NoCondvar == l = 0 /\ owner = 0 /\ tardy = 0 /\ tokens = 0 /\ how = 0 /\ threw = 0
NoRun == changed = 0 /\ level = 0 /\ chadburn = 0 /\ target = 0
NoOle == queue = 0 /\ threads = 0 /\ working = 0 /\ termination = 0 /\ tpc = 0 /\ job = 0
         /\ signals = 0 /\ life = 0
NoWhen == st = 0 /\ then = 0 /\ kind = 0 /\ among = 0 /\ ret = 0
NoHandlers == rung = 0 /\ chased = 0 /\ list = 0 /\ single = 0 /\ at = 0 /\ told = 0
              /\ from = 0 /\ ended = 0

\* Bound: of the contexts that wait for run levels one is terminated at most.
OneTerminated == \A x, y \in Ctxs : "TERMINATED" \in pend[x] \cap pend[y] => x = y

McInit ==
  /\ Init
  /\ which \in {"mutex", "condvar", "run", "ole", "when", "handlers"}
  /\ IF which = "condvar" THEN C!Init ELSE NoCondvar
  /\ IF which = "run" THEN R!Init ELSE NoRun
  /\ IF which = "ole" THEN O!Init ELSE NoOle
  /\ IF which = "when" THEN W!Init ELSE NoWhen
  /\ IF which = "handlers" THEN H!Init ELSE NoHandlers
  /\ which \in {"mutex", "when", "handlers"} => place = 0
McNext ==
  /\ UNCHANGED which
  /\ \/ which = "mutex" /\ Next /\ UNCHANGED <<place, condvar, run, ole, when, handlers>>
     \/ which = "condvar" /\ C!Next /\ UNCHANGED <<lock, run, ole, when, handlers>>
     \/ which = "run" /\ R!Next /\ OneTerminated'
        /\ UNCHANGED <<lock, condvar, ole, when, handlers>>
     \/ which = "ole" /\ O!Next /\ UNCHANGED <<lock, condvar, run, when, handlers>>
     \/ which = "when" /\ W!Next /\ UNCHANGED <<sched, lock, place, condvar, run, ole, handlers>>
     \/ which = "handlers" /\ H!Next /\ UNCHANGED <<vars, place, condvar, run, ole, when>>
McSpec == McInit /\ [][McNext]_<<which, place, vars, condvar, run, ole, when, handlers>>

\* Every variable has its type, the queue of the condition variable holds exactly who
\* waits in it, each once (CondVar.tla), and the other parts keep the invariants by which
\* they are proved correct (Mutex, Run, Ole, When, Handlers).
TypesOK ==
  CASE which = "mutex" -> IInv
    [] which = "condvar" -> C!QueueIsWaiters
    [] which = "run" -> R!IInv
    [] which = "ole" -> O!IInv
    [] which = "when" -> W!IInv
    [] which = "handlers" -> H!IInv

\* No signal is lost on a context that stays asleep (CondVar.tla).
NoLostSignal == which = "condvar" => C!NoLostSignal

\* The frame of a context outlives the function it offloaded (Ole.tla).
FrameOutlivesFunction == which = "ole" => O!FrameOutlivesFunction

\* No context waits for a function nobody will run (Ole.tla).
NoStrandedContext == which = "ole" => O!NoStrandedContext

\* A returned future says what became of the collection: when_any indicates a source once,
\* when_all waits for the last, and neither is left behind (When.tla).
CollectionsAgree == which = "when" => W!IndicatedOnce /\ W!AllMeansAll /\ W!NoOrphan

\* No handler of run levels is skipped while others come, go and throw (Handlers.tla).
EveryHandlerCalled == H!EveryHandlerCalled
=============================================================================
