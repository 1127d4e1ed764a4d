-------------------------------- MODULE MCFair --------------------------------
(* Liveness of the context machine and of the mutex, and beside them the run     *)
(* levels, each by itself: where one of them starts, the contexts of the others  *)
(* have ended.                                                                   *)
EXTENDS Run

CONSTANTS Pair

VARIABLES
  which,
  active, frame, notes, alarm, cont, flags, scopes, joining, adjoindre,
  running, phase, wanted, shielded, m, queue, place, late

ctxVars == <<active, frame, notes, alarm, cont, flags, scopes, joining, adjoindre>>
mutexVars == <<running, phase, wanted, shielded, m, queue, place, late>>

X == INSTANCE Ctx WITH
  Ctxs <- Pair, MaxScopes <- 0, Ours <- {TRUE}, Asked <- {"INTERRUPTED", "TERMINATED"},
  current <- active
M == INSTANCE Mutex WITH
  Ctxs <- Pair, current <- running, stage <- phase, pend <- wanted, masked <- shielded,
  q <- queue, pc <- place, due <- late

CtxEnded ==
  /\ active = None /\ adjoindre = <<>>
  /\ frame = [c \in Pair |-> "gone"]
  /\ notes = [c \in Pair |-> 0] /\ alarm = [c \in Pair |-> "none"]
  /\ cont = [c \in Pair |-> FALSE] /\ flags = [c \in Pair |-> {}]
  /\ scopes = [c \in Pair |-> <<>>] /\ joining = [c \in Pair |-> None]
MutexEnded ==
  /\ running = None /\ phase = [c \in Pair |-> "done"]
  /\ wanted = [c \in Pair |-> {}] /\ shielded = [c \in Pair |-> FALSE]
  /\ m = None /\ queue = <<>> /\ place = [c \in Pair |-> "out"] /\ late = [c \in Pair |-> FALSE]
RunEnded ==
  /\ current = None /\ stage = 0 /\ pend = 0 /\ masked = 0
  /\ level = "QUIT" /\ chadburn = "QUIT" /\ q = <<>>
  /\ pc = [c \in Ctxs |-> "out"] /\ target = [c \in Ctxs |-> "HALT"]

\* Bound: of the contexts that set and await levels one is terminated at most.
OneTerminated == \A x, y \in Ctxs : "TERMINATED" \in pend[x] \cap pend[y] => x = y

McInit ==
  /\ which \in {"ctx", "mutex", "run"}
  /\ IF which = "ctx" THEN X!Init ELSE CtxEnded
  /\ IF which = "mutex" THEN M!Init ELSE MutexEnded
  /\ IF which = "run" THEN Init ELSE RunEnded
McNext ==
  /\ UNCHANGED which
  /\ \/ which = "ctx" /\ X!Next /\ UNCHANGED <<vars, mutexVars>>
     \/ which = "mutex" /\ M!Next /\ UNCHANGED <<vars, ctxVars>>
     \/ which = "run" /\ Next /\ OneTerminated' /\ UNCHANGED <<ctxVars, mutexVars>>
McSpec ==
  /\ McInit /\ [][McNext]_<<which, vars, ctxVars, mutexVars>>
  /\ X!Fairness /\ M!Fairness

\* Every join on a finished context ends (Ctx.tla).
JoinEnds == X!JoinEnds

\* A free mutex does not stay free with waiters (Mutex.tla).
FreeMutexMoves == M!FreeMutexMoves
=============================================================================
