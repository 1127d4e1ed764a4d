-------------------------------- MODULE MCPool --------------------------------
(* A pool, and by itself the context machine, twice: three contexts that join    *)
(* one another and are interrupted ("joins"), and two of them that open and      *)
(* close nested suppression scopes and are asked to stop as well ("scopes").     *)
EXTENDS Ctx, FiniteSets, TLC

CONSTANTS Crew, Workers

VARIABLES
  which,
  active, stage, pend, masked, pc, queued, d, qmax, ctxs, joinee, life, submitted

pool == <<active, stage, pend, masked, pc, queued, d, qmax, ctxs, joinee, life, submitted>>

P == INSTANCE Pool WITH
  Ctxs <- Crew, current <- active, Soft <- 0, Hard <- 2, Blocking <- TRUE, Warning <- TRUE,
  MaxJobs <- 4, FromMain <- TRUE

Sym == Permutations(Ctxs) \cup Permutations(Workers)

\* The contexts that have been entered, noted, asked or joined.
Touched ==
  {c \in Ctxs : frame[c] # "unborn" \/ notes[c] > 0 \/ flags[c] # {}}
  \cup (Range(joining) \ {None})

McInit == which \in {"pool", "joins", "scopes"} /\ Init /\ P!Init
McNext ==
  /\ UNCHANGED which
  /\ \/ which = "pool" /\ P!Next /\ UNCHANGED vars
     \/ which = "joins" /\ Next /\ UNCHANGED <<scopes, pool>>
        /\ \A c \in Ctxs : "TERMINATED" \notin flags'[c]
     \/ which = "scopes" /\ Next /\ Cardinality(Touched') <= 2 /\ UNCHANGED pool
McSpec == McInit /\ [][McNext]_<<which, vars, pool>>

\* Every variable has its type, the invariants by which the machine and the pool are proved
\* correct hold (Ctx.tla, Pool.tla), and two workers sleep over no job, terminated or not.
TypesOK ==
  IF which = "pool" THEN P!IInv /\ P!NoStall
  ELSE IInv /\ ScopesNest
=============================================================================
