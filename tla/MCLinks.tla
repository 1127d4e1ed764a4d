------------------------------- MODULE MCLinks -------------------------------
(* Promises and futures, each part by itself: a context that waits on a typed    *)
(* and a void future while two others hold the promise (MCTasks has two such     *)
(* contexts); the chains that tie three promises and three futures together; and *)
(* the linked lists docks are made of, three contexts in two of them.            *)
EXTENDS Futures, TLC

CONSTANTS Objects, Shared, Outcomes, Ids, Docks, Null

VARIABLES
  which,
  promises, futures, state, pnext, p, fnext, result,
  head, tail, prev, next, did

chains == <<promises, futures, state, pnext, p, fnext, result>>
lists == <<head, tail, prev, next, did>>

\* A context has one id, an integer, and there are finitely many of them at a time.
ASSUME ListAssumption == Ids \subseteq Int /\ IsFiniteSet(Ids) /\ Null \notin Ids

\* Objects are in one place at a time, in finitely many; no result is one of the words by
\* which Chains says that there is none.
ASSUME PlaceAssumption ==
  /\ IsFiniteSet(Objects) /\ IsFiniteSet(Shared) /\ Null \notin Objects \cup Shared
  /\ Objects \cap {"INVALID", "READY", "RETRIEVED"} = {}
  /\ Outcomes \cap {"none", "absent"} = {}

B == INSTANCE Chains WITH Promises <- Objects, Futures <- Shared, st <- state
L == INSTANCE CtxList

McIds == 1..3
Sym == Permutations(Objects) \cup Permutations(Shared)

McInit == which \in {"futures", "chains", "list"} /\ Init /\ B!Init /\ L!Init
McNext ==
  /\ UNCHANGED which
  /\ \/ which = "futures" /\ Next /\ UNCHANGED <<chains, lists>>
     \/ which = "chains" /\ B!Next /\ UNCHANGED <<vars, lists>>
     \/ which = "list" /\ L!Next /\ UNCHANGED <<vars, chains>>
McSpec == McInit /\ [][McNext]_<<which, vars, chains, lists>>

\* Every variable has its type, and each part keeps its invariant: those by which the futures
\* and the lists are proved correct (Futures.tla, CtxList.tla), and the pairs of chains of
\* Chains.tla.
TypesOK ==
  CASE which = "futures" -> IInv
    [] which = "chains" -> B!IInv
    [] OTHER -> L!IInv

\* Promises and futures of one result find each other (Chains.tla).
SidesAgree == B!SidesAgree

\* Every future learns the first result of its own promises (Chains.tla, Bonds.tla).
ImplementsBonds == B!ImplementsBonds

\* Both chains of every list agree, and a context in no list has a clean node (CtxList.tla).
ChainsAgree == L!ChainsAgree /\ L!FreeNodesClean

\* The linked lists behave as the sequences of DockQueue.tla (CtxList.tla).
ImplementsDockQueue == L!ImplementsDockQueue
=============================================================================
