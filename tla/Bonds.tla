-------------------------------- MODULE Bonds --------------------------------
(***************************************************************************)
(* What promises and futures are for.  A promise speaks to a set of        *)
(* futures, its copies to the same set; the first answer that one of them  *)
(* gives reaches every future of the set and ends what they speak to, and  *)
(* so does the end of the last of them.  Chains.tla is the two linked      *)
(* lists that implement this.                                              *)
(***************************************************************************)
CONSTANTS
  Promises, Futures,   \* the places where promise and future objects may live
  Outcomes             \* what a promise may answer

VARIABLES
  promises,   \* the promise objects that exist
  speaks,     \* the futures each promise speaks to
  answer      \* what each future knows: it does not exist, was bound to no promise,
              \* waits, was answered, or was told that its promises broke

Told == Outcomes \cup {"broken"}

TypeOK ==
  /\ promises \subseteq Promises
  /\ speaks \in [Promises -> SUBSET Futures]
  /\ answer \in [Futures -> {"absent", "unbound", "waiting"} \cup Told]

Init ==
  /\ promises = {}
  /\ speaks = [p \in Promises |-> {}]
  /\ answer = [f \in Futures |-> "absent"]

\* The futures of F are told a.
Tell(F, a) == [f \in Futures |-> IF f \in F THEN a ELSE answer[f]]

\* Whom the end of p leaves without a promise.
Orphans(p) ==
  IF \E q \in Promises \ {p} : speaks[q] = speaks[p] THEN {} ELSE speaks[p]

Speakers(f) == {p \in Promises : f \in speaks[p]}

-----------------------------------------------------------------------------
Create(p) == p \notin promises /\ promises' = promises \cup {p} /\ UNCHANGED <<answer, speaks>>

Answer(p, a) ==
  /\ UNCHANGED promises
  /\ speaks[p] # {}
  /\ answer' = Tell(speaks[p], a)
  /\ speaks' = [q \in Promises |-> speaks[q] \ speaks[p]]

Drop(p) ==
  /\ p \in promises
  /\ promises' = promises \ {p}
  /\ answer' = Tell(Orphans(p), "broken")
  /\ speaks' = [speaks EXCEPT ![p] = {}]

Copy(p, q) ==
  /\ q \notin promises
  /\ promises' = promises \cup {q}
  /\ speaks[p] # {}
  /\ speaks' = [speaks EXCEPT ![q] = speaks[p]]
  /\ UNCHANGED answer

\* q becomes what p is, p is left with nothing and what q was comes to its end.
Move(p, q) ==
  /\ p \in promises /\ p # q
  /\ promises' = promises \cup {q}
  /\ answer' = Tell(Orphans(q), "broken")
  /\ speaks' = [speaks EXCEPT ![q] = speaks[p], ![p] = {}]

\* f comes to wait for p; what f waited for is forgotten.
Bind(p, f) ==
  /\ UNCHANGED promises
  /\ p \in promises
  /\ answer' = Tell({f}, "waiting")
  /\ LET rest == [q \in Promises |-> speaks[q] \ {f}]
         bound == {p} \cup IF rest[p] = {} THEN {} ELSE {q \in Promises : rest[q] = rest[p]}
     IN  speaks' = [q \in Promises |-> IF q \in bound THEN rest[q] \cup {f} ELSE rest[q]]

-----------------------------------------------------------------------------
CreateFuture(f, a) ==
  /\ UNCHANGED promises
  /\ answer[f] = "absent"
  /\ answer' = Tell({f}, a)
  /\ UNCHANGED speaks

DropFuture(f) ==
  /\ UNCHANGED promises
  /\ answer[f] # "absent"
  /\ answer' = Tell({f}, "absent")
  /\ speaks' = [p \in Promises |-> speaks[p] \ {f}]

\* g waits with f, or takes its place; what g waited for is forgotten.
CopyFuture(f, g) ==
  /\ UNCHANGED promises
  /\ f # g /\ answer[f] = "waiting"
  /\ answer' = Tell({g}, "waiting")
  /\ speaks' = [p \in Promises |->
                  IF p \in Speakers(f) THEN speaks[p] \cup {g} ELSE speaks[p] \ {g}]

MoveFuture(f, g) ==
  /\ UNCHANGED promises
  /\ f # g /\ answer[f] # "absent"
  /\ answer' = [answer EXCEPT ![g] = answer[f], ![f] = "unbound"]
  /\ speaks' = [p \in Promises |->
                  IF p \in Speakers(f) THEN (speaks[p] \ {f}) \cup {g} ELSE speaks[p] \ {g}]

Next ==
  \/ \E p \in Promises :
       \/ Create(p) \/ Drop(p)
       \/ \E a \in Outcomes : Answer(p, a)
       \/ \E q \in Promises : Copy(p, q) \/ Move(p, q)
       \/ \E f \in Futures : Bind(p, f)
  \/ \E f \in Futures :
       \/ \E a \in Outcomes \cup {"unbound"} : CreateFuture(f, a)
       \/ DropFuture(f)
       \/ \E g \in Futures : CopyFuture(f, g) \/ MoveFuture(f, g)

Spec == Init /\ [][Next]_<<promises, speaks, answer>>
=============================================================================
