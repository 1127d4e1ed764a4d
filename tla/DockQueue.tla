------------------------------ MODULE DockQueue ------------------------------
(***************************************************************************)
(* What ctx::list promises to the docks: each keeps a sequence of contexts *)
(* and a context is in at most one of them, once, because its node is part *)
(* of the ctx.  CtxList.tla is the linked list that implements this.       *)
(***************************************************************************)
EXTENDS Integers, SequencesExt

CONSTANTS
  Ids,      \* the contexts, named by ctx::id, which push_sort() compares
  Docks     \* the lists

VARIABLES
  q,        \* the contexts of each list, front first
  did       \* the last operation: its name, its list and its context

Free(c) == \A d \in Docks : c \notin ToSet(q[d])
Index(d, c) == CHOOSE i \in DOMAIN q[d] : q[d][i] = c

\* push_sort() inserts before the first context with a greater id.
SortedPlace(d, c) ==
  LET greater == {i \in DOMAIN q[d] : c < q[d][i]}
  IN  IF greater = {} THEN Len(q[d]) + 1 ELSE Min(greater)

Put(op, d, c, i) ==
  /\ did' = <<op, d, c>>
  /\ Free(c)
  /\ q' = [q EXCEPT ![d] = InsertAt(@, i, c)]

PutBeside(op, d, o, c, k) ==
  /\ did' = <<op, d, c>>
  /\ o \in ToSet(q[d])
  /\ Put(op, d, c, Index(d, o) + k)

Drop(op, d, c, i) ==
  /\ did' = <<op, d, c>>
  /\ c \in ToSet(q[d]) /\ q[d][i] = c
  /\ q' = [q EXCEPT ![d] = RemoveAt(@, i)]

\* dock::notify() moves the front to the back.
Rotate(d, c) ==
  /\ did' = <<"notify", d, c>>
  /\ q[d] # <<>> /\ Head(q[d]) = c
  /\ q' = [q EXCEPT ![d] = Append(Tail(@), c)]

Init == q = [d \in Docks |-> <<>>] /\ did = <<>>

Next ==
  \E d \in Docks, c \in Ids :
    \/ Put("push_front", d, c, 1)
    \/ Put("push_back", d, c, Len(q[d]) + 1)
    \/ Put("push_sort", d, c, SortedPlace(d, c))
    \/ \E o \in Ids : PutBeside("push_before", d, o, c, 0) \/ PutBeside("push_after", d, o, c, 1)
    \/ Drop("remove", d, c, Index(d, c))
    \/ Drop("pop_front", d, c, 1)
    \/ Drop("pop_back", d, c, Len(q[d]))
    \/ Rotate(d, c)

Spec == Init /\ [][Next]_<<q, did>>
=============================================================================
