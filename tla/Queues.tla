-------------------------------- MODULE Queues --------------------------------
(***************************************************************************)
(* What ctx::dock and ctx::list do to the queue of a dock, as a sequence   *)
(* of contexts.  CtxList.tla has the links, and implements DockQueue.tla.  *)
(***************************************************************************)
EXTENDS SequencesExt

\* dock::notify_one(): the context at the front of the queue, if there is one.
Front1(q) == IF q = <<>> THEN {} ELSE {Head(q)}

\* dock::notify() wakes that context too, and moves it to the back.
RotatedTwice(q) == IF q = <<>> THEN q ELSE Append(q, Head(q))  \* mutant: it stays at the front
Rotated(q) == IF q = <<>> THEN q ELSE Append(Tail(q), Head(q))

\* list::remove(): the queue q without c.
Without(q, c) ==
  LET i == CHOOSE i \in DOMAIN q : q[i] = c
  IN  IF \E j \in DOMAIN q : q[j] = c THEN RemoveAt(q, i) ELSE q
=============================================================================
