------------------------------- MODULE CtxList -------------------------------
(***************************************************************************)
(* ctx::list: doubly linked lists whose links live in the contexts, as in  *)
(* ircd/ctx.cc, under the preconditions its assertions state.              *)
(***************************************************************************)
EXTENDS Links

CONSTANTS
  Ids,      \* the contexts, named by ctx::id: integers
  Docks,    \* the lists
  Null      \* the null pointer, in no Ids

VARIABLES
  head, tail,   \* the two pointers of each list
  prev, next,   \* the node of each context
  did           \* the last operation

vars == <<head, tail, prev, next, did>>

Walk(x, l) == Chase(x, l, Null)
Forward(d) == Walk(head[d], next)
Member(d, c) == c \in ToSet(Forward(d))
Free(c) == \A d \in Docks : ~Member(d, c)

Init ==
  /\ head = [d \in Docks |-> Null] /\ tail = [d \in Docks |-> Null]
  /\ prev = [c \in Ids |-> Null] /\ next = [c \in Ids |-> Null]
  /\ did = <<>>

-----------------------------------------------------------------------------
(* The links after each operation: records of the four pointer maps *)

Links == [head |-> head, tail |-> tail, prev |-> prev, next |-> next]
Take(l) == head' = l.head /\ tail' = l.tail /\ prev' = l.prev /\ next' = l.next

FrontPushed(l, d, c) ==
  IF l.head[d] = Null THEN [l EXCEPT !.head[d] = c, !.tail[d] = c]
  ELSE [l EXCEPT !.prev[l.head[d]] = c, !.next[c] = l.head[d], !.head[d] = c]

BackPushed(l, d, c) ==
  IF l.tail[d] = Null THEN [l EXCEPT !.head[d] = c, !.tail[d] = c]
  ELSE [l EXCEPT !.next[l.tail[d]] = c, !.prev[c] = l.tail[d], !.tail[d] = c]

Before(l, d, o, c) ==
  LET linked == [l EXCEPT !.next[c] = o, !.prev[c] = l.prev[o], !.prev[o] = c]
      joined == IF l.prev[o] = Null THEN linked ELSE [linked EXCEPT !.next[l.prev[o]] = c]
  IN  IF l.head[d] = o THEN [joined EXCEPT !.head[d] = c] ELSE joined

After(l, d, o, c) ==
  LET linked == [l EXCEPT !.prev[c] = o, !.next[c] = l.next[o], !.next[o] = c]
      joined == IF l.next[o] = Null THEN linked ELSE [linked EXCEPT !.prev[l.next[o]] = c]
  IN  IF l.tail[d] = o THEN [joined EXCEPT !.tail[d] = c] ELSE joined

SortedAfter(l, d, c) ==  \* mutant: linked on the other side of the first greater one
  LET greater == {i \in DOMAIN Forward(d) : c < Forward(d)[i]}
  IN  IF greater = {} THEN BackPushed(l, d, c) ELSE After(l, d, Forward(d)[Min(greater)], c)

Sorted(l, d, c) ==
  LET greater == {i \in DOMAIN Forward(d) : c < Forward(d)[i]}
  IN  IF greater = {} THEN BackPushed(l, d, c) ELSE Before(l, d, Forward(d)[Min(greater)], c)

FrontPopped(l, d) ==
  LET h == l.head[d]
      moved == IF l.next[h] = Null THEN [l EXCEPT !.head[d] = Null, !.tail[d] = Null]
               ELSE [l EXCEPT !.prev[l.next[h]] = Null, !.head[d] = l.next[h]]
  IN  [moved EXCEPT !.prev[h] = Null, !.next[h] = Null]

BackPopped(l, d) ==
  LET t == l.tail[d]
      moved == IF l.prev[t] = Null THEN [l EXCEPT !.head[d] = Null, !.tail[d] = Null]
               ELSE [l EXCEPT !.next[l.prev[t]] = Null, !.tail[d] = l.prev[t]]
  IN  [moved EXCEPT !.prev[t] = Null, !.next[t] = Null]

RemovedForward(l, d, c) ==  \* mutant: only the forward chain is mended
  IF c = l.head[d] THEN FrontPopped(l, d)
  ELSE IF c = l.tail[d] THEN BackPopped(l, d)
  ELSE [l EXCEPT !.next[l.prev[c]] = l.next[c], !.next[c] = Null, !.prev[c] = Null]

Removed(l, d, c) ==
  IF c = l.head[d] THEN FrontPopped(l, d)
  ELSE IF c = l.tail[d] THEN BackPopped(l, d)
  ELSE [l EXCEPT !.prev[l.next[c]] = l.prev[c], !.next[l.prev[c]] = l.next[c],
                !.next[c] = Null, !.prev[c] = Null]

-----------------------------------------------------------------------------
(* The operations *)

Push(d, c) ==
  /\ Free(c)
  /\ \/ did' = <<"push_front", d, c>> /\ Take(FrontPushed(Links, d, c))
     \/ did' = <<"push_back", d, c>> /\ Take(BackPushed(Links, d, c))
     \/ did' = <<"push_sort", d, c>> /\ Take(Sorted(Links, d, c))

PushBeside(d, o, c) ==
  /\ Free(c) /\ Member(d, o)
  /\ \/ did' = <<"push_before", d, c>> /\ Take(Before(Links, d, o, c))
     \/ did' = <<"push_after", d, c>> /\ Take(After(Links, d, o, c))

Pop(d) ==
  /\ head[d] # Null
  /\ \/ did' = <<"pop_front", d, head[d]>> /\ Take(FrontPopped(Links, d))
     \/ did' = <<"pop_back", d, tail[d]>> /\ Take(BackPopped(Links, d))

Remove1(d, c) ==
  /\ Member(d, c)
  /\ did' = <<"remove", d, c>>
  /\ Take(Removed(Links, d, c))

\* dock::notify(): pop_front() then push_back() of the same context.
Notify(d) ==
  /\ head[d] # Null
  /\ did' = <<"notify", d, head[d]>>
  /\ Take(BackPushed(FrontPopped(Links, d), d, head[d]))

Next ==
  \E d \in Docks :
    \/ \E c \in Ids : Push(d, c) \/ Remove1(d, c) \/ \E o \in Ids : PushBeside(d, o, c)
    \/ Pop(d)
    \/ Notify(d)

Spec == Init /\ [][Next]_vars

-----------------------------------------------------------------------------
(* Properties *)

\* Besides the types: a list has a tail when it has a head.
TypeOK ==
  /\ \A d \in Docks : head[d] = Null <=> tail[d] = Null
  /\ head \in [Docks -> Ids \cup {Null}] /\ tail \in [Docks -> Ids \cup {Null}]
  /\ prev \in [Ids -> Ids \cup {Null}] /\ next \in [Ids -> Ids \cup {Null}]

\* The inductive invariant: the pointers are those of the sequences that for_each() meets.
Lists == [d \in Docks |-> Forward(d)]
IInv ==
  /\ TypeOK
  /\ Lists \in [Docks -> Seq(Ids)]
  /\ Linked(Links, Lists, Null)

\* rfor_each() meets exactly what for_each() meets, in reverse: the two chains of
\* every list agree after any sequence of insertions, removals and rotations.
ChainsAgree == \A d \in Docks : Walk(tail[d], prev) = Reverse(Forward(d))

\* A context in no list has a clean node, which every push asserts of its argument.
FreeNodesClean == \A c \in Ids : Free(c) => prev[c] = Null /\ next[c] = Null

\* opts::SORT as dock.h:77-78 has it: a waiting context "will add itself to front if its
\* ID is lower than the front, otherwise back". push_sort() inserts anywhere by id.
SortsToEnds ==
  [][\A d \in Docks, c \in Ids :
       did' = <<"push_sort", d, c>> =>
         Forward(d)' = IF Forward(d) # <<>> /\ c < Head(Forward(d))
                       THEN <<c>> \o Forward(d) ELSE Append(Forward(d), c)]_vars

\* The linked lists behave as sequences of contexts.
Abstract == INSTANCE DockQueue WITH q <- Lists
ImplementsDockQueue == Abstract!Spec
=============================================================================
