-------------------------------- MODULE Links --------------------------------
(***************************************************************************)
(* Singly linked chains, as the lists of the contexts, the promises and    *)
(* the futures have them: a map from each node to the next one.            *)
(***************************************************************************)
EXTENDS Integers, SequencesExt

\* The nodes met from x along l until nil (at most as many as there are).
Chase(x, l, nil) ==
  LET chase[n \in 0..Cardinality(DOMAIN l)] ==
        IF n = 0 THEN <<x>>
        ELSE LET s == chase[n - 1] IN IF Last(s) = nil THEN s ELSE Append(s, l[Last(s)])
      met == chase[Cardinality(DOMAIN l)]
  IN  IF Last(met) = nil THEN Front(met) ELSE met

\* The links l take one through the nodes of s, from each to the next, and end there.
Strung(l, s, nil) ==
  /\ \A i, j \in DOMAIN s : s[i] = s[j] => i = j
  /\ \A i \in DOMAIN s : l[s[i]] = IF i = Len(s) THEN nil ELSE s[i + 1]

\* The links l are those of doubly linked lists that hold the sequences q, no node is in
\* two of them or twice in one, and a node in none is clean.
Linked(l, q, nil) ==
  /\ \A d \in DOMAIN q :
       /\ l.head[d] = IF q[d] = <<>> THEN nil ELSE q[d][1]
       /\ l.tail[d] = IF q[d] = <<>> THEN nil ELSE q[d][Len(q[d])]
       /\ \A i \in DOMAIN q[d] :
            /\ l.next[q[d][i]] = IF i = Len(q[d]) THEN nil ELSE q[d][i + 1]
            /\ l.prev[q[d][i]] = IF i = 1 THEN nil ELSE q[d][i - 1]
  /\ \A d, e \in DOMAIN q : \A i \in DOMAIN q[d], j \in DOMAIN q[e] :
       q[d][i] = q[e][j] => d = e /\ i = j
  /\ \A c \in DOMAIN l.next :
       (\A d \in DOMAIN q : c \notin ToSet(q[d])) => l.prev[c] = nil /\ l.next[c] = nil

\* The node before x in the chain from h.
Previous(h, x, l, nil) == CHOOSE y \in ToSet(Chase(h, l, nil)) : l[y] = x
=============================================================================
