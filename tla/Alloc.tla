-------------------------------- MODULE Alloc --------------------------------
(***************************************************************************)
(* allocator::state, the bitmap under the allocators of containers, as its *)
(* front ends use it: fixed, whose map is part of the object, dynamic,     *)
(* whose map lies in memory nobody has cleared, and twolevel, which goes   *)
(* to the standard allocator when fixed is exhausted.  node gives out the  *)
(* one block its user has put there.                                       *)
(***************************************************************************)
EXTENDS Integers, FiniteSetsExt

CONSTANTS
  Size,  \* state::size, in blocks
  Spill  \* the bound of the blocks taken from the standard allocator

VARIABLES
  kind,    \* the front end
  used,    \* the bits set in state::avail
  last,    \* state::last
  junk,    \* the bits that were set before anything was allocated
  live,    \* what was handed out of the map and not given back: position and length
  heap,    \* how many allocations the standard allocator has out
  node     \* node::next and the block that is in a container: none, set, taken

vars == <<kind, used, last, junk, live, heap, node>>

Kinds == {"fixed", "dynamic", "twolevel", "node"}
Blocks == 0..Size - 1

Init ==
  /\ kind \in Kinds
  /\ junk \in IF kind = "dynamic" THEN SUBSET Blocks ELSE {{}}
  /\ used = junk /\ last = 0 /\ live = {}
  /\ heap = 0 /\ node = "none"

TypeOK ==
  /\ kind \in Kinds /\ used \subseteq Blocks /\ last \in 0..Size /\ junk \subseteq Blocks
  /\ live \subseteq (Blocks \X (1..Size)) /\ heap \in 0..Spill
  /\ node \in {"none", "set", "taken"}

-----------------------------------------------------------------------------
(* allocator::state *)

\* One pass of next() over from..to - 1: how many blocks are missing to a run of n once
\* it has come to i. It stops at the first i where none is.
Missing(from, to, n) ==
  LET rem[i \in from..to] ==
        IF i = from THEN n
        ELSE IF rem[i - 1] = 0 THEN 0
        ELSE IF i - 1 \in used THEN n ELSE rem[i - 1] - 1
  IN  rem

Ends(from, to, n) == {i \in from..to : Missing(from, to, n)[i] = 0}

\* From the last position to the end, then from the start to the last position.
next(n) ==
  IF Ends(last, Size, n) # {} THEN Min(Ends(last, Size, n)) - n
  ELSE IF Ends(0, last, n) # {} THEN Min(Ends(0, last, n)) - n
  ELSE Size

Run(p, n) == p..p + n - 1

\* (throwing or not, that it fails changes nothing)
Taken(n) ==
  /\ next(n) < Size
  /\ used' = used \cup Run(next(n), n)
  /\ last' = next(n) + n
  /\ live' = live \cup {<<next(n), n>>}

GivenShort(b) ==  \* mutant: the last block of the run stays marked
  /\ used' = used \ Run(b[1], b[2] - 1)
  /\ last' = b[1]
  /\ live' = live \ {b}

Given(b) ==
  /\ used' = used \ Run(b[1], b[2])
  /\ last' = b[1]
  /\ live' = live \ {b}

-----------------------------------------------------------------------------
(* The front ends *)

Allocate(n) ==
  /\ kind # "node" /\ Taken(n)
  /\ UNCHANGED <<kind, junk, heap, node>>

\* twolevel: the result of fixed is past the end, out of range, and so null.
AllocateSpilled(n) ==
  /\ kind = "twolevel" /\ next(n) >= Size /\ heap < Spill
  /\ heap' = heap + 1
  /\ UNCHANGED <<kind, used, last, junk, live, node>>

\* bad_alloc, or null, or the standard allocator.
Fails(n) == kind # "node" /\ next(n) >= Size /\ UNCHANGED vars

\* A container may hold more than one allocation and gives them back in any order; the
\* range of the address tells twolevel where it came from.
Deallocate(b) ==
  /\ kind # "node" /\ b \in live /\ Given(b)
  /\ UNCHANGED <<kind, junk, heap, node>>

DeallocateSpilled ==
  /\ heap > 0 /\ heap' = heap - 1
  /\ UNCHANGED <<kind, used, last, junk, live, node>>

\* node::scope sets `next` and clears it; the container takes the block at most once
\* in between, which its user has to see to.
NodeScope ==
  /\ kind = "node"
  /\ \/ node = "none" /\ node' \in {"set", "taken"}
     \/ node # "none" /\ node' = "none"
  /\ UNCHANGED <<kind, used, last, junk, live, heap>>

Next ==
  \/ \E n \in 1..Size : Allocate(n) \/ AllocateSpilled(n) \/ Fails(n)
  \/ \E b \in live : Deallocate(b)
  \/ DeallocateSpilled \/ NodeScope

Spec == Init /\ [][Next]_vars

-----------------------------------------------------------------------------
(* Properties *)

Free(p, n) == Run(p, n) \cap used = {}

\* What the two passes of next() are to find: the first run from the last position on,
\* else the first that ends before it.
FirstFit(n) ==
  LET above == {p \in last..Size - n : Free(p, n)}
      below == {p \in 0..last - n : Free(p, n)}
  IN  IF above # {} THEN Min(above) ELSE IF below # {} THEN Min(below) ELSE Size

\* Whatever was allocated and given back before, next() finds that run.
NextFits == \A n \in 1..Size : next(n) = FirstFit(n)

\* No two live allocations share a block, and the marked blocks are exactly theirs (and
\* what the map of a dynamic allocator happened to hold).
MapIsLive ==
  /\ \A b, e \in live : b # e => Run(b[1], b[2]) \cap Run(e[1], e[2]) = {}
  /\ used = junk \cup UNION {Run(b[1], b[2]) : b \in live}

\* allocator.cc, allocate(): "No block of n was found anywhere".
FailsOnlyIfNone == \A n \in 1..Size : next(n) = Size => \A p \in 0..Size - n : ~Free(p, n)
=============================================================================
