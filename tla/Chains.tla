-------------------------------- MODULE Chains --------------------------------
(***************************************************************************)
(* The pointers of promise_base and shared_state_base in ircd/ctx.cc: all  *)
(* promises of the same result form a chain, all futures of it another,    *)
(* every promise points to the first future and every future to the first  *)
(* promise, through copies, moves, assignments and destructions.           *)
(***************************************************************************)
EXTENDS Links

CONSTANTS
  Promises, Futures,   \* the places where promise and future objects may live
  Outcomes,            \* what promises are set to: values, exceptions
  Null

VARIABLES
  promises, futures,   \* the objects that exist
  st, pnext,           \* promise_base::st and next
  p, fnext,            \* shared_state_base::p (its union with future_state) and next
  result               \* the value or exception stored in each future

vars == <<promises, futures, st, pnext, p, fnext, result>>

\* future_state shares its memory with the pointer p; a pointer means PENDING and
\* the null pointer INVALID. (OBSERVED, which when_any() sets, is READY to this code.)
States == {"INVALID", "READY", "RETRIEVED"}
\* Besides the types: a future has a result when its state says so.
TypeOK ==
  /\ \A f \in Futures : result[f] # "none" <=> p[f] \in {"READY", "RETRIEVED"}
  /\ promises \subseteq Promises /\ futures \subseteq Futures
  /\ st \in [Promises -> Futures \cup {Null}] /\ pnext \in [Promises -> Promises \cup {Null}]
  /\ p \in [Futures -> Promises \cup States] /\ fnext \in [Futures -> Futures \cup {Null}]
  /\ result \in [Futures -> Outcomes \cup {"broken", "none"}]

Init ==
  /\ promises = {} /\ futures = {}
  /\ st = [x \in Promises |-> Null] /\ pnext = [x \in Promises |-> Null]
  /\ p = [f \in Futures |-> "INVALID"] /\ fnext = [f \in Futures |-> Null]
  /\ result = [f \in Futures |-> "none"]

-----------------------------------------------------------------------------
(* Memory: a record of the pointers, and what the internal functions do to it *)

Memory == [st |-> st, pnext |-> pnext, p |-> p, fnext |-> fnext, result |-> result]
Becomes(m) ==
  st' = m.st /\ pnext' = m.pnext /\ p' = m.p /\ fnext' = m.fnext /\ result' = m.result

Pending(m, f) == m.p[f] \in Promises

\* The promises of the shared state f and the futures of the promise x, heads first.
PromisesOf(m, f) == IF Pending(m, f) THEN Chase(m.p[f], m.pnext, Null) ELSE <<>>
FuturesOf(m, x) == Chase(m.st[x], m.fnext, Null)

\* promise_base::head() and shared_state_base::head() of an object of their own kind.
PromiseHead(m, x) ==
  IF m.st[x] # Null /\ Pending(m, m.st[x]) THEN m.p[m.st[x]] ELSE x
FutureHead(m, f) ==
  IF Pending(m, f) /\ m.st[m.p[f]] # Null THEN m.st[m.p[f]] ELSE f

refcount_promises(m, x) == IF m.st[x] = Null THEN 0 ELSE Len(PromisesOf(m, m.st[x]))
refcount_futures(m, f) ==
  IF Pending(m, f) THEN Len(Chase(FutureHead(m, f), m.fnext, Null)) ELSE 0

\* Tell every future of the promise x its head promise: x, or none.
set_futures_promise(m, x) ==
  [m EXCEPT !.p = [f \in Futures |-> IF f \in ToSet(FuturesOf(m, x)) THEN x ELSE @[f]]]
invalidate_futures(m, x) ==
  [m EXCEPT !.p = [f \in Futures |-> IF f \in ToSet(FuturesOf(m, x)) THEN "INVALID" ELSE @[f]]]

\* Tell every promise of the future f its head future: f, or none.
set_promises_state(m, f) ==
  [m EXCEPT !.st = [x \in Promises |-> IF x \in ToSet(PromisesOf(m, f)) THEN f ELSE @[x]]]
invalidate_promises(m, f) ==
  [m EXCEPT !.st = [x \in Promises |-> IF x \in ToSet(PromisesOf(m, f)) THEN Null ELSE @[x]]]

-----------------------------------------------------------------------------
(* The chain of promises: remove(), update() and append() of promise_base *)

PromiseRemovedHead(m, x) ==  \* mutant: the futures keep pointing to the promise removed
  LET h == PromiseHead(m, x)
      unlinked == IF h = x THEN m ELSE [m EXCEPT !.pnext[Previous(h, x, m.pnext, Null)] = m.pnext[x]]
  IN  [unlinked EXCEPT !.st[x] = Null, !.pnext[x] = Null]

PromiseRemoved(m, x) ==
  LET h == PromiseHead(m, x)
      unlinked ==
        CASE h # x -> [m EXCEPT !.pnext[Previous(h, x, m.pnext, Null)] = m.pnext[x]]
          [] h = x /\ m.pnext[x] # Null -> set_futures_promise(m, m.pnext[x])
          [] OTHER -> invalidate_futures(m, x)
  IN  [unlinked EXCEPT !.st[x] = Null, !.pnext[x] = Null]

PromiseUpdated(m, new, old) ==
  LET h == PromiseHead(m, old)
      c == [m EXCEPT !.st[new] = m.st[old], !.pnext[new] = m.pnext[old]]
      linked == IF h = old THEN set_futures_promise(c, new)
                ELSE [c EXCEPT !.pnext[Previous(h, old, m.pnext, Null)] = new]
  IN  [linked EXCEPT !.st[old] = Null, !.pnext[old] = Null]

PromiseAppended(m, new, old) ==
  [m EXCEPT !.st[new] = m.st[old],
            !.pnext = [@ EXCEPT ![Last(Chase(old, m.pnext, Null))] = new, ![new] = Null]]

SatisfiedFirst(m, x, r) ==  \* mutant: only the first of several futures gets the result
  LET fs == ToSet(FuturesOf(m, x))
  IN  [invalidate_promises(m, m.st[x]) EXCEPT
         !.p = [f \in Futures |-> IF f \in fs THEN "READY" ELSE @[f]],
         !.result[m.st[x]] = r,
         !.st[x] = Null]

\* make_ready() after every future of x got the result r.
Satisfied(m, x, r) ==
  LET fs == ToSet(FuturesOf(m, x))
  IN  [invalidate_promises(m, m.st[x]) EXCEPT
         !.p = [f \in Futures |-> IF f \in fs THEN "READY" ELSE @[f]],
         !.result = [f \in Futures |-> IF f \in fs THEN r ELSE @[f]],
         !.st[x] = Null]

PromiseUnbroken(m, x) ==  \* mutant: the last promise ends without a word
  LET gone == IF m.st[x] = Null THEN m ELSE PromiseRemoved(m, x)
  IN  [gone EXCEPT !.st[x] = Null, !.pnext[x] = Null]

\* ~promise_base(): the last promise of a result breaks it. (The memory of objects
\* destroyed is given one value: nothing below may depend on it.)
PromiseDestroyed(m, x) ==
  LET told == IF refcount_promises(m, x) = 1 THEN Satisfied(m, x, "broken") ELSE m
      gone == IF told.st[x] = Null THEN told ELSE PromiseRemoved(told, x)
  IN  [gone EXCEPT !.st[x] = Null, !.pnext[x] = Null]

-----------------------------------------------------------------------------
(* The chain of futures: remove(), update() and append() of shared_state_base *)

FutureRemoved(m, f) ==
  LET h == FutureHead(m, f)
      unlinked ==
        CASE h # f -> [m EXCEPT !.fnext[Previous(h, f, m.fnext, Null)] = m.fnext[f]]
          [] h = f /\ m.fnext[f] # Null -> set_promises_state(m, m.fnext[f])
          [] OTHER -> invalidate_promises(m, f)
  IN  [unlinked EXCEPT !.fnext[f] = Null, !.p[f] = "INVALID"]

\* The search for `old` begins after the head, which is `old` itself once its state
\* is not PENDING; it then follows next pointers nobody looks after any more.
FutureUpdated(m, new, old) ==
  LET h == FutureHead(m, old)
      c == [m EXCEPT !.fnext[new] = m.fnext[old], !.p[new] = m.p[old],
                     !.result = [@ EXCEPT ![new] = m.result[old], ![old] = "none"]]
      linked == CASE h # old -> [c EXCEPT !.fnext[Previous(h, old, m.fnext, Null)] = new]
                  [] h = old /\ Pending(m, old) -> set_promises_state(c, new)
                  [] OTHER -> c
  IN  [linked EXCEPT !.p[old] = "INVALID", !.fnext[old] = Null]

FutureAppended(m, new, old) ==
  [m EXCEPT !.fnext[Last(Chase(old, m.fnext, Null))] = new]

\* ~shared_state_base()
FutureDestroyed(m, f) ==
  LET gone == CASE refcount_futures(m, f) = 1 -> invalidate_promises(m, f)
                [] refcount_futures(m, f) > 1 -> FutureRemoved(m, f)
                [] OTHER -> m
  IN  [gone EXCEPT !.p[f] = "INVALID", !.fnext[f] = Null, !.result[f] = "none"]

-----------------------------------------------------------------------------
(* The promises: promise(), set_value() and set_exception(), ~promise(), the     *)
(* constructors from a promise, and assignment                                  *)

NewPromise(x) ==
  /\ x \notin promises
  /\ promises' = promises \cup {x}
  /\ UNCHANGED <<futures, st, pnext, p, fnext, result>>

SetResult(x, r) ==
  /\ x \in promises /\ st[x] # Null
  /\ Becomes(Satisfied(Memory, x, r))
  /\ UNCHANGED <<promises, futures>>

DropPromise(x) ==
  /\ x \in promises
  /\ promises' = promises \ {x}
  /\ Becomes(PromiseDestroyed(Memory, x))
  /\ UNCHANGED futures

\* A promise is copied while it is valid, as append() asserts.
CopyPromise(x, y) ==
  /\ x \in promises /\ y \notin promises /\ st[x] # Null
  /\ promises' = promises \cup {y}
  /\ Becomes(PromiseAppended(Memory, y, x))
  /\ UNCHANGED futures

\* The move constructor, or the move assignment, which destroys its target first.
MovePromise(x, y) ==
  /\ x \in promises /\ x # y
  /\ promises' = promises \cup {y}
  /\ Becomes(PromiseUpdated(IF y \in promises THEN PromiseDestroyed(Memory, y) ELSE Memory, y, x))
  /\ UNCHANGED futures

\* future(promise), and the assignment of a promise to a future, which is destroyed
\* first: the first future of a promise, or one more of a promise that has some. (The
\* promise is in no chain: next is not reset when a result is set.)
NewFuture(x, f) ==
  LET m == IF f \in futures THEN FutureDestroyed(Memory, f) ELSE Memory
      made == [m EXCEPT !.p[f] = PromiseHead(m, x)]
  IN  /\ x \in promises
      /\ m.st[x] # Null \/ m.pnext[x] = Null
      /\ futures' = futures \cup {f}
      /\ Becomes(IF m.st[x] # Null THEN FutureAppended(made, f, m.st[x])
                 ELSE set_promises_state([made EXCEPT !.st[x] = f], f))
      /\ UNCHANGED promises

-----------------------------------------------------------------------------
(* The futures *)

EmptyFuture(f) ==
  /\ f \notin futures
  /\ futures' = futures \cup {f}
  /\ UNCHANGED <<promises, st, pnext, p, fnext, result>>

\* future(already, r)
ReadyFuture(f, r) ==
  /\ f \notin futures
  /\ futures' = futures \cup {f}
  /\ p' = [p EXCEPT ![f] = "READY"]
  /\ result' = [result EXCEPT ![f] = r]
  /\ UNCHANGED <<promises, st, pnext, fnext>>

DropFuture(f) ==
  /\ f \in futures
  /\ futures' = futures \ {f}
  /\ Becomes(FutureDestroyed(Memory, f))
  /\ UNCHANGED promises

\* The copy constructor and the copy assignment, which does not reset next: that it
\* is null is asserted by append(), as is that the copied future is PENDING.
CopyFuture(f, g) ==
  LET m == IF g \in futures THEN FutureDestroyed(Memory, g) ELSE Memory
  IN  /\ f \in futures /\ f # g /\ Pending(Memory, f)
      /\ g \in futures => Pending(Memory, g) \/ fnext[g] = Null
      /\ futures' = futures \cup {g}
      /\ Becomes(FutureAppended([m EXCEPT !.p[g] = m.p[f]], g, f))
      /\ UNCHANGED promises

\* The move constructor and the move assignment.
MoveFuture(f, g) ==
  /\ f \in futures /\ f # g
  /\ futures' = futures \cup {g}
  /\ Becomes(FutureUpdated(IF g \in futures THEN FutureDestroyed(Memory, g) ELSE Memory, g, f))
  /\ UNCHANGED promises

\* future::get() takes the result of a future that is not pending.
Get(f) ==
  /\ f \in futures /\ p[f] = "READY"
  /\ p' = [p EXCEPT ![f] = "RETRIEVED"]
  /\ UNCHANGED <<promises, futures, st, pnext, fnext, result>>

Next ==
  \/ \E x \in Promises :
       \/ NewPromise(x) \/ DropPromise(x)
       \/ \E r \in Outcomes : SetResult(x, r)
       \/ \E y \in Promises : CopyPromise(x, y) \/ MovePromise(x, y)
       \/ \E f \in Futures : NewFuture(x, f)
  \/ \E f \in Futures :
       \/ EmptyFuture(f) \/ DropFuture(f) \/ Get(f)
       \/ \E r \in Outcomes : ReadyFuture(f, r)
       \/ \E g \in Futures : CopyFuture(f, g) \/ MoveFuture(f, g)

Spec == Init /\ [][Next]_vars

-----------------------------------------------------------------------------
(* Properties *)

\* The two sides find each other: every valid promise is in the chain that begins at
\* the head its futures know, every pending future in the chain that begins at the
\* head its promises know, and all of them exist.
SidesAgree ==
  /\ \A x \in Promises : st[x] # Null =>
       /\ x \in promises /\ st[x] \in futures /\ Pending(Memory, st[x])
       /\ x \in ToSet(PromisesOf(Memory, st[x]))
  /\ \A f \in Futures : Pending(Memory, f) =>
       /\ f \in futures /\ p[f] \in promises /\ st[p[f]] # Null
       /\ f \in ToSet(FuturesOf(Memory, p[f]))

\* Why they do (TLC checks that each step keeps it). The promises ps and the futures fs of
\* one result: each chain visits its own, all promises know the first future and all futures
\* the first promise.
Bond(m, ps, fs) ==
  /\ ps \in Seq(Promises) \ {<<>>} /\ Strung(m.pnext, ps, Null)
  /\ fs \in Seq(Futures) \ {<<>>} /\ Strung(m.fnext, fs, Null)
  /\ \A x \in ToSet(ps) : m.st[x] = fs[1]
  /\ \A f \in ToSet(fs) : m.p[f] = ps[1]

\* Every valid promise and every pending future is in such a pair of chains,
Kept(m) ==
  /\ \A x \in Promises : m.st[x] # Null =>
       /\ Bond(m, PromisesOf(m, m.st[x]), FuturesOf(m, x))
       /\ x \in ToSet(PromisesOf(m, m.st[x]))
  /\ \A f \in Futures : Pending(m, f) =>
       /\ Bond(m, PromisesOf(m, f), FuturesOf(m, m.p[f]))
       /\ f \in ToSet(FuturesOf(m, m.p[f]))

\* and what is no more is in none.
Gone ==
  /\ \A x \in Promises \ promises : st[x] = Null /\ pnext[x] = Null
  /\ \A f \in Futures \ futures : p[f] = "INVALID" /\ fnext[f] = Null

IInv == TypeOK /\ Kept(Memory) /\ Gone

\* shared_state.h: once a promise has set a result, "the association of all promises
\* and all futures and respective lists are invalidated": a chain that update()
\* would still follow leads to no object that is gone.
ListsInvalidated == \A f \in futures : p[f] \in States => fnext[f] \in futures \cup {Null}

\* Whatever is copied, moved, assigned and destroyed, each future gets the first
\* result set by a promise of its own, or learns that the last of them broke.
Abstract == INSTANCE Bonds WITH
  speaks <- [x \in Promises |-> IF st[x] = Null THEN {} ELSE ToSet(Chase(st[x], fnext, Null))],
  answer <- [f \in Futures |->
               CASE f \notin futures -> "absent"
                 [] p[f] \in Promises -> "waiting"
                 [] p[f] = "INVALID" -> "unbound"
                 [] OTHER -> result[f]]
ImplementsBonds == Abstract!Spec
=============================================================================
