--------------------------------- MODULE When ---------------------------------
(***************************************************************************)
(* ctx::when_any() and ctx::when_all(): futures made of collections of     *)
(* other futures.  Each call copies a promise of its own into closures it  *)
(* leaves in the `then` of the futures that are pending; a future has one  *)
(* `then`.  Calls, and the closures, run without suspending.               *)
(***************************************************************************)
EXTENDS FiniteSets, Naturals

CONSTANTS
  Sources,  \* the futures collections are made of
  Calls,    \* the calls, each made once
  Overlap   \* a collection may share a pending future with a call that is not over

VARIABLES
  st,     \* future_state of each source, or that it is destroyed
  then,   \* the call whose closure is in its `then`, or "none"
  kind,   \* what each call is: "any", "all", or "none" yet
  among,  \* the sources that were pending when it was made
  ret     \* the future it returned: "pending", or how it ended

vars == <<st, then, kind, among, ret>>

Ends == {"broken", "void", "last", "dropped"}

TypeOK ==
  /\ st \in [Sources -> {"PENDING", "READY", "OBSERVED", "RETRIEVED", "destroyed"}]
  /\ then \in [Sources -> Calls \cup {"none"}]
  /\ kind \in [Calls -> {"none", "any", "all"}]
  /\ among \in [Calls -> SUBSET Sources]
  /\ ret \in [Calls -> Sources \cup Ends \cup {"none", "pending"}]

Init ==
  /\ st = [f \in Sources |-> "PENDING"] /\ then = [f \in Sources |-> "none"]
  /\ kind = [c \in Calls |-> "none"] /\ among = [c \in Calls |-> {}]
  /\ ret = [c \in Calls |-> "none"]

-----------------------------------------------------------------------------
(* The promise of a call: one copy in each of its closures *)

Copies(th, c) == {f \in Sources : th[f] = c}

\* The returned futures r after the closures changed from `then` to th: the copy that
\* goes last breaks the promise.
After(th, r) ==
  [c \in Calls |-> IF r[c] = "pending" /\ Copies(th, c) = {} THEN "broken" ELSE r[c]]

\* The pending ones among S get a closure of c, in place of another they may have.
Closed(c, S) == [f \in Sources |-> IF f \in S THEN c ELSE then[f]]

Pending(S) == {f \in S : st[f] = "PENDING"}
Left(S) == Overlap \/ \A f \in Pending(S) : then[f] # "none" => ret[then[f]] # "pending"

Made(c, k, S) ==
  /\ kind[c] = "none" /\ Left(S)
  /\ kind' = [kind EXCEPT ![c] = k]

Register(c, S, none) ==
  /\ then' = Closed(c, Pending(S))
  /\ among' = [among EXCEPT ![c] = Pending(S)]
  /\ ret' = After(then', [ret EXCEPT ![c] = IF Pending(S) = {} THEN none ELSE "pending"])
  /\ UNCHANGED st

-----------------------------------------------------------------------------
(* The calls, over a collection S in any order *)

when_any_ready(c, S) ==
  /\ Made(c, "any", S)
  /\ \E f \in S :
       /\ st[f] = "READY"
       /\ st' = [st EXCEPT ![f] = "OBSERVED"]
       /\ ret' = [ret EXCEPT ![c] = f]
  /\ UNCHANGED <<then, among>>

when_any(c, S) ==
  /\ Made(c, "any", S) /\ (\A f \in S : st[f] # "READY")
  /\ Register(c, S, "last")

when_all(c, S) == Made(c, "all", S) /\ Register(c, S, "void")

-----------------------------------------------------------------------------
(* A source becomes ready: its closure runs, then goes *)

any_then_unobserved(f, c) ==  \* mutant: the future is not marked
  /\ st' = [st EXCEPT ![f] = "READY"]
  /\ ret' = IF ret[c] = "pending" THEN [ret EXCEPT ![c] = f] ELSE ret

any_then(f, c) ==
  /\ st' = [st EXCEPT ![f] = IF ret[c] = "pending" THEN "OBSERVED" ELSE "READY"]
  /\ ret' = IF ret[c] = "pending" THEN [ret EXCEPT ![c] = f] ELSE ret

all_then(f, c) ==
  /\ st' = [st EXCEPT ![f] = "READY"]
  /\ ret' = IF ret[c] = "pending" /\ Copies(then, c) = {f} THEN [ret EXCEPT ![c] = "void"] ELSE ret

\* promise::set_value(), set_exception(), or the promise is broken.
Resolve(f) ==
  /\ st[f] = "PENDING"
  /\ IF then[f] = "none" THEN st' = [st EXCEPT ![f] = "READY"] /\ UNCHANGED ret
     ELSE IF kind[then[f]] = "any" THEN any_then(f, then[f])
     ELSE all_then(f, then[f])
  /\ then' = [then EXCEPT ![f] = "none"]
  /\ UNCHANGED <<kind, among>>

\* future::get().
Get(f) ==
  /\ st[f] \in {"READY", "OBSERVED"}
  /\ st' = [st EXCEPT ![f] = "RETRIEVED"]
  /\ UNCHANGED <<then, kind, among, ret>>

\* The destructor of a source, pending or not, with the closure in it.
Destroy(f) ==
  /\ st[f] # "destroyed"
  /\ st' = [st EXCEPT ![f] = "destroyed"]
  /\ then' = [then EXCEPT ![f] = "none"]
  /\ ret' = After(then', ret)
  /\ UNCHANGED <<kind, among>>

\* The destructor of the returned future, which invalidates the copies.
DropReturned(c) ==
  /\ ret[c] \notin {"none", "dropped"}
  /\ ret' = [ret EXCEPT ![c] = "dropped"]
  /\ UNCHANGED <<st, then, kind, among>>

\* The collection is refilled: a future is assigned from a new promise.
Renew(f) ==
  /\ st[f] \in {"RETRIEVED", "destroyed"}
  /\ \A c \in Calls : f \notin among[c] \/ ret[c] # "pending"
  /\ \A c \in Calls : ret[c] # f
  /\ st' = [st EXCEPT ![f] = "PENDING"]
  /\ among' = [c \in Calls |-> among[c] \ {f}]
  /\ UNCHANGED <<then, kind, ret>>

Next ==
  \/ \E c \in Calls : DropReturned(c) \/ \E S \in SUBSET Sources :
       when_any_ready(c, S) \/ when_any(c, S) \/ when_all(c, S)
  \/ \E f \in Sources : Resolve(f) \/ Get(f) \/ Destroy(f) \/ Renew(f)

Spec == Init /\ [][Next]_vars

-----------------------------------------------------------------------------
(* Properties *)

\* A future that when_any() indicated "won't be considered ready or pending again":
\* no two calls indicate the same one, through closures that outlive their call.
IndicatedOnce == \A c, e \in Calls : ret[c] = ret[e] /\ ret[c] \in Sources => c = e

\* when_all() returned "a future which becomes ready when all of the futures in the
\* collection become ready", not before.
AllMeansAll == \A c \in Calls : ret[c] = "void" => Pending(among[c]) = {}

\* Whoever waits for the result of a call waits for a future that is pending and will
\* run a closure of the call: a result is never orphaned.
NoOrphan ==
  \A c \in Calls : ret[c] = "pending" =>
    /\ \E f \in among[c] : st[f] = "PENDING" /\ then[f] = c
    /\ kind[c] = "any" => \A f \in among[c] : st[f] \in {"PENDING", "destroyed"}

\* The inductive invariant: a closure is in a pending source of its call's collection; a
\* call that is not over has its closure in each of those; whoever was indicated is marked.
ClosuresWait == \A f \in Sources :
  then[f] # "none" => st[f] = "PENDING" /\ f \in among[then[f]]
CallsHold == \A c \in Calls :
  /\ kind[c] = "none" => ret[c] = "none" /\ among[c] = {}
  /\ ret[c] = "pending" => \A f \in among[c] : st[f] = "PENDING" => then[f] = c
Marked == \A c \in Calls : ret[c] \in Sources => st[ret[c]] \notin {"PENDING", "READY"}
IInv ==
  TypeOK /\ ClosuresWait /\ CallsHold /\ Marked /\ IndicatedOnce /\ AllMeansAll /\ NoOrphan
=============================================================================
