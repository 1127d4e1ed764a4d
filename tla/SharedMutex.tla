----------------------------- MODULE SharedMutex -----------------------------
(***************************************************************************)
(* ctx::shared_mutex: shared, upgrade and unique ownership over one dock,  *)
(* every way to take, to give up and to change them, for contexts that are *)
(* interrupted, time out and suspend for other reasons.  Assertions of the *)
(* code have no effect here: they are among the properties.                *)
(***************************************************************************)
EXTENDS Sched, Integers

CONSTANTS
  Least,    \* stands for the least ssize_t; Least + 1, Least + 2.. are negative too
  Steals    \* try_unlock_shared_and_lock() is called while another context has the
            \* upgrade, which it asserts of its caller and does not test

ASSUME LeastAssumption == Least \in Int /\ Least < 0 /\ Steals \in BOOLEAN
ASSUME FiniteAssumption == IsFiniteSet(Ctxs)

VARIABLES
  u,      \* shared_mutex::u
  s,      \* shared_mutex::s: Least, or the number of shares
  q,      \* the queue of its dock
  holds,  \* what each context was given and has not given back
  wants,  \* what each context waits for in the dock, or nothing
  due     \* the wait of each context: without a deadline, with one, past it

mutex == <<u, s, q, holds, wants, due>>
vars == <<sched, mutex>>

Modes == {"shared", "upgrade", "unique"}

\* "promote" is the wait of unlock_upgrade_and_lock().
Wants == Modes \cup {"promote", "nothing"}

TypeOK ==
  /\ SchedTypeOK
  /\ u \in Ctxs \cup {None} /\ s \in Least..Cardinality(Ctxs) /\ q \in Seq(Ctxs)
  /\ holds \in [Ctxs -> Modes \cup {"nothing"}] /\ wants \in [Ctxs -> Wants]
  /\ due \in [Ctxs -> {"never", "timed", "past"}]

MutexInit ==
  /\ u = None /\ s = 0 /\ q = <<>>
  /\ holds = [c \in Ctxs |-> "nothing"] /\ wants = [c \in Ctxs |-> "nothing"]
  /\ due = [c \in Ctxs |-> "never"]
Init == SchedInit /\ MutexInit

-----------------------------------------------------------------------------
(* The conditions, and what taking a lock does *)

can_lock(c) == s = 0 /\ u \in {None, c}
can_lock_shared == s >= 0
can_lock_upgrade == u = None

Can(c, how) ==
  \/ how = "shared" /\ can_lock_shared
  \/ how = "upgrade" /\ can_lock_upgrade
  \/ how \in {"unique", "promote"} /\ can_lock(c)

Take(c, how) ==
  /\ s' = IF how = "shared" THEN s + 1 ELSE IF how = "upgrade" THEN s ELSE Least
  /\ u' = IF how \in {"upgrade", "unique"} THEN c ELSE u
  /\ holds' = [holds EXCEPT ![c] = IF how = "promote" THEN "unique" ELSE how]

\* c is running its own code and holds what is said.
Has(c, what) == current = c /\ wants[c] = "nothing" /\ holds[c] = what
Lacks(how) == IF how = "promote" THEN "upgrade" ELSE "nothing"

-----------------------------------------------------------------------------
(* Taking *)

\* The lock functions, and the conditions of the try functions, when they hold.
Lock(c, how) ==
  /\ Has(c, Lacks(how)) /\ Can(c, how)
  /\ Take(c, how)
  /\ UNCHANGED <<sched, q, wants, due>>

\* When they do not, the lock functions wait, some of them until a deadline.
Contend(c, how, until) ==
  /\ Has(c, Lacks(how)) /\ ~Can(c, how)
  /\ how = "promote" => until = "never"
  /\ Suspend(c)
  /\ q' = Append(q, c)
  /\ wants' = [wants EXCEPT ![c] = how]
  /\ due' = [due EXCEPT ![c] = until]
  /\ UNCHANGED <<u, s, holds>>

\* try_lock_shared() counts the share before it looks. (The bound keeps a count of
\* failures from reaching zero.)
TryLockShared(c) ==
  /\ Has(c, "nothing") /\ s # -1
  /\ s' = s + 1
  /\ holds' = [holds EXCEPT ![c] = IF s' >= 0 THEN "shared" ELSE @]
  /\ UNCHANGED <<sched, u, q, wants, due>>

\* try_unlock_shared_and_lock() and try_unlock_shared_and_lock_upgrade().
Promote(c) ==
  /\ Has(c, "shared")
  /\ \/ s = 1 /\ (Steals \/ u = None) /\ Take(c, "unique")
     \/ /\ can_lock_upgrade
        /\ u' = c /\ s' = s - 1
        /\ holds' = [holds EXCEPT ![c] = "upgrade"]
  /\ UNCHANGED <<sched, q, wants, due>>

-----------------------------------------------------------------------------
(* Giving up: c holds `what` instead, and the contexts of W are notified *)

Give(c, what, W) ==
  /\ holds' = [holds EXCEPT ![c] = what]
  /\ stage' = Wake(stage, W)
  /\ UNCHANGED <<current, pend, masked, q, wants, due>>

unlock(c) == Has(c, "unique") /\ s' = 0 /\ Give(c, "nothing", ToSet(q)) /\ UNCHANGED u

unlock_shared(c) ==
  Has(c, "shared") /\ s' = s - 1 /\ Give(c, "nothing", Front1(q)) /\ UNCHANGED u

unlock_upgrade(c) ==
  Has(c, "upgrade") /\ u' = None /\ Give(c, "nothing", Front1(q)) /\ UNCHANGED s

unlock_and_share(c) ==  \* mutant: the share is not counted
  Has(c, "unique") /\ s' = 0 /\ Give(c, "shared", Front1(q)) /\ UNCHANGED u

unlock_and_lock_shared(c) ==
  Has(c, "unique") /\ s' = 1 /\ Give(c, "shared", Front1(q)) /\ UNCHANGED u

unlock_and_lock_upgrade(c) ==
  Has(c, "unique") /\ s' = 0 /\ Give(c, "upgrade", {}) /\ UNCHANGED u

unlock_upgrade_and_lock_shared(c) ==
  /\ Has(c, "upgrade")
  /\ u' = None /\ s' = s + 1
  /\ Give(c, "shared", Front1(q))

-----------------------------------------------------------------------------
(* Resumption out of the dock *)

\* The wait is over: c leaves the queue and wants nothing any more.
OutForgotten(c) ==  \* mutant: the context stays in the queue
  /\ current' = c
  /\ wants' = [wants EXCEPT ![c] = "nothing"]
  /\ due' = [due EXCEPT ![c] = "never"]
  /\ UNCHANGED q

Out(c) ==
  /\ current' = c
  /\ q' = Without(q, c)
  /\ wants' = [wants EXCEPT ![c] = "nothing"]
  /\ due' = [due EXCEPT ![c] = "never"]

Woken(c) == Resumable(c) /\ wants[c] # "nothing"

WakeOwning(c) ==
  /\ Woken(c) /\ ~Throws(c) /\ Can(c, wants[c])
  /\ Out(c) /\ Take(c, wants[c])
  /\ stage' = [stage EXCEPT ![c] = "running"]
  /\ UNCHANGED <<pend, masked>>

WakeExpired(c) ==
  /\ Woken(c) /\ ~Throws(c) /\ ~Can(c, wants[c]) /\ due[c] = "past"
  /\ Out(c)
  /\ stage' = [stage EXCEPT ![c] = "running"]
  /\ UNCHANGED <<pend, masked, u, s, holds>>

WakeInVain(c) ==
  /\ Woken(c) /\ ~Throws(c) /\ ~Can(c, wants[c]) /\ due[c] # "past"
  /\ stage' = [stage EXCEPT ![c] = "asleep"]
  /\ UNCHANGED <<current, pend, masked, mutex>>

WakeThrown(c) ==
  /\ Woken(c) /\ Throws(c)
  /\ Out(c) /\ Thrown(c)
  /\ stage' = [Wake(stage, Front1(q')) EXCEPT ![c] = "running"]
  /\ UNCHANGED <<u, s, holds>>

-----------------------------------------------------------------------------
(* The rest of the program *)

Expire(c) ==
  /\ due[c] = "timed"
  /\ due' = [due EXCEPT ![c] = "past"]
  /\ stage' = Wake(stage, {c})
  /\ UNCHANGED <<current, pend, masked, u, s, q, holds, wants>>

Doze(c) == wants[c] = "nothing" /\ Suspend(c) /\ UNCHANGED mutex
WakeElsewhere(c) == wants[c] = "nothing" /\ Return(c) /\ UNCHANGED mutex
Notify(c) == Rouse(c) /\ UNCHANGED mutex
Interrupted(c) == Request(c, "INTERRUPTED") /\ UNCHANGED mutex

Releases(c) ==
  \/ unlock(c) \/ unlock_shared(c) \/ unlock_upgrade(c)
  \/ unlock_and_lock_shared(c) \/ unlock_and_lock_upgrade(c)
  \/ unlock_upgrade_and_lock_shared(c)

Next ==
  \E c \in Ctxs :
    \/ \E how \in Modes \cup {"promote"} :
         Lock(c, how) \/ \E until \in {"never", "timed"} : Contend(c, how, until)
    \/ TryLockShared(c) \/ Promote(c) \/ Releases(c)
    \/ WakeOwning(c) \/ WakeExpired(c) \/ WakeInVain(c) \/ WakeThrown(c)
    \/ Expire(c) \/ Doze(c) \/ WakeElsewhere(c) \/ Notify(c) \/ Interrupted(c)

Spec == Init /\ [][Next]_vars

-----------------------------------------------------------------------------
(* Properties *)

Holding(what) == {c \in Ctxs : holds[c] = what}

\* Whoever was given unique ownership excludes every sharer and every other one,
\* through promotions, downgrades, failed attempts and barging.
Exclusion ==
  \A c, e \in Ctxs : holds[c] = "unique" /\ holds[e] \in {"unique", "shared"} => c = e

\* While nobody is unique, s is the number of contexts that were given a share.
SharesCounted == Holding("unique") = {} => s = Cardinality(Holding("shared"))

\* A unique owner is alone, and the count of shares is that of the holders.
SharesAgree == Exclusion /\ SharesCounted

\* The dock holds exactly who waits in it, each once.
WaitersQueued ==
  /\ ToSet(q) = {c \in Ctxs : wants[c] # "nothing"}
  /\ Len(q) = Cardinality(ToSet(q))

-----------------------------------------------------------------------------
(* Why they hold: the inductive invariant of TasksProofs *)

LockTypes ==
  /\ u \in Ctxs \cup {None} /\ s \in Int
  /\ holds \in [Ctxs -> Modes \cup {"nothing"}] /\ wants \in [Ctxs -> Wants]

\* Only one context has the upgrade or unique lock, the one u says.
OwnerKnown == \A c \in Ctxs : holds[c] \in {"upgrade", "unique"} => u = c

\* A unique owner is told by the sign of s.
UniqueMarked == Holding("unique") # {} => Holding("shared") = {} /\ s < 0

\* Whoever waits for a lock holds what it is to be exchanged for, and nothing else.
WaitersLack == \A c \in Ctxs : wants[c] # "nothing" => holds[c] = Lacks(wants[c])

LockInv == LockTypes /\ OwnerKnown /\ UniqueMarked /\ SharesCounted /\ WaitersLack
=============================================================================
