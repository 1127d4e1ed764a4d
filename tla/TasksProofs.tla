----------------------------- MODULE TasksProofs -----------------------------
(***************************************************************************)
(* Proofs about the parts of MCTasks, for any sets of contexts, callers    *)
(* and threads: the shared mutex, as long as nobody steals it from an      *)
(* upgrading context, the pthread interface, as long as no other join and  *)
(* no creation moves the vector under a join, a view with one producer,    *)
(* and concurrent calls of three items over a pool that holds two jobs.    *)
(***************************************************************************)
EXTENDS MCTasks, QueueLemmas

-----------------------------------------------------------------------------
(* Shared mutex *)

\* One context more, or less, in a set of contexts counts one.
LEMMA Counts ==
  ASSUME NEW X \in SUBSET Ctxs, NEW c \in Ctxs
  PROVE  /\ Cardinality(X) \in Nat
         /\ c \notin X => Cardinality(X \cup {c}) = Cardinality(X) + 1
         /\ c \in X => Cardinality(X \ {c}) = Cardinality(X) - 1
         /\ Cardinality(X) = 0 => X = {}
         /\ Cardinality({}) = 0
         /\ c \in X /\ Cardinality(X) = 1 => X = {c}
<1>1. IsFiniteSet(X)
  BY FiniteAssumption, FS_Subset
<1>2. Cardinality(X) \in Nat
  BY <1>1, FS_CardinalityType
<1>3. c \notin X => Cardinality(X \cup {c}) = Cardinality(X) + 1
  BY <1>1, FS_AddElement
<1>4. c \in X => Cardinality(X \ {c}) = Cardinality(X) - 1 /\ IsFiniteSet(X \ {c})
  BY <1>1, FS_RemoveElement
<1>5. /\ Cardinality({}) = 0
      /\ Cardinality(X) = 0 => X = {}
      /\ c \in X /\ Cardinality(X \ {c}) = 0 => X \ {c} = {}
  BY <1>1, <1>4, FS_EmptySet
<1>6. QED BY <1>2, <1>3, <1>4, <1>5

\* Who holds what after one context changed what it holds.
LEMMA HoldersChange ==
  ASSUME LockTypes, NEW c \in Ctxs, NEW new \in Modes \cup {"nothing"},
         holds' = [holds EXCEPT ![c] = new]
  PROVE  \A what :
             Holding(what)' = IF new = what THEN Holding(what) \cup {c}
                              ELSE Holding(what) \ {c}
BY DEF LockTypes, Holding

\* A new shared mutex is free, and LockInv says so.
LEMMA InitLockInv == Init => LockInv
<1> SUFFICES ASSUME Init PROVE LockInv
  OBVIOUS
<1>1. LockTypes /\ OwnerKnown /\ WaitersLack
  BY DEF Init, MutexInit, LockTypes, OwnerKnown, WaitersLack, Modes, Wants
<1>2. Holding("unique") = {} /\ Holding("shared") = {}
  BY DEF Init, MutexInit, Holding
<1>3. Cardinality({}) = 0
  BY FS_EmptySet
<1>4. QED BY <1>1, <1>2, <1>3 DEF Init, MutexInit, LockInv, UniqueMarked, SharesCounted

\* Taking a lock in any mode, at once or out of the dock.
LEMMA Taking ==
  ASSUME LockInv, NEW c \in Ctxs, NEW mode \in Modes \cup {"promote"},
         Can(c, mode), holds[c] = Lacks(mode), Take(c, mode),
         \/ wants[c] = "nothing" /\ wants' = wants
         \/ wants' = [wants EXCEPT ![c] = "nothing"]
  PROVE  LockInv'
<1> USE DEF LockInv
<1> DEFINE new == IF mode = "promote" THEN "unique" ELSE mode
<1>1. /\ new \in Modes /\ holds' = [holds EXCEPT ![c] = new]
      /\ \A e \in Ctxs : holds'[e] = IF e = c THEN new ELSE holds[e]
  BY DEF Take, Modes, LockTypes
<1>2. \A what :
          Holding(what)' = IF new = what THEN Holding(what) \cup {c}
                           ELSE Holding(what) \ {c}
  BY <1>1, HoldersChange
<1>3. Holding("shared") \subseteq Ctxs /\ Holding("unique") \subseteq Ctxs
      /\ c \notin Holding("shared") /\ c \notin Holding("unique")
  BY DEF Holding, Lacks, Modes
<1>4. Cardinality(Holding("shared")) \in Nat
  BY <1>3, Counts
<1>5. LockTypes'
  BY <1>1, LeastAssumption DEF Take, LockTypes, Modes, Wants
<1>6. OwnerKnown'
  BY <1>1, NoneAssumption DEF OwnerKnown, Take, Can, can_lock, can_lock_upgrade, Lacks, Modes, LockTypes
<1>7. WaitersLack'
  BY <1>1 DEF WaitersLack, LockTypes, Wants
<1>8. Holding("unique") = {}
  <2>1. CASE mode = "upgrade"
    BY <2>1, NoneAssumption DEF Can, can_lock_upgrade, OwnerKnown, Holding
  <2>2. CASE mode = "shared"
    BY <2>2 DEF Can, can_lock_shared, UniqueMarked, LockTypes
  <2>3. CASE mode \in {"unique", "promote"}
    <3>1. can_lock(c)
      BY <2>3 DEF Can
    <3>2. QED BY <3>1 DEF can_lock, UniqueMarked, LockTypes
  <2>4. QED BY <2>1, <2>2, <2>3 DEF Modes
<1>9. s = Cardinality(Holding("shared"))
  BY <1>8 DEF SharesCounted
<1>10. UniqueMarked' /\ SharesCounted'
  <2>1. CASE mode \in {"unique", "promote"}
    <3>1. s = 0 /\ new = "unique"
      BY <2>1 DEF Can, can_lock
    <3>2. Holding("shared") = {}
      BY <3>1, <1>3, <1>9, Counts
    <3>3. Holding("shared")' = {} /\ Holding("unique")' = {c}
      BY <3>1, <3>2, <1>2, <1>8
    <3>4. s' = Least
      BY <2>1 DEF Take
    <3>5. QED BY <3>3, <3>4, LeastAssumption DEF UniqueMarked, SharesCounted
  <2>2. CASE mode = "shared"
    <3>1. Holding("shared")' = Holding("shared") \cup {c} /\ Holding("unique")' = {}
      BY <2>2, <1>2, <1>8
    <3>2. s' = Cardinality(Holding("shared")')
      BY <2>2, <1>3, <1>9, <3>1, Counts DEF Take
    <3>3. QED BY <3>1, <3>2 DEF UniqueMarked, SharesCounted
  <2>3. CASE mode = "upgrade"
    <3>1. Holding("shared")' = Holding("shared") /\ Holding("unique")' = {}
      BY <2>3, <1>2, <1>3, <1>8
    <3>2. QED BY <2>3, <3>1, <1>9 DEF UniqueMarked, SharesCounted, Take
  <2>4. QED BY <2>1, <2>2, <2>3 DEF Modes
<1>11. QED BY <1>5, <1>6, <1>7, <1>10

\* What an action of a context that waits for nothing leaves alone.
LEMMA Changing ==
  ASSUME LockInv, NEW c \in Ctxs, NEW new \in Modes \cup {"nothing"}, wants[c] = "nothing",
         holds' = [holds EXCEPT ![c] = new], wants' = wants,
         s' \in Int, u' \in Ctxs \cup {None}
  PROVE  /\ LockTypes' /\ WaitersLack'
         /\ \A e \in Ctxs : holds'[e] = IF e = c THEN new ELSE holds[e]
         /\ \A what :
                Holding(what)' = IF new = what THEN Holding(what) \cup {c}
                                 ELSE Holding(what) \ {c}
         /\ \A what : Holding(what) \in SUBSET Ctxs /\ Cardinality(Holding(what)) \in Nat
<1>1. LockTypes /\ WaitersLack
  BY DEF LockInv
<1>2. \A e \in Ctxs : holds'[e] = IF e = c THEN new ELSE holds[e]
  BY <1>1 DEF LockTypes
<1>3. LockTypes' /\ WaitersLack'
  BY <1>1, <1>2 DEF LockTypes, WaitersLack
<1>4. \A what : Holding(what) \in SUBSET Ctxs
  BY DEF Holding
<1>5. \A what : Cardinality(Holding(what)) \in Nat
  BY <1>4, Counts
<1>6. \A what :
          Holding(what)' = IF new = what THEN Holding(what) \cup {c}
                           ELSE Holding(what) \ {c}
  BY <1>1, HoldersChange
<1>7. QED BY <1>2, <1>3, <1>4, <1>5, <1>6

\* A context gives up the unique lock, for nothing, a share or the upgrade.
LEMMA ReleasingUnique ==
  ASSUME LockInv, NEW c \in Ctxs,
         unlock(c) \/ unlock_and_lock_shared(c) \/ unlock_and_lock_upgrade(c)
  PROVE  LockInv'
<1> DEFINE new == holds'[c]
<1>1. /\ LockTypes /\ OwnerKnown /\ UniqueMarked /\ wants[c] = "nothing" /\ holds[c] = "unique"
      /\ wants' = wants /\ u' = u /\ u = c
  BY DEF LockInv, LockTypes, OwnerKnown, unlock, unlock_and_lock_shared, unlock_and_lock_upgrade, Give, Has
<1>2. /\ holds' = [holds EXCEPT ![c] = new] /\ new \in {"nothing", "shared", "upgrade"}
      /\ s' = IF new = "shared" THEN 1 ELSE 0
  BY <1>1 DEF LockTypes, unlock, unlock_and_lock_shared, unlock_and_lock_upgrade, Give
<1> HIDE DEF new
<1>3. /\ LockTypes' /\ WaitersLack'
      /\ \A e \in Ctxs : holds'[e] = IF e = c THEN new ELSE holds[e]
      /\ \A what :
             Holding(what)' = IF new = what THEN Holding(what) \cup {c}
                              ELSE Holding(what) \ {c}
  <2>1. new \in Modes \cup {"nothing"} /\ s' \in Int /\ u' \in Ctxs \cup {None}
    BY <1>1, <1>2 DEF Modes
  <2>2. QED BY <1>1, <1>2, <2>1, Changing
<1>4. OwnerKnown'
  BY <1>1, <1>2, <1>3 DEF OwnerKnown
<1>5. Holding("unique") = {c} /\ Holding("shared") = {}
  BY <1>1 DEF Holding, OwnerKnown, UniqueMarked
<1>6. Holding("unique")' = {} /\ Holding("shared")' = IF new = "shared" THEN {c} ELSE {}
  BY <1>2, <1>3, <1>5
<1>7. Cardinality({}) = 0 /\ Cardinality({c}) = 1
  BY FS_EmptySet, FS_Singleton
<1>8. UniqueMarked' /\ SharesCounted'
  BY <1>2, <1>6, <1>7 DEF UniqueMarked, SharesCounted
<1>9. QED BY <1>3, <1>4, <1>8 DEF LockInv

\* A context gives up the upgrade, for nothing or for a share.
LEMMA ReleasingUpgrade ==
  ASSUME LockInv, NEW c \in Ctxs, unlock_upgrade(c) \/ unlock_upgrade_and_lock_shared(c)
  PROVE  LockInv'
<1> DEFINE new == holds'[c]
<1>1. /\ LockTypes /\ OwnerKnown /\ SharesCounted /\ wants[c] = "nothing" /\ holds[c] = "upgrade"
      /\ wants' = wants /\ u' = None /\ u = c
  BY DEF LockInv, LockTypes, OwnerKnown, unlock_upgrade, unlock_upgrade_and_lock_shared, Give, Has
<1>2. /\ holds' = [holds EXCEPT ![c] = new] /\ new \in {"nothing", "shared"}
      /\ s' = IF new = "shared" THEN s + 1 ELSE s
  BY <1>1 DEF LockTypes, unlock_upgrade, unlock_upgrade_and_lock_shared, Give
<1> HIDE DEF new
<1>3. /\ LockTypes' /\ WaitersLack'
      /\ \A e \in Ctxs : holds'[e] = IF e = c THEN new ELSE holds[e]
      /\ \A what :
             Holding(what)' = IF new = what THEN Holding(what) \cup {c}
                              ELSE Holding(what) \ {c}
      /\ \A what : Holding(what) \in SUBSET Ctxs
  <2>1. new \in Modes \cup {"nothing"} /\ s' \in Int /\ u' \in Ctxs \cup {None}
    BY <1>1, <1>2 DEF Modes, LockTypes
  <2>2. QED BY <1>1, <1>2, <2>1, Changing
<1>4. OwnerKnown'
  BY <1>1, <1>2, <1>3 DEF OwnerKnown
<1>5. Holding("unique") = {} /\ c \notin Holding("shared")
  BY <1>1 DEF Holding, OwnerKnown
<1>6. Holding("unique")' = {} /\ s = Cardinality(Holding("shared"))
  BY <1>1, <1>2, <1>3, <1>5 DEF SharesCounted
<1>7. s' = Cardinality(Holding("shared")')
  <2>1. CASE new = "shared"
    BY <2>1, <1>2, <1>3, <1>5, <1>6, Counts
  <2>2. CASE new = "nothing"
    BY <2>2, <1>2, <1>3, <1>5, <1>6
  <2>3. QED BY <2>1, <2>2, <1>2
<1>8. QED BY <1>3, <1>4, <1>6, <1>7 DEF LockInv, UniqueMarked, SharesCounted

\* A context gives up its share, or exchanges it for the upgrade or the unique lock.
LEMMA LeavingShares ==
  ASSUME Steals = FALSE, LockInv, NEW c \in Ctxs, unlock_shared(c) \/ Promote(c)
  PROVE  LockInv'
<1> DEFINE new == holds'[c]
<1>1. /\ LockTypes /\ OwnerKnown /\ UniqueMarked /\ SharesCounted
      /\ wants[c] = "nothing" /\ holds[c] = "shared" /\ wants' = wants
  BY DEF LockInv, LockTypes, unlock_shared, Promote, Give, Has
<1>2. /\ holds' = [holds EXCEPT ![c] = new]
      /\ \/ new = "nothing" /\ s' = s - 1 /\ u' = u
         \/ new = "upgrade" /\ s' = s - 1 /\ u = None /\ u' = c
         \/ new = "unique" /\ s = 1 /\ s' = Least /\ u = None /\ u' = c
  BY <1>1 DEF LockTypes, unlock_shared, Promote, Take, Give, can_lock_upgrade
<1> HIDE DEF new
<1>3. /\ LockTypes' /\ WaitersLack'
      /\ \A e \in Ctxs : holds'[e] = IF e = c THEN new ELSE holds[e]
      /\ \A what :
             Holding(what)' = IF new = what THEN Holding(what) \cup {c}
                              ELSE Holding(what) \ {c}
      /\ \A what : Holding(what) \in SUBSET Ctxs
  <2>1. new \in Modes \cup {"nothing"} /\ s' \in Int /\ u' \in Ctxs \cup {None}
    BY <1>1, <1>2, LeastAssumption DEF Modes, LockTypes
  <2>2. QED BY <1>1, <1>2, <2>1, Changing
<1>4. OwnerKnown'
  BY <1>1, <1>2, <1>3, NoneAssumption DEF OwnerKnown
<1>5. c \in Holding("shared") /\ Holding("unique") = {} /\ s = Cardinality(Holding("shared"))
  BY <1>1 DEF Holding, UniqueMarked, SharesCounted
<1>6. Holding("shared")' = Holding("shared") \ {c}
  BY <1>2, <1>3
<1>7. Cardinality(Holding("shared")') = s - 1 /\ (s = 1 => Holding("shared") = {c})
  BY <1>3, <1>5, <1>6, Counts
<1>8. UniqueMarked' /\ SharesCounted'
  <2>1. CASE new = "unique"
    <3>1. Holding("unique")' = {c} /\ Holding("shared")' = {}
      BY <2>1, <1>2, <1>3, <1>5, <1>6, <1>7
    <3>2. QED BY <2>1, <3>1, <1>2, LeastAssumption DEF UniqueMarked, SharesCounted
  <2>2. CASE new # "unique"
    <3>1. Holding("unique")' = {}
      BY <2>2, <1>3, <1>5
    <3>2. QED BY <2>2, <3>1, <1>2, <1>7 DEF UniqueMarked, SharesCounted
  <2>3. QED BY <2>1, <2>2
<1>9. QED BY <1>3, <1>4, <1>8 DEF LockInv

\* try_lock_shared(): a share, or a failure that moves the mark of the unique owner.
LEMMA Trying ==
  ASSUME LockInv, NEW c \in Ctxs, TryLockShared(c)
  PROVE  LockInv'
<1>1. /\ LockTypes /\ OwnerKnown /\ UniqueMarked /\ SharesCounted /\ WaitersLack
      /\ wants[c] = "nothing" /\ holds[c] = "nothing" /\ wants' = wants /\ u' = u
      /\ s \in Int /\ s # -1 /\ s' = s + 1
  BY DEF LockInv, LockTypes, TryLockShared, Has
<1>2. CASE s' >= 0
  <2>1. holds' = [holds EXCEPT ![c] = "shared"]
    BY <1>2 DEF TryLockShared
  <2>2. /\ LockTypes' /\ WaitersLack'
        /\ \A e \in Ctxs : holds'[e] = IF e = c THEN "shared" ELSE holds[e]
        /\ Holding("shared")' = Holding("shared") \cup {c}
        /\ Holding("unique")' = Holding("unique") \ {c}
    <3>1. "shared" \in Modes \cup {"nothing"} /\ s' \in Int /\ u' \in Ctxs \cup {None}
      BY <1>1 DEF Modes, LockTypes
    <3>2. QED BY <1>1, <2>1, <3>1, Changing
  <2>3. OwnerKnown'
    BY <1>1, <2>2 DEF OwnerKnown
  <2>4. Holding("unique") = {} /\ c \notin Holding("shared") /\ Holding("shared") \in SUBSET Ctxs
    BY <1>1, <1>2 DEF UniqueMarked, Holding
  <2>5. s' = Cardinality(Holding("shared")')
    BY <1>1, <2>2, <2>4, Counts DEF SharesCounted
  <2>6. QED BY <2>2, <2>3, <2>4, <2>5 DEF LockInv, UniqueMarked, SharesCounted
<1>3. CASE ~ (s' >= 0)
  <2>1. holds' = holds
    BY <1>1, <1>3 DEF TryLockShared, LockTypes
  <2>2. \A what : Holding(what)' = Holding(what)
    BY <2>1 DEF Holding
  <2>3. Holding("unique") # {}
    <3>1. Cardinality(Holding("shared")) \in Nat
      BY Counts, NoneAssumption DEF Holding
    <3>2. QED BY <1>1, <1>3, <3>1 DEF SharesCounted
  <2>4. LockTypes' /\ OwnerKnown' /\ WaitersLack'
    BY <1>1, <2>1 DEF LockTypes, OwnerKnown, WaitersLack
  <2>5. QED BY <1>1, <1>3, <2>2, <2>3, <2>4 DEF LockInv, UniqueMarked, SharesCounted
<1>4. QED BY <1>2, <1>3

\* A context begins to wait, or leaves the dock with nothing, or does neither.
LEMMA Waiting ==
  ASSUME LockInv, NEW c \in Ctxs, u' = u, s' = s, holds' = holds,
         \/ wants' = wants \/ wants' = [wants EXCEPT ![c] = "nothing"]
         \/ \E mode \in Modes \cup {"promote"} :
              holds[c] = Lacks(mode) /\ wants' = [wants EXCEPT ![c] = mode]
  PROVE  LockInv'
<1>1. OwnerKnown' /\ UniqueMarked' /\ SharesCounted'
  BY DEF LockInv, OwnerKnown, UniqueMarked, SharesCounted, Holding
<1>2. LockTypes'
  BY DEF LockInv, LockTypes, Wants
<1>3. WaitersLack'
  BY DEF LockInv, LockTypes, WaitersLack
<1>4. QED BY <1>1, <1>2, <1>3 DEF LockInv

\* Every step of the contexts keeps LockInv.
LEMMA NextLockInv == Steals = FALSE /\ LockInv /\ [Next]_vars => LockInv'
<1> SUFFICES ASSUME Steals = FALSE, LockInv, [Next]_vars PROVE LockInv'
  OBVIOUS
<1>1. CASE UNCHANGED vars
  BY <1>1 DEF vars, mutex, LockInv, LockTypes, OwnerKnown, UniqueMarked, SharesCounted,
     WaitersLack, Holding
<1>2. ASSUME NEW c \in Ctxs, NEW mode \in Modes \cup {"promote"}, Lock(c, mode) PROVE LockInv'
  BY <1>2, Taking DEF Lock, Has
<1>3. ASSUME NEW c \in Ctxs, NEW mode \in Modes \cup {"promote"}, NEW until \in {"never", "timed"},
             Contend(c, mode, until)
      PROVE  LockInv'
  BY <1>3, Waiting DEF Contend, Has
<1>4. ASSUME NEW c \in Ctxs, TryLockShared(c) \/ Promote(c) \/ Releases(c) PROVE LockInv'
  BY <1>4, Trying, LeavingShares, ReleasingUnique, ReleasingUpgrade DEF Releases
<1>5. ASSUME NEW c \in Ctxs, WakeOwning(c) PROVE LockInv'
  <2>1. wants[c] \in Modes \cup {"promote"} /\ holds[c] = Lacks(wants[c])
    BY <1>5 DEF WakeOwning, Woken, LockInv, LockTypes, WaitersLack, Wants
  <2>2. Can(c, wants[c]) /\ Take(c, wants[c]) /\ wants' = [wants EXCEPT ![c] = "nothing"]
    BY <1>5 DEF WakeOwning, Out
  <2>3. QED BY <2>1, <2>2, Taking
<1>6. ASSUME NEW c \in Ctxs,
             \/ WakeExpired(c) \/ WakeInVain(c) \/ WakeThrown(c) \/ Expire(c) \/ Doze(c)
             \/ WakeElsewhere(c) \/ Notify(c) \/ Interrupted(c)
      PROVE  LockInv'
  <2>1. u' = u /\ s' = s /\ holds' = holds
        /\ (wants' = wants \/ wants' = [wants EXCEPT ![c] = "nothing"])
    BY <1>6 DEF WakeExpired, WakeInVain, WakeThrown, Expire, Doze, WakeElsewhere, Notify,
       Interrupted, Out, mutex
  <2>2. QED BY <2>1, Waiting
<1>7. QED BY <1>1, <1>2, <1>3, <1>4, <1>5, <1>6 DEF Next

\* shared_mutex keeps its invariant as long as try_unlock_shared_and_lock() is called as it
\* asserts, with nobody upgrading.
THEOREM LockInvariance == ASSUME Steals = FALSE PROVE Spec => []LockInv
<1>1. LockInv /\ [Next]_vars => LockInv'
  BY NextLockInv
<1>2. QED BY <1>1, InitLockInv, PTL DEF Spec

\* However the lock functions, the deadlines, the interruptions and the failed attempts of any
\* number of contexts interleave, no unique owner is beside a sharer, and s counts the shares.
THEOREM Sharing == ASSUME Steals = FALSE PROVE Spec => []SharesAgree
<1>1. LockInv => SharesAgree
  BY DEF LockInv, SharesAgree, Exclusion, OwnerKnown, UniqueMarked, Holding
<1>2. QED BY <1>1, LockInvariance, PTL

-----------------------------------------------------------------------------
(* pthread emulation *)

\* The library as the module has it.
LEMMA SameCardinality == \A x : T!Cardinality(x) = Cardinality(x)
BY DEF T!Cardinality, Cardinality, T!IsFiniteSet, IsFiniteSet, T!ExistsBijection, ExistsBijection

\* A process begins without threads, calls or objects in use.
LEMMA PosixInit == T!Init => T!IInv
<1> SUFFICES ASSUME T!Init PROVE T!IInv
  OBVIOUS
<1>1. 0 \in (-9)..Cardinality(Callers)
  BY PartiesAssumption, FS_CardinalityType
<1>2. T!TypeOK
  BY <1>1, SameCardinality DEF T!Init, T!TypeOK, T!Errors, T!NoJoin, T!Lowest, T!Shares
<1>3. T!VectorOnce /\ T!JoinerPoints /\ T!RunsOnce /\ T!OnceMarked /\ T!NotDestroyedInUse
  BY DEF T!Init, T!VectorOnce, T!JoinerPoints, T!RunsOnce, T!OnceMarked, T!NotDestroyedInUse
<1>4. QED BY <1>2, <1>3 DEF T!IInv

\* The threads: an element of the vector is erased by who joins it, alone, and the vector
\* does not move under it.
LEMMA PosixThreads ==
  T!IInv /\ T!ThreadsNext /\ UNCHANGED <<onceVars, objectVars>> => T!IInv'
<1> SUFFICES ASSUME T!IInv, T!ThreadsNext, UNCHANGED <<onceVars, objectVars>> PROVE T!IInv'
  OBVIOUS
<1> USE DEF T!IInv
<1>1. /\ hook \in {-1, 0, 1} /\ threadv \in Seq(Threads) /\ room \in Nat
      /\ thread \in [Threads -> {"none", "real", "posted", "running", "finished"}]
      /\ joins \in [Callers -> [thread : Threads, at : Nat] \cup {T!NoJoin}]
      /\ woken \subseteq Callers
  BY DEF T!TypeOK
<1>2. /\ T!RunsOnce' /\ T!OnceMarked' /\ T!NotDestroyedInUse'
      /\ (ret' \in {"zero", "none"} /\ hook' \in {-1, 0, 1} /\ threadv' \in Seq(Threads)
          /\ room' \in Nat
          /\ thread' \in [Threads -> {"none", "real", "posted", "running", "finished"}]
          /\ joins' \in [Callers -> [thread : Threads, at : Nat] \cup {T!NoJoin}]
          /\ woken' \subseteq Callers => T!TypeOK')
  BY DEF T!TypeOK, T!RunsOnce, T!OnceMarked, T!NotDestroyedInUse, T!Inside, T!Of, onceVars, objectVars
<1>3. DOMAIN threadv = 1..Len(threadv) /\ Len(threadv) \in Nat
  BY <1>1, LenProperties
<1>4. ASSUME NEW to \in {-1, 1}, T!Scope(to) \/ T!EndScope PROVE T!IInv'
  BY <1>1, <1>2, <1>4 DEF T!Scope, T!EndScope, T!Suspends, T!VectorOnce, T!JoinerPoints
<1>5. ASSUME NEW x \in Threads, T!create(x) PROVE T!IInv'
  <2>0. joins' = joins /\ room' \in Nat
    <3>1. CASE UNCHANGED <<room, joins>>
      BY <1>1, <3>1
    <3>2. CASE T!Moves /\ \A e \in Callers : joins[e] = T!NoJoin
      <4>1. joins' = [e \in Callers |-> T!NoJoin]
        BY <3>2 DEF T!Moves
      <4>2. joins = [e \in Callers |-> T!NoJoin]
        BY <1>1, <3>2
      <4>3. room' \in Nat
        BY <1>1, <3>2 DEF T!Moves
      <4>4. QED BY <4>1, <4>2, <4>3
    <3>3. QED BY <1>5, <3>1, <3>2 DEF T!create
  <2>1. /\ thread[x] = "none" /\ hook' = hook /\ joins' = joins /\ woken' = woken /\ ret' = "zero"
        /\ room' \in Nat
        /\ thread' \in [Threads -> {"none", "real", "posted", "running", "finished"}]
        /\ thread'[x] # "none" /\ \A y \in Threads \ {x} : thread'[y] = thread[y]
    <3>1. thread' = [thread EXCEPT ![x] = "posted"] \/ thread' = [thread EXCEPT ![x] = "real"]
      BY <1>5 DEF T!create
    <3>2. /\ thread' \in [Threads -> {"none", "real", "posted", "running", "finished"}]
          /\ thread'[x] # "none" /\ \A y \in Threads \ {x} : thread'[y] = thread[y]
      BY <1>1, <3>1
    <3>3. QED BY <1>5, <2>0, <3>2 DEF T!create, T!Answers
  <2>2. CASE threadv' = threadv
    <3>1. T!VectorOnce'
      BY <1>1, <1>3, <2>1, <2>2 DEF T!VectorOnce
    <3>2. T!JoinerPoints'
      BY <2>1, <2>2 DEF T!JoinerPoints
    <3>3. QED BY <1>1, <1>2, <2>1, <2>2, <3>1, <3>2
  <2>3. CASE threadv' = Append(threadv, x)
    <3>1. /\ threadv' \in Seq(Threads) /\ Len(threadv') = Len(threadv) + 1
          /\ \A i \in 1..Len(threadv) : threadv'[i] = threadv[i]
          /\ threadv'[Len(threadv) + 1] = x
      BY <1>1, <2>3, AppendProperties
    <3>2. DOMAIN threadv' = 1..(Len(threadv) + 1)
      BY <3>1, LenProperties
    <3>3. T!VectorOnce'
      <4>1. \A i \in 1..Len(threadv) : threadv[i] \in Threads \ {x} /\ thread[threadv[i]] # "none"
        <5>1. \A i \in 1..Len(threadv) : threadv[i] \in Threads
          BY <1>1, ElementOfSeq
        <5>2. QED BY <1>3, <2>1, <5>1 DEF T!VectorOnce
      <4>2. \A i \in DOMAIN threadv' : i \in 1..Len(threadv) \/ i = Len(threadv) + 1
        BY <1>3, <3>2
      <4>3. ASSUME NEW i \in DOMAIN threadv', NEW j \in DOMAIN threadv', threadv'[i] = threadv'[j]
            PROVE  i = j
        <5>1. i \in 1..Len(threadv) /\ j \in 1..Len(threadv) => i = j
          BY <1>3, <3>1, <4>3 DEF T!VectorOnce
        <5>2. QED BY <3>1, <4>1, <4>2, <4>3, <5>1
      <4>4. ASSUME NEW i \in DOMAIN threadv' PROVE thread'[threadv'[i]] # "none"
        BY <2>1, <3>1, <4>1, <4>2
      <4>5. QED BY <4>3, <4>4 DEF T!VectorOnce
    <3>4. T!JoinerPoints'
      BY <1>1, <1>3, <2>1, <3>1, <3>2 DEF T!JoinerPoints
    <3>5. QED BY <1>1, <1>2, <2>1, <3>1, <3>3, <3>4
  <2>4. QED BY <1>5, <2>2, <2>3 DEF T!create
<1>6. ASSUME NEW x \in Threads, T!Start(x) \/ T!Finish(x) PROVE T!IInv'
  <2>1. /\ hook' = hook /\ threadv' = threadv /\ joins' = joins /\ ret' = "none" /\ room' = room
        /\ thread' \in [Threads -> {"none", "real", "posted", "running", "finished"}]
        /\ woken' \subseteq Callers
        /\ \A y \in Threads : thread[y] # "none" => thread'[y] # "none"
    BY <1>1, <1>6 DEF T!Start, T!Finish, T!Suspends
  <2>2. T!VectorOnce' /\ T!JoinerPoints'
    BY <1>1, <1>3, <2>1 DEF T!VectorOnce, T!JoinerPoints
  <2>3. QED BY <1>1, <1>2, <2>1, <2>2
<1>7. ASSUME NEW i \in DOMAIN threadv, threadv' = T!Erased(i), thread' = thread, hook' = hook,
             room' = room, \A c \in Callers : joins'[c] = T!NoJoin,
             joins' \in [Callers -> [thread : Threads, at : Nat] \cup {T!NoJoin}],
             woken' \subseteq Callers, ret' = "zero"
      PROVE  T!IInv'
  <2>1. threadv' = RemoveAt(threadv, i)
    BY <1>7 DEF T!Erased, T!RemoveAt, RemoveAt
  <2>2. /\ threadv' \in Seq(Threads) /\ Len(threadv') = Len(threadv) - 1
        /\ \A j \in 1..(Len(threadv) - 1) :
             threadv'[j] = IF j < i THEN threadv[j] ELSE threadv[j + 1]
    BY <1>1, <1>3, <2>1, RemoveAtElements
  <2>3. DOMAIN threadv' = 1..(Len(threadv) - 1)
    BY <2>2, LenProperties
  <2>4. T!VectorOnce'
    <3>1. ASSUME NEW a \in DOMAIN threadv', NEW b \in DOMAIN threadv', threadv'[a] = threadv'[b]
          PROVE  a = b
      <4>1. PICK k, l \in DOMAIN threadv :
              /\ threadv'[a] = threadv[k] /\ threadv'[b] = threadv[l]
              /\ k = (IF a < i THEN a ELSE a + 1) /\ l = (IF b < i THEN b ELSE b + 1)
        BY <1>3, <2>2, <2>3
      <4>2. k = l
        BY <3>1, <4>1 DEF T!VectorOnce
      <4>3. a \in Int /\ b \in Int /\ i \in Int
        BY <1>3, <2>3
      <4>4. QED BY <4>1, <4>2, <4>3
    <3>2. ASSUME NEW j \in DOMAIN threadv' PROVE thread'[threadv'[j]] # "none"
      <4>1. PICK k \in DOMAIN threadv : threadv'[j] = threadv[k]
        BY <1>3, <2>2, <2>3
      <4>2. thread[threadv[k]] # "none"
        BY DEF T!VectorOnce
      <4>3. QED BY <1>7, <4>1, <4>2
    <3>3. QED BY <3>1, <3>2 DEF T!VectorOnce
  <2>5. T!JoinerPoints'
    BY <1>7 DEF T!JoinerPoints
  <2>6. QED BY <1>1, <1>2, <1>7, <2>2, <2>4, <2>5
<1>8. ASSUME NEW c \in Callers, NEW x \in Threads, T!join(c, x) PROVE T!IInv'
  <2> DEFINE i == CHOOSE i \in DOMAIN threadv : threadv[i] = x
  <2>1. i \in DOMAIN threadv /\ threadv[i] = x
    BY <1>8 DEF T!join, ToSet, T!ToSet
  <2>2. \A e \in Callers : joins[e] = T!NoJoin
    BY <1>8 DEF T!join
  <2>3. \/ threadv' = T!Erased(i) /\ joins' = joins /\ ret' = "zero"
        \/ joins' = [joins EXCEPT ![c] = [thread |-> x, at |-> i]] /\ threadv' = threadv
           /\ ret' = "none"
    BY <1>8 DEF T!join, T!Answers, T!Suspends
  <2>4. hook' = hook /\ thread' = thread /\ woken' = woken /\ room' = room
    BY <1>8 DEF T!join
  <2> HIDE DEF i
  <2>5. CASE threadv' = T!Erased(i) /\ joins' = joins /\ ret' = "zero"
    BY <1>1, <1>7, <2>1, <2>2, <2>4, <2>5
  <2>6. CASE joins' = [joins EXCEPT ![c] = [thread |-> x, at |-> i]] /\ threadv' = threadv
             /\ ret' = "none"
    <3>1. [thread |-> x, at |-> i] \in [thread : Threads, at : Nat]
      BY <1>3, <2>1
    <3>2. /\ joins' \in [Callers -> [thread : Threads, at : Nat] \cup {T!NoJoin}]
          /\ joins'[c] = [thread |-> x, at |-> i]
          /\ \A e \in Callers \ {c} : joins'[e] = T!NoJoin
      BY <1>1, <2>2, <2>6, <3>1
    <3>3. T!VectorOnce' /\ T!JoinerPoints'
      BY <2>1, <2>4, <2>6, <3>2 DEF T!VectorOnce, T!JoinerPoints
    <3>4. QED BY <1>1, <1>2, <2>4, <2>6, <3>2, <3>3
  <2>7. QED BY <2>3, <2>5, <2>6
<1>9. ASSUME NEW c \in Callers, T!Join(c) PROVE T!IInv'
  <2>1. /\ joins[c] # T!NoJoin /\ woken' \subseteq Callers /\ hook' = hook /\ thread' = thread
        /\ room' = room
    BY <1>1, <1>9 DEF T!Join, T!Joins
  <2>2. CASE T!Returns(c)
    <3>1. joins[c].at \in DOMAIN threadv
      BY <2>1 DEF T!JoinerPoints
    <3>2. \A e \in Callers : joins'[e] = T!NoJoin
      BY <1>1, <2>1, <2>2 DEF T!Returns, T!JoinerPoints
    <3>3. joins' \in [Callers -> [thread : Threads, at : Nat] \cup {T!NoJoin}]
      BY <1>1, <2>2 DEF T!Returns
    <3>4. QED BY <1>7, <2>1, <2>2, <3>1, <3>2, <3>3 DEF T!Returns, T!Answers
  <2>3. CASE T!Suspends /\ threadv' = threadv /\ joins' = joins
    <3>1. T!VectorOnce' /\ T!JoinerPoints'
      BY <2>1, <2>3 DEF T!VectorOnce, T!JoinerPoints
    <3>2. QED BY <1>1, <1>2, <2>1, <2>3, <3>1 DEF T!Suspends
  <2>4. QED BY <1>9, <2>2, <2>3 DEF T!Join
<1>10. QED BY <1>4, <1>5, <1>6, <1>8, <1>9 DEF T!ThreadsNext

\* pthread_once(): the flag is set before the routine runs.
LEMMA PosixOnce ==
  T!IInv /\ T!OnceNext /\ UNCHANGED <<threadVars, objectVars>> => T!IInv'
<1> SUFFICES ASSUME T!IInv, NEW c \in Callers, T!Once(c) \/ T!Inited(c),
                    UNCHANGED <<threadVars, objectVars>>
    PROVE  T!IInv'
  BY DEF T!OnceNext
<1> USE DEF T!IInv
<1>1. T!VectorOnce' /\ T!JoinerPoints' /\ T!NotDestroyedInUse'
  BY DEF T!VectorOnce, T!JoinerPoints, T!NotDestroyedInUse, T!Inside, threadVars, objectVars
<1>2. control \in {0, 1} /\ ran \in Nat /\ initer \in Callers \cup {None}
  BY DEF T!TypeOK
<1>3. control' = 1 /\ ran' \in Nat /\ T!RunsOnce' /\ initer' \in Callers \cup {None}
      /\ ret' \in {"zero", "none"}
  BY <1>2 DEF T!Once, T!Inited, T!RunsOnce, T!OnceMarked, T!Answers, T!Suspends
<1>4. T!TypeOK'
  BY <1>3 DEF T!TypeOK, threadVars, objectVars
<1>5. QED BY <1>1, <1>3, <1>4 DEF T!OnceMarked

\* The objects: destroyed under nobody, entered by nobody once destroyed.
LEMMA PosixObjects ==
  T!IInv /\ T!ObjectsNext /\ UNCHANGED <<threadVars, onceVars>> => T!IInv'
<1> SUFFICES ASSUME T!IInv, T!ObjectsNext, UNCHANGED <<threadVars, onceVars>> PROVE T!IInv'
  OBVIOUS
<1> USE DEF T!IInv
<1>1. /\ {owner, user} \subseteq Callers \cup {None} /\ shares \in (-9)..Cardinality(Callers)
      /\ inside \in [Callers -> T!Calls \cup {None}] /\ gone \subseteq T!Objects
  BY SameCardinality DEF T!TypeOK, T!Lowest, T!Shares
<1>2. T!VectorOnce' /\ T!JoinerPoints' /\ T!RunsOnce' /\ T!OnceMarked'
  BY DEF T!VectorOnce, T!JoinerPoints, T!RunsOnce, T!OnceMarked, threadVars, onceVars
<1>3. Cardinality(Callers) \in Nat
  BY PartiesAssumption, FS_CardinalityType
<1> DEFINE Typed == /\ ret' \in T!Errors \cup {"zero", "ETIMEDOUT", "none"}
                    /\ {owner', user'} \subseteq Callers \cup {None}
                    /\ shares' \in (-9)..Cardinality(Callers)
                    /\ inside' \in [Callers -> T!Calls \cup {None}] /\ gone' \subseteq T!Objects
<1>4. Typed => T!TypeOK'
  BY SameCardinality DEF T!TypeOK, threadVars, onceVars, T!Lowest, T!Shares
<1>5. ASSUME NEW c \in Callers, NEW call \in T!Calls, T!Enter(c, call) PROVE T!IInv'
  <2>1. Typed
    BY <1>1, <1>3, <1>5, SameCardinality DEF T!Enter, T!Passes, T!Gets, T!Answers, T!Suspends, T!Calls, T!Errors,
       T!Lowest, T!Shares
  <2>2. gone' = gone /\ T!Of(call) \notin gone
        /\ (inside' = inside \/ inside' = [inside EXCEPT ![c] = call])
    BY <1>5 DEF T!Enter
  <2>3. T!NotDestroyedInUse'
    BY <1>1, <2>2 DEF T!NotDestroyedInUse, T!Inside
  <2>4. QED BY <1>2, <1>4, <2>1, <2>3
<1>6. ASSUME NEW c \in Callers, T!Leave(c) PROVE T!IInv'
  <2>1. inside[c] \in T!Calls
    BY <1>1, <1>6 DEF T!Leave
  <2>2. Typed
    BY <1>1, <1>3, <1>6, <2>1, SameCardinality DEF T!Leave, T!Passes, T!Gets, T!Answers, T!Calls, T!Errors,
       T!Lowest, T!Shares
  <2>3. gone' = gone /\ inside' = [inside EXCEPT ![c] = None]
    BY <1>6 DEF T!Leave
  <2>4. T!NotDestroyedInUse'
    BY <1>1, <2>3 DEF T!NotDestroyedInUse, T!Inside
  <2>5. QED BY <1>2, <1>4, <2>2, <2>4
<1>7. ASSUME NEW c \in Callers, T!cond_wait(c) PROVE T!IInv'
  <2>1. Typed
    BY <1>1, <1>7 DEF T!cond_wait, T!Suspends, T!Calls
  <2>2. gone' = gone /\ "cond" \notin gone /\ inside' = [inside EXCEPT ![c] = "cond_wait"]
    BY <1>7 DEF T!cond_wait
  <2>3. T!Of("cond_wait") = "cond"
    BY DEF T!Of
  <2>4. T!NotDestroyedInUse'
    BY <1>1, <2>2, <2>3 DEF T!NotDestroyedInUse, T!Inside
  <2>5. QED BY <1>2, <1>4, <2>1, <2>4
<1>8. ASSUME NEW c \in Callers, NEW o \in T!Objects, T!destroy(c, o) \/ T!init(c, o) PROVE T!IInv'
  <2>1. Typed /\ inside' = inside
    BY <1>1, <1>8 DEF T!destroy, T!init, T!Answers, T!Errors
  <2>2. o \in {"rwlock", "cond"} /\ o \notin gone /\ o \in gone' => T!Inside(o) = {}
    BY <1>8 DEF T!destroy, T!init, T!busy
  <2>3. gone' \subseteq gone \cup {o}
    BY <1>8 DEF T!destroy, T!init
  <2>4. T!NotDestroyedInUse'
    BY <2>1, <2>2, <2>3 DEF T!NotDestroyedInUse, T!Inside, T!Objects
  <2>5. QED BY <1>2, <1>4, <2>1, <2>4
<1>9. ASSUME inside' = inside, gone' = gone, Typed PROVE T!IInv'
  <2>1. T!NotDestroyedInUse'
    BY <1>9 DEF T!NotDestroyedInUse, T!Inside
  <2>2. QED BY <1>2, <1>4, <1>9, <2>1
<1>10. ASSUME NEW c \in Callers,
              (\E call \in T!Calls : T!Try(c, call)) \/ T!mutex_unlock(c) \/ T!rwlock_unlock(c)
       PROVE  T!IInv'
  <2>1. Typed /\ inside' = inside /\ gone' = gone
    BY <1>1, <1>3, <1>10 DEF T!Try, T!mutex_unlock, T!rwlock_unlock, T!Answers, T!Errors
  <2>2. QED BY <1>9, <2>1
<1>11. ASSUME NEW c \in Callers, NEW r \in {"EINVAL", "zero", "none"}, T!Stays(c, r) PROVE T!IInv'
  BY <1>1, <1>9, <1>11 DEF T!Stays, T!Answers, T!Errors, T!objects
<1>12. QED
  BY <1>5, <1>6, <1>7, <1>8, <1>10, <1>11
  DEF T!ObjectsNext, T!Refuses, T!detach, T!cancellation, T!testcancel, T!scheduling, T!setname_np,
      T!concurrency, T!yield, T!thread_attributes, T!stack_attributes, T!keys, T!getspecific,
      T!spinlocks, T!timed_mutex, T!mutex_ceilings, T!mutex_attributes, T!timed_rwlock,
      T!rwlock_attributes, T!cond_signal, T!condattr_init, T!cond_attributes, T!barriers

\* The steps of the whole that are steps of the interface, and the others.
LEMMA PosixSteps == McNext => T!Next \/ UNCHANGED T!vars
BY DEF McNext, T!Next, T!vars, T!threads, T!once, T!objects, posixVars, threadVars, onceVars,
   objectVars

LEMMA PosixKeeps == T!IInv /\ [McNext]_all => T!IInv'
<1> SUFFICES ASSUME T!IInv, [McNext]_all PROVE T!IInv'
  OBVIOUS
<1>1. T!Next \/ UNCHANGED T!vars
  BY PosixSteps DEF all, posixVars, threadVars, onceVars, objectVars, T!vars, T!threads, T!once,
     T!objects
<1>2. CASE T!ThreadsNext /\ UNCHANGED <<T!once, T!objects>>
  BY <1>2, PosixThreads DEF T!once, T!objects, onceVars, objectVars
<1>3. CASE T!OnceNext /\ UNCHANGED <<T!threads, T!objects>>
  BY <1>3, PosixOnce DEF T!threads, T!objects, threadVars, objectVars
<1>4. CASE T!ObjectsNext /\ UNCHANGED <<T!threads, T!once>>
  BY <1>4, PosixObjects DEF T!threads, T!once, threadVars, onceVars
<1>5. CASE UNCHANGED T!vars
  BY <1>5 DEF T!vars, T!threads, T!once, T!objects, T!IInv, T!TypeOK, T!VectorOnce, T!JoinerPoints,
     T!RunsOnce, T!OnceMarked, T!NotDestroyedInUse, T!Inside
<1>6. QED BY <1>1, <1>2, <1>3, <1>4, <1>5 DEF T!Next

\* The pthread interface keeps the invariant of Posix.tla, for any callers and threads, as
\* long as nothing overlaps with a suspended join: one context at a time is in one, and no
\* thread is created meanwhile for which the vector has no room (Overlap = {}).
THEOREM PosixInvariance == McSpec => []T!IInv
<1>1. McInit => T!IInv
  BY PosixInit DEF McInit
<1>2. QED BY <1>1, PosixKeeps, PTL DEF McSpec

\* No read-write lock and no condition variable is destroyed while a context is inside a
\* call on it, and the routine of pthread_once() runs once however often it suspends.
THEOREM DestroyedUnused == McSpec => []NotDestroyedInUse
<1>1. T!IInv => NotDestroyedInUse
  BY DEF T!IInv, NotDestroyedInUse
<1>2. QED BY <1>1, PosixInvariance, PTL

\* A join returns only when the thread it was called for has finished, under the same
\* assumption: whatever else starts, ends or is created within the capacity of the vector,
\* the iterator the join kept across its suspension is still at that thread.
THEOREM JoinsBlock == McSpec => JoinBlocks
<1> DEFINE Blocks == \A c \in Callers : joins[c] # T!NoJoin /\ joins'[c] = T!NoJoin
                        => thread[joins[c].thread] = "finished"
<1>1. T!IInv /\ [McNext]_all => [Blocks]_T!vars
  <2> SUFFICES ASSUME T!IInv, McNext, NEW c \in Callers, joins[c] # T!NoJoin,
                      joins'[c] = T!NoJoin
               PROVE  thread[joins[c].thread] = "finished"
    BY DEF all, posixVars, threadVars, onceVars, objectVars, T!vars, T!threads, T!once, T!objects
  <2>1. joins \in [Callers -> [thread : Threads, at : Nat] \cup {T!NoJoin}]
    BY DEF T!IInv, T!TypeOK
  <2>2. /\ joins[c].at \in DOMAIN threadv /\ threadv[joins[c].at] = joins[c].thread
        /\ \A e \in Callers : joins[e] # T!NoJoin => e = c
    BY DEF T!IInv, T!JoinerPoints
  <2>3. joins' # joins
    OBVIOUS
  <2>4. T!ThreadsNext
    BY <2>3, PosixSteps DEF T!Next, T!vars, T!threads
  <2>5. ASSUME NEW e \in Callers, NEW x \in Threads, T!join(e, x) PROVE FALSE
    BY <2>1, <2>5, <2>3 DEF T!join
  <2>6. ASSUME NEW x \in Threads, T!create(x) PROVE FALSE
    BY <2>3, <2>6 DEF T!create
  <2>7. PICK e \in Callers : T!Join(e)
    BY <2>3, <2>4, <2>5, <2>6 DEF T!ThreadsNext, T!Scope, T!EndScope, T!Start, T!Finish
  <2>8. e = c
    BY <2>2, <2>7 DEF T!Join, T!Joins
  <2>9. T!joined(joins[c].at)
    <3>1. threadv \in Seq(Threads) /\ DOMAIN threadv = 1..Len(threadv) /\ Len(threadv) \in Nat
      BY LenProperties DEF T!IInv, T!TypeOK
    <3>2. T!Reads(joins[c].at) = {T!joined(joins[c].at)}
      BY <2>2, <3>1 DEF T!Reads, T!Stale
    <3>3. QED BY <2>3, <2>7, <2>8, <3>2 DEF T!Join
  <2>10. QED BY <2>2, <2>9 DEF T!joined
<1>2. QED BY <1>1, PosixInvariance, PTL DEF McSpec, JoinBlocks, T!JoinBlocks

\* A call of the interface that answers an error has left threads, routine and objects as
\* they were, but for the count of shares that tryrdlock() moves.
THEOREM RefusalsChangeNothing == McSpec => ErrorsChangeNothing
<1> DEFINE Same == ret' \in T!Errors =>
                     /\ UNCHANGED <<T!threads, T!once, owner, user, inside, gone>>
                     /\ (shares' = shares \/ shares < 0)
<1>1. T!IInv /\ [McNext]_all => [Same]_T!vars
  <2> SUFFICES ASSUME T!IInv, McNext, ret' \in T!Errors,
                      T!Next
               PROVE  /\ UNCHANGED <<T!threads, T!once, owner, user, inside, gone>>
                      /\ (shares' = shares \/ shares < 0)
    BY PosixSteps
    DEF all, posixVars, threadVars, onceVars, objectVars, T!vars, T!threads, T!once, T!objects
  <2>0. ret' # "zero" /\ ret' # "none"
    BY DEF T!Errors
  <2>1. ~T!ThreadsNext /\ ~T!OnceNext
    BY <2>0 DEF T!ThreadsNext, T!OnceNext, T!Scope, T!EndScope, T!create, T!Start, T!Finish, T!join,
       T!Join, T!Returns, T!Once, T!Inited, T!Answers, T!Suspends
  <2>2. T!ObjectsNext /\ UNCHANGED <<T!threads, T!once>>
    BY <2>1 DEF T!Next
  <2>3. PICK c \in Callers :
          \/ \E call \in T!Calls : T!Enter(c, call) \/ T!Try(c, call)
          \/ T!cond_wait(c) \/ T!Leave(c) \/ T!mutex_unlock(c) \/ T!rwlock_unlock(c)
          \/ \E o \in T!Objects : T!destroy(c, o) \/ T!init(c, o)
          \/ \E r \in {"EINVAL", "zero", "none"} : T!Stays(c, r)
    BY <2>2
    DEF T!ObjectsNext, T!Refuses, T!detach, T!cancellation, T!testcancel, T!scheduling,
        T!setname_np, T!concurrency, T!yield, T!thread_attributes, T!stack_attributes, T!keys,
        T!getspecific, T!spinlocks, T!timed_mutex, T!mutex_ceilings, T!mutex_attributes,
        T!timed_rwlock, T!rwlock_attributes, T!cond_signal, T!condattr_init, T!cond_attributes,
        T!barriers
  <2>4. ASSUME NEW call \in T!Calls, T!Enter(c, call) PROVE FALSE
    BY <2>0, <2>4 DEF T!Enter, T!Answers, T!Suspends
  <2>5. ASSUME NEW call \in T!Calls, T!Try(c, call) PROVE
          UNCHANGED <<owner, user, inside, gone>> /\ (shares' = shares \/ shares < 0)
    <3>1. shares \in Int
      BY DEF T!IInv, T!TypeOK
    <3>2. QED BY <2>5, <3>1 DEF T!Try
  <2>6. ~T!cond_wait(c) /\ ~T!Leave(c)
    BY <2>0 DEF T!cond_wait, T!Leave, T!Answers, T!Suspends, T!Errors
  <2>7. T!mutex_unlock(c) \/ T!rwlock_unlock(c) =>
          UNCHANGED <<owner, user, inside, gone>> /\ shares' = shares
    BY <2>0 DEF T!mutex_unlock, T!rwlock_unlock, T!Answers
  <2>8. ASSUME NEW o \in T!Objects, T!destroy(c, o) \/ T!init(c, o)
        PROVE  UNCHANGED <<owner, user, inside, gone>> /\ shares' = shares
    BY <2>0, <2>8 DEF T!destroy, T!init, T!Answers
  <2>9. ASSUME NEW r, T!Stays(c, r)
        PROVE  UNCHANGED <<owner, user, inside, gone>> /\ shares' = shares
    BY <2>9 DEF T!Stays, T!objects
  <2>10. UNCHANGED <<owner, user, inside, gone>> /\ (shares' = shares \/ shares < 0)
    BY <2>3, <2>4, <2>5, <2>6, <2>7, <2>8, <2>9
  <2>11. QED BY <2>2, <2>10
<1>2. QED BY <1>1, PosixInvariance, PTL DEF McSpec, ErrorsChangeNothing, T!ErrorsChangeNothing

-----------------------------------------------------------------------------
(* View *)

Viewers == Guest \cup {Host}

\* The library as the module has it.
LEMMA SameView ==
  /\ \A x : V!Cardinality(x) = Cardinality(x)
  /\ \A x : V!ToSet(x) = ToSet(x)
  /\ \A x, c : V!Without(x, c) = Without(x, c)
  /\ \A x : V!Front1(x) = Front1(x)
<1>1. \A x : V!Cardinality(x) = Cardinality(x)
  BY DEF V!Cardinality, Cardinality, V!IsFiniteSet, IsFiniteSet, V!ExistsBijection, ExistsBijection
<1>2. \A x : V!ToSet(x) = ToSet(x)
  BY DEF V!ToSet, ToSet
<1>3. \A x, c : V!Without(x, c) = Without(x, c)
  BY DEF V!Without, Without, V!RemoveAt, RemoveAt
<1>4. \A x : V!Front1(x) = Front1(x)
  BY DEF V!Front1, Front1
<1>5. QED BY <1>1, <1>2, <1>3, <1>4

Rest(z, c, X) == IF c \in X THEN Without(z, c) ELSE z
Then(z, c, Z) == IF c \in Z THEN Append(z, c) ELSE z

\* A queue that holds some contexts, each once, when c leaves them or joins them.
LEMMA QueueMoves ==
  ASSUME NEW X \in SUBSET Viewers, NEW Z \in SUBSET Viewers, NEW c \in Viewers,
         \A x \in Viewers : x # c => (x \in X <=> x \in Z),
         NEW z \in Seq(Viewers), V!Once(z), ToSet(z) = X
  PROVE  /\ Then(Rest(z, c, X), c, Z) \in Seq(Viewers) /\ V!Once(Then(Rest(z, c, X), c, Z))
         /\ ToSet(Then(Rest(z, c, X), c, Z)) = Z
         /\ Rest(z, c, X) \in Seq(Viewers) /\ ToSet(Rest(z, c, X)) = X \ {c}
         /\ Rest(z, c, X) # <<>> =>
              /\ Then(Rest(z, c, X), c, Z) # <<>>
              /\ Head(Then(Rest(z, c, X), c, Z)) = Head(Rest(z, c, X))
<1> DEFINE r == Rest(z, c, X)
           n == Then(r, c, Z)
<1> USE DEF Rest, Then
<1>1. r \in Seq(Viewers) /\ ToSet(r) = X \ {c} /\ V!Once(r)
  <2>1. CASE c \in X
    BY <2>1, WithoutElements DEF V!Once
  <2>2. CASE c \notin X
    BY <2>2
  <2>3. QED BY <2>1, <2>2
<1>2. c \notin ToSet(r)
  BY <1>1
<1>3. n \in Seq(Viewers) /\ V!Once(n) /\ (r # <<>> => n # <<>> /\ Head(n) = Head(r))
      /\ ToSet(n) = IF c \in Z THEN ToSet(r) \cup {c} ELSE ToSet(r)
  <2>1. CASE c \in Z
    <3>1. /\ Append(r, c) \in Seq(Viewers)
          /\ \A i, j \in DOMAIN Append(r, c) : Append(r, c)[i] = Append(r, c)[j] => i = j
          /\ ToSet(Append(r, c)) = ToSet(r) \cup {c}
          /\ r # <<>> => Head(Append(r, c)) = Head(r)
      BY <1>1, <1>2, AppendElements DEF V!Once
    <3>2. Append(r, c) # <<>>
      BY <1>1
    <3>3. QED BY <2>1, <3>1, <3>2 DEF V!Once
  <2>2. CASE c \notin Z
    BY <1>1, <2>2
  <2>3. QED BY <2>1, <2>2
<1> HIDE DEF Rest, Then, r, n
<1>4. ToSet(n) = Z
  <2>1. CASE c \in Z
    <3>1. ToSet(n) = (X \ {c}) \cup {c}
      BY <1>1, <1>3, <2>1
    <3>2. QED BY <2>1, <3>1
  <2>2. CASE c \notin Z
    BY <1>1, <1>3, <2>2
  <2>3. QED BY <2>1, <2>2
<1>5. QED BY <1>1, <1>3, <1>4 DEF r, n

LEMMA ViewersFinite == IsFiniteSet(Viewers) /\ Cardinality(Viewers) \in Nat
BY PartiesAssumption, FS_Union, FS_Singleton, FS_CardinalityType DEF Viewers

\* How many a set has that c leaves or joins.
LEMMA CountMoves ==
  ASSUME NEW X \in SUBSET Viewers, NEW Z \in SUBSET Viewers, NEW c \in Viewers,
         \A x \in Viewers : x # c => (x \in X <=> x \in Z)
  PROVE  /\ Cardinality(X) \in Nat /\ Cardinality(Z) \in Nat
         /\ Cardinality(Z) = (IF c \in X THEN Cardinality(X) - 1 ELSE Cardinality(X))
                             + (IF c \in Z THEN 1 ELSE 0)
         /\ Cardinality(Z) <= Cardinality(Viewers)
<1> DEFINE Y == X \ {c}
<1>1. Z = IF c \in Z THEN Y \cup {c} ELSE Y
  OBVIOUS
<1>2. IsFiniteSet(X) /\ IsFiniteSet(Z) /\ Cardinality(Z) <= Cardinality(Viewers)
  BY ViewersFinite, FS_Subset
<1>3. IsFiniteSet(Y) /\ Cardinality(Y) = IF c \in X THEN Cardinality(X) - 1 ELSE Cardinality(X)
  BY <1>2, FS_RemoveElement
<1>4. Cardinality(X) \in Nat /\ Cardinality(Y) \in Nat /\ Cardinality(Z) \in Nat
  BY <1>2, <1>3, FS_CardinalityType
<1>5. c \notin Y
  OBVIOUS
<1> HIDE DEF Y
<1>6. Cardinality(Y \cup {c}) = Cardinality(Y) + 1
  BY <1>3, <1>5, FS_AddElement
<1>7. Cardinality(Z) = Cardinality(Y) + (IF c \in Z THEN 1 ELSE 0)
  <2>1. CASE c \in Z
    <3>1. Z = Y \cup {c}
      BY <1>1, <2>1
    <3>2. QED BY <1>6, <2>1, <3>1
  <2>2. CASE c \notin Z
    <3>1. Z = Y
      BY <1>1, <2>2
    <3>2. QED BY <1>4, <2>2, <3>1
  <2>3. QED BY <2>1, <2>2
<1>8. QED BY <1>2, <1>3, <1>4, <1>7

\* The queues of the docks without c.
DockLess(c) == IF pc[c] \in V!Docked THEN V!Without(vq, c) ELSE vq
MutexLess(c) == IF pc[c] \in V!Queued THEN V!Without(mq, c) ELSE mq

\* A slice of c that ends in a place: what it does to the queues, the mutex and the
\* semaphores, and whom it must have woken, W, for the invariant to be kept.
ViewGoes(c, to, W) ==
  /\ current \in {None, c} /\ pc' = [pc EXCEPT ![c] = to]
  /\ \/ /\ current' = None /\ to \in V!Docked \cup V!Queued
        /\ stage' = [V!Wake(stage, W) EXCEPT ![c] = "asleep"]
     \/ /\ current' = c /\ to \notin V!Docked \cup V!Queued
        /\ stage' = [V!Wake(stage, W) EXCEPT ![c] = "running"]
ViewQueues(c, to) ==
  /\ vq' = IF to \in V!Docked THEN Append(DockLess(c), c) ELSE DockLess(c)
  /\ mq' = IF to \in V!Queued THEN Append(MutexLess(c), c) ELSE MutexLess(c)
  /\ m' = IF to \in {"in", "view"} THEN c ELSE IF m = c THEN None ELSE m
  /\ to \in {"in", "view"} => m \in {None, c}
ViewCounts(c, to) ==
  /\ wanting' = (IF pc[c] \in {"want1", "back1", "fail1"} THEN wanting - 1 ELSE wanting)
                + (IF to \in {"want1", "back1", "fail1"} THEN 1 ELSE 0)
  /\ waiting' = (IF pc[c] \in {"want2", "back2", "fail2"} THEN waiting - 1 ELSE waiting)
                + (IF to \in {"want2", "back2", "fail2"} THEN 1 ELSE 0)
ViewShows(c, to) ==
  /\ t' \in BOOLEAN /\ (t' # t => m \in {None, c}) /\ (to = "view" => t')
  /\ to = "want1" => t'
  /\ to = "want2" => ~t'
  /\ to = "show1" => wanting' # 0
  /\ to = "show2" => waiting' # 0
  /\ to \in {"show1", "show2", "take1", "take2"} => c = Host
  /\ to \in {"back2", "show2", "take2"} => t'
  /\ to = "take2" => waiting' = 0
  /\ t /\ ~t' => c = Host /\ waiting' = 0
  /\ waiting' > waiting => ~t
ViewTypes ==
  /\ late' \in [Viewers -> BOOLEAN] /\ pend' \in [Viewers -> SUBSET V!Requests]
  /\ masked' \in [Viewers -> BOOLEAN]
ViewWakes(c, to, W) ==
  /\ \/ V!ToSet(DockLess(c)) \subseteq W
     \/ t' = t /\ wanting' >= wanting /\ waiting' >= waiting
  /\ m' = None => /\ to \notin V!Queued
                  /\ V!Front1(MutexLess(c)) \subseteq W \/ (m = None /\ pc[c] \notin V!Queued)

ViewMove(c, to, W) ==
  /\ ViewGoes(c, to, W) /\ ViewQueues(c, to) /\ ViewCounts(c, to) /\ ViewShows(c, to)
  /\ ViewTypes /\ ViewWakes(c, to, W)

LEMMA ViewMoves ==
  ASSUME V!IInv, NEW c \in Viewers, NEW to \in V!Places, NEW W \in SUBSET Viewers,
         ViewMove(c, to, W)
  PROVE  V!IInv'
<1> DEFINE d == IF pc[c] \in V!Docked THEN Without(vq, c) ELSE vq
           k == IF pc[c] \in V!Queued THEN Without(mq, c) ELSE mq
<1>0. /\ current \in {None, c} /\ pc' = [pc EXCEPT ![c] = to]
      /\ \/ /\ current' = None /\ to \in V!Docked \cup V!Queued
            /\ stage' = [V!Wake(stage, W) EXCEPT ![c] = "asleep"]
         \/ /\ current' = c /\ to \notin V!Docked \cup V!Queued
            /\ stage' = [V!Wake(stage, W) EXCEPT ![c] = "running"]
      /\ vq' = IF to \in V!Docked THEN Append(d, c) ELSE d
      /\ mq' = IF to \in V!Queued THEN Append(k, c) ELSE k
      /\ \/ ToSet(d) \subseteq W
         \/ t' = t /\ wanting' >= wanting /\ waiting' >= waiting
      /\ m' = None => /\ to \notin V!Queued
                      /\ Front1(k) \subseteq W \/ (m = None /\ pc[c] \notin V!Queued)
  <2>1. DockLess(c) = d /\ MutexLess(c) = k
    BY SameView DEF DockLess, MutexLess
  <2>2. V!ToSet(DockLess(c)) = ToSet(d) /\ V!Front1(MutexLess(c)) = Front1(k)
    BY <2>1, SameView
  <2> HIDE DEF d, k
  <2>3. QED BY <2>1, <2>2 DEF ViewMove, ViewGoes, ViewQueues, ViewWakes
<1>r. /\ m' = IF to \in {"in", "view"} THEN c ELSE IF m = c THEN None ELSE m
      /\ to \in {"in", "view"} => m \in {None, c}
      /\ wanting' = (IF pc[c] \in {"want1", "back1", "fail1"} THEN wanting - 1 ELSE wanting)
                    + (IF to \in {"want1", "back1", "fail1"} THEN 1 ELSE 0)
      /\ waiting' = (IF pc[c] \in {"want2", "back2", "fail2"} THEN waiting - 1 ELSE waiting)
                    + (IF to \in {"want2", "back2", "fail2"} THEN 1 ELSE 0)
      /\ t' \in BOOLEAN /\ (t' # t => m \in {None, c}) /\ (to = "view" => t')
      /\ late' \in [Viewers -> BOOLEAN] /\ pend' \in [Viewers -> SUBSET V!Requests]
      /\ masked' \in [Viewers -> BOOLEAN]
      /\ (to = "want1" => t') /\ (to = "want2" => ~t')
      /\ (to = "show1" => wanting' # 0) /\ (to = "show2" => waiting' # 0)
      /\ (to \in {"show1", "show2", "take1", "take2"} => c = Host)
      /\ (to \in {"back2", "show2", "take2"} => t') /\ (to = "take2" => waiting' = 0)
      /\ (t /\ ~t' => c = Host /\ waiting' = 0) /\ (waiting' > waiting => ~t)
  BY DEF ViewMove, ViewQueues, ViewCounts, ViewShows, ViewTypes
<1> USE <1>0, <1>r
<1> HIDE DEF d, k
<1>1. /\ stage \in [Viewers -> V!Stages] /\ mq \in Seq(Viewers) /\ vq \in Seq(Viewers)
      /\ pc \in [Viewers -> V!Places] /\ m \in Viewers \cup {None} /\ t \in BOOLEAN
      /\ current \in Viewers \cup {None}
  BY DEF V!IInv, V!TypeOK, V!SchedTypeOK, Viewers
<1>2. /\ V!Once(vq) /\ ToSet(vq) = {x \in Viewers : pc[x] \in V!Docked}
      /\ V!Once(mq) /\ ToSet(mq) = {x \in Viewers : pc[x] \in V!Queued}
  BY SameView DEF V!IInv, V!DockHolds, V!MutexHolds, Viewers
<1>3. /\ vq' \in Seq(Viewers) /\ V!Once(vq)' /\ ToSet(vq') = {x \in Viewers : pc'[x] \in V!Docked}
      /\ ToSet(d) = ToSet(vq) \ {c}
  <2> DEFINE X == {x \in Viewers : pc[x] \in V!Docked}
             Z == {x \in Viewers : pc'[x] \in V!Docked}
  <2>1. /\ X \in SUBSET Viewers /\ Z \in SUBSET Viewers
        /\ \A x \in Viewers : x # c => (x \in X <=> x \in Z)
        /\ c \in X <=> pc[c] \in V!Docked
        /\ c \in Z <=> to \in V!Docked
        /\ ToSet(vq) = X
    BY <1>1, <1>2
  <2> HIDE DEF X, Z
  <2>2. vq \in Seq(Viewers) /\ V!Once(vq) /\ c \in Viewers
    BY <1>1, <1>2
  <2>3. d = Rest(vq, c, X) /\ vq' = Then(Rest(vq, c, X), c, Z)
    BY <2>1 DEF Rest, Then, d, k
  <2>4. /\ vq' \in Seq(Viewers) /\ V!Once(vq') /\ ToSet(vq') = Z
        /\ ToSet(d) = X \ {c}
    BY ONLY <2>1, <2>2, <2>3, QueueMoves
  <2>5. QED BY <2>1, <2>4 DEF Z, V!Once
<1>4. /\ mq' \in Seq(Viewers) /\ V!Once(mq)' /\ ToSet(mq') = {x \in Viewers : pc'[x] \in V!Queued}
      /\ ToSet(k) = ToSet(mq) \ {c} /\ k \in Seq(Viewers)
      /\ k # <<>> => mq' # <<>> /\ Head(mq') = Head(k)
  <2> DEFINE X == {x \in Viewers : pc[x] \in V!Queued}
             Z == {x \in Viewers : pc'[x] \in V!Queued}
  <2>1. /\ X \in SUBSET Viewers /\ Z \in SUBSET Viewers
        /\ \A x \in Viewers : x # c => (x \in X <=> x \in Z)
        /\ c \in X <=> pc[c] \in V!Queued
        /\ c \in Z <=> to \in V!Queued
        /\ ToSet(mq) = X
    BY <1>1, <1>2
  <2> HIDE DEF X, Z
  <2>2. mq \in Seq(Viewers) /\ V!Once(mq) /\ c \in Viewers
    BY <1>1, <1>2
  <2>3. k = Rest(mq, c, X) /\ mq' = Then(Rest(mq, c, X), c, Z)
    BY <2>1 DEF Rest, Then, d, k
  <2>4. /\ mq' \in Seq(Viewers) /\ V!Once(mq') /\ ToSet(mq') = Z
        /\ ToSet(k) = X \ {c} /\ k \in Seq(Viewers)
        /\ k # <<>> => mq' # <<>> /\ Head(mq') = Head(k)
    BY ONLY <2>1, <2>2, <2>3, QueueMoves
  <2>5. QED BY <2>1, <2>4 DEF Z, V!Once
<1>5. V!DockHolds' /\ V!MutexHolds'
  <2>1. V!ToSet(vq)' = ToSet(vq') /\ V!ToSet(mq)' = ToSet(mq')
    BY DEF V!ToSet, ToSet
  <2>2. QED BY <1>3, <1>4, <2>1 DEF V!DockHolds, V!MutexHolds, Viewers
<1>6. V!SemaphoresCount'
      /\ wanting' \in 0..Cardinality(Viewers) /\ waiting' \in 0..Cardinality(Viewers)
      /\ wanting \in Nat /\ waiting \in Nat
  <2> DEFINE X == {x \in Viewers : pc[x] \in {"want1", "back1", "fail1"}}
             Z == {x \in Viewers : pc'[x] \in {"want1", "back1", "fail1"}}
             Q == {x \in Viewers : pc[x] \in {"want2", "back2", "fail2"}}
             R == {x \in Viewers : pc'[x] \in {"want2", "back2", "fail2"}}
  <2>1. wanting = Cardinality(X) /\ waiting = Cardinality(Q)
    BY SameView DEF V!IInv, V!SemaphoresCount, Viewers
  <2>2. /\ X \in SUBSET Viewers /\ Z \in SUBSET Viewers
        /\ Q \in SUBSET Viewers /\ R \in SUBSET Viewers
        /\ \A x \in Viewers : x # c => (x \in X <=> x \in Z)
        /\ \A x \in Viewers : x # c => (x \in Q <=> x \in R)
        /\ c \in Viewers
    BY <1>1
  <2>0. /\ wanting' = (IF c \in X THEN wanting - 1 ELSE wanting) + (IF c \in Z THEN 1 ELSE 0)
        /\ waiting' = (IF c \in Q THEN waiting - 1 ELSE waiting) + (IF c \in R THEN 1 ELSE 0)
    BY <1>1
  <2> HIDE DEF X, Z, Q, R
  <2>3. /\ wanting' = Cardinality(Z) /\ wanting' \in Nat
        /\ wanting' <= Cardinality(Viewers) /\ wanting \in Nat
    BY ONLY <2>0, <2>1, <2>2, CountMoves
  <2>4. /\ waiting' = Cardinality(R) /\ waiting' \in Nat
        /\ waiting' <= Cardinality(Viewers) /\ waiting \in Nat
    BY ONLY <2>0, <2>1, <2>2, CountMoves
  <2>5. V!SemaphoresCount'
    BY <2>3, <2>4, SameView DEF V!SemaphoresCount, Z, R, Viewers
  <2>6. QED BY <2>3, <2>4, <2>5, ViewersFinite
<1>7. pc' \in [Viewers -> V!Places] /\ pc'[c] = to /\ \A x \in Viewers \ {c} : pc'[x] = pc[x]
  BY <1>1
<1>8. /\ stage' \in [Viewers -> V!Stages]
      /\ stage'[c] = IF to \in V!Docked \cup V!Queued THEN "asleep" ELSE "running"
      /\ \A x \in Viewers \ {c} :
           stage'[x] = IF x \in W /\ stage[x] = "asleep" THEN "ready" ELSE stage[x]
  BY <1>1 DEF V!Wake, V!Stages, Viewers
<1>9. None \notin Viewers
  BY PartiesAssumption DEF Viewers
<1>10. V!OwnerHolds'
  <2>1. \A x \in Viewers : pc[x] \in {"in", "view"} <=> m = x
    BY DEF V!IInv, V!OwnerHolds, V!Holds, Viewers
  <2>2. \A x \in Viewers : pc'[x] \in {"in", "view"} <=> m' = x
    BY <1>7, <1>9, <2>1
  <2>3. QED BY <2>2 DEF V!OwnerHolds, V!Holds, Viewers
<1>11. V!Executes'
  <2>1. \A x \in Viewers : /\ stage[x] = "running" <=> current = x
                           /\ stage[x] # "done"
                           /\ pc[x] \in V!Docked \cup V!Queued => stage[x] # "running"
    BY DEF V!IInv, V!Executes, Viewers
  <2>2. current' = IF to \in V!Docked \cup V!Queued THEN None ELSE c
    OBVIOUS
  <2>3. ASSUME NEW x \in Viewers
        PROVE  /\ stage'[x] = "running" <=> current' = x
               /\ stage'[x] # "done"
               /\ pc'[x] \in V!Docked \cup V!Queued => stage'[x] # "running"
    BY <1>7, <1>8, <1>9, <2>1, <2>2
  <2>4. QED BY <2>3 DEF V!Executes, Viewers
<1>12. V!ViewLasts'
  <2>1. \A x \in Viewers : pc[x] = "view" => t /\ m = x
    BY DEF V!IInv, V!ViewLasts, V!OwnerHolds, V!Holds, Viewers
  <2>2. ASSUME NEW x \in Viewers, pc'[x] = "view" PROVE t'
    BY <1>1, <1>7, <1>9, <2>1, <2>2
  <2>3. QED BY <2>2 DEF V!ViewLasts, Viewers
<1>y. V!Shown'
  <2>1. \A x \in Viewers : /\ pc[x] \in {"show1", "show2", "take1", "take2"} => x = Host
                           /\ pc[x] \in {"back2", "show2", "take2"} => t
                           /\ pc[x] = "take2" => waiting = 0
    BY DEF V!IInv, V!Shown, Viewers
  <2>2. waiting' = 0 => \A x \in Viewers : pc'[x] # "back2"
    <3>1. {x \in Viewers : pc'[x] \in {"want2", "back2", "fail2"}} \subseteq Viewers
      OBVIOUS
    <3>2. waiting' = Cardinality({x \in Viewers : pc'[x] \in {"want2", "back2", "fail2"}})
      BY <1>6, SameView DEF V!SemaphoresCount, Viewers
    <3>3. waiting' = 0 => {x \in Viewers : pc'[x] \in {"want2", "back2", "fail2"}} = {}
      BY <3>1, <3>2, ViewersFinite, FS_Subset, FS_EmptySet
    <3>4. QED BY <3>3
  <2>3. ASSUME NEW x \in Viewers
        PROVE  /\ pc'[x] \in {"show1", "show2", "take1", "take2"} => x = Host
               /\ pc'[x] \in {"back2", "show2", "take2"} => t'
               /\ pc'[x] = "take2" => waiting' = 0
    <3>1. CASE x = c
      BY <1>7, <3>1
    <3>2. CASE x # c
      <4>1. pc'[x] = pc[x]
        BY <1>7, <3>2
      <4>2. pc'[x] \in {"show2", "take2"} => t'
        BY <2>1, <3>2, <4>1
      <4>3. pc'[x] = "back2" => t'
        BY <2>1, <2>2, <4>1
      <4>4. pc'[x] = "take2" => waiting' = 0
        <5>1. waiting \in Nat /\ waiting' \in Nat
          BY <1>6
        <5>2. pc'[x] = "take2" => waiting = 0 /\ ~(waiting' > waiting)
          BY <2>1, <4>1
        <5>3. QED BY <5>1, <5>2
      <4>5. QED BY <2>1, <4>1, <4>2, <4>3, <4>4
    <3>3. QED BY <3>1, <3>2
  <2>4. QED BY <2>3 DEF V!Shown, Viewers
<1>13. ASSUME NEW x \in Viewers, pc'[x] \in V!Docked, stage'[x] = "asleep" PROVE ~V!Ready(x)'
  <2>1. CASE x = c
    BY <1>7, <1>13, <2>1 DEF V!Ready, V!Docked
  <2>2. CASE x # c
    <3>1. pc[x] = pc'[x] /\ stage[x] = "asleep" /\ x \notin W
      BY <1>7, <1>8, <1>13, <2>2
    <3>2. ~V!Ready(x)
      BY <1>13, <3>1 DEF V!IInv, V!NoStall, Viewers
    <3>3. x \in ToSet(d)
      BY <1>2, <1>3, <1>13, <2>2, <3>1
    <3>4. t' = t /\ wanting' >= wanting /\ waiting' >= waiting
      BY <3>1, <3>3
    <3>5. wanting' \in Nat /\ waiting' \in Nat
      BY <1>6
    <3>6. pc'[x] \in {"want1", "want2", "show1", "show2"}
      BY <1>13 DEF V!Docked
    <3>7. /\ pc[x] = "want1" => t
          /\ pc[x] = "want2" => ~t
          /\ pc[x] = "show1" => wanting # 0
          /\ pc[x] = "show2" => waiting # 0
      BY <3>2 DEF V!Ready
    <3>8. /\ pc'[x] = "want1" => t'
          /\ pc'[x] = "want2" => ~t'
          /\ pc'[x] = "show1" => wanting' # 0
          /\ pc'[x] = "show2" => waiting' # 0
      BY <1>6, <3>1, <3>4, <3>5, <3>7
    <3>9. QED BY <3>6, <3>8 DEF V!Ready
  <2>3. QED BY <2>1, <2>2
<1>14. ASSUME m' = None, mq' # <<>> PROVE stage'[Head(mq')] = "ready"
  <2>1. mq' = k /\ to \notin V!Queued /\ k # <<>>
    BY <1>14
  <2>2. Head(k) \in ToSet(k) /\ Head(k) \in Viewers
    BY <1>4, <2>1, HeadElement
  <2>3. Head(k) # c /\ Head(k) \in ToSet(mq)
    BY <1>4, <2>2
  <2>4. pc[Head(k)] \in V!Queued
    BY <1>2, <2>3
  <2>5. stage[Head(k)] \in {"asleep", "ready"}
    BY <1>1, <2>2, <2>4 DEF V!IInv, V!Executes, V!Stages, Viewers
  <2>6. CASE Front1(k) \subseteq W
    BY <1>8, <2>1, <2>2, <2>3, <2>5, <2>6 DEF Front1
  <2>7. CASE m = None /\ pc[c] \notin V!Queued
    <3>1. k = mq /\ stage[Head(k)] = "ready"
      BY <2>1, <2>7 DEF V!IInv, V!NoStall, k
    <3>2. QED BY <1>8, <2>1, <2>2, <2>3, <3>1
  <2>8. QED BY <1>14, <2>6, <2>7
<1>15. V!NoStall'
  BY <1>13, <1>14 DEF V!NoStall, Viewers
<1>16. V!TypeOK'
  <2>2. m' \in Viewers \cup {None} /\ current' \in Viewers \cup {None}
    BY <1>1
  <2>3. QED BY <1>3, <1>4, <1>6, <1>7, <1>8, <2>2, SameView
            DEF V!TypeOK, V!SchedTypeOK, Viewers
<1>17. QED BY <1>5, <1>6, <1>10, <1>11, <1>12, <1>15, <1>16, <1>y DEF V!IInv

\* A step that moves nobody between the places.
ViewStay ==
  /\ UNCHANGED <<m, mq, vq, t, wanting, waiting, pc>>
  /\ current' \in Viewers \cup {None} /\ stage' \in [Viewers -> V!Stages]
  /\ late' \in [Viewers -> BOOLEAN] /\ pend' \in [Viewers -> SUBSET V!Requests]
  /\ masked' \in [Viewers -> BOOLEAN]
  /\ \A x \in Viewers :
       /\ stage'[x] = "running" <=> current' = x
       /\ stage'[x] # "done"
       /\ pc[x] \in V!Docked \cup V!Queued =>
            \/ stage'[x] \in {stage[x], "ready"}
            \/ /\ stage'[x] = "asleep"
               /\ IF pc[x] \in V!Docked THEN ~V!Ready(x) ELSE m # None

LEMMA ViewStays == V!IInv /\ ViewStay => V!IInv'
<1> SUFFICES ASSUME V!IInv, ViewStay PROVE V!IInv'
  OBVIOUS
<1>1. /\ stage \in [Viewers -> V!Stages] /\ mq \in Seq(Viewers)
      /\ pc \in [Viewers -> V!Places]
  BY DEF V!IInv, V!TypeOK, V!SchedTypeOK, Viewers
<1>2. V!TypeOK' /\ V!DockHolds' /\ V!MutexHolds' /\ V!OwnerHolds' /\ V!ViewLasts'
      /\ V!SemaphoresCount' /\ V!Shown'
  BY DEF V!IInv, ViewStay, V!Shown, V!TypeOK, V!SchedTypeOK, V!DockHolds, V!MutexHolds, V!Once, V!OwnerHolds,
     V!Holds, V!ViewLasts, V!SemaphoresCount, Viewers
<1>3. V!Executes'
  <2>1. \A x \in Viewers : pc[x] \in V!Docked \cup V!Queued => stage[x] # "running"
    BY DEF V!IInv, V!Executes, Viewers
  <2>2. QED BY <2>1 DEF ViewStay, V!Executes, Viewers
<1>4. ASSUME NEW x \in Viewers, pc[x] \in V!Docked, stage'[x] = "asleep" PROVE ~V!Ready(x)'
  <2>1. V!Ready(x)' <=> V!Ready(x)
    BY DEF V!Ready, ViewStay
  <2>2. stage[x] = "asleep" => ~V!Ready(x)
    BY <1>4 DEF V!IInv, V!NoStall, Viewers
  <2>3. QED BY <1>4, <2>1, <2>2 DEF ViewStay
<1>5. ASSUME m = None, mq # <<>> PROVE stage'[Head(mq)] = "ready"
  <2>1. Head(mq) \in Viewers /\ Head(mq) \in ToSet(mq)
    BY <1>1, <1>5, HeadElement
  <2>2. pc[Head(mq)] \in V!Queued
    BY <2>1, SameView DEF V!IInv, V!MutexHolds, Viewers
  <2>3. stage[Head(mq)] = "ready"
    BY <1>5 DEF V!IInv, V!NoStall
  <2>4. pc[Head(mq)] \notin V!Docked
    BY <2>2 DEF V!Queued, V!Docked
  <2>5. QED BY <1>5, <2>1, <2>2, <2>3, <2>4 DEF ViewStay
<1>6. V!NoStall'
  BY <1>4, <1>5 DEF V!NoStall, ViewStay, Viewers
<1>7. QED BY <1>2, <1>3, <1>6 DEF V!IInv

\* What the actions of c find.
LEMMA ViewFacts ==
  ASSUME V!IInv, NEW c \in Viewers
  PROVE  /\ current \in Viewers \cup {None} /\ stage \in [Viewers -> V!Stages]
         /\ pend \in [Viewers -> SUBSET V!Requests] /\ masked \in [Viewers -> BOOLEAN]
         /\ late \in [Viewers -> BOOLEAN] /\ pc \in [Viewers -> V!Places] /\ t \in BOOLEAN
         /\ wanting \in Int /\ waiting \in Int /\ None \notin Viewers
         /\ m = c <=> pc[c] \in {"in", "view"}
         /\ V!ToSet(DockLess(c)) \subseteq Viewers /\ V!Front1(MutexLess(c)) \subseteq Viewers
         /\ pc[c] \in {"show1", "show2", "take1", "take2"} => c = Host
         /\ pc[c] \in {"back2", "show2", "take2"} => t
         /\ pc[c] = "take2" => waiting = 0
         /\ V!Thrown(c) => pend' \in [Viewers -> SUBSET V!Requests]
                           /\ masked' \in [Viewers -> BOOLEAN]
<1>1. /\ current \in Viewers \cup {None} /\ stage \in [Viewers -> V!Stages]
      /\ pend \in [Viewers -> SUBSET V!Requests] /\ masked \in [Viewers -> BOOLEAN]
      /\ late \in [Viewers -> BOOLEAN] /\ pc \in [Viewers -> V!Places] /\ t \in BOOLEAN
      /\ wanting \in Int /\ waiting \in Int
      /\ mq \in Seq(Viewers) /\ vq \in Seq(Viewers)
  BY DEF V!IInv, V!TypeOK, V!SchedTypeOK, Viewers
<1>2. None \notin Viewers
  BY PartiesAssumption DEF Viewers
<1>3. m = c <=> pc[c] \in {"in", "view"}
  BY DEF V!IInv, V!OwnerHolds, V!Holds, Viewers
<1>4. ToSet(vq) = {x \in Viewers : pc[x] \in V!Docked} /\ V!Once(vq)
  BY SameView DEF V!IInv, V!DockHolds, Viewers
<1>5. ToSet(mq) = {x \in Viewers : pc[x] \in V!Queued} /\ V!Once(mq)
  BY SameView DEF V!IInv, V!MutexHolds, Viewers
<1>6. V!ToSet(DockLess(c)) \subseteq Viewers
  <2>1. CASE pc[c] \in V!Docked
    <3>1. c \in ToSet(vq)
      BY <1>4, <2>1
    <3>2. ToSet(Without(vq, c)) = ToSet(vq) \ {c}
      BY <1>1, <1>4, <3>1, WithoutElements DEF V!Once
    <3>3. V!ToSet(DockLess(c)) = ToSet(Without(vq, c))
      BY <2>1, SameView DEF DockLess
    <3>4. QED BY <1>4, <3>2, <3>3
  <2>2. CASE pc[c] \notin V!Docked
    BY <1>4, <2>2, SameView DEF DockLess
  <2>3. QED BY <2>1, <2>2
<1>7. V!Front1(MutexLess(c)) \subseteq Viewers
  <2>1. MutexLess(c) \in Seq(Viewers)
    <3>1. CASE pc[c] \in V!Queued
      <4>1. c \in ToSet(mq)
        BY <1>5, <3>1
      <4>2. Without(mq, c) \in Seq(Viewers)
        BY <1>1, <1>5, <4>1, WithoutElements DEF V!Once
      <4>3. QED BY <3>1, <4>2, SameView DEF MutexLess
    <3>2. CASE pc[c] \notin V!Queued
      BY <1>1, <3>2 DEF MutexLess
    <3>3. QED BY <3>1, <3>2
  <2>2. QED BY <2>1, HeadElement DEF V!Front1
<1>8. V!Thrown(c) => pend' \in [Viewers -> SUBSET V!Requests] /\ masked' \in [Viewers -> BOOLEAN]
  BY <1>1 DEF V!Thrown
<1>9. /\ pc[c] \in {"show1", "show2", "take1", "take2"} => c = Host
      /\ pc[c] \in {"back2", "show2", "take2"} => t
      /\ pc[c] = "take2" => waiting = 0
  BY DEF V!IInv, V!Shown, Viewers
<1>10. QED BY <1>1, <1>2, <1>3, <1>6, <1>7, <1>8, <1>9

\* The second consume().
LEMMA Consuming2 ==
  ASSUME V!IInv, NEW c \in Viewers, NEW W \in SUBSET Viewers,
         V!Consume2(c, MutexLess(c), DockLess(c), W),
         m \in {None, c}, current \in {None, c}, pc[c] \notin {"want2", "back2", "fail2"},
         wanting' = (IF pc[c] \in {"want1", "back1", "fail1"} THEN wanting - 1 ELSE wanting),
         V!ToSet(DockLess(c)) \subseteq W, t' = t,
         late' \in [Viewers -> BOOLEAN], UNCHANGED <<pend, masked>>
  PROVE  V!IInv'
<1>0. /\ pend \in [Viewers -> SUBSET V!Requests] /\ masked \in [Viewers -> BOOLEAN]
      /\ t \in BOOLEAN /\ wanting \in Int /\ waiting \in Int
      /\ m = c <=> pc[c] \in {"in", "view"}
      /\ V!ToSet(DockLess(c)) \subseteq Viewers /\ V!Front1(MutexLess(c)) \subseteq Viewers
      /\ None \notin Viewers /\ m' \in {None, c}
  BY ViewFacts DEF V!Consume2
<1>1. CASE t
  <2> DEFINE X == W \cup V!Front1(MutexLess(c)) \cup V!ToSet(DockLess(c))
  <2>1. ViewMove(c, "view", X)
    <3>1. ViewGoes(c, "view", X)
      BY <1>0, <1>1 DEF V!Consume2, ViewGoes, V!Run, V!Sleep, V!Docked, V!Queued
    <3>2. ViewQueues(c, "view")
      BY <1>0, <1>1 DEF V!Consume2, ViewQueues, V!Docked, V!Queued
    <3>3. ViewCounts(c, "view")
      BY <1>0, <1>1 DEF V!Consume2, ViewCounts
    <3>7. ViewShows(c, "view")
      BY <1>0, <1>1 DEF V!Consume2, ViewShows
    <3>4. ViewTypes
      BY <1>0, <1>1 DEF V!Consume2, ViewTypes
    <3>5. ViewWakes(c, "view", X)
      BY <1>0, <1>1 DEF V!Consume2, ViewWakes, V!Queued
    <3>6. QED BY <3>1, <3>2, <3>3, <3>4, <3>5, <3>7 DEF ViewMove
  <2>2. X \in SUBSET Viewers /\ "view" \in V!Places
    BY <1>0 DEF V!Places
  <2>3. QED BY <2>1, <2>2, ViewMoves
<1>2. CASE ~t
  <2> DEFINE X == W \cup V!Front1(MutexLess(c))
  <2>1. ViewMove(c, "want2", X)
    <3>1. ViewGoes(c, "want2", X)
      BY <1>0, <1>2 DEF V!Consume2, ViewGoes, V!Run, V!Sleep, V!Docked, V!Queued
    <3>2. ViewQueues(c, "want2")
      BY <1>0, <1>2 DEF V!Consume2, ViewQueues, V!Docked, V!Queued
    <3>3. ViewCounts(c, "want2")
      BY <1>0, <1>2 DEF V!Consume2, ViewCounts
    <3>7. ViewShows(c, "want2")
      BY <1>0, <1>2 DEF V!Consume2, ViewShows
    <3>4. ViewTypes
      BY <1>0, <1>2 DEF V!Consume2, ViewTypes
    <3>5. ViewWakes(c, "want2", X)
      BY <1>0, <1>2 DEF V!Consume2, ViewWakes, V!Queued
    <3>6. QED BY <3>1, <3>2, <3>3, <3>4, <3>5, <3>7 DEF ViewMove
  <2>2. X \in SUBSET Viewers /\ "want2" \in V!Places
    BY <1>0 DEF V!Places, V!Docked
  <2>3. QED BY <2>1, <2>2, ViewMoves
<1>3. QED BY <1>1, <1>2

\* The producer shows the object, or finds that nobody looks.
LEMMA Publishing ==
  ASSUME V!IInv, NEW c \in Viewers, V!Publish(c, MutexLess(c), DockLess(c)),
         m = None, c = Host, current \in {None, c},
         pc[c] \notin {"want1", "back1", "fail1", "want2", "back2", "fail2"},
         UNCHANGED <<wanting, waiting, late>>
  PROVE  V!IInv'
<1>0. /\ pend \in [Viewers -> SUBSET V!Requests] /\ masked \in [Viewers -> BOOLEAN]
      /\ late \in [Viewers -> BOOLEAN] /\ t \in BOOLEAN /\ wanting \in Int /\ waiting \in Int
      /\ V!ToSet(DockLess(c)) \subseteq Viewers /\ V!Front1(MutexLess(c)) \subseteq Viewers
      /\ None \notin Viewers
  BY ViewFacts
<1> DEFINE X == V!ToSet(DockLess(c)) \cup V!Front1(MutexLess(c))
<1>1. X \in SUBSET Viewers /\ {"out", "show2"} \subseteq V!Places
  BY <1>0 DEF V!Places, V!Docked
<1>2. CASE waiting = 0 /\ V!Run(c, "out", X)
  <2>1. ViewMove(c, "out", X)
    <3>1. ViewGoes(c, "out", X)
      BY <1>0, <1>2 DEF V!Publish, ViewGoes, V!Run, V!Sleep, V!Docked, V!Queued
    <3>2. ViewQueues(c, "out")
      BY <1>0, <1>2 DEF V!Publish, ViewQueues, V!Docked, V!Queued
    <3>3. ViewCounts(c, "out")
      BY <1>0, <1>2 DEF ViewCounts
    <3>7. ViewShows(c, "out")
      <4>1. ~(waiting' > waiting) /\ waiting' = 0
        BY <1>0, <1>2
      <4>2. t' = FALSE
        BY <1>0, <1>2 DEF V!Publish
      <4>3. QED BY <4>1, <4>2 DEF ViewShows
    <3>4. ViewTypes
      BY <1>0, <1>2 DEF V!Publish, ViewTypes
    <3>5. ViewWakes(c, "out", X)
      BY <1>0, <1>2 DEF V!Publish, ViewWakes, V!Queued
    <3>6. QED BY <3>1, <3>2, <3>3, <3>4, <3>5, <3>7 DEF ViewMove
  <2>2. QED BY <1>1, <2>1, ViewMoves
<1>3. CASE waiting > 0 /\ V!Sleep(c, "show2", X)
  <2>1. ViewMove(c, "show2", X)
    <3>1. ViewGoes(c, "show2", X)
      BY <1>0, <1>3 DEF V!Publish, ViewGoes, V!Run, V!Sleep, V!Docked, V!Queued
    <3>2. ViewQueues(c, "show2")
      BY <1>0, <1>3 DEF V!Publish, ViewQueues, V!Docked, V!Queued
    <3>3. ViewCounts(c, "show2")
      BY <1>0, <1>3 DEF ViewCounts
    <3>7. ViewShows(c, "show2")
      <4>1. waiting' # 0 /\ ~(waiting' > waiting)
        BY <1>0, <1>3
      <4>2. t' = TRUE
        BY <1>0, <1>3 DEF V!Publish
      <4>3. QED BY <4>1, <4>2 DEF ViewShows
    <3>4. ViewTypes
      BY <1>0, <1>3 DEF V!Publish, ViewTypes
    <3>5. ViewWakes(c, "show2", X)
      BY <1>0, <1>3 DEF V!Publish, ViewWakes, V!Queued
    <3>6. QED BY <3>1, <3>2, <3>3, <3>4, <3>5, <3>7 DEF ViewMove
  <2>2. QED BY <1>1, <2>1, ViewMoves
<1>4. QED BY <1>2, <1>3 DEF V!Publish

\* It takes the object back.
LEMMA Retracting ==
  ASSUME V!IInv, NEW c \in Viewers, V!Retract(c, MutexLess(c), DockLess(c)),
         m = None, c = Host, waiting = 0, current \in {None, c},
         pc[c] \notin {"want1", "back1", "fail1", "want2", "back2", "fail2"},
         UNCHANGED <<wanting, waiting, late>>
  PROVE  V!IInv'
<1>0. /\ pend \in [Viewers -> SUBSET V!Requests] /\ masked \in [Viewers -> BOOLEAN]
      /\ late \in [Viewers -> BOOLEAN] /\ t \in BOOLEAN /\ wanting \in Int /\ waiting \in Int
      /\ V!ToSet(DockLess(c)) \subseteq Viewers /\ V!Front1(MutexLess(c)) \subseteq Viewers
      /\ None \notin Viewers
  BY ViewFacts
<1> DEFINE X == V!ToSet(DockLess(c)) \cup V!Front1(MutexLess(c))
<1>1. X \in SUBSET Viewers /\ "out" \in V!Places
  BY <1>0 DEF V!Places
<1>2. ViewMove(c, "out", X)
  <2>1. ViewGoes(c, "out", X)
    BY <1>0 DEF V!Retract, ViewGoes, V!Run, V!Sleep, V!Docked, V!Queued
  <2>2. ViewQueues(c, "out")
    BY <1>0 DEF V!Retract, ViewQueues, V!Docked, V!Queued
  <2>3. ViewCounts(c, "out")
    BY <1>0 DEF ViewCounts
  <2>7. ViewShows(c, "out")
    <3>1. ~(waiting' > waiting) /\ waiting' = 0
      BY <1>0
    <3>2. t' = FALSE
      BY DEF V!Retract
    <3>3. QED BY <3>1, <3>2 DEF ViewShows
  <2>4. ViewTypes
    BY <1>0 DEF V!Retract, ViewTypes
  <2>5. ViewWakes(c, "out", X)
    BY <1>0 DEF V!Retract, ViewWakes, V!Queued
  <2>6. QED BY <2>1, <2>2, <2>3, <2>4, <2>5, <2>7 DEF ViewMove
<1>3. QED BY <1>1, <1>2, ViewMoves

LEMMA ViewProduce == ASSUME V!IInv, NEW c \in Viewers, V!Produce(c) PROVE V!IInv'
<1>0. /\ pend \in [Viewers -> SUBSET V!Requests] /\ masked \in [Viewers -> BOOLEAN]
      /\ late \in [Viewers -> BOOLEAN] /\ t \in BOOLEAN /\ wanting \in Int /\ waiting \in Int
      /\ None \notin Viewers /\ pc[c] = "out" /\ m # c /\ current = c /\ c = Host
      /\ UNCHANGED <<wanting, waiting, late>>
  BY ViewFacts DEF V!Produce
<1>1. DockLess(c) = vq /\ MutexLess(c) = mq
  BY <1>0 DEF DockLess, MutexLess, V!Docked, V!Queued
<1>2. CASE wanting = 0 /\ m = None /\ V!Publish(c, mq, vq)
  BY <1>0, <1>1, <1>2, Publishing
<1>3. CASE wanting = 0 /\ m # None /\ V!Queue(c, "take1")
           /\ masked' = [masked EXCEPT ![c] = TRUE] /\ UNCHANGED <<pend, vq, t>>
  <2> DEFINE X == {}
  <2>1. ViewMove(c, "take1", X)
    <3>1. ViewGoes(c, "take1", X)
      BY <1>0, <1>1, <1>3 DEF V!Queue, ViewGoes, V!Run, V!Sleep, V!Docked, V!Queued
    <3>2. ViewQueues(c, "take1")
      BY <1>0, <1>1, <1>3 DEF V!Queue, ViewQueues, V!Docked, V!Queued
    <3>3. ViewCounts(c, "take1")
      BY <1>0, <1>1, <1>3 DEF V!Queue, ViewCounts
    <3>4. ViewShows(c, "take1")
      BY <1>0, <1>1, <1>3 DEF V!Queue, ViewShows
    <3>5. ViewTypes
      BY <1>0, <1>1, <1>3 DEF V!Queue, ViewTypes
    <3>6. ViewWakes(c, "take1", X)
      BY <1>0, <1>1, <1>3 DEF V!Queue, ViewWakes, V!Queued
    <3>7. QED BY <3>1, <3>2, <3>3, <3>4, <3>5, <3>6 DEF ViewMove
  <2>2. X \in SUBSET Viewers /\ "take1" \in V!Places
    BY DEF V!Places, V!Queued
  <2>3. QED BY <2>1, <2>2, ViewMoves
<1>4. CASE wanting > 0 /\ V!Sleep(c, "show1", {}) /\ vq' = Append(vq, c)
           /\ masked' = [masked EXCEPT ![c] = TRUE] /\ UNCHANGED <<pend, m, mq, t>>
  <2> DEFINE X == {}
  <2>1. ViewMove(c, "show1", X)
    <3>1. ViewGoes(c, "show1", X)
      BY <1>0, <1>1, <1>4 DEF ViewGoes, V!Run, V!Sleep, V!Docked, V!Queued
    <3>2. ViewQueues(c, "show1")
      BY <1>0, <1>1, <1>4 DEF ViewQueues, V!Docked, V!Queued
    <3>3. ViewCounts(c, "show1")
      BY <1>0, <1>1, <1>4 DEF ViewCounts
    <3>4. ViewShows(c, "show1")
      BY <1>0, <1>1, <1>4 DEF ViewShows
    <3>5. ViewTypes
      BY <1>0, <1>1, <1>4 DEF ViewTypes
    <3>6. ViewWakes(c, "show1", X)
      BY <1>0, <1>1, <1>4 DEF ViewWakes, V!Queued
    <3>7. QED BY <3>1, <3>2, <3>3, <3>4, <3>5, <3>6 DEF ViewMove
  <2>2. X \in SUBSET Viewers /\ "show1" \in V!Places
    BY DEF V!Places, V!Docked
  <2>3. QED BY <2>1, <2>2, ViewMoves
<1>5. QED BY <1>2, <1>3, <1>4 DEF V!Produce

LEMMA ViewLock == ASSUME V!IInv, NEW c \in Viewers, V!Lock(c) \/ V!Unlock(c) PROVE V!IInv'
<1>0. /\ pend \in [Viewers -> SUBSET V!Requests] /\ masked \in [Viewers -> BOOLEAN]
      /\ late \in [Viewers -> BOOLEAN] /\ t \in BOOLEAN /\ wanting \in Int /\ waiting \in Int
      /\ None \notin Viewers /\ pc[c] \in {"out", "in", "view"} /\ current = c
      /\ m = c <=> pc[c] \in {"in", "view"}
      /\ UNCHANGED <<pend, masked, vq, t, wanting, waiting, late>>
      /\ V!Front1(MutexLess(c)) \subseteq Viewers
  BY ViewFacts DEF V!Lock, V!Unlock, V!Holds
<1>1. DockLess(c) = vq /\ MutexLess(c) = mq
  BY <1>0 DEF DockLess, MutexLess, V!Docked, V!Queued
<1>2. CASE V!Lock(c) /\ m = None
  <2> DEFINE X == {}
  <2>1. ViewMove(c, "in", X)
    <3>1. ViewGoes(c, "in", X)
      BY <1>0, <1>1, <1>2 DEF V!Lock, ViewGoes, V!Run, V!Sleep, V!Docked, V!Queued
    <3>2. ViewQueues(c, "in")
      BY <1>0, <1>1, <1>2 DEF V!Lock, ViewQueues, V!Docked, V!Queued
    <3>3. ViewCounts(c, "in")
      BY <1>0, <1>1, <1>2 DEF V!Lock, ViewCounts
    <3>4. ViewShows(c, "in")
      BY <1>0, <1>1, <1>2 DEF V!Lock, ViewShows
    <3>5. ViewTypes
      BY <1>0, <1>1, <1>2 DEF V!Lock, ViewTypes
    <3>6. ViewWakes(c, "in", X)
      BY <1>0, <1>1, <1>2 DEF V!Lock, ViewWakes, V!Queued
    <3>7. QED BY <3>1, <3>2, <3>3, <3>4, <3>5, <3>6 DEF ViewMove
  <2>2. X \in SUBSET Viewers /\ "in" \in V!Places
    BY DEF V!Places
  <2>3. QED BY <2>1, <2>2, ViewMoves
<1>3. CASE V!Lock(c) /\ m # None
  <2> DEFINE X == {}
  <2>1. ViewMove(c, "lock", X)
    <3>1. ViewGoes(c, "lock", X)
      BY <1>0, <1>1, <1>3 DEF V!Lock, V!Queue, ViewGoes, V!Run, V!Sleep, V!Docked, V!Queued
    <3>2. ViewQueues(c, "lock")
      BY <1>0, <1>1, <1>3 DEF V!Lock, V!Queue, ViewQueues, V!Docked, V!Queued
    <3>3. ViewCounts(c, "lock")
      BY <1>0, <1>1, <1>3 DEF V!Lock, V!Queue, ViewCounts
    <3>4. ViewShows(c, "lock")
      BY <1>0, <1>1, <1>3 DEF V!Lock, V!Queue, ViewShows
    <3>5. ViewTypes
      BY <1>0, <1>1, <1>3 DEF V!Lock, V!Queue, ViewTypes
    <3>6. ViewWakes(c, "lock", X)
      BY <1>0, <1>1, <1>3 DEF V!Lock, V!Queue, ViewWakes, V!Queued
    <3>7. QED BY <3>1, <3>2, <3>3, <3>4, <3>5, <3>6 DEF ViewMove
  <2>2. X \in SUBSET Viewers /\ "lock" \in V!Places
    BY DEF V!Places, V!Queued
  <2>3. QED BY <2>1, <2>2, ViewMoves
<1>4. CASE V!Unlock(c)
  <2> DEFINE X == V!Front1(mq)
  <2>1. ViewMove(c, "out", X)
    <3>1. ViewGoes(c, "out", X)
      BY <1>0, <1>1, <1>4 DEF V!Unlock, V!Holds, ViewGoes, V!Run, V!Sleep, V!Docked, V!Queued
    <3>2. ViewQueues(c, "out")
      BY <1>0, <1>1, <1>4 DEF V!Unlock, V!Holds, ViewQueues, V!Docked, V!Queued
    <3>3. ViewCounts(c, "out")
      BY <1>0, <1>1, <1>4 DEF V!Unlock, V!Holds, ViewCounts
    <3>4. ViewShows(c, "out")
      BY <1>0, <1>1, <1>4 DEF V!Unlock, V!Holds, ViewShows
    <3>5. ViewTypes
      BY <1>0, <1>1, <1>4 DEF V!Unlock, V!Holds, ViewTypes
    <3>6. ViewWakes(c, "out", X)
      BY <1>0, <1>1, <1>4 DEF V!Unlock, V!Holds, ViewWakes, V!Queued
    <3>7. QED BY <3>1, <3>2, <3>3, <3>4, <3>5, <3>6 DEF ViewMove
  <2>2. X \in SUBSET Viewers /\ "out" \in V!Places
    BY <1>0, <1>1 DEF V!Places
  <2>3. QED BY <2>1, <2>2, ViewMoves
<1>5. QED BY <1>2, <1>3, <1>4

LEMMA ViewConsume == ASSUME V!IInv, NEW c \in Viewers, V!Consume1(c) PROVE V!IInv'
<1>0. /\ pend \in [Viewers -> SUBSET V!Requests] /\ masked \in [Viewers -> BOOLEAN]
      /\ late \in [Viewers -> BOOLEAN] /\ t \in BOOLEAN /\ wanting \in Int /\ waiting \in Int
      /\ None \notin Viewers /\ pc[c] \in {"in", "view"} /\ m = c /\ current = c
      /\ UNCHANGED <<pend, masked, t>> /\ late' = [late EXCEPT ![c] = FALSE]
      /\ V!Front1(MutexLess(c)) \subseteq Viewers /\ V!ToSet(DockLess(c)) \subseteq Viewers
  BY ViewFacts DEF V!Consume1, V!Holds
<1>1. DockLess(c) = vq /\ MutexLess(c) = mq
  BY <1>0 DEF DockLess, MutexLess, V!Docked, V!Queued
<1>2. CASE V!Consumed1(c, mq, vq, wanting)
  <2>1. V!Consume2(c, MutexLess(c), DockLess(c), V!ToSet(DockLess(c))) /\ wanting' = wanting
    BY <1>1, <1>2 DEF V!Consumed1
  <2>2. pc[c] \notin {"want2", "back2", "fail2"} /\ pc[c] \notin {"want1", "back1", "fail1"}
    BY <1>0
  <2>3. late' \in [Viewers -> BOOLEAN]
    BY <1>0
  <2>4. QED BY <1>0, <2>1, <2>2, <2>3, Consuming2
<1>3. CASE /\ t /\ m' = None /\ vq' = Append(vq, c) /\ wanting' = wanting + 1
           /\ V!Sleep(c, "want1", V!Front1(mq)) /\ UNCHANGED <<mq, waiting>>
  <2> DEFINE X == V!Front1(mq)
  <2>1. ViewMove(c, "want1", X)
    <3>1. ViewGoes(c, "want1", X)
      BY <1>0, <1>1, <1>3 DEF ViewGoes, V!Run, V!Sleep, V!Docked, V!Queued
    <3>2. ViewQueues(c, "want1")
      BY <1>0, <1>1, <1>3 DEF ViewQueues, V!Docked, V!Queued
    <3>3. ViewCounts(c, "want1")
      BY <1>0, <1>1, <1>3 DEF ViewCounts
    <3>4. ViewShows(c, "want1")
      BY <1>0, <1>1, <1>3 DEF ViewShows
    <3>5. ViewTypes
      BY <1>0, <1>1, <1>3 DEF ViewTypes
    <3>6. ViewWakes(c, "want1", X)
      BY <1>0, <1>1, <1>3 DEF ViewWakes, V!Queued
    <3>7. QED BY <3>1, <3>2, <3>3, <3>4, <3>5, <3>6 DEF ViewMove
  <2>2. X \in SUBSET Viewers /\ "want1" \in V!Places
    BY <1>0, <1>1 DEF V!Places, V!Docked
  <2>3. QED BY <2>1, <2>2, ViewMoves
<1>4. QED BY <1>2, <1>3 DEF V!Consume1

LEMMA ViewWakeConsumer == ASSUME V!IInv, NEW c \in Viewers, V!WakeConsumer(c) PROVE V!IInv'
<1>0. /\ pend \in [Viewers -> SUBSET V!Requests] /\ masked \in [Viewers -> BOOLEAN]
      /\ late \in [Viewers -> BOOLEAN] /\ t \in BOOLEAN /\ wanting \in Int /\ waiting \in Int
      /\ V!Front1(MutexLess(c)) \subseteq Viewers /\ V!ToSet(DockLess(c)) \subseteq Viewers
      /\ None \notin Viewers /\ current = None /\ m # c /\ pc[c] \in {"want1", "want2"}
      /\ (pc[c] = "want2" => t = TRUE) /\ UNCHANGED <<pend, masked, t, late>>
  BY ViewFacts DEF V!WakeConsumer, V!Awake, V!Resumable, V!Ready
<1>1. DockLess(c) = V!Without(vq, c) /\ MutexLess(c) = mq
  BY <1>0 DEF DockLess, MutexLess, V!Docked, V!Queued
<1>2. CASE m # None /\ pc[c] = "want1"
  <2> DEFINE X == {}
  <2>0. V!Queue(c, "back1") /\ vq' = V!Without(vq, c) /\ UNCHANGED <<wanting, waiting>>
    BY <1>2 DEF V!WakeConsumer
  <2>1. ViewMove(c, "back1", X)
    <3>1. ViewGoes(c, "back1", X)
      BY <1>0, <1>1, <1>2, <2>0 DEF V!Queue, ViewGoes, V!Run, V!Sleep, V!Docked, V!Queued
    <3>2. ViewQueues(c, "back1")
      BY <1>0, <1>1, <1>2, <2>0 DEF V!Queue, ViewQueues, V!Docked, V!Queued
    <3>3. ViewCounts(c, "back1")
      BY <1>0, <1>1, <1>2, <2>0 DEF V!Queue, ViewCounts
    <3>4. ViewShows(c, "back1")
      BY <1>0, <1>1, <1>2, <2>0 DEF V!Queue, ViewShows
    <3>5. ViewTypes
      BY <1>0, <1>1, <1>2, <2>0 DEF V!Queue, ViewTypes
    <3>6. ViewWakes(c, "back1", X)
      BY <1>0, <1>1, <1>2, <2>0 DEF V!Queue, ViewWakes, V!Queued
    <3>7. QED BY <3>1, <3>2, <3>3, <3>4, <3>5, <3>6 DEF ViewMove
  <2>2. X \in SUBSET Viewers /\ "back1" \in V!Places
    BY DEF V!Places, V!Queued
  <2>3. QED BY <2>1, <2>2, ViewMoves
<1>3. CASE m # None /\ pc[c] = "want2"
  <2> DEFINE X == {}
  <2>0. V!Queue(c, "back2") /\ vq' = V!Without(vq, c) /\ UNCHANGED <<wanting, waiting>>
    BY <1>3 DEF V!WakeConsumer
  <2>1. ViewMove(c, "back2", X)
    <3>1. ViewGoes(c, "back2", X)
      BY <1>0, <1>1, <1>3, <2>0 DEF V!Queue, ViewGoes, V!Run, V!Sleep, V!Docked, V!Queued
    <3>2. ViewQueues(c, "back2")
      BY <1>0, <1>1, <1>3, <2>0 DEF V!Queue, ViewQueues, V!Docked, V!Queued
    <3>3. ViewCounts(c, "back2")
      BY <1>0, <1>1, <1>3, <2>0 DEF V!Queue, ViewCounts
    <3>4. ViewShows(c, "back2")
      BY <1>0, <1>1, <1>3, <2>0 DEF V!Queue, ViewShows
    <3>5. ViewTypes
      BY <1>0, <1>1, <1>3, <2>0 DEF V!Queue, ViewTypes
    <3>6. ViewWakes(c, "back2", X)
      BY <1>0, <1>1, <1>3, <2>0 DEF V!Queue, ViewWakes, V!Queued
    <3>7. QED BY <3>1, <3>2, <3>3, <3>4, <3>5, <3>6 DEF ViewMove
  <2>2. X \in SUBSET Viewers /\ "back2" \in V!Places
    BY DEF V!Places, V!Queued
  <2>3. QED BY <2>1, <2>2, ViewMoves
<1>4. CASE m = None /\ pc[c] = "want1"
  <2>1. /\ V!Consume2(c, MutexLess(c), DockLess(c), V!ToSet(DockLess(c)))
        /\ wanting' = wanting - 1
    BY <1>1, <1>4 DEF V!WakeConsumer, V!Consumed1
  <2>2. pc[c] \notin {"want2", "back2", "fail2"} /\ pc[c] \in {"want1", "back1", "fail1"}
    BY <1>4
  <2>3. QED BY <1>0, <1>4, <2>1, <2>2, Consuming2
<1>5. CASE m = None /\ pc[c] = "want2"
  <2> DEFINE X == V!ToSet(DockLess(c))
  <2>0. V!Consumed2(c, MutexLess(c), DockLess(c)) /\ t = TRUE
    BY <1>0, <1>1, <1>5 DEF V!WakeConsumer, V!Ready
  <2>1. ViewMove(c, "view", X)
    <3>1. ViewGoes(c, "view", X)
      BY <1>0, <1>1, <1>5, <2>0 DEF V!Consumed2, ViewGoes, V!Run, V!Sleep, V!Docked, V!Queued
    <3>2. ViewQueues(c, "view")
      BY <1>0, <1>1, <1>5, <2>0 DEF V!Consumed2, ViewQueues, V!Docked, V!Queued
    <3>3. ViewCounts(c, "view")
      BY <1>0, <1>1, <1>5, <2>0 DEF V!Consumed2, ViewCounts
    <3>4. ViewShows(c, "view")
      BY <1>0, <1>1, <1>5, <2>0 DEF V!Consumed2, ViewShows
    <3>5. ViewTypes
      BY <1>0, <1>1, <1>5, <2>0 DEF V!Consumed2, ViewTypes
    <3>6. ViewWakes(c, "view", X)
      BY <1>0, <1>1, <1>5, <2>0 DEF V!Consumed2, ViewWakes, V!Queued
    <3>7. QED BY <3>1, <3>2, <3>3, <3>4, <3>5, <3>6 DEF ViewMove
  <2>2. X \in SUBSET Viewers /\ "view" \in V!Places
    BY <1>0 DEF V!Places
  <2>3. QED BY <2>1, <2>2, ViewMoves
<1>6. QED BY <1>0, <1>2, <1>3, <1>4, <1>5

\* c leaves wait() by a throw with the mutex taken.
LEMMA ViewFails ==
  ASSUME V!IInv, NEW c \in Viewers, NEW first \in BOOLEAN,
         V!Failed(c, MutexLess(c), DockLess(c), first), m = None, current = None,
         pc[c] \in {"want1", "fail1"} => first,
         pc[c] \in {"want2", "fail2"} => ~first,
         pc[c] \in {"want1", "want2", "fail1", "fail2"},
         pend' \in [Viewers -> SUBSET V!Requests], masked' \in [Viewers -> BOOLEAN],
         UNCHANGED <<t, late>>
  PROVE  V!IInv'
<1>0. /\ pend \in [Viewers -> SUBSET V!Requests] /\ masked \in [Viewers -> BOOLEAN]
      /\ late \in [Viewers -> BOOLEAN] /\ t \in BOOLEAN /\ wanting \in Int /\ waiting \in Int
      /\ V!Front1(MutexLess(c)) \subseteq Viewers /\ V!ToSet(DockLess(c)) \subseteq Viewers
      /\ None \notin Viewers /\ current = None /\ m # c
  BY ViewFacts
<1> DEFINE X == V!ToSet(DockLess(c))
<1>2. X \in SUBSET Viewers /\ "in" \in V!Places
  BY <1>0 DEF V!Places
<1>3. /\ pc[c] \in {"want1", "fail1"} => wanting' = wanting - 1 /\ waiting' = waiting
      /\ pc[c] \in {"want2", "fail2"} => waiting' = waiting - 1 /\ wanting' = wanting
  BY DEF V!Failed
<1>1. ViewMove(c, "in", X)
  <2>1. ViewGoes(c, "in", X)
    BY <1>0 DEF V!Failed, ViewGoes, V!Run, V!Docked, V!Queued
  <2>2. ViewQueues(c, "in")
    BY <1>0 DEF V!Failed, ViewQueues, V!Docked, V!Queued
  <2>3. ViewCounts(c, "in")
    BY <1>0, <1>3 DEF ViewCounts
  <2>4. ViewShows(c, "in")
    <3>1. ~(waiting' > waiting)
      BY <1>0, <1>3
    <3>2. QED BY <1>0, <3>1 DEF ViewShows
  <2>5. ViewTypes
    BY <1>0 DEF ViewTypes
  <2>6. ViewWakes(c, "in", X)
    <3>1. m' # None
      BY <1>0 DEF V!Failed
    <3>2. QED BY <3>1 DEF ViewWakes
  <2>7. QED BY <2>1, <2>2, <2>3, <2>4, <2>5, <2>6 DEF ViewMove
<1>4. QED BY <1>1, <1>2, ViewMoves

LEMMA ViewWakeFailing == ASSUME V!IInv, NEW c \in Viewers, V!WakeFailing(c) PROVE V!IInv'
<1>0. /\ pend \in [Viewers -> SUBSET V!Requests] /\ masked \in [Viewers -> BOOLEAN]
      /\ late \in [Viewers -> BOOLEAN] /\ t \in BOOLEAN /\ wanting \in Int /\ waiting \in Int
      /\ V!Front1(MutexLess(c)) \subseteq Viewers /\ V!ToSet(DockLess(c)) \subseteq Viewers
      /\ None \notin Viewers /\ current = None /\ m # c /\ pc[c] \in {"want1", "want2"}
      /\ UNCHANGED <<t, late>>
  BY ViewFacts DEF V!WakeFailing, V!Awake, V!Resumable
<1>1. DockLess(c) = V!Without(vq, c) /\ MutexLess(c) = mq
  BY <1>0 DEF DockLess, MutexLess, V!Docked, V!Queued
<1>2. pend' \in [Viewers -> SUBSET V!Requests] /\ masked' \in [Viewers -> BOOLEAN]
  BY <1>0, ViewFacts DEF V!WakeFailing
<1>3. CASE m = None
  <2>1. V!Failed(c, MutexLess(c), DockLess(c), pc[c] = "want1")
    BY <1>1, <1>3 DEF V!WakeFailing
  <2>2. (pc[c] = "want1") \in BOOLEAN
    OBVIOUS
  <2>3. CASE pc[c] = "want1"
    <3>1. V!Failed(c, MutexLess(c), DockLess(c), TRUE)
      BY <2>1, <2>3 DEF V!Failed
    <3>2. QED BY <1>0, <1>2, <1>3, <2>3, <3>1, ViewFails
  <2>4. CASE pc[c] = "want2"
    <3>1. V!Failed(c, MutexLess(c), DockLess(c), FALSE)
      BY <2>1, <2>4 DEF V!Failed
    <3>2. QED BY <1>0, <1>2, <1>3, <2>4, <3>1, ViewFails
  <2>5. QED BY <1>0, <2>3, <2>4
<1>4. CASE m # None
  <2> DEFINE X == IF V!Throws(c) THEN V!Front1(V!Without(vq, c)) ELSE {}
  <2>0. /\ current' = None
        /\ stage' = [V!Wake(stage, X) EXCEPT ![c] = "asleep"]
        /\ pc' = [pc EXCEPT ![c] = IF @ = "want1" THEN "fail1" ELSE "fail2"]
        /\ mq' = Append(mq, c) /\ vq' = V!Without(vq, c)
        /\ UNCHANGED <<m, wanting, waiting>>
    BY <1>4 DEF V!WakeFailing
  <2>2. X \in SUBSET Viewers /\ {"fail1", "fail2"} \subseteq V!Places
    <3>1. V!ToSet(V!Without(vq, c)) \subseteq Viewers
      BY <1>0, <1>1
    <3>2. Without(vq, c) \in Seq(Viewers)
      <4>1. /\ vq \in Seq(Viewers) /\ ToSet(vq) = {x \in Viewers : pc[x] \in V!Docked}
            /\ V!Once(vq)
        BY SameView DEF V!IInv, V!TypeOK, V!DockHolds, Viewers
      <4>2. c \in ToSet(vq)
        BY <1>0, <4>1 DEF V!Docked
      <4>3. QED BY <4>1, <4>2, WithoutElements DEF V!Once
    <3>3. V!Front1(V!Without(vq, c)) \subseteq Viewers
      BY <3>2, SameView, HeadElement DEF V!Front1
    <3>4. QED BY <3>3 DEF V!Places, V!Queued
  <2> HIDE DEF X
  <2>3. CASE pc[c] = "want1"
    <3>1. pc' = [pc EXCEPT ![c] = "fail1"]
      BY <2>0, <2>3
    <3>3. ViewMove(c, "fail1", X)
      <4>1. ViewGoes(c, "fail1", X)
        BY <1>0, <1>1, <1>2, <1>4, <2>0, <2>3, <3>1 DEF ViewGoes, V!Run, V!Sleep, V!Docked, V!Queued
      <4>2. ViewQueues(c, "fail1")
        BY <1>0, <1>1, <1>2, <1>4, <2>0, <2>3, <3>1 DEF ViewQueues, V!Docked, V!Queued
      <4>3. ViewCounts(c, "fail1")
        BY <1>0, <1>1, <1>2, <1>4, <2>0, <2>3, <3>1 DEF ViewCounts
      <4>4. ViewShows(c, "fail1")
        BY <1>0, <1>1, <1>2, <1>4, <2>0, <2>3, <3>1 DEF ViewShows
      <4>5. ViewTypes
        BY <1>0, <1>1, <1>2, <1>4, <2>0, <2>3, <3>1 DEF ViewTypes
      <4>6. ViewWakes(c, "fail1", X)
        BY <1>0, <1>1, <1>2, <1>4, <2>0, <2>3, <3>1 DEF ViewWakes, V!Queued
      <4>7. QED BY <4>1, <4>2, <4>3, <4>4, <4>5, <4>6 DEF ViewMove
    <3>4. QED BY <2>2, <3>3, ViewMoves
  <2>4. CASE pc[c] = "want2"
    <3>1. pc' = [pc EXCEPT ![c] = "fail2"]
      BY <1>0, <2>0, <2>4
    <3>3. ViewMove(c, "fail2", X)
      <4>1. ViewGoes(c, "fail2", X)
        BY <1>0, <1>1, <1>2, <1>4, <2>0, <2>4, <3>1 DEF ViewGoes, V!Run, V!Sleep, V!Docked, V!Queued
      <4>2. ViewQueues(c, "fail2")
        BY <1>0, <1>1, <1>2, <1>4, <2>0, <2>4, <3>1 DEF ViewQueues, V!Docked, V!Queued
      <4>3. ViewCounts(c, "fail2")
        BY <1>0, <1>1, <1>2, <1>4, <2>0, <2>4, <3>1 DEF ViewCounts
      <4>4. ViewShows(c, "fail2")
        BY <1>0, <1>1, <1>2, <1>4, <2>0, <2>4, <3>1 DEF ViewShows
      <4>5. ViewTypes
        BY <1>0, <1>1, <1>2, <1>4, <2>0, <2>4, <3>1 DEF ViewTypes
      <4>6. ViewWakes(c, "fail2", X)
        BY <1>0, <1>1, <1>2, <1>4, <2>0, <2>4, <3>1 DEF ViewWakes, V!Queued
      <4>7. QED BY <4>1, <4>2, <4>3, <4>4, <4>5, <4>6 DEF ViewMove
    <3>4. QED BY <2>2, <3>3, ViewMoves
  <2>5. QED BY <1>0, <2>3, <2>4
<1>5. QED BY <1>3, <1>4

LEMMA ViewWakeProducer == ASSUME V!IInv, NEW c \in Viewers, V!WakeProducer(c) PROVE V!IInv'
<1>0. /\ pend \in [Viewers -> SUBSET V!Requests] /\ masked \in [Viewers -> BOOLEAN]
      /\ late \in [Viewers -> BOOLEAN] /\ t \in BOOLEAN /\ wanting \in Int /\ waiting \in Int
      /\ V!Front1(MutexLess(c)) \subseteq Viewers /\ V!ToSet(DockLess(c)) \subseteq Viewers
      /\ None \notin Viewers /\ current = None /\ m # c /\ pc[c] \in {"show1", "show2"} /\ c = Host
      /\ (pc[c] = "show2" => waiting = 0 /\ t = TRUE)
      /\ UNCHANGED <<wanting, waiting, late>>
  BY ViewFacts DEF V!WakeProducer, V!Awake, V!Resumable, V!Ready
<1>1. DockLess(c) = V!Without(vq, c) /\ MutexLess(c) = mq
  BY <1>0 DEF DockLess, MutexLess, V!Docked, V!Queued
<1>2. CASE m # None /\ pc[c] = "show1"
  <2> DEFINE X == {}
  <2>0. V!Queue(c, "take1") /\ vq' = V!Without(vq, c) /\ UNCHANGED <<pend, masked, t>>
    BY <1>2 DEF V!WakeProducer
  <2>1. ViewMove(c, "take1", X)
    <3>1. ViewGoes(c, "take1", X)
      BY <1>0, <1>1, <1>2, <2>0 DEF V!Queue, ViewGoes, V!Run, V!Sleep, V!Docked, V!Queued
    <3>2. ViewQueues(c, "take1")
      BY <1>0, <1>1, <1>2, <2>0 DEF V!Queue, ViewQueues, V!Docked, V!Queued
    <3>3. ViewCounts(c, "take1")
      BY <1>0, <1>1, <1>2, <2>0 DEF V!Queue, ViewCounts
    <3>4. ViewShows(c, "take1")
      BY <1>0, <1>1, <1>2, <2>0 DEF V!Queue, ViewShows
    <3>5. ViewTypes
      BY <1>0, <1>1, <1>2, <2>0 DEF V!Queue, ViewTypes
    <3>6. ViewWakes(c, "take1", X)
      BY <1>0, <1>1, <1>2, <2>0 DEF V!Queue, ViewWakes, V!Queued
    <3>7. QED BY <3>1, <3>2, <3>3, <3>4, <3>5, <3>6 DEF ViewMove
  <2>2. X \in SUBSET Viewers /\ "take1" \in V!Places
    BY DEF V!Places, V!Queued
  <2>3. QED BY <2>1, <2>2, ViewMoves
<1>3. CASE m # None /\ pc[c] = "show2"
  <2> DEFINE X == {}
  <2>0. V!Queue(c, "take2") /\ vq' = V!Without(vq, c) /\ UNCHANGED <<pend, masked, t>>
    BY <1>3 DEF V!WakeProducer
  <2>1. ViewMove(c, "take2", X)
    <3>1. ViewGoes(c, "take2", X)
      BY <1>0, <1>1, <1>3, <2>0 DEF V!Queue, ViewGoes, V!Run, V!Sleep, V!Docked, V!Queued
    <3>2. ViewQueues(c, "take2")
      BY <1>0, <1>1, <1>3, <2>0 DEF V!Queue, ViewQueues, V!Docked, V!Queued
    <3>3. ViewCounts(c, "take2")
      BY <1>0, <1>1, <1>3, <2>0 DEF V!Queue, ViewCounts
    <3>4. ViewShows(c, "take2")
      BY <1>0, <1>1, <1>3, <2>0 DEF V!Queue, ViewShows
    <3>5. ViewTypes
      BY <1>0, <1>1, <1>3, <2>0 DEF V!Queue, ViewTypes
    <3>6. ViewWakes(c, "take2", X)
      BY <1>0, <1>1, <1>3, <2>0 DEF V!Queue, ViewWakes, V!Queued
    <3>7. QED BY <3>1, <3>2, <3>3, <3>4, <3>5, <3>6 DEF ViewMove
  <2>2. X \in SUBSET Viewers /\ "take2" \in V!Places
    BY DEF V!Places, V!Queued
  <2>3. QED BY <2>1, <2>2, ViewMoves
<1>4. CASE m = None
  <2>1. \/ V!Publish(c, MutexLess(c), DockLess(c))
        \/ V!Retract(c, MutexLess(c), DockLess(c)) /\ waiting = 0
    BY <1>0, <1>1, <1>4 DEF V!WakeProducer
  <2>2. pc[c] \notin {"want1", "back1", "fail1", "want2", "back2", "fail2"}
    BY <1>0
  <2>3. QED BY <1>0, <1>4, <2>1, <2>2, Publishing, Retracting
<1>5. QED BY <1>0, <1>2, <1>3, <1>4

LEMMA ViewWakeOwning == ASSUME V!IInv, NEW c \in Viewers, V!WakeOwning(c) PROVE V!IInv'
<1>0. /\ pend \in [Viewers -> SUBSET V!Requests] /\ masked \in [Viewers -> BOOLEAN]
      /\ late \in [Viewers -> BOOLEAN] /\ t \in BOOLEAN /\ wanting \in Int /\ waiting \in Int
      /\ V!Front1(MutexLess(c)) \subseteq Viewers /\ V!ToSet(DockLess(c)) \subseteq Viewers
      /\ None \notin Viewers /\ current = None /\ m = None /\ pc[c] \in V!Queued
      /\ late' = late /\ (pc[c] \in {"back2", "take2"} => t = TRUE)
      /\ (pc[c] \in {"take1", "take2"} => c = Host) /\ (pc[c] = "take2" => waiting = 0)
  BY ViewFacts DEF V!WakeOwning, V!Awake, V!Resumable
<1>1. DockLess(c) = vq /\ MutexLess(c) = V!Without(mq, c)
  BY <1>0 DEF DockLess, MutexLess, V!Docked, V!Queued
<1>2. CASE pc[c] = "back1" /\ V!Consumed1(c, MutexLess(c), vq, wanting - 1)
           /\ UNCHANGED <<pend, masked, t>>
  <2>1. /\ V!Consume2(c, MutexLess(c), DockLess(c), V!ToSet(DockLess(c)))
        /\ wanting' = wanting - 1
    BY <1>1, <1>2 DEF V!Consumed1
  <2>2. pc[c] \notin {"want2", "back2", "fail2"} /\ pc[c] \in {"want1", "back1", "fail1"}
    BY <1>2
  <2>3. QED BY <1>0, <1>2, <2>1, <2>2, Consuming2
<1>3. CASE pc[c] = "back2" /\ V!Consumed2(c, MutexLess(c), vq) /\ UNCHANGED <<pend, masked, t>>
  <2> DEFINE X == V!ToSet(DockLess(c))
  <2>0. V!Consumed2(c, MutexLess(c), DockLess(c))
    BY <1>1, <1>3
  <2>1. ViewMove(c, "view", X)
    <3>1. ViewGoes(c, "view", X)
      BY <1>0, <1>3, <2>0 DEF V!Consumed2, ViewGoes, V!Run, V!Sleep, V!Docked, V!Queued
    <3>2. ViewQueues(c, "view")
      BY <1>0, <1>3, <2>0 DEF V!Consumed2, ViewQueues, V!Docked, V!Queued
    <3>3. ViewCounts(c, "view")
      BY <1>0, <1>3, <2>0 DEF V!Consumed2, ViewCounts
    <3>4. ViewShows(c, "view")
      BY <1>0, <1>3, <2>0 DEF V!Consumed2, ViewShows
    <3>5. ViewTypes
      BY <1>0, <1>3, <2>0 DEF V!Consumed2, ViewTypes
    <3>6. ViewWakes(c, "view", X)
      BY <1>0, <1>3, <2>0 DEF V!Consumed2, ViewWakes, V!Queued
    <3>7. QED BY <3>1, <3>2, <3>3, <3>4, <3>5, <3>6 DEF ViewMove
  <2>2. X \in SUBSET Viewers /\ "view" \in V!Places
    BY <1>0 DEF V!Places
  <2>3. QED BY <2>1, <2>2, ViewMoves
<1>4. CASE pc[c] \in {"fail1", "fail2"} /\ V!Failed(c, MutexLess(c), vq, pc[c] = "fail1")
           /\ UNCHANGED <<pend, masked, t>>
  <2>1. V!Failed(c, MutexLess(c), DockLess(c), pc[c] = "fail1")
    BY <1>1, <1>4
  <2>2. pend' \in [Viewers -> SUBSET V!Requests] /\ masked' \in [Viewers -> BOOLEAN]
    BY <1>0, <1>4
  <2>3. CASE pc[c] = "fail1"
    <3>1. V!Failed(c, MutexLess(c), DockLess(c), TRUE)
      BY <2>1, <2>3 DEF V!Failed
    <3>2. QED BY <1>0, <1>4, <2>2, <2>3, <3>1, ViewFails
  <2>4. CASE pc[c] = "fail2"
    <3>1. V!Failed(c, MutexLess(c), DockLess(c), FALSE)
      BY <2>1, <2>4 DEF V!Failed
    <3>2. QED BY <1>0, <1>4, <2>2, <2>4, <3>1, ViewFails
  <2>5. QED BY <1>4, <2>3, <2>4
<1>5. CASE /\ pc[c] \in {"take1", "take2"} /\ UNCHANGED <<wanting, waiting>>
           /\ V!Publish(c, MutexLess(c), vq)
              \/ (pc[c] = "take2" /\ V!Retract(c, MutexLess(c), vq))
  <2>1. \/ V!Publish(c, MutexLess(c), DockLess(c))
        \/ V!Retract(c, MutexLess(c), DockLess(c)) /\ waiting = 0
    BY <1>0, <1>1, <1>5
  <2>2. pc[c] \notin {"want1", "back1", "fail1", "want2", "back2", "fail2"}
    BY <1>5
  <2>3. QED BY <1>0, <1>5, <2>1, <2>2, Publishing, Retracting
<1>6. CASE /\ pc[c] = "lock" /\ V!Run(c, "in", {}) /\ m' = c /\ mq' = MutexLess(c)
           /\ UNCHANGED <<pend, masked, vq, t, wanting, waiting>>
  <2> DEFINE X == {}
  <2>1. ViewMove(c, "in", X)
    <3>1. ViewGoes(c, "in", X)
      BY <1>0, <1>1, <1>6 DEF ViewGoes, V!Run, V!Sleep, V!Docked, V!Queued
    <3>2. ViewQueues(c, "in")
      BY <1>0, <1>1, <1>6 DEF ViewQueues, V!Docked, V!Queued
    <3>3. ViewCounts(c, "in")
      BY <1>0, <1>1, <1>6 DEF ViewCounts
    <3>4. ViewShows(c, "in")
      BY <1>0, <1>1, <1>6 DEF ViewShows
    <3>5. ViewTypes
      BY <1>0, <1>1, <1>6 DEF ViewTypes
    <3>6. ViewWakes(c, "in", X)
      BY <1>0, <1>1, <1>6 DEF ViewWakes, V!Queued
    <3>7. QED BY <3>1, <3>2, <3>3, <3>4, <3>5, <3>6 DEF ViewMove
  <2>2. X \in SUBSET Viewers /\ "in" \in V!Places
    BY DEF V!Places
  <2>3. QED BY <2>1, <2>2, ViewMoves
<1>7. QED BY <1>1, <1>2, <1>3, <1>4, <1>5, <1>6 DEF V!WakeOwning

LEMMA ViewWakeThrown == ASSUME V!IInv, NEW c \in Viewers, V!WakeThrown(c) PROVE V!IInv'
<1>0. /\ pend \in [Viewers -> SUBSET V!Requests] /\ masked \in [Viewers -> BOOLEAN]
      /\ late \in [Viewers -> BOOLEAN] /\ t \in BOOLEAN /\ wanting \in Int /\ waiting \in Int
      /\ V!Front1(MutexLess(c)) \subseteq Viewers /\ V!ToSet(DockLess(c)) \subseteq Viewers
      /\ None \notin Viewers /\ current = None /\ m # c /\ pc[c] = "lock"
      /\ UNCHANGED <<m, vq, t, wanting, waiting, late>>
  BY ViewFacts DEF V!WakeThrown, V!Awake, V!Resumable
<1>1. DockLess(c) = vq /\ MutexLess(c) = V!Without(mq, c)
  BY <1>0 DEF DockLess, MutexLess, V!Docked, V!Queued
<1>2. pend' \in [Viewers -> SUBSET V!Requests] /\ masked' \in [Viewers -> BOOLEAN]
  BY ViewFacts DEF V!WakeThrown
<1>3. mq' = MutexLess(c) /\ V!Run(c, "out", V!Front1(MutexLess(c)))
  BY <1>1 DEF V!WakeThrown
<1> DEFINE X == V!Front1(MutexLess(c))
<1>4. ViewMove(c, "out", X)
  <2>1. ViewGoes(c, "out", X)
    BY <1>0, <1>1, <1>2, <1>3 DEF ViewGoes, V!Run, V!Sleep, V!Docked, V!Queued
  <2>2. ViewQueues(c, "out")
    BY <1>0, <1>1, <1>2, <1>3 DEF ViewQueues, V!Docked, V!Queued
  <2>3. ViewCounts(c, "out")
    BY <1>0, <1>1, <1>2, <1>3 DEF ViewCounts
  <2>4. ViewShows(c, "out")
    BY <1>0, <1>1, <1>2, <1>3 DEF ViewShows
  <2>5. ViewTypes
    BY <1>0, <1>1, <1>2, <1>3 DEF ViewTypes
  <2>6. ViewWakes(c, "out", X)
    BY <1>0, <1>1, <1>2, <1>3 DEF ViewWakes, V!Queued
  <2>7. QED BY <2>1, <2>2, <2>3, <2>4, <2>5, <2>6 DEF ViewMove
<1>5. X \in SUBSET Viewers /\ "out" \in V!Places
  BY <1>0 DEF V!Places
<1>6. QED BY <1>4, <1>5, ViewMoves

\* The steps in which nobody moves.
LEMMA ViewIdle ==
  ASSUME V!IInv, NEW c \in Viewers,
         \/ V!WakeInVain(c) \/ V!Doze(c) \/ V!WakeElsewhere(c) \/ V!Expire(c) \/ V!Interrupt(c)
         \/ V!Notify(c)
  PROVE  V!IInv'
<1>0. /\ current \in Viewers \cup {None} /\ stage \in [Viewers -> V!Stages]
      /\ pend \in [Viewers -> SUBSET V!Requests] /\ masked \in [Viewers -> BOOLEAN]
      /\ late \in [Viewers -> BOOLEAN] /\ None \notin Viewers
      /\ V!Thrown(c) => pend' \in [Viewers -> SUBSET V!Requests]
                        /\ masked' \in [Viewers -> BOOLEAN]
  BY ViewFacts
<1>1. \A x \in Viewers : /\ stage[x] = "running" <=> current = x
                         /\ stage[x] # "done"
                         /\ pc[x] \in V!Docked \cup V!Queued => stage[x] # "running"
  BY DEF V!IInv, V!Executes, Viewers
<1>2. UNCHANGED <<m, mq, vq, t, wanting, waiting, pc>>
  BY DEF V!WakeInVain, V!Doze, V!WakeElsewhere, V!Expire, V!Interrupt, V!Notify
<1>3. CASE V!WakeInVain(c)
  <2>1. /\ current = None /\ stage[c] = "ready" /\ stage' = [stage EXCEPT ![c] = "asleep"]
        /\ UNCHANGED <<current, pend, masked, late>>
        /\ \/ pc[c] \in V!Docked /\ ~V!Ready(c)
           \/ pc[c] \in V!Queued /\ m # None
    BY <1>3 DEF V!WakeInVain, V!Awake, V!Resumable
  <2>2. ~(pc[c] \in V!Docked /\ pc[c] \in V!Queued)
    BY DEF V!Docked, V!Queued
  <2>3. stage' \in [Viewers -> V!Stages]
    BY <1>0, <2>1 DEF V!Stages
  <2>4. ViewStay
    BY <1>0, <1>1, <1>2, <2>1, <2>2, <2>3 DEF ViewStay
  <2>5. QED BY <2>4, ViewStays
<1>4. CASE V!Doze(c)
  <2>1. /\ current = c /\ current' = None /\ stage' = [stage EXCEPT ![c] = "asleep"]
        /\ UNCHANGED <<pend, masked, late>> /\ pc[c] \notin V!Docked \cup V!Queued
    BY <1>4 DEF V!Doze, V!Suspend, V!Docked, V!Queued
  <2>2. stage' \in [Viewers -> V!Stages]
    BY <1>0, <2>1 DEF V!Stages
  <2>3. ViewStay
    BY <1>0, <1>1, <1>2, <2>1, <2>2 DEF ViewStay
  <2>4. QED BY <2>3, ViewStays
<1>5. CASE V!WakeElsewhere(c)
  <2>1. /\ current = None /\ current' = c /\ stage' = [stage EXCEPT ![c] = "running"]
        /\ late' = late /\ pc[c] \notin V!Docked \cup V!Queued
        /\ pend' \in [Viewers -> SUBSET V!Requests] /\ masked' \in [Viewers -> BOOLEAN]
    BY <1>0, <1>5 DEF V!WakeElsewhere, V!Return, V!Resumable, V!Docked, V!Queued
  <2>2. stage' \in [Viewers -> V!Stages]
    BY <1>0, <2>1 DEF V!Stages
  <2>3. ViewStay
    BY <1>0, <1>1, <1>2, <2>1, <2>2 DEF ViewStay
  <2>4. QED BY <2>3, ViewStays
<1>6. CASE V!Expire(c) \/ V!Interrupt(c) \/ V!Notify(c)
  <2>1. stage' = V!Wake(stage, {c}) /\ current' = current /\ masked' = masked
    BY <1>6 DEF V!Expire, V!Interrupt, V!Request, V!Notify, V!Rouse
  <2>2. late' \in [Viewers -> BOOLEAN] /\ pend' \in [Viewers -> SUBSET V!Requests]
    BY <1>0, <1>6 DEF V!Expire, V!Interrupt, V!Request, V!Notify, V!Rouse, V!Requests
  <2>3. /\ stage' \in [Viewers -> V!Stages]
        /\ \A x \in Viewers : stage'[x] = stage[x]
                               \/ (stage'[x] = "ready" /\ stage[x] = "asleep")
    <3>1. stage' = [x \in Viewers |->
                     IF x \in {c} /\ stage[x] = "asleep" THEN "ready" ELSE stage[x]]
      BY <2>1 DEF V!Wake, Viewers
    <3>2. "ready" \in V!Stages
      BY DEF V!Stages
    <3>3. stage' \in [Viewers -> V!Stages]
      BY <1>0, <3>1, <3>2
    <3>4. ASSUME NEW x \in Viewers
          PROVE  stage'[x] = stage[x] \/ (stage'[x] = "ready" /\ stage[x] = "asleep")
      BY <3>1
    <3>5. QED BY ONLY <3>3, <3>4
  <2>4. ViewStay
    BY <1>0, <1>1, <1>2, <2>1, <2>2, <2>3 DEF ViewStay
  <2>5. QED BY <2>4, ViewStays
<1>7. QED BY <1>3, <1>4, <1>5, <1>6

LEMMA ViewStarts == V!Init => V!IInv
<1> SUFFICES ASSUME V!Init PROVE V!IInv
  OBVIOUS
<1>1. None \notin Viewers
  BY PartiesAssumption DEF Viewers
<1>2. /\ current = None /\ stage = [c \in Viewers |-> "ready"]
      /\ pend = [c \in Viewers |-> {}] /\ masked = [c \in Viewers |-> FALSE]
      /\ m = None /\ mq = <<>> /\ vq = <<>> /\ t = FALSE /\ wanting = 0 /\ waiting = 0
      /\ pc = [c \in Viewers |-> "out"] /\ late = [c \in Viewers |-> FALSE]
  BY DEF V!Init, V!SchedInit, Viewers
<1>3. V!SemaphoresCount
  <2>1. /\ {c \in Viewers : pc[c] \in {"want1", "back1", "fail1"}} = {}
        /\ {c \in Viewers : pc[c] \in {"want2", "back2", "fail2"}} = {}
    BY <1>2
  <2>2. QED BY <1>2, <2>1, SameView, FS_EmptySet DEF V!SemaphoresCount, Viewers
<1>4. V!TypeOK
  <2>1. 0 \in 0..V!Cardinality(Guest \cup {Host})
    BY ViewersFinite, SameView DEF Viewers
  <2>2. mq \in Seq(Viewers) /\ vq \in Seq(Viewers)
    BY <1>2
  <2>3. QED BY <1>2, <2>1, <2>2
            DEF V!TypeOK, V!SchedTypeOK, V!Stages, V!Requests, V!Places, Viewers
<1>5. V!DockHolds /\ V!MutexHolds
  BY <1>2 DEF V!DockHolds, V!MutexHolds, V!Once, V!ToSet, V!Docked, V!Queued, Viewers
<1>6. V!OwnerHolds /\ V!Executes /\ V!Shown /\ V!ViewLasts /\ V!NoStall
  BY <1>1, <1>2 DEF V!OwnerHolds, V!Holds, V!Executes, V!Shown, V!ViewLasts, V!NoStall, V!Docked,
     V!Queued, Viewers
<1>7. QED BY <1>3, <1>4, <1>5, <1>6 DEF V!IInv

LEMMA ViewKeeps == V!IInv /\ V!Next => V!IInv'
<1> SUFFICES ASSUME V!IInv, V!Next PROVE V!IInv'
  OBVIOUS
<1>1. PICK c \in Viewers :
        \/ V!Produce(c) \/ V!Lock(c) \/ V!Consume1(c) \/ V!Unlock(c) \/ V!Doze(c)
        \/ V!WakeInVain(c) \/ V!WakeConsumer(c) \/ V!WakeFailing(c) \/ V!WakeProducer(c)
        \/ V!WakeOwning(c) \/ V!WakeThrown(c) \/ V!WakeElsewhere(c) \/ V!Expire(c)
        \/ V!Interrupt(c) \/ V!Notify(c)
  BY DEF V!Next, Viewers
<1>2. QED BY <1>1, ViewProduce, ViewLock, ViewConsume, ViewIdle, ViewWakeConsumer,
             ViewWakeFailing, ViewWakeProducer, ViewWakeOwning, ViewWakeThrown

\* A view serves its consumers, however many there are: none looks at an object that has
\* been taken back, nobody sleeps past its wake-up, and the semaphores count who is inside.
THEOREM ViewServed == McSpec => []ViewServes
<1> DEFINE Inv == which = "view" => V!IInv
<1>1. McInit => Inv
  BY ViewStarts DEF McInit
<1>2. Inv /\ [McNext]_all => Inv'
  <2>1. ASSUME Inv, McNext, which' = "view" PROVE V!IInv'
    <3>1. which = "view" /\ V!Next
      BY <2>1 DEF McNext
    <3>2. QED BY <2>1, <3>1, ViewKeeps
  <2>2. ASSUME Inv, UNCHANGED all, which' = "view" PROVE V!IInv'
    <3>1. /\ UNCHANGED <<current, stage, pend, masked>>
          /\ UNCHANGED <<m, mq, vq, t, wanting, waiting, pc, late>> /\ which = "view"
      BY <2>2 DEF all, vars, sched, viewVars
    <3>2. V!TypeOK'
      BY <2>2, <3>1 DEF V!IInv, V!TypeOK, V!SchedTypeOK
    <3>3. V!DockHolds' /\ V!MutexHolds'
      BY <2>2, <3>1 DEF V!IInv, V!DockHolds, V!MutexHolds, V!Once
    <3>4. V!OwnerHolds' /\ V!Executes' /\ V!Shown'
      BY <2>2, <3>1 DEF V!IInv, V!OwnerHolds, V!Holds, V!Executes, V!Shown
    <3>5. V!ViewLasts' /\ V!SemaphoresCount' /\ V!NoStall'
      BY <2>2, <3>1 DEF V!IInv, V!ViewLasts, V!Holds, V!SemaphoresCount, V!NoStall, V!Ready
    <3>6. QED BY <3>2, <3>3, <3>4, <3>5 DEF V!IInv
  <2>3. QED BY <2>1, <2>2
<1>3. Inv => ViewServes
  BY DEF V!IInv, ViewServes
<1>4. QED BY <1>1, <1>2, <1>3, PTL DEF McSpec

-----------------------------------------------------------------------------
(* Concurrent *)

CallPlaces == {"send", "blocked", "end", "wait", "left", "idle", "job"}
Works == {w \in Viewers \ {Host} : place[w] = "job"}
Comers == {c \in Viewers : place[c] \in {"idle", "job", "end"}}

\* The library as the module has it.
LEMMA SameCalls ==
  /\ \A x : N!Cardinality(x) = Cardinality(x)
  /\ \A x : N!ToSet(x) = ToSet(x)
  /\ \A x, c : N!Without(x, c) = Without(x, c)
<1>1. \A x : N!Cardinality(x) = Cardinality(x)
  BY DEF N!Cardinality, Cardinality, N!IsFiniteSet, IsFiniteSet, N!ExistsBijection, ExistsBijection
<1>2. \A x : N!ToSet(x) = ToSet(x)
  BY DEF N!ToSet, ToSet
<1>3. \A x, c : N!Without(x, c) = Without(x, c)
  BY DEF N!Without, Without, N!RemoveAt, RemoveAt
<1>4. QED BY <1>1, <1>2, <1>3

LEMMA CallFacts ==
  ASSUME N!IInv
  PROVE  /\ Host \in Viewers /\ None \notin Viewers /\ N!Workers = Viewers \ {Host}
         /\ current \in Viewers \cup {None} /\ stage \in [Viewers -> N!Stages]
         /\ pend \in [Viewers -> SUBSET N!Requests] /\ masked \in [Viewers -> BOOLEAN]
         /\ kind \in N!Kinds /\ latch \in Seq(Viewers) /\ eptr \in BOOLEAN /\ refused \in BOOLEAN
         /\ snd \in Nat /\ rcv \in Nat /\ fin \in Nat /\ jobs \in Nat /\ count \in Nat
         /\ place \in [Viewers -> CallPlaces]
         /\ \A i, j \in DOMAIN latch : latch[i] = latch[j] => i = j
         /\ ToSet(latch) = {c \in Viewers : place[c] = "wait"}
<1>1. N!TypeOK /\ N!DockHolds
  BY DEF N!IInv
<1>2. Host \in Viewers /\ None \notin Viewers /\ N!Workers = Viewers \ {Host}
  BY PartiesAssumption DEF Viewers, N!Workers
<1>3. /\ current \in Viewers \cup {None} /\ stage \in [Viewers -> N!Stages]
      /\ pend \in [Viewers -> SUBSET N!Requests] /\ masked \in [Viewers -> BOOLEAN]
      /\ kind \in N!Kinds /\ latch \in Seq(Viewers) /\ eptr \in BOOLEAN /\ refused \in BOOLEAN
      /\ place \in [Viewers -> CallPlaces]
  BY <1>1 DEF N!TypeOK, N!SchedTypeOK, Viewers, CallPlaces
<1>4. 3 + N!Cardinality(Viewers) \in Nat
  BY ViewersFinite, SameCalls
<1>5. snd \in Nat /\ rcv \in Nat /\ fin \in Nat /\ jobs \in Nat /\ count \in Nat
  BY <1>1, <1>4 DEF N!TypeOK, Viewers
<1>6. /\ \A i, j \in DOMAIN latch : latch[i] = latch[j] => i = j
      /\ ToSet(latch) = {c \in Viewers : place[c] = "wait"}
  BY <1>1, SameCalls DEF N!DockHolds, Viewers
<1>7. QED BY <1>2, <1>3, <1>5, <1>6

\* No part is more than the whole.
LEMMA Portions ==
  ASSUME NEW whole \in Nat, NEW a \in Nat, NEW b \in Nat, NEW j \in Nat, NEW k \in Nat,
         whole <= 3, whole >= a + j + b + k
  PROVE  a <= 3 /\ b <= 3 /\ a + j <= 3
OBVIOUS

\* The counts of the invariant keep the counters within the bounds of the types.
LEMMA CallTypes ==
  ASSUME current' \in Viewers \cup {None}, stage' \in [Viewers -> N!Stages],
         pend' \in [Viewers -> SUBSET N!Requests], masked' \in [Viewers -> BOOLEAN],
         kind' \in N!Kinds, latch' \in Seq(Viewers), eptr' \in BOOLEAN, refused' \in BOOLEAN,
         snd' \in Nat, rcv' \in Nat, fin' \in Nat, jobs' \in Nat, count' \in Nat,
         place' \in [Viewers -> CallPlaces], N!JobsCounted'
  PROVE  N!TypeOK'
<1> DEFINE k == Cardinality(Viewers)
<1>1. Works' \in SUBSET Viewers /\ Comers' \in SUBSET Viewers
  BY DEF Works, Comers
<1>2. /\ Cardinality(Works') \in Nat /\ Cardinality(Comers') \in Nat
      /\ Cardinality(Comers') <= k /\ k \in Nat
  BY <1>1, ViewersFinite, FS_Subset, FS_CardinalityType
<1>3. N!Jobs' = Cardinality(Works') /\ N!Workers = Viewers \ {Host}
  BY SameCalls DEF N!Jobs, N!Workers, Works, Viewers
<1>4. N!Blocked' \in Nat
  BY DEF N!Blocked
<1>5. IF kind' = "latch"
      THEN jobs' = 0 /\ rcv' = 0 /\ fin' = 0 /\ snd' = 0 /\ count' = Cardinality(Comers')
      ELSE /\ rcv' = fin' + N!Jobs' /\ snd' <= 3
           /\ snd' >= fin' + N!Jobs' + jobs' + N!Blocked'
           /\ count' = IF kind' = "for_each" THEN 3 - fin' ELSE 3
  BY SameCalls DEF N!JobsCounted, Comers, Viewers
<1> HIDE DEF k
<1>6. /\ snd' \in 0..(3 + k) /\ rcv' \in 0..(3 + k) /\ fin' \in 0..(3 + k)
      /\ jobs' \in 0..(3 + k) /\ count' \in 0..(3 + k)
  <2>1. CASE kind' = "latch"
    BY <2>1, <1>2, <1>5
  <2>2. CASE kind' # "latch"
    <3>1. /\ N!Jobs' \in Nat /\ N!Blocked' \in Nat /\ rcv' = fin' + N!Jobs' /\ snd' <= 3
          /\ snd' >= fin' + N!Jobs' + jobs' + N!Blocked'
      BY <2>2, <1>2, <1>3, <1>4, <1>5
    <3>2. fin' <= 3 /\ jobs' <= 3 /\ rcv' <= 3
      BY ONLY <3>1, Portions, fin' \in Nat, jobs' \in Nat, snd' \in Nat
    <3>4. count' = 3 \/ count' = 3 - fin'
      BY <2>2, <1>5
    <3>5. k \in Nat
      BY <1>2
    <3>6. fin' \in 0..3 /\ jobs' \in 0..3 /\ rcv' \in 0..3 /\ snd' \in 0..3 /\ count' \in 0..3
      <4>1. \A x \in Nat : x <= 3 => x \in 0..3 /\ 3 - x \in 0..3
        OBVIOUS
      <4>2. fin' \in 0..3 /\ 3 - fin' \in 0..3
        BY ONLY <3>2, <4>1, fin' \in Nat
      <4>3. jobs' \in 0..3 /\ rcv' \in 0..3 /\ snd' \in 0..3
        BY ONLY <3>1, <3>2, <4>1, rcv' \in Nat, jobs' \in Nat, snd' \in Nat
      <4>4. count' \in 0..3
        BY ONLY <3>4, <4>2
      <4>5. QED BY ONLY <4>2, <4>3, <4>4
    <3>7. \A x \in 0..3 : x \in 0..(3 + k)
      BY <3>5
    <3>8. QED BY <3>6, <3>7
  <2>3. QED BY <2>1, <2>2
<1>7. N!SchedTypeOK'
  BY DEF N!SchedTypeOK, Viewers
<1>8. N!Cardinality(Viewers) = k
  BY SameCalls DEF k
<1>9. QED BY <1>6, <1>7, <1>8 DEF N!TypeOK, Viewers, CallPlaces

\* What a context that goes to a place does to the queue of the dock and to the counts.
LEMMA CallMoves ==
  ASSUME N!IInv, NEW c \in Viewers, NEW to \in CallPlaces, N!Goes(c, to),
         latch' = IF place[c] = "wait"
                  THEN IF to = "wait" THEN latch ELSE N!Without(latch, c)
                  ELSE IF to = "wait" THEN Append(latch, c) ELSE latch
  PROVE  /\ place' \in [Viewers -> CallPlaces] /\ latch' \in Seq(Viewers) /\ N!DockHolds'
         /\ \A x \in Viewers : place'[x] = IF x = c THEN to ELSE place[x]
         /\ N!Jobs \in Nat /\ N!Jobs' \in Nat
         /\ N!Jobs' = (IF place[c] = "job" /\ c # Host THEN N!Jobs - 1 ELSE N!Jobs)
                      + (IF to = "job" /\ c # Host THEN 1 ELSE 0)
         /\ Cardinality(Comers) \in Nat /\ Cardinality(Comers') \in Nat
         /\ Cardinality(Comers') =
              (IF place[c] \in {"idle", "job", "end"} THEN Cardinality(Comers) - 1
               ELSE Cardinality(Comers)) + (IF to \in {"idle", "job", "end"} THEN 1 ELSE 0)
<1>1. /\ place \in [Viewers -> CallPlaces] /\ latch \in Seq(Viewers)
      /\ \A i, j \in DOMAIN latch : latch[i] = latch[j] => i = j
      /\ ToSet(latch) = {x \in Viewers : place[x] = "wait"}
  BY CallFacts
<1>2. /\ place' \in [Viewers -> CallPlaces]
      /\ \A x \in Viewers : place'[x] = IF x = c THEN to ELSE place[x]
  BY <1>1 DEF N!Goes
<1>3. c \in ToSet(latch) <=> place[c] = "wait"
  BY <1>1
<1>4. N!Without(latch, c) = Without(latch, c)
  BY SameCalls
<1>5. /\ latch' \in Seq(Viewers)
      /\ \A i, j \in DOMAIN latch' : latch'[i] = latch'[j] => i = j
      /\ ToSet(latch') = IF to = "wait" THEN ToSet(latch) \cup {c} ELSE ToSet(latch) \ {c}
  <2>1. CASE place[c] = "wait" /\ to = "wait"
    BY <2>1, <1>1, <1>3
  <2>2. CASE place[c] = "wait" /\ to # "wait"
    <3>1. latch' = Without(latch, c)
      BY <2>2, <1>4
    <3>2. /\ Without(latch, c) \in Seq(Viewers)
          /\ \A i, j \in DOMAIN Without(latch, c) :
               Without(latch, c)[i] = Without(latch, c)[j] => i = j
          /\ ToSet(Without(latch, c)) = ToSet(latch) \ {c}
      BY <2>2, <1>1, <1>3, WithoutElements
    <3>3. QED BY <2>2, <3>1, <3>2
  <2>3. CASE place[c] # "wait" /\ to = "wait"
    <3>1. latch' = Append(latch, c)
      BY <2>3
    <3>2. /\ Append(latch, c) \in Seq(Viewers)
          /\ \A i, j \in DOMAIN Append(latch, c) : Append(latch, c)[i] = Append(latch, c)[j] => i = j
          /\ ToSet(Append(latch, c)) = ToSet(latch) \cup {c}
      BY <2>3, <1>1, <1>3, AppendElements
    <3>3. QED BY <2>3, <3>1, <3>2
  <2>4. CASE place[c] # "wait" /\ to # "wait"
    BY <2>4, <1>1, <1>3
  <2>5. QED BY <2>1, <2>2, <2>3, <2>4
<1>6. N!DockHolds'
  <2>1. ToSet(latch') = {x \in Viewers : place'[x] = "wait"}
    BY <1>1, <1>2, <1>5
  <2>2. QED BY <2>1, <1>5, SameCalls DEF N!DockHolds, Viewers
<1>7. /\ Works \in SUBSET Viewers /\ Works' \in SUBSET Viewers
      /\ \A x \in Viewers : x # c => (x \in Works <=> x \in Works')
      /\ c \in Works <=> place[c] = "job" /\ c # Host
      /\ c \in Works' <=> to = "job" /\ c # Host
  BY <1>1, <1>2 DEF Works
<1>8. /\ Comers \in SUBSET Viewers /\ Comers' \in SUBSET Viewers
      /\ \A x \in Viewers : x # c => (x \in Comers <=> x \in Comers')
      /\ c \in Comers <=> place[c] \in {"idle", "job", "end"}
      /\ c \in Comers' <=> to \in {"idle", "job", "end"}
  BY <1>1, <1>2 DEF Comers
<1>9. /\ Cardinality(Works) \in Nat /\ Cardinality(Works') \in Nat
      /\ Cardinality(Works') = (IF c \in Works THEN Cardinality(Works) - 1 ELSE Cardinality(Works))
                               + (IF c \in Works' THEN 1 ELSE 0)
  BY ONLY <1>7, CountMoves, c \in Viewers
<1>10. /\ Cardinality(Comers) \in Nat /\ Cardinality(Comers') \in Nat
       /\ Cardinality(Comers') = (IF c \in Comers THEN Cardinality(Comers) - 1 ELSE Cardinality(Comers))
                                 + (IF c \in Comers' THEN 1 ELSE 0)
  BY ONLY <1>8, CountMoves, c \in Viewers
<1>11. N!Jobs = Cardinality(Works) /\ N!Jobs' = Cardinality(Works')
  BY SameCalls DEF N!Jobs, N!Workers, Works, Viewers
<1>12. /\ N!Jobs \in Nat /\ N!Jobs' \in Nat
       /\ N!Jobs' = (IF place[c] = "job" /\ c # Host THEN N!Jobs - 1 ELSE N!Jobs)
                    + (IF to = "job" /\ c # Host THEN 1 ELSE 0)
  BY <1>7, <1>9, <1>11
<1>13. Cardinality(Comers') =
         (IF place[c] \in {"idle", "job", "end"} THEN Cardinality(Comers) - 1
          ELSE Cardinality(Comers)) + (IF to \in {"idle", "job", "end"} THEN 1 ELSE 0)
  BY <1>8, <1>10
<1>14. QED BY <1>2, <1>5, <1>6, <1>10, <1>12, <1>13

\* The parts of the invariant, with the names of this module.
LEMMA CallParts ==
  ASSUME N!IInv
  PROVE  /\ kind = "latch" => /\ place[Host] \in {"end", "wait", "left"}
                              /\ \A w \in Viewers \ {Host} : place[w] \in {"idle", "job", "wait", "left"}
                              /\ jobs = 0 /\ rcv = 0 /\ fin = 0 /\ snd = 0
                              /\ count = Cardinality(Comers)
         /\ kind # "latch" => /\ place[Host] \in {"send", "blocked", "end", "wait", "left"}
                              /\ \A w \in Viewers \ {Host} : place[w] \in {"idle", "job"}
                              /\ rcv = fin + N!Jobs /\ snd <= 3
                              /\ snd >= fin + N!Jobs + jobs + N!Blocked
                              /\ ~refused => snd = fin + N!Jobs + jobs + N!Blocked
                              /\ count = IF kind = "for_each" THEN 3 - fin ELSE 3
         /\ N!Jobs \in Nat
         /\ \A x \in Viewers : place[x] = "wait" /\ stage[x] = "asleep" => ~N!Awaited(fin, count)
         /\ kind # "latch" /\ place[Host] = "left" =>
              N!Awaited(fin, count) \/ (kind = "for_each" /\ refused)
         /\ kind = "for_each" /\ place[Host] \in {"end", "wait"} => snd = 3 \/ eptr
<1>1. N!Roles /\ N!JobsCounted /\ N!SleepersWait /\ N!CallerLeft
  BY DEF N!IInv
<1>2. N!Workers = Viewers \ {Host}
  BY CallFacts
<1>3. N!Jobs = Cardinality(Works)
  BY SameCalls DEF N!Jobs, N!Workers, Works, Viewers
<1>4. N!Jobs \in Nat
  BY <1>3, ViewersFinite, FS_Subset, FS_CardinalityType DEF Works
<1>5. kind = "latch" => count = Cardinality(Comers)
  BY <1>1, SameCalls DEF N!JobsCounted, Comers, Viewers
<1>6. QED BY <1>1, <1>2, <1>4, <1>5
  DEF N!Roles, N!JobsCounted, N!SleepersWait, N!CallerLeft, Viewers

\* A context returns out of a suspension.
LEMMA CallReturns ==
  ASSUME N!IInv, NEW c \in Viewers, N!Return(c)
  PROVE  /\ current = None /\ current' = c /\ stage' = [stage EXCEPT ![c] = "running"]
         /\ current' \in Viewers \cup {None} /\ stage' \in [Viewers -> N!Stages]
         /\ pend' \in [Viewers -> SUBSET N!Requests] /\ masked' \in [Viewers -> BOOLEAN]
<1>1. current = None /\ current' = c /\ stage' = [stage EXCEPT ![c] = "running"]
  BY DEF N!Return, N!Resumable
<1>2. /\ stage \in [Viewers -> N!Stages] /\ pend \in [Viewers -> SUBSET N!Requests]
      /\ masked \in [Viewers -> BOOLEAN]
  BY CallFacts
<1>3. N!Thrown(c) => pend' \in [Viewers -> SUBSET N!Requests] /\ masked' \in [Viewers -> BOOLEAN]
  BY <1>2 DEF N!Thrown
<1>4. pend' \in [Viewers -> SUBSET N!Requests] /\ masked' \in [Viewers -> BOOLEAN]
  BY <1>2, <1>3 DEF N!Return
<1>5. stage' \in [Viewers -> N!Stages]
  BY <1>1, <1>2 DEF N!Stages
<1>6. QED BY <1>1, <1>4, <1>5

\* Those of W that sleep are made ready, and nobody else changes.
LEMMA CallWakes ==
  ASSUME N!IInv, NEW W \in SUBSET Viewers
  PROVE  /\ N!Wake(stage, W) \in [Viewers -> N!Stages]
         /\ \A x \in Viewers : N!Wake(stage, W)[x] = "asleep" <=> stage[x] = "asleep" /\ x \notin W
<1>1. N!Wake(stage, W) =
        [x \in Viewers |-> IF x \in W /\ stage[x] = "asleep" THEN "ready" ELSE stage[x]]
  BY DEF N!Wake, Viewers
<1>2. stage \in [Viewers -> N!Stages] /\ "ready" \in N!Stages
  BY CallFacts DEF N!Stages
<1>3. N!Wake(stage, W) \in [Viewers -> N!Stages]
  BY <1>1, <1>2
<1>4. ASSUME NEW x \in Viewers
      PROVE  N!Wake(stage, W)[x] = "asleep" <=> stage[x] = "asleep" /\ x \notin W
  BY <1>1, <1>2
<1>5. QED BY ONLY <1>3, <1>4

\* The pool takes a job of the caller or refuses it, which then goes to a place.
LEMMA CallSubmits ==
  ASSUME N!IInv, NEW to \in {"send", "end", "left"}, N!Goes(Host, to), kind # "latch",
         place[Host] \in {"send", "blocked"}, snd' = snd + 1 - N!Blocked, snd' <= 3,
         \/ jobs' = jobs + 1 /\ refused' = refused /\ (to = "send" \/ (to = "end" /\ kind = "concurrent"))
         \/ jobs' = jobs /\ refused' = TRUE
            /\ ((to = "end" /\ kind = "concurrent") \/ (to = "left" /\ kind = "for_each")),
         current' \in Viewers \cup {None}, stage' \in [Viewers -> N!Stages],
         pend' \in [Viewers -> SUBSET N!Requests], masked' \in [Viewers -> BOOLEAN],
         kind' = kind, rcv' = rcv, fin' = fin, eptr' = eptr, count' = count, latch' = latch
  PROVE  N!IInv'
<1> USE CallFacts, CallParts
<1>1. /\ place' \in [Viewers -> CallPlaces] /\ latch' \in Seq(Viewers) /\ N!DockHolds'
      /\ \A x \in Viewers : place'[x] = IF x = Host THEN to ELSE place[x]
      /\ N!Jobs' = N!Jobs
  <2>1. to \in CallPlaces /\ place[Host] \notin {"wait", "job"} /\ to \notin {"wait", "job"}
    BY DEF CallPlaces
  <2>2. latch' = IF place[Host] = "wait"
                 THEN IF to = "wait" THEN latch ELSE N!Without(latch, Host)
                 ELSE IF to = "wait" THEN Append(latch, Host) ELSE latch
    BY <2>1
  <2>3. QED BY <2>1, <2>2, CallMoves
<1>2. N!Blocked' = 0 /\ N!Blocked \in Nat /\ N!Blocked <= 1
  BY <1>1 DEF N!Blocked
<1>3. snd' \in Nat /\ jobs' \in Nat /\ refused' \in BOOLEAN
  <2>1. snd' = snd \/ snd' = snd + 1
    BY <1>2 DEF N!Blocked
  <2>2. snd' \in Nat
    BY <2>1
  <2>3. jobs' = jobs \/ jobs' = jobs + 1
    OBVIOUS
  <2>4. jobs' \in Nat
    BY <2>3
  <2>5. refused' \in BOOLEAN
    OBVIOUS
  <2>6. QED BY <2>2, <2>4, <2>5
<1>4. N!JobsCounted'
  <2>0. /\ fin \in Nat /\ jobs \in Nat /\ snd \in Nat /\ N!Jobs \in Nat
        /\ snd >= fin + N!Jobs + jobs + N!Blocked
        /\ ~refused => snd = fin + N!Jobs + jobs + N!Blocked
    OBVIOUS
  <2>1. /\ snd + 1 - N!Blocked >= fin + N!Jobs + jobs + 0
        /\ snd + 1 - N!Blocked >= fin + N!Jobs + (jobs + 1) + 0
        /\ ~refused => snd + 1 - N!Blocked = fin + N!Jobs + (jobs + 1) + 0
    BY ONLY <1>2, <2>0
  <2>2. rcv = fin + N!Jobs /\ count = IF kind = "for_each" THEN 3 - fin ELSE 3
    OBVIOUS
  <2>3. CASE jobs' = jobs + 1 /\ refused' = refused
    BY <2>1, <2>2, <2>3, <1>1, <1>2 DEF N!JobsCounted
  <2>4. CASE jobs' = jobs /\ refused' = TRUE
    BY <2>1, <2>2, <2>4, <1>1, <1>2 DEF N!JobsCounted
  <2>5. QED BY <2>3, <2>4
<1>5. N!Roles'
  BY <1>1 DEF N!Roles, Viewers
<1>6. N!SleepersWait'
  <2>1. \A x \in Viewers : place'[x] # "wait"
    BY <1>1
  <2>2. QED BY <2>1 DEF N!SleepersWait, Viewers
<1>7. N!CallerLeft'
  BY <1>1 DEF N!CallerLeft
<1>8. N!TypeOK'
  BY <1>1, <1>3, <1>4, CallTypes
<1>9. QED BY <1>1, <1>4, <1>5, <1>6, <1>7, <1>8 DEF N!IInv

LEMMA CallSend == ASSUME N!IInv, N!Send PROVE N!IInv'
<1> USE CallFacts, CallParts
<1>1. /\ current = Host /\ place[Host] = "send" /\ snd < 3 /\ snd' = snd + 1 /\ kind # "latch"
      /\ kind' = kind /\ rcv' = rcv /\ fin' = fin /\ eptr' = eptr /\ count' = count /\ latch' = latch
      /\ snd' <= 3 /\ snd' = snd + 1 - N!Blocked /\ N!Blocked = 0
  BY DEF N!Send, N!More, N!Blocked
<1>2. CASE N!Submitted /\ UNCHANGED N!sched
  <2>1. /\ current' \in Viewers \cup {None} /\ stage' \in [Viewers -> N!Stages]
        /\ pend' \in [Viewers -> SUBSET N!Requests] /\ masked' \in [Viewers -> BOOLEAN]
    BY <1>2 DEF N!sched
  <2>2. PICK to \in {"send", "end", "left"} :
          /\ N!Goes(Host, to)
          /\ \/ jobs' = jobs + 1 /\ refused' = refused
                /\ (to = "send" \/ (to = "end" /\ kind = "concurrent"))
             \/ jobs' = jobs /\ refused' = TRUE
                /\ ((to = "end" /\ kind = "concurrent") \/ (to = "left" /\ kind = "for_each"))
    BY <1>1, <1>2 DEF N!Submitted, N!Kinds
  <2>3. QED BY <1>1, <2>1, <2>2, CallSubmits
<1>3. CASE N!Suspend(Host) /\ N!Goes(Host, "blocked") /\ UNCHANGED <<jobs, refused>>
  <2>1. /\ place' \in [Viewers -> CallPlaces] /\ latch' \in Seq(Viewers) /\ N!DockHolds'
        /\ \A x \in Viewers : place'[x] = IF x = Host THEN "blocked" ELSE place[x]
        /\ N!Jobs' = N!Jobs
    <3>1. "blocked" \in CallPlaces
      BY DEF CallPlaces
    <3>2. latch' = IF place[Host] = "wait"
                   THEN IF "blocked" = "wait" THEN latch ELSE N!Without(latch, Host)
                   ELSE IF "blocked" = "wait" THEN Append(latch, Host) ELSE latch
      BY <1>1
    <3>3. QED BY <3>1, <3>2, <1>1, <1>3, CallMoves
  <2>2. /\ current' \in Viewers \cup {None} /\ stage' \in [Viewers -> N!Stages]
        /\ pend' \in [Viewers -> SUBSET N!Requests] /\ masked' \in [Viewers -> BOOLEAN]
    BY <1>3 DEF N!Suspend, N!Stages
  <2>3. N!Blocked' = 1
    BY <2>1 DEF N!Blocked
  <2>4. N!JobsCounted'
    <3>1. /\ rcv = fin + N!Jobs
          /\ snd + 1 >= fin + N!Jobs + jobs + 1
          /\ ~refused => snd + 1 = fin + N!Jobs + jobs + 1
          /\ count = IF kind = "for_each" THEN 3 - fin ELSE 3
      BY <1>1
    <3>2. QED BY <3>1, <1>1, <1>3, <2>1, <2>3 DEF N!JobsCounted
  <2>5. N!Roles'
    BY <1>1, <2>1 DEF N!Roles, Viewers
  <2>6. \A x \in Viewers : place'[x] # "wait"
    BY <1>1, <2>1
  <2>7. N!SleepersWait' /\ N!CallerLeft'
    BY <2>1, <2>6 DEF N!SleepersWait, N!CallerLeft, Viewers
  <2>8. N!TypeOK'
    BY <1>1, <1>3, <2>1, <2>2, <2>4, CallTypes
  <2>9. QED BY <2>1, <2>4, <2>5, <2>7, <2>8 DEF N!IInv
<1>4. QED BY <1>2, <1>3 DEF N!Send

LEMMA CallUnblock == ASSUME N!IInv, N!Unblock PROVE N!IInv'
<1> USE CallFacts, CallParts
<1>1. /\ place[Host] = "blocked" /\ snd' = snd /\ kind # "latch" /\ N!Blocked = 1
      /\ kind' = kind /\ rcv' = rcv /\ fin' = fin /\ eptr' = eptr /\ count' = count /\ latch' = latch
      /\ snd' <= 3 /\ snd' = snd + 1 - N!Blocked
  BY DEF N!Unblock, N!Blocked
<1>2. /\ current' \in Viewers \cup {None} /\ stage' \in [Viewers -> N!Stages]
      /\ pend' \in [Viewers -> SUBSET N!Requests] /\ masked' \in [Viewers -> BOOLEAN]
  BY CallReturns DEF N!Unblock
<1>3. PICK to \in {"send", "end", "left"} :
        /\ N!Goes(Host, to)
        /\ \/ jobs' = jobs + 1 /\ refused' = refused
              /\ (to = "send" \/ (to = "end" /\ kind = "concurrent"))
           \/ jobs' = jobs /\ refused' = TRUE
              /\ ((to = "end" /\ kind = "concurrent") \/ (to = "left" /\ kind = "for_each"))
  BY <1>1 DEF N!Unblock, N!Submitted, N!Kinds
<1>4. QED BY <1>1, <1>2, <1>3, CallSubmits

LEMMA CallSent == ASSUME N!IInv, N!Sent PROVE N!IInv'
<1> USE CallFacts, CallParts
<1>1. /\ place[Host] = "send" /\ N!Goes(Host, "end") /\ kind # "latch"
      /\ (snd = 3 \/ (kind = "for_each" /\ eptr))
      /\ kind' = kind /\ snd' = snd /\ rcv' = rcv /\ fin' = fin /\ eptr' = eptr /\ count' = count
      /\ jobs' = jobs /\ latch' = latch /\ refused' = refused
      /\ current' = current /\ stage' = stage /\ pend' = pend /\ masked' = masked
  BY DEF N!Sent, N!More, N!sched
<1>2. /\ place' \in [Viewers -> CallPlaces] /\ latch' \in Seq(Viewers) /\ N!DockHolds'
      /\ \A x \in Viewers : place'[x] = IF x = Host THEN "end" ELSE place[x]
      /\ N!Jobs' = N!Jobs
  <2>1. "end" \in CallPlaces
    BY DEF CallPlaces
  <2>2. latch' = IF place[Host] = "wait"
                 THEN IF "end" = "wait" THEN latch ELSE N!Without(latch, Host)
                 ELSE IF "end" = "wait" THEN Append(latch, Host) ELSE latch
    BY <1>1
  <2>3. QED BY <2>1, <2>2, <1>1, CallMoves
<1>3. N!Blocked' = 0 /\ N!Blocked = 0
  BY <1>1, <1>2 DEF N!Blocked
<1>4. N!JobsCounted'
  BY <1>1, <1>2, <1>3 DEF N!JobsCounted
<1>5. N!Roles'
  BY <1>1, <1>2 DEF N!Roles, Viewers
<1>6. \A x \in Viewers : place'[x] # "wait"
  BY <1>1, <1>2
<1>7. N!SleepersWait' /\ N!CallerLeft'
  BY <1>1, <1>2, <1>6 DEF N!SleepersWait, N!CallerLeft, Viewers
<1>8. N!TypeOK'
  BY <1>1, <1>2, <1>4, CallTypes
<1>9. QED BY <1>2, <1>4, <1>5, <1>7, <1>8 DEF N!IInv

\* The latch counts whoever comes; the last one wakes the others, and so does not wait.
LEMMA CallAwait == ASSUME N!IInv, NEW c \in Viewers, N!Await(c) PROVE N!IInv'
<1> USE CallFacts, CallParts
<1>1. /\ current = c /\ place[c] = (IF c = Host THEN "end" ELSE "job") /\ (c = Host \/ kind = "latch")
      /\ count' = N!Counted /\ kind' = kind /\ snd' = snd /\ rcv' = rcv /\ fin' = fin
      /\ eptr' = eptr /\ jobs' = jobs /\ refused' = refused
  BY DEF N!Await
<1>2. \/ /\ N!Awaited(fin, N!Counted) /\ N!Goes(c, "left") /\ latch' = latch
         /\ stage' = N!Wake(stage, IF kind = "latch" THEN ToSet(latch) ELSE {})
         /\ current' = current /\ pend' = pend /\ masked' = masked
      \/ /\ ~N!Awaited(fin, N!Counted) /\ N!Suspend(c) /\ N!Goes(c, "wait")
         /\ latch' = Append(latch, c)
  BY SameCalls DEF N!Await
<1>3. PICK to \in {"left", "wait"} :
        /\ N!Goes(c, to) /\ (to = "left" <=> N!Awaited(fin, N!Counted))
        /\ latch' = IF to = "wait" THEN Append(latch, c) ELSE latch
        /\ current' \in Viewers \cup {None} /\ pend' = pend /\ masked' = masked
        /\ to = "left" => stage' = N!Wake(stage, IF kind = "latch" THEN ToSet(latch) ELSE {})
        /\ to = "wait" => stage' = [stage EXCEPT ![c] = "asleep"]
  BY <1>2 DEF N!Suspend
<1>4. stage' \in [Viewers -> N!Stages]
  <2>1. (IF kind = "latch" THEN ToSet(latch) ELSE {}) \in SUBSET Viewers
    OBVIOUS
  <2>2. CASE to = "left"
    BY <2>1, <2>2, <1>3, CallWakes
  <2>3. CASE to = "wait"
    BY <2>3, <1>3 DEF N!Stages
  <2>4. QED BY <2>2, <2>3
<1>5. /\ place' \in [Viewers -> CallPlaces] /\ latch' \in Seq(Viewers) /\ N!DockHolds'
      /\ \A x \in Viewers : place'[x] = IF x = c THEN to ELSE place[x]
      /\ N!Jobs' = (IF place[c] = "job" /\ c # Host THEN N!Jobs - 1 ELSE N!Jobs)
                   + (IF to = "job" /\ c # Host THEN 1 ELSE 0)
      /\ Cardinality(Comers) \in Nat /\ Cardinality(Comers') \in Nat
      /\ Cardinality(Comers') =
           (IF place[c] \in {"idle", "job", "end"} THEN Cardinality(Comers) - 1
            ELSE Cardinality(Comers)) + (IF to \in {"idle", "job", "end"} THEN 1 ELSE 0)
  <2>1. to \in CallPlaces
    BY DEF CallPlaces
  <2>2. latch' = IF place[c] = "wait"
                 THEN IF to = "wait" THEN latch ELSE N!Without(latch, c)
                 ELSE IF to = "wait" THEN Append(latch, c) ELSE latch
    BY <1>1, <1>3
  <2>3. QED BY <2>1, <2>2, <1>3, CallMoves
<1>6. CASE kind = "latch"
  <2>1. Cardinality(Comers') = Cardinality(Comers) - 1 /\ count' = count - 1
    BY <1>1, <1>5, <1>6 DEF N!Counted
  <2>2. count' = Cardinality(Comers') /\ count' \in Nat
    BY <1>5, <1>6, <2>1
  <2>3. N!JobsCounted'
    <3>1. count' = N!Cardinality({x \in Viewers : place'[x] \in {"idle", "job", "end"}})
      BY <2>2, SameCalls DEF Comers
    <3>2. QED BY <1>1, <1>6, <3>1 DEF N!JobsCounted, Viewers
  <2>4. N!Roles'
    BY <1>1, <1>5, <1>6 DEF N!Roles, Viewers
  <2>5. N!SleepersWait'
    <3>1. CASE to = "left"
      <4>1. /\ stage' = N!Wake(stage, ToSet(latch)) /\ ToSet(latch) \in SUBSET Viewers
        BY <1>3, <1>6, <3>1
      <4>2. \A x \in Viewers : stage'[x] = "asleep" <=> stage[x] = "asleep" /\ x \notin ToSet(latch)
        BY <4>1, CallWakes
      <4>3. \A x \in Viewers : ~(place'[x] = "wait" /\ stage'[x] = "asleep")
        BY <4>2, <1>5, <3>1
      <4>4. QED BY <4>3 DEF N!SleepersWait, Viewers
    <3>2. CASE to = "wait"
      <4>1. ~N!Awaited(fin', count')
        BY <1>1, <1>3, <1>6, <3>2 DEF N!Awaited
      <4>2. QED BY <4>1, <1>1 DEF N!SleepersWait, N!Awaited, Viewers
    <3>3. QED BY <3>1, <3>2
  <2>6. N!CallerLeft'
    BY <1>1, <1>6 DEF N!CallerLeft
  <2>7. N!TypeOK'
    BY <1>1, <1>3, <1>4, <1>5, <2>2, <2>3, CallTypes
  <2>8. QED BY <1>5, <2>3, <2>4, <2>5, <2>6, <2>7 DEF N!IInv
<1>7. CASE kind # "latch"
  <2>1. /\ c = Host /\ count' = count /\ place[c] = "end" /\ N!Jobs' = N!Jobs
        /\ to = "left" <=> N!Awaited(fin, count)
    BY <1>1, <1>3, <1>5, <1>7 DEF N!Counted
  <2>2. N!Blocked' = 0 /\ N!Blocked = 0
    BY <1>5, <2>1 DEF N!Blocked
  <2>3. N!JobsCounted'
    BY <1>1, <1>7, <2>1, <2>2 DEF N!JobsCounted
  <2>4. N!Roles'
    BY <1>1, <1>5, <1>7, <2>1 DEF N!Roles, Viewers
  <2>5. N!Awaited(fin, count)' <=> N!Awaited(fin, count)
    BY <1>1, <2>1 DEF N!Awaited
  <2>6. N!SleepersWait'
    <3>1. \A x \in Viewers : place'[x] = "wait" => x = Host /\ to = "wait"
      BY <1>5, <1>7, <2>1
    <3>2. QED BY <2>1, <2>5, <3>1 DEF N!SleepersWait, Viewers
  <2>7. N!CallerLeft'
    <3>1. place'[Host] = to
      BY <1>5, <2>1
    <3>2. kind = "for_each" => snd = 3 \/ eptr
      BY <2>1
    <3>3. QED BY <1>1, <2>1, <2>5, <3>1, <3>2 DEF N!CallerLeft
  <2>8. N!TypeOK'
    BY <1>1, <1>3, <1>4, <1>5, <2>1, <2>3, CallTypes
  <2>9. QED BY <1>5, <2>3, <2>4, <2>6, <2>7, <2>8 DEF N!IInv
<1>8. QED BY <1>6, <1>7

\* Nothing but the stages, the masks and who executes changes, and nobody falls asleep who waits.
LEMMA CallStays ==
  ASSUME N!IInv, UNCHANGED <<kind, snd, rcv, fin, eptr, count, jobs, latch, place, refused>>,
         current' \in Viewers \cup {None}, stage' \in [Viewers -> N!Stages],
         pend' \in [Viewers -> SUBSET N!Requests], masked' \in [Viewers -> BOOLEAN],
         \A x \in Viewers : place[x] = "wait" /\ stage'[x] = "asleep" =>
                              stage[x] = "asleep" \/ ~N!Awaited(fin, count)
  PROVE  N!IInv'
<1> USE CallFacts, CallParts
<1>0. /\ kind' = kind /\ snd' = snd /\ rcv' = rcv /\ fin' = fin /\ eptr' = eptr /\ count' = count
      /\ jobs' = jobs /\ latch' = latch /\ place' = place /\ refused' = refused
  OBVIOUS
<1>1. N!Roles /\ N!JobsCounted /\ N!CallerLeft /\ N!DockHolds
  BY DEF N!IInv
<1>2. N!Jobs' = N!Jobs /\ N!Blocked' = N!Blocked
  BY <1>0 DEF N!Jobs, N!Blocked
<1>3. N!JobsCounted'
  BY <1>0, <1>1, <1>2 DEF N!JobsCounted
<1>4. N!Awaited(fin, count)' <=> N!Awaited(fin, count)
  BY <1>0 DEF N!Awaited
<1>5. N!Roles' /\ N!CallerLeft' /\ N!DockHolds'
  <2>1. N!Roles' BY <1>0, <1>1 DEF N!Roles
  <2>2. N!CallerLeft' BY <1>0, <1>1, <1>4 DEF N!CallerLeft
  <2>3. N!DockHolds' BY <1>0, <1>1 DEF N!DockHolds
  <2>4. QED BY <2>1, <2>2, <2>3
<1>6. N!SleepersWait'
  BY <1>0, <1>4 DEF N!SleepersWait, Viewers
<1>7. N!TypeOK'
  BY <1>0, <1>3, CallTypes
<1>8. QED BY <1>3, <1>5, <1>6, <1>7 DEF N!IInv

LEMMA CallLeave == ASSUME N!IInv, NEW c \in Viewers, N!Leave(c) PROVE N!IInv'
<1> USE CallFacts, CallParts
<1>1. /\ place[c] = "wait" /\ pend' = pend /\ masked' = masked /\ kind' = kind /\ snd' = snd
      /\ rcv' = rcv /\ fin' = fin /\ eptr' = eptr /\ count' = count /\ jobs' = jobs
      /\ refused' = refused
  BY DEF N!Leave
<1>2. CASE ~N!Awaited(fin, count)
  <2>1. /\ stage' = [stage EXCEPT ![c] = "asleep"] /\ current' = current /\ latch' = latch
        /\ place' = place
    BY <1>2 DEF N!Leave
  <2>2. stage' \in [Viewers -> N!Stages]
    BY <2>1 DEF N!Stages
  <2>3. QED BY <1>1, <1>2, <2>1, <2>2, CallStays
<1>3. CASE N!Awaited(fin, count)
  <2>1. /\ latch' = N!Without(latch, c) /\ N!Goes(c, "left") /\ current' = c
        /\ stage' = [stage EXCEPT ![c] = "running"]
    BY <1>3 DEF N!Leave
  <2>2. stage' \in [Viewers -> N!Stages]
    BY <2>1 DEF N!Stages
  <2>3. /\ place' \in [Viewers -> CallPlaces] /\ latch' \in Seq(Viewers) /\ N!DockHolds'
        /\ \A x \in Viewers : place'[x] = IF x = c THEN "left" ELSE place[x]
        /\ N!Jobs' = N!Jobs /\ Cardinality(Comers') = Cardinality(Comers)
    <3>1. "left" \in CallPlaces
      BY DEF CallPlaces
    <3>2. latch' = IF place[c] = "wait"
                   THEN IF "left" = "wait" THEN latch ELSE N!Without(latch, c)
                   ELSE IF "left" = "wait" THEN Append(latch, c) ELSE latch
      BY <1>1, <2>1
    <3>3. N!Goes(c, "left") /\ place[c] = "wait"
      BY <1>1, <2>1
    <3>4. /\ place' \in [Viewers -> CallPlaces] /\ latch' \in Seq(Viewers) /\ N!DockHolds'
          /\ \A x \in Viewers : place'[x] = IF x = c THEN "left" ELSE place[x]
          /\ N!Jobs \in Nat /\ N!Jobs' = N!Jobs + 0
          /\ Cardinality(Comers) \in Nat /\ Cardinality(Comers') = Cardinality(Comers) + 0
      BY ONLY N!IInv, c \in Viewers, <3>1, <3>2, <3>3, CallMoves
    <3>5. QED BY ONLY <3>4
  <2>4. N!Blocked' = N!Blocked
    BY <1>1, <2>3 DEF N!Blocked
  <2>5. N!JobsCounted'
    <3>1. CASE kind = "latch"
      <4>1. count' = N!Cardinality({x \in Viewers : place'[x] \in {"idle", "job", "end"}})
        BY <1>1, <2>3, <3>1, SameCalls DEF Comers
      <4>2. QED BY <1>1, <3>1, <4>1 DEF N!JobsCounted, Viewers
    <3>2. CASE kind # "latch"
      BY <1>1, <2>3, <2>4, <3>2 DEF N!JobsCounted
    <3>3. QED BY <3>1, <3>2
  <2>6. N!Roles'
    BY <1>1, <2>3 DEF N!Roles, Viewers
  <2>7. N!Awaited(fin, count)'
    BY <1>1, <1>3 DEF N!Awaited
  <2>8. N!SleepersWait'
    <3>1. \A x \in Viewers : place'[x] = "wait" /\ stage'[x] = "asleep" =>
                               place[x] = "wait" /\ stage[x] = "asleep"
      BY <2>1, <2>3
    <3>2. \A x \in Viewers : ~(place[x] = "wait" /\ stage[x] = "asleep")
      BY <1>3
    <3>3. QED BY <3>1, <3>2 DEF N!SleepersWait, Viewers
  <2>9. N!CallerLeft'
    <3>1. place'[Host] \in {"end", "wait"} => place[Host] \in {"end", "wait"}
      BY <2>3
    <3>2. QED BY <1>1, <2>7, <3>1 DEF N!CallerLeft
  <2>10. N!TypeOK'
    BY <1>1, <2>1, <2>2, <2>3, <2>5, CallTypes
  <2>11. QED BY <2>3, <2>5, <2>6, <2>8, <2>9, <2>10 DEF N!IInv
<1>4. QED BY <1>2, <1>3

\* An interruption leaves the wait of a latch: whoever it notifies sleeps no more.
LEMMA CallInterrupted == ASSUME N!IInv, NEW c \in Viewers, N!Interrupted(c) PROVE N!IInv'
<1> USE CallFacts, CallParts
<1> DEFINE told == N!Wake(stage, N!Front1(latch'))
<1>1. /\ place[c] = "wait" /\ kind = "latch" /\ N!Goes(c, "left")
      /\ latch' = N!Without(latch, c) /\ current' = c /\ stage' = [told EXCEPT ![c] = "running"]
      /\ pend' = pend /\ masked' = masked /\ kind' = kind /\ snd' = snd
      /\ rcv' = rcv /\ fin' = fin /\ eptr' = eptr /\ count' = count /\ jobs' = jobs
      /\ refused' = refused
  BY DEF N!Interrupted
<1>2. /\ place' \in [Viewers -> CallPlaces] /\ latch' \in Seq(Viewers) /\ N!DockHolds'
      /\ \A x \in Viewers : place'[x] = IF x = c THEN "left" ELSE place[x]
      /\ N!Jobs' = N!Jobs /\ Cardinality(Comers') = Cardinality(Comers)
  <2>1. "left" \in CallPlaces
    BY DEF CallPlaces
  <2>2. latch' = IF place[c] = "wait"
                 THEN IF "left" = "wait" THEN latch ELSE N!Without(latch, c)
                 ELSE IF "left" = "wait" THEN Append(latch, c) ELSE latch
    BY <1>1
  <2>3. N!Goes(c, "left") /\ place[c] = "wait"
    BY <1>1
  <2>4. /\ place' \in [Viewers -> CallPlaces] /\ latch' \in Seq(Viewers) /\ N!DockHolds'
        /\ \A x \in Viewers : place'[x] = IF x = c THEN "left" ELSE place[x]
        /\ N!Jobs \in Nat /\ N!Jobs' = N!Jobs + 0
        /\ Cardinality(Comers) \in Nat /\ Cardinality(Comers') = Cardinality(Comers) + 0
    BY ONLY N!IInv, c \in Viewers, <2>1, <2>2, <2>3, CallMoves
  <2>5. QED BY ONLY <2>4
<1>3. N!Front1(latch') \in SUBSET Viewers
  BY <1>2 DEF N!Front1
<1>4. /\ told \in [Viewers -> N!Stages]
      /\ \A x \in Viewers : told[x] = "asleep" => stage[x] = "asleep"
  BY <1>3, CallWakes
<1> HIDE DEF told
<1>5. /\ stage' \in [Viewers -> N!Stages]
      /\ \A x \in Viewers : stage'[x] = "asleep" => stage[x] = "asleep"
  BY <1>1, <1>4 DEF N!Stages
<1>6. N!JobsCounted'
  <2>1. count' = N!Cardinality({x \in Viewers : place'[x] \in {"idle", "job", "end"}})
    BY <1>1, <1>2, SameCalls DEF Comers
  <2>2. QED BY <1>1, <2>1 DEF N!JobsCounted, Viewers
<1>7. N!Roles'
  BY <1>1, <1>2 DEF N!Roles, Viewers
<1>8. N!SleepersWait'
  <2>1. \A x \in Viewers : place'[x] = "wait" /\ stage'[x] = "asleep" =>
                             place[x] = "wait" /\ stage[x] = "asleep"
    BY <1>2, <1>5
  <2>2. N!Awaited(fin, count)' <=> N!Awaited(fin, count)
    BY <1>1 DEF N!Awaited
  <2>3. QED BY <2>1, <2>2 DEF N!SleepersWait, Viewers
<1>9. N!CallerLeft'
  BY <1>1 DEF N!CallerLeft
<1>10. N!TypeOK'
  BY <1>1, <1>2, <1>5, <1>6, CallTypes
<1>11. QED BY <1>2, <1>6, <1>7, <1>8, <1>9, <1>10 DEF N!IInv

\* A worker takes a job: one of the jobs sent moves from the queue to the jobs under way.
LEMMA JobTaken ==
  ASSUME NEW r, NEW f \in Nat, NEW j \in Nat, NEW k \in Nat, NEW b \in Nat, NEW n \in Nat, NEW R,
         k > 0, r = f + j, n >= f + j + k + b, ~R => n = f + j + k + b
  PROVE  /\ r + 1 = f + (j + 1)
         /\ n >= f + (j + 1) + (k - 1) + b
         /\ ~R => n = f + (j + 1) + (k - 1) + b
         /\ k - 1 \in Nat /\ r + 1 \in Nat
OBVIOUS

LEMMA CallStart == ASSUME N!IInv, NEW w \in N!Workers, N!Start(w) PROVE N!IInv'
<1> USE CallFacts, CallParts
<1>1. /\ w \in Viewers /\ w # Host /\ place[w] = "idle" /\ N!Goes(w, "job")
      /\ current' = current /\ stage' = stage /\ pend' = pend /\ masked' = masked
      /\ kind' = kind /\ snd' = snd /\ fin' = fin /\ eptr' = eptr /\ count' = count
      /\ latch' = latch /\ refused' = refused
      /\ kind = "latch" => jobs' = jobs /\ rcv' = rcv
      /\ kind # "latch" => jobs > 0 /\ jobs' = jobs - 1 /\ rcv' = rcv + 1
  BY DEF N!Start, N!sched
<1>2. /\ place' \in [Viewers -> CallPlaces] /\ latch' \in Seq(Viewers) /\ N!DockHolds'
      /\ \A x \in Viewers : place'[x] = IF x = w THEN "job" ELSE place[x]
      /\ N!Jobs' = N!Jobs + 1 /\ Cardinality(Comers') = Cardinality(Comers)
  <2>1. "job" \in CallPlaces
    BY DEF CallPlaces
  <2>2. latch' = IF place[w] = "wait"
                 THEN IF "job" = "wait" THEN latch ELSE N!Without(latch, w)
                 ELSE IF "job" = "wait" THEN Append(latch, w) ELSE latch
    BY <1>1
  <2>3. w \in Viewers /\ w # Host /\ place[w] = "idle" /\ N!Goes(w, "job")
    BY <1>1
  <2>4. /\ place' \in [Viewers -> CallPlaces] /\ latch' \in Seq(Viewers) /\ N!DockHolds'
        /\ \A x \in Viewers : place'[x] = IF x = w THEN "job" ELSE place[x]
        /\ N!Jobs \in Nat /\ N!Jobs' = N!Jobs + 1
        /\ Cardinality(Comers) \in Nat /\ Cardinality(Comers') = Cardinality(Comers) - 1 + 1
    BY ONLY N!IInv, <2>1, <2>2, <2>3, CallMoves
  <2>5. QED BY ONLY <2>4
<1>3. N!Blocked' = N!Blocked /\ N!Blocked \in Nat
  BY <1>1, <1>2 DEF N!Blocked
<1>4. N!JobsCounted' /\ jobs' \in Nat /\ rcv' \in Nat
  <2>1. CASE kind = "latch"
    <3>1. count' = N!Cardinality({x \in Viewers : place'[x] \in {"idle", "job", "end"}})
      BY <1>1, <1>2, <2>1, SameCalls DEF Comers
    <3>2. QED BY <1>1, <2>1, <3>1 DEF N!JobsCounted, Viewers
  <2>2. CASE kind # "latch"
    <3>1. /\ rcv + 1 = fin + (N!Jobs + 1)
          /\ snd >= fin + (N!Jobs + 1) + (jobs - 1) + N!Blocked
          /\ ~refused => snd = fin + (N!Jobs + 1) + (jobs - 1) + N!Blocked
          /\ jobs - 1 \in Nat /\ rcv + 1 \in Nat
      <4>1. /\ rcv = fin + N!Jobs /\ snd >= fin + N!Jobs + jobs + N!Blocked
            /\ ~refused => snd = fin + N!Jobs + jobs + N!Blocked
            /\ N!Jobs \in Nat /\ N!Blocked \in Nat /\ jobs > 0
        BY <1>1, <1>3, <2>2
      <4>2. fin \in Nat /\ snd \in Nat /\ jobs \in Nat
        BY DEF N!IInv, N!TypeOK
      <4>3. QED BY ONLY <4>1, <4>2, JobTaken
    <3>2. QED BY <1>1, <1>2, <1>3, <2>2, <3>1 DEF N!JobsCounted
  <2>3. QED BY <2>1, <2>2
<1>5. N!Roles'
  BY <1>1, <1>2 DEF N!Roles, Viewers
<1>6. N!Awaited(fin, count)' <=> N!Awaited(fin, count)
  BY <1>1 DEF N!Awaited
<1>7. N!SleepersWait'
  <2>1. \A x \in Viewers : place'[x] = "wait" => place[x] = "wait"
    BY <1>2
  <2>2. QED BY <1>1, <1>6, <2>1 DEF N!SleepersWait, Viewers
<1>8. N!CallerLeft'
  <2>1. place'[Host] = place[Host]
    BY <1>1, <1>2
  <2>2. QED BY <1>1, <1>6, <2>1 DEF N!CallerLeft
<1>9. N!TypeOK'
  BY <1>1, <1>2, <1>4, CallTypes
<1>10. QED BY <1>2, <1>4, <1>5, <1>7, <1>8, <1>9 DEF N!IInv

LEMMA CallEnd == ASSUME N!IInv, NEW w \in N!Workers, N!End(w) PROVE N!IInv'
<1> USE CallFacts, CallParts
<1>1. /\ w \in Viewers /\ w # Host /\ place[w] = "job" /\ N!Goes(w, "idle") /\ kind # "latch"
      /\ current' = current /\ pend' = pend /\ masked' = masked
      /\ kind' = kind /\ snd' = snd /\ fin' = fin + 1 /\ eptr' \in {eptr, TRUE}
      /\ count' = IF kind = "for_each" THEN count - 1 ELSE count
      /\ rcv' = rcv /\ jobs' = jobs /\ latch' = latch /\ refused' = refused
  BY DEF N!End
<1>2. /\ place' \in [Viewers -> CallPlaces] /\ latch' \in Seq(Viewers) /\ N!DockHolds'
      /\ \A x \in Viewers : place'[x] = IF x = w THEN "idle" ELSE place[x]
      /\ N!Jobs' = N!Jobs - 1 /\ N!Jobs - 1 \in Nat
  <2>1. "idle" \in CallPlaces
    BY DEF CallPlaces
  <2>2. latch' = IF place[w] = "wait"
                 THEN IF "idle" = "wait" THEN latch ELSE N!Without(latch, w)
                 ELSE IF "idle" = "wait" THEN Append(latch, w) ELSE latch
    BY <1>1
  <2>3. w \in Viewers /\ w # Host /\ place[w] = "job" /\ N!Goes(w, "idle")
    BY <1>1
  <2>4. /\ place' \in [Viewers -> CallPlaces] /\ latch' \in Seq(Viewers) /\ N!DockHolds'
        /\ \A x \in Viewers : place'[x] = IF x = w THEN "idle" ELSE place[x]
        /\ N!Jobs \in Nat /\ N!Jobs' \in Nat /\ N!Jobs' = N!Jobs - 1 + 0
    BY ONLY N!IInv, <2>1, <2>2, <2>3, CallMoves
  <2>5. QED BY ONLY <2>4
<1>3. N!Blocked' = N!Blocked /\ N!Blocked \in Nat
  BY <1>1, <1>2 DEF N!Blocked
<1>4. /\ rcv = (fin + 1) + (N!Jobs - 1) /\ fin + 1 <= 3
      /\ snd >= (fin + 1) + (N!Jobs - 1) + jobs + N!Blocked
      /\ ~refused => snd = (fin + 1) + (N!Jobs - 1) + jobs + N!Blocked
      /\ kind = "for_each" => count - 1 = 3 - (fin + 1)
      /\ kind # "for_each" => count = 3
  <2>1. /\ fin \in Nat /\ rcv \in Nat /\ jobs \in Nat /\ snd \in Nat /\ N!Jobs \in Nat
        /\ rcv = fin + N!Jobs /\ snd <= 3
        /\ snd >= fin + N!Jobs + jobs + N!Blocked
        /\ ~refused => snd = fin + N!Jobs + jobs + N!Blocked
        /\ kind = "for_each" => count = 3 - fin
        /\ kind # "for_each" => count = 3
    BY <1>1
  <2>2. N!Jobs >= 1 /\ N!Blocked \in Nat
    BY <1>2, <1>3, <2>1
  <2>3. fin + 1 <= 3
    BY ONLY <2>1, <2>2
  <2>4. kind = "for_each" => count - 1 = 3 - (fin + 1)
    BY ONLY <2>1
  <2>5. /\ rcv = (fin + 1) + (N!Jobs - 1)
        /\ snd >= (fin + 1) + (N!Jobs - 1) + jobs + N!Blocked
        /\ ~refused => snd = (fin + 1) + (N!Jobs - 1) + jobs + N!Blocked
    BY ONLY <2>1, <2>2
  <2>6. QED BY ONLY <2>1, <2>3, <2>4, <2>5
<1>5. fin' \in Nat /\ count' \in Nat /\ eptr' \in BOOLEAN
  <2>1. fin' \in Nat
    BY <1>1
  <2>4. eptr' \in BOOLEAN
    BY <1>1
  <2>2. kind = "for_each" => count - 1 \in Nat
    BY <1>4
  <2>3. QED BY <1>1, <2>1, <2>2, <2>4
<1>6. N!JobsCounted'
  BY <1>1, <1>2, <1>3, <1>4 DEF N!JobsCounted
<1>7. N!Roles'
  BY <1>1, <1>2 DEF N!Roles, Viewers
<1>8. stage' = N!Wake(stage, IF kind = "concurrent" \/ count' = 0 THEN ToSet(latch) ELSE {})
  BY SameCalls DEF N!End
<1>9. (IF kind = "concurrent" \/ count' = 0 THEN ToSet(latch) ELSE {}) \in SUBSET Viewers
  OBVIOUS
<1>10. stage' \in [Viewers -> N!Stages]
  BY <1>8, <1>9, CallWakes
<1>11. N!SleepersWait'
  <2>1. \A x \in Viewers : place'[x] = "wait" => x \in ToSet(latch)
    BY <1>2
  <2>2. CASE kind = "concurrent" \/ count' = 0
    <3>1. stage' = N!Wake(stage, ToSet(latch)) /\ ToSet(latch) \in SUBSET Viewers
      BY <1>8, <2>2
    <3>2. \A x \in ToSet(latch) : stage'[x] # "asleep"
      BY <3>1, CallWakes
    <3>3. QED BY <2>1, <3>2 DEF N!SleepersWait, Viewers
  <2>3. CASE ~(kind = "concurrent" \/ count' = 0)
    <3>1. ~N!Awaited(fin, count)'
      BY <1>1, <2>3 DEF N!Awaited
    <3>2. QED BY <3>1 DEF N!SleepersWait
  <2>4. QED BY <2>2, <2>3
<1>12. N!CallerLeft'
  <2>1. place'[Host] = place[Host]
    BY <1>1, <1>2
  <2>2. ~N!Awaited(fin, count)
    <3>1. fin # snd
      <4>1. /\ fin \in Nat /\ snd \in Nat /\ jobs \in Nat /\ N!Blocked \in Nat /\ N!Jobs - 1 \in Nat
            /\ snd >= (fin + 1) + (N!Jobs - 1) + jobs + N!Blocked
        BY <1>2, <1>3, <1>4
      <4>2. QED BY ONLY <4>1
    <3>3. kind = "for_each" => count # 0
      <4>1. fin \in Nat /\ fin + 1 <= 3 /\ (kind = "for_each" => count = 3 - fin)
        BY <1>1, <1>4
      <4>2. QED BY ONLY <4>1
    <3>2. QED BY <1>1, <3>1, <3>3 DEF N!Awaited, N!Kinds
  <2>3. place[Host] = "left" => kind = "for_each" /\ refused
    BY <1>1, <2>2
  <2>4. eptr => eptr'
    BY <1>1
  <2>5. QED BY <1>1, <2>1, <2>3, <2>4 DEF N!CallerLeft
<1>13. N!TypeOK'
  BY <1>1, <1>2, <1>5, <1>6, <1>10, CallTypes
<1>14. QED BY <1>2, <1>6, <1>7, <1>11, <1>12, <1>13 DEF N!IInv

\* What else contexts do, with the dock none of their business.
LEMMA CallIdle ==
  ASSUME N!IInv, NEW c \in Viewers, N!Doze(c) \/ N!WakeElsewhere(c) \/ N!Notify(c)
  PROVE  N!IInv'
<1>1. UNCHANGED <<kind, snd, rcv, fin, eptr, count, jobs, latch, place, refused>>
  BY DEF N!Doze, N!WakeElsewhere, N!Notify
<1>2. /\ current \in Viewers \cup {None} /\ stage \in [Viewers -> N!Stages]
      /\ pend \in [Viewers -> SUBSET N!Requests] /\ masked \in [Viewers -> BOOLEAN]
  BY CallFacts
<1>3. CASE N!Doze(c)
  <2>1. /\ current' = None /\ stage' = [stage EXCEPT ![c] = "asleep"] /\ pend' = pend
        /\ masked' = masked /\ place[c] # "wait"
    BY <1>3 DEF N!Doze, N!Suspend, N!Elsewhere
  <2>2. stage' \in [Viewers -> N!Stages]
    BY <1>2, <2>1 DEF N!Stages
  <2>3. \A x \in Viewers : place[x] = "wait" /\ stage'[x] = "asleep" => stage[x] = "asleep"
    BY <1>2, <2>1
  <2>4. QED BY <1>1, <1>2, <2>1, <2>2, <2>3, CallStays
<1>4. CASE N!WakeElsewhere(c)
  <2>1. N!Return(c)
    BY <1>4 DEF N!WakeElsewhere
  <2>2. /\ stage' = [stage EXCEPT ![c] = "running"]
        /\ current' \in Viewers \cup {None} /\ stage' \in [Viewers -> N!Stages]
        /\ pend' \in [Viewers -> SUBSET N!Requests] /\ masked' \in [Viewers -> BOOLEAN]
    BY <2>1, CallReturns
  <2>3. \A x \in Viewers : stage'[x] = "asleep" => stage[x] = "asleep"
    BY <1>2, <2>2
  <2>4. QED BY <1>1, <2>2, <2>3, CallStays
<1>5. CASE N!Notify(c)
  <2>1. stage' = N!Wake(stage, {c}) /\ current' = current /\ pend' = pend /\ masked' = masked
    BY <1>5 DEF N!Notify, N!Rouse
  <2>2. /\ stage' \in [Viewers -> N!Stages]
        /\ \A x \in Viewers : stage'[x] = "asleep" => stage[x] = "asleep"
    BY <2>1, {c} \in SUBSET Viewers, CallWakes
  <2>3. QED BY <1>1, <1>2, <2>1, <2>2, CallStays
<1>6. QED BY <1>3, <1>4, <1>5

LEMMA CallStarts == N!Init => N!IInv
<1> SUFFICES ASSUME N!Init PROVE N!IInv
  OBVIOUS
<1>0. Host \in Viewers /\ N!Workers = Viewers \ {Host}
  BY DEF Viewers, N!Workers
<1>1. /\ current = None /\ stage = [c \in Viewers |-> "ready"]
      /\ pend = [c \in Viewers |-> {}] /\ masked = [c \in Viewers |-> FALSE]
      /\ kind \in N!Kinds /\ snd = 0 /\ rcv = 0 /\ fin = 0 /\ eptr = FALSE
      /\ jobs = 0 /\ latch = <<>> /\ refused = FALSE
      /\ count = IF kind = "latch" THEN Cardinality(Viewers \ {Host}) + 1 ELSE 3
      /\ place = [c \in Viewers |-> IF c # Host THEN "idle"
                                    ELSE IF kind = "latch" THEN "end" ELSE "send"]
  BY <1>0, SameCalls DEF N!Init, N!SchedInit, Viewers
<1>2. Cardinality(Viewers) = Cardinality(Viewers \ {Host}) + 1
  <2>1. /\ IsFiniteSet(Viewers) /\ Cardinality(Viewers) \in Nat
        /\ Cardinality(Viewers \ {Host}) = Cardinality(Viewers) - 1
    BY <1>0, ViewersFinite, FS_RemoveElement
  <2>2. QED BY <2>1
<1>3. N!JobsCounted
  <2>1. CASE kind = "latch"
    <3>1. {c \in Viewers : place[c] \in {"idle", "job", "end"}} = Viewers
      BY <1>1, <2>1
    <3>2. QED BY <1>1, <1>2, <2>1, <3>1, SameCalls DEF N!JobsCounted, Viewers
  <2>2. CASE kind # "latch"
    <3>1. {w \in Viewers \ {Host} : place[w] = "job"} = {}
      BY <1>1
    <3>2. N!Jobs = 0
      BY <1>0, <3>1, SameCalls, FS_EmptySet DEF N!Jobs
    <3>3. N!Blocked = 0
      BY <1>0, <1>1, <2>2 DEF N!Blocked
    <3>4. QED BY <1>1, <2>2, <3>2, <3>3 DEF N!JobsCounted
  <2>3. QED BY <2>1, <2>2
<1>4. N!Roles
  BY <1>0, <1>1 DEF N!Roles
<1>5. N!DockHolds
  <2>1. N!ToSet(latch) = {}
    BY <1>1, SameCalls DEF ToSet
  <2>2. {c \in Viewers : place[c] = "wait"} = {}
    BY <1>1
  <2>3. QED BY <1>1, <2>1, <2>2 DEF N!DockHolds, Viewers
<1>6. N!SleepersWait /\ N!CallerLeft
  BY <1>0, <1>1 DEF N!SleepersWait, N!CallerLeft, Viewers
<1>7. N!TypeOK
  <2>1. Cardinality(Viewers) \in Nat /\ N!Cardinality(Guest \cup {Host}) = Cardinality(Viewers)
    BY ViewersFinite, SameCalls DEF Viewers
  <2>2. count \in 0..(3 + Cardinality(Viewers)) /\ 0 \in 0..(3 + Cardinality(Viewers))
    <3>1. count = Cardinality(Viewers) \/ count = 3
      BY <1>1, <1>2
    <3>2. QED BY <2>1, <3>1
  <2>3. place \in [Viewers -> CallPlaces] /\ latch \in Seq(Viewers)
    BY <1>1 DEF CallPlaces
  <2>4. N!SchedTypeOK
    BY <1>1 DEF N!SchedTypeOK, N!Stages, N!Requests, Viewers
  <2>5. QED BY <1>1, <2>1, <2>2, <2>3, <2>4 DEF N!TypeOK, CallPlaces, Viewers
<1>8. QED BY <1>3, <1>4, <1>5, <1>6, <1>7 DEF N!IInv

LEMMA CallKeeps == N!IInv /\ N!Next => N!IInv'
<1> SUFFICES ASSUME N!IInv, N!Next PROVE N!IInv'
  OBVIOUS
<1>1. CASE N!Send \/ N!Unblock \/ N!Sent
  BY <1>1, CallSend, CallUnblock, CallSent
<1>2. CASE \E c \in Viewers : \/ N!Await(c) \/ N!Leave(c) \/ N!Interrupted(c)
                               \/ N!Doze(c) \/ N!WakeElsewhere(c) \/ N!Notify(c)
  BY <1>2, CallAwait, CallLeave, CallInterrupted, CallIdle
<1>3. CASE \E w \in N!Workers : N!Start(w) \/ N!End(w)
  BY <1>3, CallStart, CallEnd
<1>4. QED BY <1>1, <1>2, <1>3 DEF N!Next, Viewers

\* Where the invariant holds, whoever sleeps waits for something that is to come, and the
\* object outlives its jobs.
LEMMA CallsInvariant == N!IInv => N!WaitsForSomething /\ N!OutlivesItsJobs
<1> SUFFICES ASSUME N!IInv PROVE N!WaitsForSomething /\ N!OutlivesItsJobs
  OBVIOUS
<1> USE CallFacts, CallParts
<1>1. N!Jobs = 0 <=> \A w \in Viewers \ {Host} : place[w] # "job"
  <2>1. N!Jobs = Cardinality(Works) /\ IsFiniteSet(Works)
    BY SameCalls, ViewersFinite, FS_Subset DEF N!Jobs, N!Workers, Works, Viewers
  <2>2. Cardinality(Works) = 0 <=> Works = {}
    BY <2>1, FS_EmptySet
  <2>3. QED BY <2>1, <2>2 DEF Works
<1>2. N!Blocked \in Nat /\ (place[Host] # "blocked" => N!Blocked = 0)
  BY DEF N!Blocked
<1>3. N!Outstanding <=> \/ jobs > 0 \/ N!Jobs # 0
                        \/ kind = "latch" /\ \E c \in Viewers : place[c] \in {"idle", "end"}
  BY <1>1 DEF N!Outstanding, Viewers
<1>4. N!WaitsForSomething
  <2> SUFFICES ASSUME NEW c \in Viewers, place[c] = "wait", stage[c] = "asleep", ~N!Outstanding
               PROVE  refused \/ (kind = "for_each" /\ eptr /\ snd < 3)
    BY DEF N!WaitsForSomething, Viewers
  <2>1. ~N!Awaited(fin, count) /\ jobs = 0 /\ N!Jobs = 0
    BY <1>3
  <2>2. CASE kind = "latch"
    <3>1. Comers = {}
      BY <1>1, <1>3, <2>1, <2>2 DEF Comers
    <3>2. count = 0
      BY <2>2, <3>1, FS_EmptySet
    <3>3. QED BY <2>1, <2>2, <3>2 DEF N!Awaited
  <2>3. CASE kind # "latch"
    <3>1. c = Host /\ N!Blocked = 0
      BY <1>2, <2>3
    <3>2. CASE ~refused
      <4>1. snd = fin
        BY <2>1, <2>3, <3>1, <3>2
      <4>2. kind = "for_each" /\ count = 3 - fin /\ count # 0
        BY <2>1, <2>3, <4>1 DEF N!Awaited, N!Kinds
      <4>3. QED BY <3>1, <4>1, <4>2
    <3>3. QED BY <3>2
  <2>4. QED BY <2>2, <2>3
<1>5. N!OutlivesItsJobs
  <2> SUFFICES ASSUME place[Host] = "left", N!Outstanding, kind # "latch"
               PROVE  kind = "for_each" /\ refused
    BY DEF N!OutlivesItsJobs
  <2>1. snd > fin /\ snd <= 3
    BY <1>2, <1>3
  <2>2. ~N!Awaited(fin, count)
    <3>1. CASE kind = "for_each"
      BY <2>1, <3>1 DEF N!Awaited
    <3>2. CASE kind # "for_each"
      BY <2>1, <3>2 DEF N!Awaited, N!Kinds
    <3>3. QED BY <3>1, <3>2
  <2>3. QED BY <2>2
<1>6. QED BY <1>4, <1>5

\* Concurrent calls complete, however many contexts there are: nobody sleeps for jobs that
\* are all over, unless one was refused or the loop was left by an exception, and the
\* object on the caller's stack outlives the jobs that refer to it.
THEOREM CallsCompleted == McSpec => []CallsComplete
<1> DEFINE Inv == which = "calls" => N!IInv
<1>1. McInit => Inv
  BY CallStarts DEF McInit
<1>2. Inv /\ [McNext]_all => Inv'
  <2>1. ASSUME Inv, McNext, which' = "calls" PROVE N!IInv'
    <3>1. which = "calls" /\ N!Next
      BY <2>1 DEF McNext
    <3>2. QED BY <2>1, <3>1, CallKeeps
  <2>2. ASSUME Inv, UNCHANGED all, which' = "calls" PROVE N!IInv'
    <3>1. /\ UNCHANGED <<current, stage, pend, masked>>
          /\ UNCHANGED <<kind, snd, rcv, fin, eptr, count, jobs, latch, place, refused>>
          /\ which = "calls"
      BY <2>2 DEF all, vars, sched, callVars
    <3>2. N!IInv
      BY <2>2, <3>1
    <3>3. /\ current' \in Viewers \cup {None} /\ stage' \in [Viewers -> N!Stages]
          /\ pend' \in [Viewers -> SUBSET N!Requests] /\ masked' \in [Viewers -> BOOLEAN]
          /\ \A x \in Viewers : place[x] = "wait" /\ stage'[x] = "asleep" => stage[x] = "asleep"
      BY <3>1, <3>2, CallFacts
    <3>4. QED BY <3>1, <3>2, <3>3, CallStays
  <2>3. QED BY <2>1, <2>2
<1>3. Inv => CallsComplete
  BY CallsInvariant DEF CallsComplete
<1>4. QED BY <1>1, <1>2, <1>3, PTL DEF McSpec
=============================================================================
