-------------------------------- MODULE Handlers --------------------------------
(***************************************************************************)
(* The handlers of a change of the run level: the instances of             *)
(* run::changed in their instance_list, called one after another by set(), *)
(* where a handler may suspend and others come and go meanwhile.  Run.tla  *)
(* has the contexts that wait for levels and transitions, one transition   *)
(* at a time.                                                              *)
(***************************************************************************)
EXTENDS Queues, Integers

CONSTANTS
  Instances,  \* the instances of run::changed
  None        \* no handler is being called

Levels == {"HALT", "READY", "START", "RUN", "QUIT"}
Down == {"QUIT", "HALT"}  \* where a failure does not end the transition

VARIABLES
  level,      \* run::level
  chadburn,   \* run::chadburn
  list,       \* changed::list
  single,     \* changed::single: the only level an instance is for, or "all"
  at,         \* the instance whose handler is called
  told,       \* the instances whose handler was called in this transition
  from,       \* the instances registered when it started, which still are
  ended       \* how the last call of a handler ended

vars == <<level, chadburn, list, single, at, told, from, ended>>

TypeOK ==
  /\ {level, chadburn} \subseteq Levels
  /\ list \in Seq(Instances) /\ IsInjective(list)
  /\ single \in [Instances -> Levels \cup {"all"}]
  /\ at \in Instances \cup {None} /\ {told, from} \subseteq SUBSET Instances
  /\ ended \in {"none", "returned", "failed", "terminated"}

Init ==
  /\ level = "HALT" /\ chadburn = "HALT"
  /\ list = <<>> /\ single \in [Instances -> {"all", "RUN", "QUIT"}]
  /\ at = None /\ told = {} /\ from = {} /\ ended = "none"

Changes == level # chadburn

-----------------------------------------------------------------------------
(* instance_list *)

RegisterFirst(h) ==  \* mutant: it is registered at the front
  /\ h \notin ToSet(list)
  /\ list' = <<h>> \o list
  /\ UNCHANGED <<level, chadburn, single, at, told, from, ended>>

\* A handler is registered at the end of the list.
Register(h) ==
  /\ h \notin ToSet(list)
  /\ list' = Append(list, h)
  /\ UNCHANGED <<level, chadburn, single, at, told, from, ended>>

\* It goes away with its instance, which is not destroyed while it is called. (Another
\* instance may take its place in memory: that one was not called.)
Deregister(h) ==
  /\ h \in ToSet(list) /\ h # at
  /\ list' = Without(list, h)
  /\ told' = told \ {h} /\ from' = from \ {h}
  /\ UNCHANGED <<level, chadburn, single, at, ended>>

-----------------------------------------------------------------------------
(* set() *)

\* The call of h begins: with the level, or not at all if it is for another.
Called(h) ==
  /\ at' = h
  /\ told' = told \cup {h}

\* The transition starts with the first of the list, or is over.
Set(new) ==
  /\ ~Changes /\ new # level
  /\ level' = new /\ ended' = "none"
  /\ IF list = <<>>
     THEN chadburn' = new /\ UNCHANGED <<at, told, from>>
     ELSE /\ chadburn' = level
          /\ at' = Head(list) /\ told' = {Head(list)} /\ from' = ToSet(list)
  /\ UNCHANGED <<list, single>>

\* The transition is over: chadburn = level on the way out.
Over == chadburn' = level /\ at' = None /\ told' = {} /\ from' = {}

\* The iterator moves to what follows the handler by now.
NextIn(h) ==
  LET i == CHOOSE i \in DOMAIN list : list[i] = h
  IN  IF i = Len(list) THEN Over
      ELSE Called(list[i + 1]) /\ UNCHANGED <<chadburn, from>>

Returns ==
  /\ Changes
  /\ NextIn(at)
  /\ ended' = "returned"
  /\ UNCHANGED <<level, list, single>>

\* A handler that is for another level does nothing: it cannot fail.
Runs(h) == single[h] \in {"all", level}

ThrowsOut ==  \* mutant: on the way down as well an exception leaves set()
  /\ Changes /\ Runs(at)
  /\ Over /\ ended' = "failed"
  /\ UNCHANGED <<level, list, single>>

\* It throws a std::exception: on the way down the others are called all the same,
\* otherwise set() is left.
Throws ==
  /\ Changes /\ Runs(at)
  /\ IF level \in Down THEN NextIn(at) ELSE Over
  /\ ended' = "failed"
  /\ UNCHANGED <<level, list, single>>

\* The context that changes the level is terminated while the handler suspends it, which
\* at QUIT an interrupt does: ctx::terminated is no std::exception, and leaves set() at
\* every level.
Terminated ==
  /\ Changes /\ Runs(at)
  /\ Over /\ ended' = "terminated"
  /\ UNCHANGED <<level, list, single>>

Next ==
  \/ \E h \in Instances : Register(h) \/ Deregister(h)
  \/ \E new \in Levels : Set(new)
  \/ Returns \/ Throws \/ Terminated

Spec == Init /\ [][Next]_vars

-----------------------------------------------------------------------------
(* Properties *)

\* run.h: a handler "will be called back for any run::level change while this instance
\* remains in scope": a transition that nothing cut short (an exception on the way up, the
\* termination of its context anywhere) is not over before each that was registered
\* throughout was called, and none is called twice, whatever else came, went or threw.
CutShort == ended' = "terminated" \/ (ended' = "failed" /\ level \notin Down)
EveryHandlerCalled ==
  [][/\ Changes /\ chadburn' = level /\ ~CutShort => from \subseteq told
     /\ (Returns \/ Throws) /\ Changes' => at' \notin told]_vars

\* The iterator stands on an instance of the list, and who was called is it and those
\* before it.
IteratorLives ==
  Changes => /\ at \in ToSet(list)
             /\ LET i == CHOOSE i \in DOMAIN list : list[i] = at
                IN  told = {list[j] : j \in 1..i}

\* The inductive invariant: besides, whoever was registered throughout is still in the list.
IInv == TypeOK /\ IteratorLives /\ (Changes => from \subseteq ToSet(list))
=============================================================================
