--------------------------------- MODULE Ctx ---------------------------------
(***************************************************************************)
(* The context machine of ircd/ctx.cc: the notes counter and the alarm of  *)
(* a context, the continuation that suspends and resumes it, interruption, *)
(* termination and the scopes that suppress them, the base frame and the   *)
(* dock `adjoindre` on which contexts join the others.                     *)
(***************************************************************************)
EXTENDS Integers, Queues

CONSTANTS
  Ctxs,       \* the contexts, all constructed and posted to the event loop
  None,       \* the null ctx pointer
  MaxScopes,  \* bound on the nesting of suppression scopes
  Ours,       \* the arguments given to uninterruptible(): TRUE is the default
  Asked       \* the requests that are made: "INTERRUPTED", "TERMINATED"

ASSUME CtxAssumption ==
  /\ None \notin Ctxs /\ MaxScopes \in Nat /\ Ours \subseteq BOOLEAN
  /\ Asked \subseteq {"INTERRUPTED", "TERMINATED"}

VARIABLES
  current,    \* ircd::ctx::current
  frame,      \* where the base frame of each context is
  notes,      \* ctx::notes; 2 stands for every larger count
  alarm,      \* the wait on ctx::alarm: none, pending (timed or not), completed
  cont,       \* ctx::cont is not null: the context has suspended before
  flags,      \* INTERRUPTED, TERMINATED, NOINTERRUPT of ctx::flags
  scopes,     \* the suppression scopes on the stack of each context
  joining,    \* the context each context is waiting for in context::join()
  adjoindre   \* the queue of the dock ctx::adjoindre

vars == <<current, frame, notes, alarm, cont, flags, scopes, joining, adjoindre>>

\* Not entered; in the function; unwinding from `terminated`; aborted by the
\* interruption point at entry; returned.
Frames == {"unborn", "body", "unwind", "aborted", "gone"}
Alarms == {"none", "untimed", "timed", "queued"}
Flags == {"INTERRUPTED", "TERMINATED", "NOINTERRUPT"}

\* A scope knows its argument, the interruptibility it found, and whether it is
\* an interruption point (uninterruptible) or not (uninterruptible::nothrow).
Scope == [ours : BOOLEAN, theirs : BOOLEAN, throws : BOOLEAN]

TypeOK ==
  /\ current \in Ctxs \cup {None}
  /\ frame \in [Ctxs -> Frames]
  /\ notes \in [Ctxs -> 0..2]
  /\ alarm \in [Ctxs -> Alarms]
  /\ cont \in [Ctxs -> BOOLEAN]
  /\ flags \in [Ctxs -> SUBSET Flags]
  /\ scopes \in [Ctxs -> Seq(Scope)] /\ \A c \in Ctxs : Len(scopes[c]) <= MaxScopes
  /\ joining \in [Ctxs -> Ctxs \cup {None}]
  /\ adjoindre \in Seq(Ctxs)

Init ==
  /\ current = None
  /\ frame = [c \in Ctxs |-> "unborn"]
  /\ notes = [c \in Ctxs |-> 0]
  /\ alarm = [c \in Ctxs |-> "none"]
  /\ cont = [c \in Ctxs |-> FALSE]
  /\ flags = [c \in Ctxs |-> {}]
  /\ scopes = [c \in Ctxs |-> <<>>]
  /\ joining = [c \in Ctxs |-> None]
  /\ adjoindre = <<>>

-----------------------------------------------------------------------------
(* Parts of the actions *)

Finished(c) == frame[c] = "gone"

\* The user's code has control in c.
Runs(c) == current = c /\ frame[c] \in {"body", "unwind"} /\ joining[c] = None

\* ctx::interruption() of the flags f.
Requested(f) == f \cap {"INTERRUPTED", "TERMINATED"} # {}
Interruption(f) == Requested(f) /\ "NOINTERRUPT" \notin f

\* The flags f after ctx::interruption_point() threw, and the exception's frame.
Consumed(f) ==
  IF "TERMINATED" \in f THEN f \cup {"NOINTERRUPT"} ELSE f \ {"INTERRUPTED"}
Unwound(c, threw) ==
  IF threw /\ "TERMINATED" \in flags[c] THEN [frame EXCEPT ![c] = "unwind"] ELSE frame

\* ctx::note() of the contexts of W: counts n and alarms a afterwards.
Noted(n, W) == [d \in Ctxs |-> IF d \notin W THEN n[d] ELSE IF n[d] = 0 THEN 1 ELSE 2]
Woken(a) == IF a \in {"untimed", "timed"} THEN "queued" ELSE a
Alarmed(a, W) ==
  [d \in Ctxs |-> IF d \in W /\ notes[d] = 0 /\ d # current THEN Woken(a[d]) ELSE a[d]]

\* Set or clear NOINTERRUPT, as interruptible(ctx, b) does.
Set(f, b) == IF b THEN f \ {"NOINTERRUPT"} ELSE f \cup {"NOINTERRUPT"}

\* this_ctx::interruptible(b) is an interruption point when it changes the flag:
\* before it becomes uninterruptible, after it becomes interruptible.
EdgeThrows(f, b) == Requested(f) /\ b # ("NOINTERRUPT" \notin f)
EdgeEarly(f, b) ==  \* mutant: throws before the flag is restored
  IF ~EdgeThrows(f, b) THEN Set(f, b) ELSE Consumed(f)
Edge(f, b) ==
  IF ~EdgeThrows(f, b) THEN Set(f, b)
  ELSE IF b THEN Consumed(Set(f, b)) ELSE Consumed(f)

\* continuation::leave() and the wait on the alarm: c is suspended over any note.
Suspends(c, how) ==
  /\ current' = None
  /\ notes' = [notes EXCEPT ![c] = 0]
  /\ alarm' = [alarm EXCEPT ![c] = how]
  /\ cont' = [cont EXCEPT ![c] = TRUE]

-----------------------------------------------------------------------------
(* The base frame and the continuation *)

\* ctx::operator(): the first entry, with its precocious interruption point.
Enter(c) ==
  /\ current = None /\ frame[c] = "unborn"
  /\ current' = c
  /\ notes' = [notes EXCEPT ![c] = 1]
  /\ frame' = [frame EXCEPT ![c] = IF Interruption(flags[c]) THEN "aborted" ELSE "body"]
  /\ flags' = [flags EXCEPT ![c] = IF Interruption(@) THEN Consumed(@) ELSE @]
  /\ UNCHANGED <<alarm, cont, scopes, joining, adjoindre>>

\* Whom `atexit` notifies when the base frame returns or unwinds: notify_all().
FirstJoiner == Front1(adjoindre)  \* mutant: notify_one()
NoJoiner == {}  \* mutant: nobody
Joiners == ToSet(adjoindre)

Exit(c) ==
  /\ \/ Runs(c) /\ scopes[c] = <<>>
     \/ current = c /\ frame[c] = "aborted"
  /\ current' = None
  /\ frame' = [frame EXCEPT ![c] = "gone"]
  /\ notes' = [Noted(notes, Joiners) EXCEPT ![c] = 0]
  /\ alarm' = Alarmed(alarm, Joiners)
  /\ UNCHANGED <<cont, flags, scopes, joining, adjoindre>>

\* this_ctx::wait() and its timed forms.
Wait(c, how) ==
  /\ Runs(c)
  /\ Suspends(c, how)
  /\ UNCHANGED <<frame, flags, scopes, joining, adjoindre>>

\* The deadline of a timed wait passes.
Expire(c) ==
  /\ alarm[c] = "timed"
  /\ alarm' = [alarm EXCEPT ![c] = "queued"]
  /\ UNCHANGED <<current, frame, notes, cont, flags, scopes, joining, adjoindre>>

\* continuation::enter(): c resumes, its notes reset. When it throws out of join() the
\* dock's continuation leaves the queue and notifies the next one in it.
Resume(c) ==
  LET threw == Interruption(flags[c])
      left == threw /\ joining[c] # None
      rest == IF left THEN Without(adjoindre, c) ELSE adjoindre
      W == IF left THEN Front1(rest) ELSE {}
  IN  /\ current = None /\ alarm[c] = "queued"
      /\ current' = c
      /\ notes' = [Noted(notes, W) EXCEPT ![c] = 1]
      /\ alarm' = [Alarmed(alarm, W) EXCEPT ![c] = "none"]
      /\ flags' = [flags EXCEPT ![c] = IF threw THEN Consumed(@) ELSE @]
      /\ frame' = Unwound(c, threw)
      /\ joining' = [joining EXCEPT ![c] = IF left THEN None ELSE @]
      /\ adjoindre' = rest
      /\ UNCHANGED <<cont, scopes>>

-----------------------------------------------------------------------------
(* context::join() *)

\* The target has not finished: queue up and suspend.
Join(c, d) ==
  /\ Runs(c) /\ d # c /\ ~Finished(d)
  /\ joining' = [joining EXCEPT ![c] = d]
  /\ adjoindre' = Append(adjoindre, c)
  /\ Suspends(c, "untimed")
  /\ UNCHANGED <<frame, flags, scopes>>

\* The predicate after a wake-up: leave when joined, else suspend again.
Joined(c) ==
  /\ current = c /\ joining[c] # None
  /\ IF Finished(joining[c])
     THEN /\ joining' = [joining EXCEPT ![c] = None]
          /\ adjoindre' = Without(adjoindre, c)
          /\ UNCHANGED <<current, notes, alarm, cont>>
     ELSE Suspends(c, "untimed") /\ UNCHANGED <<joining, adjoindre>>
  /\ UNCHANGED <<frame, flags, scopes>>

-----------------------------------------------------------------------------
(* What others, or the context itself, do to a context *)

\* Who may call: the program's main stack, or user's code in a context.
Caller == \A c \in Ctxs : current = c => Runs(c)

\* ircd::ctx::notify()
Notify(c) ==
  /\ Caller
  /\ notes' = Noted(notes, {c})
  /\ alarm' = Alarmed(alarm, {c})
  /\ UNCHANGED <<current, frame, cont, flags, scopes, joining, adjoindre>>

\* ircd::ctx::interrupt() (below run::level::QUIT) and terminate().
RequestableFinished(c, r) == r \notin flags[c]  \* mutant: finished contexts too
Requestable(c, r) == ~Finished(c) /\ r \notin flags[c]

Request(c, r) ==
  /\ Caller /\ Requestable(c, r)
  /\ flags' = [flags EXCEPT ![c] = @ \cup {r}]
  /\ alarm' = IF c # current /\ cont[c] THEN [alarm EXCEPT ![c] = Woken(@)] ELSE alarm
  /\ UNCHANGED <<current, frame, notes, cont, scopes, joining, adjoindre>>

\* this_ctx::interruption_point() called by the user's code.
Point(c) ==
  /\ Runs(c) /\ Interruption(flags[c])
  /\ flags' = [flags EXCEPT ![c] = Consumed(@)]
  /\ frame' = Unwound(c, TRUE)
  /\ UNCHANGED <<current, notes, alarm, cont, scopes, joining, adjoindre>>

\* uninterruptible(ours) is constructed; no scope comes to exist when it throws.
OpenScope(c, ours, throws) ==
  LET threw == throws /\ EdgeThrows(flags[c], ~ours)
      scope == [ours |-> ours, theirs |-> "NOINTERRUPT" \notin flags[c], throws |-> throws]
  IN  /\ Runs(c) /\ Len(scopes[c]) < MaxScopes
      /\ flags' = [flags EXCEPT ![c] = IF throws THEN Edge(@, ~ours) ELSE Set(@, ~ours)]
      /\ frame' = Unwound(c, threw)
      /\ scopes' = [scopes EXCEPT ![c] = IF threw THEN @ ELSE Append(@, scope)]
      /\ UNCHANGED <<current, notes, alarm, cont, joining, adjoindre>>

\* The innermost scope is destroyed, which restores the interruptibility it found.
Restored(scope) == scope.theirs

CloseScope(c) ==
  LET scope == Last(scopes[c])
      threw == scope.throws /\ EdgeThrows(flags[c], Restored(scope))
  IN  /\ Runs(c) /\ scopes[c] # <<>>
      /\ flags' = [flags EXCEPT ![c] = IF scope.throws THEN Edge(@, Restored(scope))
                                                       ELSE Set(@, Restored(scope))]
      /\ frame' = Unwound(c, threw)
      /\ scopes' = [scopes EXCEPT ![c] = Front(@)]
      /\ UNCHANGED <<current, notes, alarm, cont, joining, adjoindre>>

Next ==
  \E c \in Ctxs :
    \/ Enter(c) \/ Exit(c) \/ Expire(c) \/ Resume(c) \/ Joined(c) \/ Notify(c) \/ Point(c)
    \/ \E how \in {"untimed", "timed"} : Wait(c, how)
    \/ \E d \in Ctxs : Join(c, d)
    \/ \E r \in Asked : Request(c, r)
    \/ \E ours \in Ours, throws \in BOOLEAN : OpenScope(c, ours, throws)
    \/ CloseScope(c)

\* The event loop takes its handlers in order, so one that is queued is reached
\* whenever the stack is free again and again; a slice of user's code ends.
SliceEnds(c) == Exit(c) \/ Wait(c, "untimed") \/ CloseScope(c) \/ Joined(c)
Fairness ==
  \A c \in Ctxs : SF_vars(Enter(c)) /\ SF_vars(Resume(c)) /\ WF_vars(SliceEnds(c))

Spec == Init /\ [][Next]_vars

-----------------------------------------------------------------------------
(* Properties *)

\* A note is never lost on a suspended context: whoever called notify() on it
\* queued its resumption (note() wakes on the first note only).
NotesResume ==
  \A c \in Ctxs : notes[c] > 0 /\ current # c => alarm[c] \notin {"untimed", "timed"}

\* Nobody sleeps in join() on a context that has finished: atexit notified it, or
\* the waiter that left by an exception passed its wake-up on.
NoJoinOnFinished ==
  \A c \in Ctxs :
    joining[c] # None /\ Finished(joining[c]) => current = c \/ alarm[c] = "queued"

\* A context that was noted, or whose join is over, is not left asleep.
SleepersResume == NotesResume /\ NoJoinOnFinished

\* Suppression does not outlive its scopes: outside of them only a context that
\* is being terminated ignores interrupts (`theirs` is restored on every path).
NoMaskLeak ==
  \A c \in Ctxs : scopes[c] = <<>> /\ "NOINTERRUPT" \in flags[c] => "TERMINATED" \in flags[c]

\* `terminated` is thrown once: a context that unwinds from it stays masked
\* (ctx.cc: "so the context cannot be further interrupted").
TerminatesOnce ==
  \A c \in Ctxs : frame[c] \in {"unwind", "aborted"} /\ "TERMINATED" \in flags[c]
                  => "NOINTERRUPT" \in flags[c]

\* uninterruptible.h: "An instance of uninterruptible will suppress interrupts
\* sent to the context for the scope."
ScopeSuppresses ==
  \A c \in Ctxs : scopes[c] # <<>> /\ Last(scopes[c]).ours => "NOINTERRUPT" \in flags[c]

\* Requests are suppressed exactly by the scopes, and a termination is thrown once.
RequestsHonoured == NoMaskLeak /\ ScopeSuppresses /\ TerminatesOnce

\* The invariant behind these, and behind the refinement below: besides, a context in its
\* function has a wait on its alarm unless it runs, the alarm of any other is free, and
\* `adjoindre` holds exactly who is in join(), each once.
AlarmsAgree ==
  /\ current # None => frame[current] \in {"body", "unwind", "aborted"}
  /\ \A c \in Ctxs :
       /\ alarm[c] # "none" <=> frame[c] \in {"body", "unwind"} /\ c # current
       /\ alarm[c] # "none" => cont[c]
       /\ frame[c] = "aborted" => c = current
JoinersQueued ==
  /\ \A c \in Ctxs : joining[c] # None <=> c \in ToSet(adjoindre)
  /\ \A i, j \in DOMAIN adjoindre : adjoindre[i] = adjoindre[j] => i = j
  /\ \A c \in Ctxs : joining[c] # None => frame[c] \in {"body", "unwind"}
IInv == TypeOK /\ AlarmsAgree /\ JoinersQueued /\ SleepersResume

\* What the scopes of a context remember of each other, when all of them suppress: only
\* the outermost may have found the context interruptible, and it did unless the context
\* was being terminated.  A context unwinds from `terminated` alone.
ScopesNest ==
  \A c \in Ctxs :
    /\ \A i \in DOMAIN scopes[c] : scopes[c][i].ours /\ (i > 1 => ~scopes[c][i].theirs)
    /\ scopes[c] # <<>> => "NOINTERRUPT" \in flags[c]
    /\ scopes[c] # <<>> /\ ~scopes[c][1].theirs => "TERMINATED" \in flags[c]
    /\ scopes[c] # <<>> /\ frame[c] = "unwind" => ~scopes[c][1].theirs
    /\ frame[c] = "unborn" => scopes[c] = <<>> /\ "NOINTERRUPT" \notin flags[c]
    /\ frame[c] = "aborted" => scopes[c] = <<>>
    /\ frame[c] = "unwind" => "TERMINATED" \in flags[c]

\* context.h: an interrupt is thrown "from the next interruption point; a context
\* switch is an interruption point": no context sleeps with one pending.
NoSleepOnRequest ==
  \A c \in Ctxs : alarm[c] \in {"untimed", "timed"} => ~Interruption(flags[c])

\* Every join on a finished context ends.
JoinEnds ==
  \A c, d \in Ctxs : joining[c] = d /\ Finished(d) ~> joining[c] # d

\* The abstract scheduler the other modules build on, and what it sees of a context.
Stage == [c \in Ctxs |-> CASE Finished(c) -> "done"
                          [] current = c -> "running"
                          [] alarm[c] \in {"untimed", "timed"} -> "asleep"
                          [] OTHER -> "ready"]
Pend == [c \in Ctxs |-> flags[c] \cap {"INTERRUPTED", "TERMINATED"}]
Masked == [c \in Ctxs |-> "NOINTERRUPT" \in flags[c]]

Abstract == INSTANCE Sched WITH stage <- Stage, pend <- Pend, masked <- Masked

\* Ctx implements Sched.
ImplementsSched == Abstract!SchedSpec
=============================================================================
