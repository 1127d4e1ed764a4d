-------------------------------- MODULE Sched --------------------------------
(***************************************************************************)
(* The cooperative scheduler of ircd::ctx as its synchronisation           *)
(* primitives see it.  One thread runs every context; a context that       *)
(* suspends is resumed by the event loop after somebody woke it.  Ctx.tla  *)
(* is the detailed machine (notes, alarm, flags) and is checked to         *)
(* implement the specification below; the modules of the primitives        *)
(* extend this one for its vocabulary.                                     *)
(***************************************************************************)
EXTENDS Queues

CONSTANTS
  Ctxs,     \* the contexts (ircd::ctx::ctx instances)
  None      \* the null ctx pointer: the program's main stack

ASSUME NoneAssumption == None \notin Ctxs

VARIABLES
  current,  \* ircd::ctx::current: the context that executes, or None
  stage,    \* what the event loop knows of each context
  pend,     \* the INTERRUPTED and TERMINATED flags of each context
  masked    \* the NOINTERRUPT flag of each context

sched == <<current, stage, pend, masked>>

Requests == {"INTERRUPTED", "TERMINATED"}

\* "ready": its resumption sits in the event loop; "asleep": only a wake-up
\* can put it there; "done": the base frame has returned.
Stages == {"ready", "running", "asleep", "done"}

SchedTypeOK ==
  /\ current \in Ctxs \cup {None}
  /\ stage \in [Ctxs -> Stages]
  /\ pend \in [Ctxs -> SUBSET Requests]
  /\ masked \in [Ctxs -> BOOLEAN]

SchedInit ==
  /\ current = None
  /\ stage = [c \in Ctxs |-> "ready"]
  /\ pend = [c \in Ctxs |-> {}]
  /\ masked = [c \in Ctxs |-> FALSE]

-----------------------------------------------------------------------------
(* Vocabulary *)

\* The stages s once the contexts of W were notified or woken: alarm.cancel()
\* queues the resumption of one asleep and does nothing to the others.
Wake(s, W) == [c \in Ctxs |-> IF c \in W /\ s[c] = "asleep" THEN "ready" ELSE s[c]]

\* ctx::interruption(): the next interruption point of c throws.
Throws(c) == pend[c] # {} /\ ~masked[c]

\* ctx::interruption_point() throwing in c: a termination stays flagged and masks
\* the context for good, an interruption is consumed.
Thrown(c) ==
  IF "TERMINATED" \in pend[c]
  THEN masked' = [masked EXCEPT ![c] = TRUE] /\ UNCHANGED pend
  ELSE pend' = [pend EXCEPT ![c] = @ \ {"INTERRUPTED"}] /\ UNCHANGED masked

\* The event loop may resume c.
Resumable(c) == current = None /\ stage[c] = "ready"

-----------------------------------------------------------------------------
(* Actions *)

\* The event loop resumes c, which leaves its suspension normally.
Resume(c) ==
  /\ Resumable(c) /\ ~Throws(c)
  /\ current' = c
  /\ stage' = [stage EXCEPT ![c] = "running"]
  /\ UNCHANGED <<pend, masked>>

\* The event loop resumes c, which leaves its suspension by an exception; the
\* dock it leaves notifies somebody else.
ResumeThrown(c) ==
  /\ Resumable(c) /\ Throws(c)
  /\ current' = c
  /\ \E W \in SUBSET (Ctxs \ {c}) : stage' = [Wake(stage, W) EXCEPT ![c] = "running"]
  /\ Thrown(c)

\* c resumes, whichever way, out of a suspension that concerns nobody else.
Return(c) ==
  /\ Resumable(c)
  /\ current' = c
  /\ stage' = [stage EXCEPT ![c] = "running"]
  /\ IF Throws(c) THEN Thrown(c) ELSE UNCHANGED <<pend, masked>>

\* The running context suspends until it is woken.
Suspend(c) ==
  /\ current = c
  /\ current' = None
  /\ stage' = [stage EXCEPT ![c] = "asleep"]
  /\ UNCHANGED <<pend, masked>>

\* The base frame of the running context returns; whoever waits is woken.
Finish(c) ==
  /\ current = c
  /\ current' = None
  /\ \E W \in SUBSET (Ctxs \ {c}) : stage' = [Wake(stage, W) EXCEPT ![c] = "done"]
  /\ UNCHANGED <<pend, masked>>

\* ctx::note(), or the alarm of c expires.
Rouse(c) ==
  /\ stage' = Wake(stage, {c})
  /\ UNCHANGED <<current, pend, masked>>

\* ircd::ctx::interrupt() and terminate().
Request(c, r) ==
  /\ stage[c] # "done" /\ r \notin pend[c]
  /\ pend' = [pend EXCEPT ![c] = @ \cup {r}]
  /\ stage' = Wake(stage, {c})
  /\ UNCHANGED <<current, masked>>

\* Scopes of this_ctx::uninterruptible: the flag is set or cleared, and a pending
\* interruption may be thrown where the flag is cleared.
Mask(c, m) ==
  /\ current = c
  /\ masked' = [masked EXCEPT ![c] = m]
  /\ \/ UNCHANGED pend
     \/ ~m /\ pend' = [pend EXCEPT ![c] = @ \ {"INTERRUPTED"}]
  /\ UNCHANGED <<current, stage>>

\* An interruption point passed while running throws.
Point(c) ==
  /\ current = c /\ pend[c] # {}
  /\ Thrown(c)
  /\ UNCHANGED <<current, stage>>

SchedNext ==
  \E c \in Ctxs :
    \/ Resume(c) \/ ResumeThrown(c) \/ Suspend(c) \/ Finish(c) \/ Rouse(c)
    \/ \E r \in Requests : Request(c, r)
    \/ \E m \in BOOLEAN : Mask(c, m)
    \/ Point(c)

SchedSpec == SchedInit /\ [][SchedNext]_sched
=============================================================================
