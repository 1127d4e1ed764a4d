-------------------------------- MODULE Slices --------------------------------
(***************************************************************************)
(* The profiler of ircd::ctx: the timestamps taken where a context enters, *)
(* yields, continues and leaves, the cycles they are charged to, the       *)
(* limits of a slice, and what measures on a context's stack with them:    *)
(* slice_usage_warning, this_ctx::cycles() and critical_indicator.         *)
(***************************************************************************)
EXTENDS FiniteSetsExt, Integers

CONSTANTS
  Ctxs, None,
  Exempt,   \* the contexts spawned with SLICE_EXEMPT
  Warning, Assertion, Interrupt,  \* settings::slice_*, in ticks; 0 is off
  MaxTime,  \* bound on the clock
  MaxYields \* bound on the yields of a context

VARIABLES
  current,  \* ircd::ctx::current
  stage,    \* each context: spawned, running, yielded, gone
  now,      \* the time stamp counter
  ts,       \* ios_handler.ts, of the one handler all contexts share
  last,     \* slice_last of its descriptor
  cycles,   \* profile.event[CYCLES] of each context
  yields,   \* profile.event[YIELD]
  total,    \* _total.event[CYCLES]
  slices,   \* slice_total of the descriptor
  latency,  \* latency_total of the descriptor
  scope,    \* the instance on the stack of each context: the samples it took, and what
            \* ran and now were then
  ran,      \* the time each context has executed since it was entered
  fate      \* the process: "alive", "aborted", or "terminated" by an exception

stats == <<ts, last, cycles, yields, total, slices, latency>>
vars == <<current, stage, now, stats, scope, ran, fate>>

Sums(f) == MapThenSumSet(LAMBDA c : f[c], DOMAIN f)
NoScope == [start |-> -1, epoch |-> -1, at |-> -1, when |-> -1]

TypeOK ==
  /\ current \in Ctxs \cup {None}
  /\ stage \in [Ctxs -> {"spawned", "running", "yielded", "gone"}]
  /\ {now, ts, last, total, slices, latency} \subseteq 0..MaxTime
  /\ {cycles, ran} \subseteq [Ctxs -> 0..MaxTime] /\ yields \in [Ctxs -> 0..MaxYields]
  /\ \A c \in Ctxs : scope[c] \in [{"start", "epoch", "at", "when"} -> -1..MaxTime]
  /\ fate \in {"alive", "aborted", "terminated"}

Init ==
  /\ current = None /\ stage = [c \in Ctxs |-> "spawned"]
  /\ now = 0 /\ ts = 0 /\ last = 0
  /\ cycles = [c \in Ctxs |-> 0] /\ yields = [c \in Ctxs |-> 0]
  /\ total = 0 /\ slices = 0 /\ latency = 0
  /\ scope = [c \in Ctxs |-> NoScope] /\ ran = [c \in Ctxs |-> 0] /\ fate = "alive"

-----------------------------------------------------------------------------
(* The marks *)

slice_enter_late ==  \* mutant: the timestamp of the last slice is kept
  UNCHANGED <<ts, latency>>

slice_enter ==
  /\ ts' = now
  /\ latency' = latency + (now - ts)

\* Charged to the descriptor, to the context and to the total.
slice_leave(c) ==
  /\ ts' = now
  /\ last' = now - ts
  /\ slices' = slices + last'
  /\ cycles' = [cycles EXCEPT ![c] = @ + last']
  /\ total' = total + last'

exceeds(limit, n) == limit > 0 /\ n >= limit

\* check_slice() as it is compiled: the warning that is commented out leaves its `if` in
\* front of the assertion. The exception of the interrupt meets noexcept: leave() of the
\* continuation, or the destructor that marks LEAVE.
check_slice(c) ==
  fate' = CASE /\ exceeds(Warning, last') /\ c \notin Exempt
               /\ exceeds(Assertion, last') -> "aborted"
            [] exceeds(Interrupt, last') /\ c \notin Exempt -> "terminated"
            [] OTHER -> fate

-----------------------------------------------------------------------------
(* The contexts *)

\* The first resumption, or a later one.
Enter(c) ==
  /\ fate = "alive" /\ current = None /\ stage[c] = "spawned"
  /\ current' = c /\ stage' = [stage EXCEPT ![c] = "running"]
  /\ slice_enter
  /\ UNCHANGED <<now, last, cycles, yields, total, slices, scope, ran, fate>>

Continue(c) ==
  /\ fate = "alive" /\ current = None /\ stage[c] = "yielded"
  /\ current' = c /\ stage' = [stage EXCEPT ![c] = "running"]
  /\ slice_enter
  /\ UNCHANGED <<now, last, cycles, yields, total, slices, scope, ran, fate>>

\* A precocious interrupt throws before the mark of the entry: no slice is recorded.
Abort(c) ==
  /\ fate = "alive" /\ current = None /\ stage[c] = "spawned"
  /\ stage' = [stage EXCEPT ![c] = "gone"]
  /\ UNCHANGED <<current, now, stats, scope, ran, fate>>

Yield(c) ==
  /\ fate = "alive" /\ current = c /\ yields[c] < MaxYields
  /\ current' = None /\ stage' = [stage EXCEPT ![c] = "yielded"]
  /\ yields' = [yields EXCEPT ![c] = @ + 1]
  /\ slice_leave(c) /\ check_slice(c)
  /\ UNCHANGED <<now, latency, scope, ran>>

Leave(c) ==
  /\ fate = "alive" /\ current = c /\ scope[c] = NoScope
  /\ current' = None /\ stage' = [stage EXCEPT ![c] = "gone"]
  /\ slice_leave(c) /\ check_slice(c)
  /\ UNCHANGED <<now, yields, latency, scope, ran>>

\* Time passes, on some context's stack or on the main stack.
Tick ==
  /\ fate = "alive" /\ now < MaxTime
  /\ now' = now + 1
  /\ ran' = IF current = None THEN ran ELSE [ran EXCEPT ![current] = @ + 1]
  /\ UNCHANGED <<current, stage, stats, scope, fate>>

-----------------------------------------------------------------------------
(* On the stack of a context *)

\* this_ctx::cycles(): what earlier slices took and this one has so far.
this_cycles(c) == cycles[c] + (now - ts)

Open(c) ==
  /\ fate = "alive" /\ current = c /\ scope[c] = NoScope
  /\ scope' = [scope EXCEPT ![c] = [start |-> this_cycles(c), epoch |-> yields[c],
                                   at |-> ran[c], when |-> now]]
  /\ UNCHANGED <<current, stage, now, stats, ran, fate>>

Close(c) ==
  /\ fate = "alive" /\ current = c /\ scope[c] # NoScope
  /\ scope' = [scope EXCEPT ![c] = NoScope]
  /\ UNCHANGED <<current, stage, now, stats, ran, fate>>

Next ==
  \/ Tick
  \/ \E c \in Ctxs :
       Enter(c) \/ Continue(c) \/ Abort(c) \/ Yield(c) \/ Leave(c) \/ Open(c) \/ Close(c)

Spec == Init /\ [][Next]_vars

-----------------------------------------------------------------------------
(* Properties *)

\* Every tick of a context is charged to it once, whoever ran in between, and none of the
\* main stack's to any: this_ctx::cycles() is the time it executed, and the totals are the
\* sums. The shared timestamp is enough for that because slices do not nest.
CyclesAreRun ==
  /\ \A c \in Ctxs : ran[c] = IF current = c THEN this_cycles(c) ELSE cycles[c]
  /\ total = Sums(cycles) /\ slices = total
  /\ now = total + latency + (now - ts)

\* slice_usage_warning measures what its context executed under it, not what it slept; and
\* while critical_indicator is true nobody else has executed since.
ScopesMeasure ==
  \A c \in Ctxs : current = c /\ scope[c] # NoScope =>
    /\ this_cycles(c) - scope[c].start = ran[c] - scope[c].at
    /\ yields[c] = scope[c].epoch => now - scope[c].when = ran[c] - scope[c].at

\* prof.h: slice_assertion is "abort() when exceeded".
LongSliceAborts ==
  [][\A c \in Ctxs \ Exempt :
       current = c /\ current' # c /\ exceeds(Assertion, now - ts) => fate' = "aborted"]_vars
=============================================================================
