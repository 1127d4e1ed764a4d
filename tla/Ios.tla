--------------------------------- MODULE Ios ---------------------------------
(***************************************************************************)
(* The one thread of the program (ios.cc, and the part of ctx.cc that      *)
(* enters and leaves contexts): its stack, the two registers that say who  *)
(* executes, ctx::current and handler::current, the four ways to dispatch  *)
(* a function, and the life of a context from its constructor to its       *)
(* release.  boost::asio is external: it runs what is posted in order, and *)
(* what is dispatched on the stack of the caller.                          *)
(***************************************************************************)
EXTENDS SequencesExt, Integers

CONSTANTS
  Ctxs,     \* the contexts, each spawned once
  None,     \* the null ctx pointer
  Depth,    \* the bound of the stack
  Slots,    \* the bound of the functions that wait in the event loop
  freq,     \* empt::freq
  Early     \* a context spawned with DETACH may end before its constructor does

VARIABLES
  current,  \* ircd::ctx::current
  handler,  \* ios::handler::current: a handle is known by the depth of its frame
  stack,    \* the frames of the thread, the innermost one last
  queue,    \* the handles the event loop holds
  queued,   \* descriptor::stats::queued, of all descriptors
  tick,     \* the calls of epoll_wait() elided in a row
  phase,    \* where each context is
  flags,    \* its DETACH and WAIT_JOIN
  intr,     \* it is flagged before it was entered
  held,     \* a unique_ptr, the handle of somebody, holds it
  frees,    \* how often it was deleted
  parent,   \* who spawned it
  child     \* whom the context suspended in a constructor or destructor is for

registers == <<current, handler>>
loop == <<queue, queued, tick>>
objects == <<flags, intr, held, frees, parent>>
vars == <<registers, stack, loop, phase, objects, child>>

null == 0
ios_handler == -1  \* the handler all contexts share
Flags == SUBSET {"DETACH", "WAIT_JOIN"}
Frames == [kind : {"handler", "direct", "closure", "spawn", "base"}, who : Ctxs \cup {None},
           does : {"code", "spawn", "done"}, was : 0..Depth]

TypeOK ==
  /\ current \in Ctxs \cup {None} /\ handler \in {null, ios_handler} \cup 1..Depth
  /\ \A i \in DOMAIN stack : stack[i] \in Frames
  /\ Len(queue) <= Slots /\ queued \in Nat /\ tick \in 0..freq
  /\ phase \in [Ctxs -> {"unborn", "queued", "running", "asleep", "latched", "joining", "finished"}]
  /\ flags \in [Ctxs -> Flags] /\ {intr, held} \subseteq [Ctxs -> BOOLEAN]
  /\ frees \in [Ctxs -> 0..2] /\ {parent, child} \subseteq [Ctxs -> Ctxs \cup {None}]

Init ==
  /\ current = None /\ handler = null /\ stack = <<>>
  /\ queue = <<>> /\ queued = 0 /\ tick = 0
  /\ phase = [c \in Ctxs |-> "unborn"] /\ flags = [c \in Ctxs |-> {}]
  /\ intr = [c \in Ctxs |-> FALSE] /\ held = [c \in Ctxs |-> FALSE]
  /\ frees = [c \in Ctxs |-> 0]
  /\ parent = [c \in Ctxs |-> None] /\ child = [c \in Ctxs |-> None]

-----------------------------------------------------------------------------
(* Vocabulary *)

Kind == IF stack = <<>> THEN "loop" ELSE Last(stack).kind
Frame(kind, who, does, was) == [kind |-> kind, who |-> who, does |-> does, was |-> was]

\* The frame on top is code of the program, which no constructor or destructor keeps.
Executes ==
  /\ Kind \in {"handler", "base"} /\ Last(stack).does = "code"
  /\ current # None => child[current] = None

\* handle(descriptor, f): it counts as queued from its construction until it is called.
\* A function is for the context it spawns, or for the one that waits for it.
Enqueued(does, who) ==
  /\ Len(queue) < Slots
  /\ queue' = Append(queue, [does |-> does, who |-> who])
  /\ queued' = queued + 1
  /\ UNCHANGED tick

\* The function is dispatched on this stack: the frame of who dispatches lies below.
Dispatched(below, does, who) ==
  /\ Len(stack) + 2 <= Depth
  /\ stack' = stack \o <<below, Frame("handler", who, does, null)>>
  /\ handler' = Len(stack) + 2

\* The context on top suspends, or its base frame returns.
Gone == stack' = Front(stack) /\ current' = None /\ handler' = null

\* The frame of c is on top of those of below: continuation::enter(), slice_enter().
Runs(c) == current' = c /\ handler' = ios_handler
Resumes(c) == Runs(c) /\ stack' = <<Frame("base", c, "code", null)>>

\* The base frame of c returns: a context that is detached is deleted by it or, when an
\* exception left it, by the handler of the exception.
Ends(c) == frees' = IF "DETACH" \in flags[c] THEN [frees EXCEPT ![c] = @ + 1] ELSE frees

\* The constructor of c has yet to look at the flags of c.
Constructed(c) == \E p \in Ctxs : child[p] = c /\ phase[p] # "joining"
\* Nobody constructs or destroys the handle of c.
Idle(c) == \A p \in Ctxs : child[p] # c

MayEnd(c) == Early \/ "DETACH" \notin flags[c] \/ ~Constructed(c)

-----------------------------------------------------------------------------
(* The event loop *)

\* epoll_wait() with something queued is a peek, elided until the counter is up.
calls == queue = <<>> \/ (freq # 0 /\ tick >= freq)
Polled == tick' = IF calls THEN 0 ELSE tick + 1

\* The kernel has an event for the program.
Arrive ==
  /\ stack = <<>> /\ calls /\ Len(queue) < Slots
  /\ queue' = Append(queue, [does |-> "code", who |-> None])
  /\ queued' = queued + 1 /\ Polled
  /\ UNCHANGED <<registers, stack, phase, objects, child>>

\* asio_handler_invoke() of the next handle, without a new event.
Take ==
  /\ stack = <<>> /\ queue # <<>>
  /\ queue' = Tail(queue) /\ queued' = queued - 1 /\ Polled
  /\ stack' = <<Frame("handler", Head(queue).who, Head(queue).does, null)>>
  /\ handler' = 1
  /\ UNCHANGED <<current, phase, objects, child>>

\* The function of the handle on top returns or throws: handler::leave(), fault(). A
\* latch is counted down either way.
Return ==
  /\ Kind = "handler" /\ Last(stack).does # "spawn"
  /\ stack' = Front(stack) /\ handler' = null
  /\ LET f == Last(stack)
         waiter == {p \in Ctxs : phase[p] = "latched"
                        /\ f.who = IF f.does = "code" THEN p ELSE child[p]}
     IN  phase' = [p \in Ctxs |-> IF p \in waiter THEN "asleep" ELSE phase[p]]
  /\ UNCHANGED <<current, loop, objects, child>>

\* The loop resumes a context: its alarm expired or somebody woke it.
Resume(c) ==
  /\ stack = <<>> /\ phase[c] = "asleep"
  /\ Resumes(c)
  /\ phase' = [phase EXCEPT ![c] = "running"]
  /\ UNCHANGED <<loop, objects, child>>

-----------------------------------------------------------------------------
(* ios::dispatch *)

\* dispatch(descriptor, defer, function).
Post ==
  /\ Executes /\ Enqueued("code", None)
  /\ UNCHANGED <<registers, stack, phase, objects, child>>

\* dispatch(descriptor, function), on the main stack.
Direct ==
  /\ Executes /\ current = None
  /\ Dispatched(Frame("direct", None, "done", handler), "code", None)
  /\ UNCHANGED <<current, loop, phase, objects, child>>

DirectNominal ==  \* mutant: the parent is not entered again when the function threw
  /\ Kind = "direct"
  /\ stack' = Front(stack) /\ handler' \in {null, Last(stack).was}
  /\ UNCHANGED <<current, loop, phase, objects, child>>

\* Whether or not the function threw the parent is entered again.
DirectReturns ==
  /\ Kind = "direct"
  /\ stack' = Front(stack) /\ handler' = Last(stack).was
  /\ UNCHANGED <<current, loop, phase, objects, child>>

\* dispatch(descriptor, yield, function), on the stack of a context.
Yield(p) ==
  /\ Executes /\ current = p
  /\ Dispatched(Frame("closure", p, "done", null), "code", None)
  /\ current' = None
  /\ UNCHANGED <<loop, phase, objects, child>>

\* The closure of a continuation has returned or thrown: the context is entered again.
ClosureReturns ==
  /\ Kind = "closure"
  /\ stack' = Front(stack) /\ Runs(Last(stack).who)
  /\ UNCHANGED <<loop, phase, objects, child>>

\* dispatch(descriptor, defer, yield, function) and the courtesy yield: the context waits
\* for a latch.
DeferYield(p) ==
  /\ Executes /\ current = p
  /\ Enqueued("code", p)
  /\ phase' = [phase EXCEPT ![p] = "latched"] /\ Gone
  /\ UNCHANGED <<objects, child>>

-----------------------------------------------------------------------------
(* ctx: spawn, entry, suspension, end *)

\* ctx::spawn() leaves the handler that runs it and starts the coroutine: the context is
\* entered, or was interrupted before it could be.
Spawn ==
  /\ Kind = "handler" /\ Last(stack).does = "spawn"
  /\ LET c == Last(stack).who
         below == Append(Front(stack), [Last(stack) EXCEPT !.does = "done"])
         frame == Frame("spawn", c, "done", handler)
     IN  IF intr[c]
         THEN /\ stack' = Append(below, frame) /\ handler' = null /\ Ends(c)
              /\ phase' = [phase EXCEPT ![c] = "finished"]
              /\ UNCHANGED current
         ELSE /\ stack' = below \o <<frame, Frame("base", c, "code", null)>> /\ Runs(c)
              /\ phase' = [phase EXCEPT ![c] = "running"]
              /\ UNCHANGED frees
  /\ UNCHANGED <<loop, flags, intr, held, parent, child>>

SpawnReturns ==
  /\ Kind = "spawn"
  /\ stack' = Front(stack) /\ handler' = Last(stack).was
  /\ UNCHANGED <<current, loop, phase, objects, child>>

Suspend(c) ==
  /\ Executes /\ current = c
  /\ phase' = [phase EXCEPT ![c] = "asleep"] /\ Gone
  /\ UNCHANGED <<loop, objects, child>>

Finish(c) ==
  /\ Executes /\ current = c /\ MayEnd(c)
  /\ phase' = [phase EXCEPT ![c] = "finished"] /\ Gone /\ Ends(c)
  /\ UNCHANGED <<loop, flags, intr, held, parent, child>>

\* terminate() or interrupt() of a context that waits to be entered.
Interrupt(c) ==
  /\ Executes /\ phase[c] = "queued" /\ ~intr[c] /\ MayEnd(c)
  /\ intr' = [intr EXCEPT ![c] = TRUE]
  /\ UNCHANGED <<registers, stack, loop, phase, flags, held, frees, parent, child>>

-----------------------------------------------------------------------------
(* context: the handle *)

New(c, f) ==
  /\ Executes /\ phase[c] = "unborn"
  /\ flags' = [flags EXCEPT ![c] = f]
  /\ parent' = [parent EXCEPT ![c] = current]
  /\ UNCHANGED <<intr, frees>>

\* With POST, as always on the main stack, the constructor returns at once.
NewPost(c, f) ==
  /\ New(c, f) /\ Enqueued("spawn", c)
  /\ held' = [held EXCEPT ![c] = "DETACH" \notin f]
  /\ phase' = [phase EXCEPT ![c] = "queued"]
  /\ UNCHANGED <<registers, stack, child>>

\* With DEFER the context that constructs waits for a latch.
NewDefer(p, c, f) ==
  /\ current = p /\ New(c, f) /\ Enqueued("spawn", c)
  /\ held' = [held EXCEPT ![c] = TRUE] /\ child' = [child EXCEPT ![p] = c]
  /\ phase' = [phase EXCEPT ![c] = "queued", ![p] = "latched"] /\ Gone

\* Without a flag the child is spawned on this stack.
NewDispatch(p, c, f) ==
  /\ current = p /\ New(c, f) /\ Len(stack) + 4 <= Depth
  /\ Dispatched(Frame("closure", p, "done", null), "spawn", c) /\ current' = None
  /\ held' = [held EXCEPT ![c] = TRUE] /\ child' = [child EXCEPT ![p] = c]
  /\ phase' = [phase EXCEPT ![c] = "queued"]
  /\ UNCHANGED loop

\* The constructor ends: a context that is committed to free itself is released.
Release(p) ==
  /\ Kind = "base" /\ current = p /\ child[p] # None
  /\ held' = [held EXCEPT ![child[p]] = @ /\ "DETACH" \notin flags[child[p]]]
  /\ child' = [child EXCEPT ![p] = None]
  /\ UNCHANGED <<registers, stack, loop, phase, flags, intr, frees, parent>>

\* context::detach() of a context that has not finished. (Of one that has, the caller is
\* given the pointer and owns it.)
detach(c) ==
  /\ Executes /\ held[c] /\ Idle(c) /\ phase[c] # "finished"
  /\ flags' = [flags EXCEPT ![c] = @ \cup {"DETACH"}]
  /\ held' = [held EXCEPT ![c] = FALSE]
  /\ UNCHANGED <<registers, stack, loop, phase, intr, frees, parent, child>>

DestroyUnstarted(c) ==  \* mutant: whether it was started is not looked at
  /\ Executes /\ current = None
  /\ held[c] /\ Idle(c) /\ phase[c] \in {"queued", "finished"}
  /\ held' = [held EXCEPT ![c] = FALSE] /\ frees' = [frees EXCEPT ![c] = @ + 1]
  /\ UNCHANGED <<registers, stack, loop, phase, flags, intr, parent, child>>

\* ~context() on the main stack of a context that has finished: the pointer frees it. One
\* that has not, or was not started, is detached.
Destroy(c) ==
  /\ Executes /\ current = None
  /\ held[c] /\ Idle(c) /\ phase[c] = "finished"
  /\ held' = [held EXCEPT ![c] = FALSE] /\ frees' = [frees EXCEPT ![c] = @ + 1]
  /\ UNCHANGED <<registers, stack, loop, phase, flags, intr, parent, child>>

\* ~context() in the context that spawned c: c is terminated unless WAIT_JOIN says no,
\* and joined.
DestroyJoin(p, c) ==
  /\ Executes /\ current = p /\ held[c] /\ Idle(c) /\ parent[c] = p
  /\ intr' = [intr EXCEPT ![c] = @ \/ (phase[c] = "queued" /\ "WAIT_JOIN" \notin flags[c])]
  /\ child' = [child EXCEPT ![p] = c]
  /\ phase' = [phase EXCEPT ![p] = "joining"] /\ Gone
  /\ UNCHANGED <<loop, flags, held, frees, parent>>

\* The end of c has notified adjoindre, its handle is gone and the pointer frees it.
Joined(p) ==
  /\ stack = <<>> /\ phase[p] = "joining" /\ phase[child[p]] = "finished"
  /\ Resumes(p) /\ phase' = [phase EXCEPT ![p] = "running"]
  /\ held' = [held EXCEPT ![child[p]] = FALSE] /\ frees' = [frees EXCEPT ![child[p]] = @ + 1]
  /\ child' = [child EXCEPT ![p] = None]
  /\ UNCHANGED <<loop, flags, intr, parent>>

Next ==
  \/ Arrive \/ Take \/ Return
  \/ Post \/ Direct \/ DirectReturns \/ ClosureReturns
  \/ Spawn \/ SpawnReturns
  \/ \E c \in Ctxs :
       \/ Resume(c) \/ Suspend(c) \/ Finish(c) \/ Yield(c) \/ DeferYield(c)
       \/ Interrupt(c) \/ Release(c) \/ detach(c) \/ Destroy(c) \/ Joined(c)
       \/ \E f \in Flags : NewPost(c, f)
       \/ \E p \in Ctxs : DestroyJoin(p, c) \/ \E f \in Flags : NewDefer(p, c, f) \/ NewDispatch(p, c, f)

Spec == Init /\ [][Next]_vars

-----------------------------------------------------------------------------
(* Properties *)

\* The assertions of dispatch, spawn(), handler::enter() and leave(), all at once: the
\* registers say who executes, whatever was nested, threw, suspended or ended since.
RegistersAgree ==
  CASE Kind = "base"    -> current = Last(stack).who /\ handler = ios_handler
    [] Kind = "handler" -> current = None /\ handler = Len(stack)
    [] OTHER            -> current = None /\ handler = null

\* ~descriptor(): assert(stats->queued == 0) when nothing is queued.
QueuedCounts == queued = Len(queue)

\* A context is freed once, when it has ended and nobody holds it: by itself, by the
\* unique_ptr that held it to the end, and never under that pointer.
FreedOnce == \A c \in Ctxs : frees[c] = IF phase[c] = "finished" /\ ~held[c] THEN 1 ELSE 0

\* context::context(): the unique_ptr is released "if and only if that ctx is committed to
\* freeing itself", and looked at to learn it: what a unique_ptr holds is not freed.
HeldIsLive == \A c \in Ctxs : held[c] => frees[c] = 0

\* freq_help: "when set to 2, kernel context-switch is made every other userspace context
\* switch": fewer than freq calls in a row are elided.
PollsInTime == freq > 0 => tick < freq
=============================================================================
