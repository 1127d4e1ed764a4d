-------------------------------- MODULE Catches --------------------------------
(***************************************************************************)
(* Exceptions across context switches: the thread's one record of the C++  *)
(* runtime (how many exceptions are in flight, and the stack of those      *)
(* caught), what a continuation saves of it and restores, and the          *)
(* exception_handler that ends a catch block early so that a context may   *)
(* yield inside it.  Assertions are compiled out; what they ask of the     *)
(* program (no yield inside a catch block without an exception_handler) is *)
(* a guard here.                                                           *)
(***************************************************************************)
EXTENDS SequencesExt, Integers

CONSTANTS
  Ctxs, None,
  MaxDepth,  \* bound on the nesting of destructors that unwind and of catch blocks
  Nested     \* an exception_handler may stand in a catch block inside another

VARIABLES
  current,   \* ircd::ctx::current
  gone,      \* the contexts whose base frame returned
  uncaught,  \* __cxa_eh_globals::uncaughtExceptions
  caught,    \* __cxa_eh_globals::caughtExceptions, the last first: who caught each
  saved,     \* continuation::uncaught_exceptions of each context that yields
  frames     \* what is open on the stack of each context, the innermost last: an
             \* exception that unwinds, a catch block, one whose catch is ended

globals == <<uncaught, caught>>
vars == <<current, gone, globals, saved, frames>>

TypeOK ==
  /\ current \in Ctxs \cup {None} /\ gone \subseteq Ctxs
  /\ uncaught \in 0..MaxDepth /\ caught \in Seq(Ctxs)
  /\ saved \in [Ctxs -> 0..MaxDepth]
  /\ \A c \in Ctxs : Len(frames[c]) <= MaxDepth
                     /\ ToSet(frames[c]) \subseteq {"unwinds", "catches", "handled"}

Init ==
  /\ current = None /\ gone = {}
  /\ uncaught = 0 /\ caught = <<>>
  /\ saved = [c \in Ctxs |-> 0] /\ frames = [c \in Ctxs |-> <<>>]

-----------------------------------------------------------------------------
(* The C++ runtime *)

Top(c) == IF frames[c] = <<>> THEN "none" ELSE Last(frames[c])
Becomes(c, frame) == frames' = [frames EXCEPT ![c] = Append(Front(@), frame)]
Ended(c) == frames' = [frames EXCEPT ![c] = Front(@)]
Count(c, frame) == Len(SelectSeq(frames[c], LAMBDA f : f = frame))

\* __cxa_end_catch(): the exception caught last, whoever caught it, is done with.
end_catch == caught' = IF caught = <<>> THEN caught ELSE Tail(caught)

\* throw, in any code of c.
Throw(c) ==
  /\ current = c /\ Len(frames[c]) < MaxDepth
  /\ uncaught' = uncaught + 1
  /\ frames' = [frames EXCEPT ![c] = Append(@, "unwinds")]
  /\ UNCHANGED <<current, gone, caught, saved>>

\* The unwinding ends in a catch block.
Catch(c) ==
  /\ current = c /\ Top(c) = "unwinds"
  /\ uncaught' = uncaught - 1 /\ caught' = <<c>> \o caught
  /\ Becomes(c, "catches")
  /\ UNCHANGED <<current, gone, saved>>

\* throw; in a catch block whose exception is still there.
Rethrow(c) ==
  /\ current = c /\ Top(c) = "catches"
  /\ uncaught' = uncaught + 1 /\ end_catch
  /\ Becomes(c, "unwinds")
  /\ UNCHANGED <<current, gone, saved>>

\* The end of a catch block calls __cxa_end_catch(), also of one ended before.
EndCatch(c) ==
  /\ current = c /\ Top(c) \in {"catches", "handled"}
  /\ end_catch /\ Ended(c)
  /\ UNCHANGED <<current, gone, uncaught, saved>>

-----------------------------------------------------------------------------
(* exception_handler *)

\* exception_handler(): a reference to the exception is kept and the catch block ended.
\* Its assertion looks at the exceptions in flight, not at the catch blocks around it.
Handle(c) ==
  /\ current = c /\ Top(c) = "catches"
  /\ Nested \/ Count(c, "catches") = 1
  /\ end_catch /\ Becomes(c, "handled")
  /\ UNCHANGED <<current, gone, uncaught, saved>>

-----------------------------------------------------------------------------
(* The continuation *)

\* The continuation is constructed and the context yields, in a destructor too.
Yields(c) == current = c /\ Count(c, "catches") = 0

Yield(c) ==
  /\ Yields(c)
  /\ current' = None
  /\ saved' = [saved EXCEPT ![c] = uncaught] /\ uncaught' = 0
  /\ UNCHANGED <<gone, caught, frames>>

EnterUnrestored(c) ==  \* mutant: an interruption is thrown before the count is restored
  /\ current = None /\ c \notin gone
  /\ current' = c
  /\ \/ uncaught' = saved[c] /\ UNCHANGED frames
     \/ /\ Len(frames[c]) < MaxDepth
        /\ uncaught' = 1
        /\ frames' = [frames EXCEPT ![c] = Append(@, "unwinds")]
  /\ UNCHANGED <<gone, caught, saved>>

\* continuation::enter(): the count is restored, then an interruption may be thrown.
Enter(c) ==
  /\ current = None /\ c \notin gone
  /\ current' = c
  /\ \/ uncaught' = saved[c] /\ UNCHANGED frames
     \/ /\ Len(frames[c]) < MaxDepth
        /\ uncaught' = saved[c] + 1
        /\ frames' = [frames EXCEPT ![c] = Append(@, "unwinds")]
  /\ UNCHANGED <<gone, caught, saved>>

\* The base frame returns; what reached it was caught there.
Finish(c) ==
  /\ current = c /\ frames[c] = <<>>
  /\ current' = None /\ gone' = gone \cup {c}
  /\ UNCHANGED <<globals, saved, frames>>

Next ==
  \E c \in Ctxs :
    \/ Throw(c) \/ Catch(c) \/ Rethrow(c) \/ EndCatch(c) \/ Handle(c)
    \/ Yield(c) \/ Enter(c) \/ Finish(c)

Spec == Init /\ [][Next]_vars

-----------------------------------------------------------------------------
(* Properties *)

\* The one record of the thread is that of who executes: std::uncaught_exceptions() counts
\* the exceptions in flight of this context and std::current_exception() is one it caught,
\* wherever it and others yielded since. (~continuation of a dock, among others, decides
\* by it whether it is unwound.)
ExceptionsAreOwn ==
  /\ uncaught = IF current = None THEN 0 ELSE Count(current, "unwinds")
  /\ \A c \in Ctxs :
       Len(SelectSeq(caught, LAMBDA d : d = c)) = IF current = c THEN Count(c, "catches") ELSE 0
=============================================================================
