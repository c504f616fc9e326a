---------------------------------- MODULE Task ----------------------------------
(***************************************************************************)
(* The coroutine task of core.cppm.  An outer coroutine co_awaits the task *)
(* of an inner one, and the inner one awaits events: the operations of an  *)
(* asynchronous extension transport.  With no events it is a blocking      *)
(* transport.  One thread runs both; between resumptions it is in an event *)
(* loop, or in get() of the outer task.                                    *)
(***************************************************************************)
EXTENDS Integers, Sequences

CONSTANT Events      (* how many events the inner coroutine awaits, a number *)

VARIABLES
  driver,        (* who waits for the outer task: "loop" or "get"           *)
  place,         (* where each coroutine is                                 *)
  continuation,  (* the inner promise's continuation is the outer coroutine *)
  stack,         (* the coroutines being run, the last one on top           *)
  happened,      (* events that have happened                               *)
  passed         (* events the inner coroutine was resumed from             *)

vars == <<driver, place, continuation, stack, happened, passed>>

Runs(c) == stack # <<>> /\ stack[Len(stack)] = c
Below == SubSeq(stack, 1, Len(stack) - 1)

Init ==
  /\ driver \in {"loop", "get"}
  /\ place = [outer |-> "unborn", inner |-> "unborn"]
  /\ continuation = FALSE
  /\ stack = <<>>
  /\ happened = 0
  /\ passed = 0

\* initial_suspend never suspends: a call runs to the first suspension.
Start(c) ==
  /\ place[c] = "unborn"
  /\ IF c = "outer" THEN stack = <<>> ELSE Runs("outer")
  /\ place' = [place EXCEPT ![c] = "running"]
  /\ stack' = Append(stack, c)
  /\ UNCHANGED <<driver, continuation, happened, passed>>

\* The inner coroutine suspends; its caller, or who resumed it, goes on.
AwaitEvent ==
  /\ Runs("inner")
  /\ passed < Events
  /\ place' = [place EXCEPT !.inner = "on_event"]
  /\ stack' = Below
  /\ UNCHANGED <<driver, continuation, happened, passed>>

\* The event happens, and its source resumes who still waits for it.
Happen ==
  /\ stack = <<>>
  /\ happened < Events
  /\ place.inner = "on_event" \/ passed > happened
  /\ happened' = happened + 1
  /\ IF place.inner = "on_event" /\ passed = happened
       THEN /\ place' = [place EXCEPT !.inner = "running"]
            /\ stack' = <<"inner">>
            /\ passed' = passed + 1
       ELSE UNCHANGED <<place, stack, passed>>
  /\ UNCHANGED <<driver, continuation>>

\* await_suspend of a task that is not done: the continuation is stored, and
\* the inner coroutine is resumed, wherever it is suspended.
AwaitTask ==
  /\ Runs("outer")
  /\ place.inner = "on_event"
  /\ continuation' = TRUE
  /\ place' = [place EXCEPT !.outer = "on_task", !.inner = "running"]
  /\ stack' = Append(Below, "inner")
  /\ passed' = passed + 1
  /\ UNCHANGED <<driver, happened>>

\* final_suspend: control goes to the continuation, if there is one.
InnerReturns ==
  /\ Runs("inner")
  /\ passed = Events
  /\ IF continuation
       THEN /\ place' = [place EXCEPT !.inner = "done", !.outer = "running"]
            /\ stack' = Append(Below, "outer")
       ELSE /\ place' = [place EXCEPT !.inner = "done"]
            /\ stack' = Below
  /\ UNCHANGED <<driver, continuation, happened, passed>>

\* await_ready of a task that is done, await_resume, and the end.
OuterReturns ==
  /\ Runs("outer")
  /\ place.inner = "done"
  /\ place' = [place EXCEPT !.outer = "done"]
  /\ stack' = Below
  /\ UNCHANGED <<driver, continuation, happened, passed>>

\* get() resumes until the task is done; a coroutine resumed while it awaits
\* a task that is not done reads a value that is not there.
GetResumes ==
  /\ driver = "get"
  /\ stack = <<>>
  /\ place.outer = "on_task"
  /\ place' = [place EXCEPT !.outer = "undefined"]
  /\ UNCHANGED <<driver, continuation, stack, happened, passed>>

Next ==
  \/ Start("outer") \/ Start("inner")
  \/ AwaitEvent \/ Happen \/ AwaitTask \/ InnerReturns \/ OuterReturns \/ GetResumes

Spec == Init /\ [][Next]_vars

-----------------------------------------------------------------------------
\* core.cppm on co_await with asynchronous transports: a coroutine that awaits
\* an event goes on after the event, not before (get() is not promised for
\* them).
ResumedAfterEvent == driver = "loop" => passed <= happened
=============================================================================
