----------------------------- MODULE EpollWait -----------------------------
(***************************************************************************)
(* NativeLinuxEpoll::wait: epoll_wait with a deadline, repeated when a     *)
(* signal interrupts it.  The clock is finer than the milliseconds that    *)
(* epoll_wait takes: it moves in ticks, and the time that is left is       *)
(* rounded up.  The caller's vector of events is the capacity of a wait    *)
(* and its result; the ready list of the kernel is level triggered, and    *)
(* what was reported goes to its end.                                      *)
(***************************************************************************)
EXTENDS Naturals, Sequences, SequencesExt

CONSTANTS
  Tokens,      \* what can become ready
  Timeouts,    \* finite timeouts, in milliseconds
  Capacities,  \* sizes that the caller gives its vector
  Blank,       \* an event that was not filled in
  Forever,     \* no timeout, and the -1 of epoll_wait
  MaxInt,      \* the largest timeout and the longest vector an int holds
  PerMs,       \* ticks of the clock in a millisecond
  MaxTime      \* bound: the clock stops here

ASSUME WaitAssumption ==
  /\ Timeouts \subseteq Nat
  /\ Capacities \subseteq Nat \ {0}
  /\ Blank \notin Tokens
  /\ PerMs \in Nat \ {0}
  /\ MaxInt \in Nat
  /\ MaxTime \in Nat
  /\ Forever \notin Nat

VARIABLES
  now,        \* steady_clock::now()
  is_open,    \* the epoll is not closed
  ready,      \* external: the ready list, tokens in the order of their turn
  pc,         \* "idle", "loop", "kernel" or "interrupted"
  timeout,    \* the timeout of the call
  deadline,   \* the deadline, or Forever
  wake,       \* when the kernel ends the wait without an event
  events,     \* the caller's vector
  outcome     \* how the last wait ended: "none", "events", "empty" or "threw"

waitVars == <<pc, timeout, deadline, wake, events, outcome>>
clockVars == <<now, is_open, ready, waitVars>>

WaitInit ==
  /\ now = 0
  /\ is_open = TRUE
  /\ ready = << >>
  /\ pc = "idle"
  /\ timeout = Forever
  /\ deadline = Forever
  /\ wake = Forever
  /\ events = << >>
  /\ outcome = "none"

Return(result, reported) ==
  /\ pc' = "idle"
  /\ outcome' = result
  /\ events' = reported

\* A call that throws leaves the vector alone.
Throw == Return("threw", events)

\* The caller gives its vector a size again.
Restore(n) ==
  /\ pc = "idle"
  /\ events' = [i \in 1..n |-> Blank]
  /\ UNCHANGED <<now, is_open, ready, pc, timeout, deadline, wake, outcome>>

\* No epoll_wait takes the vector: it is empty, or its size is no int.
Unusable == Len(events) \notin 1 .. MaxInt

\* Such a vector, a timeout that is no int, and a closed epoll.
Refused(t) == Unusable \/ (t # Forever /\ t \notin 0 .. MaxInt) \/ ~is_open

\* close(), between two waits of the caller
CloseEpoll ==
  /\ pc = "idle"
  /\ is_open
  /\ is_open' = FALSE
  /\ UNCHANGED <<now, ready, waitVars>>

Wait(t) ==
  /\ pc = "idle"
  /\ timeout' = t
  /\ deadline' = IF t = Forever THEN Forever ELSE now + PerMs * t
  /\ IF Refused(t) THEN Throw
                   ELSE pc' = "loop" /\ outcome' = "none" /\ UNCHANGED events
  /\ UNCHANGED <<now, is_open, ready, wake>>

\* The milliseconds that hold a number of ticks.
Ceil(ticks) == (ticks + PerMs - 1) \div PerMs

\* A slip: every attempt gets the whole timeout again.
RemainingAgain == timeout

\* remaining_wait_timeout, in milliseconds
Remaining ==
  CASE deadline = Forever -> Forever
    [] deadline # Forever /\ deadline <= now -> 0
    [] OTHER -> Ceil(deadline - now)

EnterKernel ==
  /\ pc = "loop"
  /\ pc' = "kernel"
  /\ wake' = IF Remaining = Forever THEN Forever ELSE now + PerMs * Remaining
  /\ UNCHANGED <<now, is_open, ready, timeout, deadline, events, outcome>>

\* epoll_wait reports the first of the ready list, as many as the vector holds.
Reports == SubSeq(ready, 1, IF Len(events) < Len(ready) THEN Len(events) ELSE Len(ready))
Rotated == SubSeq(ready, Len(Reports) + 1, Len(ready)) \o Reports

\* A slip: the loop over the native events ends one early.
DeliverAllButOne ==
  /\ pc = "kernel"
  /\ ready # << >>
  /\ Return("events", Front(Reports))
  /\ ready' = Rotated
  /\ UNCHANGED <<now, is_open, timeout, deadline, wake>>

\* They replace what the vector held.
Deliver ==
  /\ pc = "kernel"
  /\ ready # << >>
  /\ Return("events", Reports)
  /\ ready' = Rotated
  /\ UNCHANGED <<now, is_open, timeout, deadline, wake>>

TimeOut ==
  /\ pc = "kernel"
  /\ ready = << >>
  /\ wake # Forever
  /\ now >= wake
  /\ Return("empty", << >>)
  /\ UNCHANGED <<now, is_open, ready, timeout, deadline, wake>>

Interrupt ==
  /\ pc = "kernel"
  /\ pc' = "interrupted"
  /\ UNCHANGED <<now, is_open, ready, timeout, deadline, wake, events, outcome>>

\* A slip: an interrupt is never the end.
InterruptedNever ==
  /\ pc = "interrupted"
  /\ pc' = "loop"
  /\ UNCHANGED <<now, is_open, ready, timeout, deadline, wake, events, outcome>>

\* EINTR: another attempt before the deadline, nothing after it.
Interrupted ==
  /\ pc = "interrupted"
  /\ IF deadline # Forever /\ now >= deadline
       THEN Return("empty", << >>)
       ELSE pc' = "loop" /\ UNCHANGED <<events, outcome>>
  /\ UNCHANGED <<now, is_open, ready, timeout, deadline, wake>>

\* Any other error of epoll_wait.
Fails ==
  /\ pc = "kernel"
  /\ Throw
  /\ UNCHANGED <<now, is_open, ready, timeout, deadline, wake>>

Tick ==
  /\ now < MaxTime
  /\ now' = now + 1
  /\ UNCHANGED <<is_open, ready, waitVars>>

\* external: a descriptor becomes ready, or is read empty.
BecomesReady(t) ==
  /\ ~Contains(ready, t)
  /\ ready' = Append(ready, t)
  /\ UNCHANGED <<now, is_open, waitVars>>

IsDrained(t) ==
  /\ Contains(ready, t)
  /\ ready' = SelectSeq(ready, LAMBDA u : u # t)
  /\ UNCHANGED <<now, is_open, waitVars>>

WaitNext ==
  \/ \E t \in Timeouts \union {Forever} : Wait(t)
  \/ \E n \in Capacities : Restore(n)
  \/ CloseEpoll
  \/ EnterKernel \/ Deliver \/ TimeOut \/ Interrupt \/ Interrupted \/ Fails \/ Tick
  \/ \E t \in Tokens : BecomesReady(t) \/ IsDrained(t)

\* Time goes on, the thread runs, and the kernel ends a wait that has an
\* event or is over, unless a signal interrupts it: signals may never stop.
WaitFairness ==
  /\ WF_clockVars(Tick)
  /\ WF_clockVars(EnterKernel)
  /\ WF_clockVars(Interrupted)
  /\ WF_clockVars(TimeOut \/ Deliver)

-----------------------------------------------------------------------------
\* "retries EINTR while preserving a finite deadline" (epoll_design.md): a wait
\* that brings nothing has lasted at least until its deadline, however often it
\* was interrupted, and no attempt sleeps a whole millisecond past the deadline,
\* unless the thread itself was late.
DeadlinePreserved ==
  /\ outcome = "empty" => deadline # Forever /\ now >= deadline
  /\ pc = "kernel" /\ deadline # Forever => wake < deadline + PerMs \/ wake <= now

\* A wait with a finite timeout comes back, though signals never stop.
WaitReturns == (pc # "idle" /\ deadline # Forever /\ deadline + PerMs < MaxTime) ~> pc = "idle"

\* A caller in a loop: it waits again and again, and restores its vector to a
\* size that epoll_wait takes when the vector has none; the kernel does not fail
\* for ever, and the epoll stays open.
WaitsAgain ==
  /\ SF_clockVars(\E t \in Timeouts \union {Forever} : ~Refused(t) /\ Wait(t))
  /\ WF_clockVars(Unusable /\ \E n \in Capacities \intersect 1 .. MaxInt : Restore(n))
  /\ SF_clockVars(Deliver)
  /\ []is_open

\* A token that stays ready is reported again and again, though the vector
\* shrinks to the events of the wait before: a caller that restores it no
\* sooner than it must hears of everybody.
ReadyIsReported ==
  WaitsAgain => \A t \in Tokens : <>[]Contains(ready, t) => []<>Contains(events, t)
=============================================================================
