---------------------------- MODULE EpollProofs ----------------------------
(***************************************************************************)
(* For any number of descriptors, registrations and events.                *)
(***************************************************************************)
EXTENDS MCEpoll, TLAPS

\* Why a registration never acts on a number that was given away: the state
\* is open only as long as the number is ours.
OpenIsOurs == state = "open" => native = "ours"

IndInv == TypeOK /\ OpenIsOurs /\ RegistrationsAreTheInterestSet /\ NobodyElsesEpoll

\* A new epoll has an empty interest set and no registrations.
LEMMA InitInv == Init => IndInv
  BY EpollAssumption
  DEF Init, IndInv, TypeOK, OpenIsOurs, RegistrationsAreTheInterestSet, NobodyElsesEpoll

\* Every operation of an epoll, of a registration or of the owner of a
\* descriptor keeps the invariant.
LEMMA StepInv == IndInv /\ [Next]_vars => IndInv'
  <1> USE EpollAssumption
          DEF IndInv, TypeOK, OpenIsOurs, RegistrationsAreTheInterestSet, NobodyElsesEpoll, Touch
  <1> SUFFICES ASSUME IndInv, [Next]_vars PROVE IndInv'
    OBVIOUS
  <1>1. ASSUME NEW r \in Regs, NEW f \in Fds, NEW e \in Events, Add(r, f, e) PROVE IndInv'
    BY <1>1 DEF Add
  <1>2. ASSUME NEW r \in Regs, NEW e \in Events, Modify(r, e) PROVE IndInv'
    BY <1>2 DEF Modify
  <1>3. ASSUME NEW r \in Regs, Destroy(r) PROVE IndInv'
    <2>1. TypeOK' /\ OpenIsOurs' /\ NobodyElsesEpoll'
      BY <1>3 DEF Destroy, Recover
    <2>2. SUFFICES ASSUME state' = "open" PROVE RegistrationsAreTheInterestSet'
      BY <2>1
    <2>3. /\ state = "open" /\ reg[r] \in Fds
          /\ reg' = [reg EXCEPT ![r] = None]
          /\ interest' = [interest EXCEPT ![reg[r]] = None]
          /\ granted' = [granted EXCEPT ![r] = None]
          /\ open' = open
      BY <1>3, <2>2 DEF Destroy
    <2>4. \A s \in Regs : reg'[s] # None => s # r /\ reg'[s] = reg[s] /\ granted'[s] = granted[s]
      BY <2>3
    \* No other registration for the descriptor is left, or it is misused.
    <2>5. \A s \in Regs : reg'[s] \in Fds \ misused' => reg'[s] # reg[r] /\ reg'[s] \in Fds \ misused
      BY <1>3, <2>3, <2>4 DEF Destroy, Recover
    <2>6. \A s \in Regs : reg'[s] \in Fds \ misused' =>
            reg'[s] \in open' /\ interest'[reg'[s]] = granted'[s] /\ granted'[s] # None
      BY <2>2, <2>3, <2>4, <2>5
    <2>7. \A s, q \in Regs : reg'[s] \in Fds \ misused' /\ reg'[s] = reg'[q] => s = q
      BY <2>2, <2>3, <2>4, <2>5
    <2>8. \A f \in Fds : interest'[f] # None => \E s \in Regs : reg'[s] = f
      BY <2>2, <2>3
    <2>9. \A f \in misused' : \E s \in Regs : reg'[s] = f
      BY <1>3, <2>2, <2>3 DEF Destroy, Recover
    <2>10. QED
      BY <2>6, <2>7, <2>8, <2>9
  <1>4. CASE Close
    BY <1>4 DEF Close, CloseNative
  <1>5. CASE Expire
    BY <1>5 DEF Expire, CloseNative
  <1>6. CASE OtherEpoll
    BY <1>6 DEF OtherEpoll
  <1>7. ASSUME NEW f \in Fds, Open(f) PROVE IndInv'
    BY <1>7 DEF Open
  <1>8. ASSUME NEW f \in Fds, CloseFd(f) PROVE IndInv'
    BY <1>8 DEF CloseFd
  <1>9. CASE UNCHANGED vars
    BY <1>9 DEF vars
  <1>10. QED
    BY <1>1, <1>2, <1>3, <1>4, <1>5, <1>6, <1>7, <1>8, <1>9 DEF Next

\* The invariant holds in every state of every behaviour.
LEMMA Invariance == Spec => []IndInv
  BY InitInv, StepInv, PTL DEF Spec

\* The live registration objects and the kernel's interest set agree for as
\* long as the epoll is open, whatever order objects are made, changed and
\* destroyed in.
THEOREM RegistrationsAgree == Spec => []RegistrationsAreTheInterestSet
  <1>1. IndInv => RegistrationsAreTheInterestSet
    BY DEF IndInv
  <1>2. QED
    BY Invariance, <1>1, PTL

\* A registration that outlives its epoll does not touch the epoll that was
\* given the same number.
THEOREM OtherEpollsAreSafe == Spec => []NobodyElsesEpoll
  <1>1. IndInv => NobodyElsesEpoll
    BY DEF IndInv
  <1>2. QED
    BY Invariance, <1>1, PTL

-----------------------------------------------------------------------------
(* wait(), for any timeouts, any clock and any capacities                  *)

WaitTypeOK ==
  /\ now \in Nat
  /\ deadline \in Nat \union {Forever}
  /\ wake \in Nat \union {Forever}

\* An attempt ends no sooner than the deadline, and never without one.
AttemptsReachTheDeadline ==
  pc = "kernel" => IF deadline = Forever THEN wake = Forever
                                         ELSE wake # Forever /\ wake >= deadline

WaitInv == WaitTypeOK /\ AttemptsReachTheDeadline /\ DeadlinePreserved

\* Rounding up to milliseconds adds less than one.
LEMMA CeilRoundsUp ==
  ASSUME NEW n \in Nat \ {0}
  PROVE  /\ Ceil(n) \in Nat
         /\ PerMs * Ceil(n) >= n
         /\ PerMs * Ceil(n) < n + PerMs
  <1> USE WaitAssumption
  <1>1. \A a \in Nat, b \in Nat \ {0} :
          a \div b \in Nat /\ b * (a \div b) <= a /\ a < b * (a \div b) + b
    OBVIOUS
  <1>2. n + PerMs - 1 \in Nat
    OBVIOUS
  <1> QED
    BY <1>1, <1>2 DEF Ceil

\* remaining_wait_timeout: the milliseconds reach the deadline, and end less
\* than one behind it, or it has passed.
LEMMA RemainingReaches ==
  ASSUME WaitTypeOK
  PROVE  /\ deadline = Forever => Remaining = Forever
         /\ deadline # Forever =>
              /\ Remaining \in Nat
              /\ now + PerMs * Remaining >= deadline
              /\ \/ now + PerMs * Remaining < deadline + PerMs
                 \/ now + PerMs * Remaining <= now
  <1> USE WaitAssumption
  <1>1. CASE deadline = Forever
    BY <1>1 DEF Remaining
  <1>2. CASE deadline # Forever /\ deadline <= now
    <2>1. Remaining = 0
      BY <1>2 DEF Remaining
    <2> QED
      BY <1>2, <2>1 DEF WaitTypeOK
  <1>3. CASE deadline # Forever /\ ~(deadline <= now)
    <2>1. deadline - now \in Nat \ {0}
      BY <1>3 DEF WaitTypeOK
    <2>2. Remaining = Ceil(deadline - now)
      BY <1>3 DEF Remaining
    <2>3. /\ PerMs * Remaining \in Nat
          /\ PerMs * Remaining >= deadline - now
          /\ PerMs * Remaining < deadline - now + PerMs
          /\ Remaining \in Nat
      BY <2>1, <2>2, CeilRoundsUp
    <2> QED
      BY <1>3, <2>3 DEF WaitTypeOK
  <1> QED
    BY <1>1, <1>2, <1>3

\* Every step of a wait, of its caller, of the clock and of the kernel keeps
\* the invariant.
LEMMA WaitStep == WaitInv /\ WaitNext => WaitInv'
  <1> SUFFICES ASSUME WaitInv, WaitNext PROVE WaitInv'
    OBVIOUS
  <1> USE WaitAssumption
          DEF WaitInv, WaitTypeOK, AttemptsReachTheDeadline, DeadlinePreserved
  <1>1. ASSUME NEW t \in Timeouts \union {Forever}, Wait(t) PROVE WaitInv'
    <2>1. deadline' \in Nat \union {Forever}
      BY <1>1 DEF Wait
    <2>2. pc' # "kernel" /\ outcome' # "empty" /\ now' = now /\ wake' = wake
      BY <1>1 DEF Wait, Throw, Return
    <2> QED
      BY <2>1, <2>2
  <1>2. ASSUME NEW n \in Capacities, Restore(n) PROVE WaitInv'
    BY <1>2 DEF Restore
  <1>3. CASE EnterKernel
    <2>1. UNCHANGED <<now, deadline, outcome>> /\ pc' = "kernel"
      BY <1>3 DEF EnterKernel
    <2>2. CASE deadline = Forever
      <3>1. wake' = Forever
        BY <1>3, <2>2, RemainingReaches DEF EnterKernel
      <3> QED
        BY <2>1, <2>2, <3>1
    <2>3. CASE deadline # Forever
      <3>1. Remaining \in Nat /\ wake' = now + PerMs * Remaining
        BY <1>3, <2>3, RemainingReaches DEF EnterKernel
      <3>2. wake' \in Nat /\ wake' >= deadline /\ (wake' < deadline + PerMs \/ wake' <= now)
        BY <2>3, <3>1, RemainingReaches
      <3> QED
        BY <2>1, <2>3, <3>2
    <2> QED
      BY <2>2, <2>3
  <1>4. CASE Deliver
    BY <1>4 DEF Deliver, Return
  <1>5. CASE TimeOut
    BY <1>5 DEF TimeOut, Return
  <1>6. CASE Interrupt
    BY <1>6 DEF Interrupt
  <1>7. CASE Interrupted
    BY <1>7 DEF Interrupted, Return
  <1>8. CASE Fails
    BY <1>8 DEF Fails, Throw, Return
  <1>9. CASE Tick
    BY <1>9 DEF Tick, waitVars
  <1>10. ASSUME NEW t \in Tokens, BecomesReady(t) \/ IsDrained(t) PROVE WaitInv'
    BY <1>10 DEF BecomesReady, IsDrained, waitVars
  <1>11. CASE CloseEpoll
    BY <1>11 DEF CloseEpoll, waitVars
  <1> QED
    BY <1>1, <1>2, <1>3, <1>4, <1>5, <1>6, <1>7, <1>8, <1>9, <1>10, <1>11 DEF WaitNext

\* A wait that brings nothing has lasted until its deadline, however often a
\* signal interrupted epoll_wait, and no attempt of NativeLinuxEpoll::wait is
\* meant to sleep a millisecond longer.
THEOREM DeadlinesAreKept == EpollSpec => []DeadlinePreserved
  <1>1. EpollInit => WaitInv
    BY WaitAssumption
    DEF EpollInit, WaitInit, WaitInv, WaitTypeOK, AttemptsReachTheDeadline, DeadlinePreserved
  <1>2. WaitInv /\ [EpollNext]_epollVars => WaitInv'
    <2> SUFFICES ASSUME WaitInv, [EpollNext]_epollVars PROVE WaitInv'
      OBVIOUS
    <2>1. CASE WaitNext
      BY <2>1, WaitStep
    <2>2. CASE UNCHANGED clockVars
      BY <2>2 DEF clockVars, waitVars, WaitInv, WaitTypeOK, AttemptsReachTheDeadline,
                  DeadlinePreserved
    <2> QED
      BY <2>1, <2>2 DEF EpollNext, epollVars
  <1>3. WaitInv => DeadlinePreserved
    BY DEF WaitInv
  <1> QED
    BY <1>1, <1>2, <1>3, PTL DEF EpollSpec
=============================================================================
