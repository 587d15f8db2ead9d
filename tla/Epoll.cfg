\* Three objects for two descriptors; half-millisecond ticks, so that a
\* deadline can fall between milliseconds; a timeout and a vector that no int
\* holds.
SPECIFICATION EpollSpec
CONSTANTS
  Fds = {f1, f2}
  Regs = {r1, r2, r3}
  Events = {e1, e2}
  None = None
  Tokens = {a, b}
  Timeouts = {0, 1, 2, 4}
  Capacities = {1, 2, 4}
  Blank = Blank
  Forever = Forever
  MaxInt = 3
  PerMs = 2
  MaxTime = 9
INVARIANTS
  RegistrationsAreTheInterestSet
  NobodyElsesEpoll
  DeadlinePreserved
PROPERTIES WaitReturns ReadyIsReported
