\* A third thread, so that two are kept waiting by one.
SPECIFICATION SocketFairSpec
CONSTANTS
  Threads = {t1, t2, t3}
  None = None
  UseLocks = TRUE
  MaxRequests = 2
INVARIANTS AnswersReachTheirAsker RequestsIntact
PROPERTY EveryRequestIsAnswered
