\* Refinement and liveness, without exceptions and without symmetry.
CONSTANTS
  Producers = {p1, p2}
  Consumers = {c1, c2}
  MaxCounter = 1
  MaxBatch = 2
  MaxItems = 2
  MaxFaults = 0
SPECIFICATION FairSpec
PROPERTIES ImplementsMailbox ImplementsFairMailbox Quiescence
