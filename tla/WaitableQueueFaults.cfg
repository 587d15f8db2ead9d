\* Safety with exceptions.  Two producers, so that a batch of one overlaps a
\* notification of the other; two consumers, so that both wake for one signal;
\* a counter that saturates at the third signal.
CONSTANTS
  Producers = {p1, p2}
  Consumers = {c1, c2}
  MaxCounter = 2
  MaxBatch = 2
  MaxItems = 3
  MaxFaults = 2
SPECIFICATION Spec
SYMMETRY ThreadSymmetry
INVARIANTS TypeOK NoLostWakeup
