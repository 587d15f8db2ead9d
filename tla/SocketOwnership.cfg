\* Three objects and three descriptors: two owners of one path, and a descriptor
\* number that is reused while its old owner is still there.
SPECIFICATION Spec
CONSTANTS
  Slots = {s1, s2, s3}
  Fds = {f1, f2, f3}
  Paths = {p1, p2}
  NoFd = NoFd
  NoPath = NoPath
INVARIANTS ExclusiveOwners CanCleanUp PathsHaveOwners
PROPERTY ForeignPathsSafe
