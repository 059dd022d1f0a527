\* Safety, the refinement and its liveness: three producers, two pushes each
\* (no symmetry: it is not sound for the liveness of the mailbox).
SPECIFICATION FairSpec
CONSTANTS
  Producers = {p1, p2, p3}
  Consumer = consumer
  Free = Free
  MaxPush = 2
INVARIANTS
  TypeOK
  MutualExclusion
  NoStaleAccess
PROPERTIES
  ImplementsMailbox
  ImplementsFairMailbox
