SPECIFICATION Spec
CONSTANTS
  Sessions = {s1}
  MaxBurst = 1
INVARIANTS
  DeletedReceiverGone
CHECK_DEADLOCK FALSE
