SPECIFICATION FairSpec
CONSTANTS
  Sessions = {s1, s2}
  MaxBurst = 2
INVARIANTS
  Inductive
  SentOnce
  PeekOnlyLive
  NoLostReceiver
  RemovedSenderStaysOut
PROPERTIES
  LeavesOnlyByRemoval
  EventuallyPromoted
CHECK_DEADLOCK FALSE
