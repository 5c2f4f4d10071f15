SPECIFICATION FairSpec
CONSTANTS
  Types = {"free", "director"}
  SourceIds = {a1}
  StreamIds = {x1}
  SinkIds = {k1}
  Timeout = 0
  IdleTime = 1
INVARIANTS
  Inductive
  WatchersLive
  GraphDeletedOnceByDirector
PROPERTIES
  
  ReapSparesSeen
  LivesAsServed
  SilentRemoved
  EmptyReaped
