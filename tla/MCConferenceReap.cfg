SPECIFICATION Spec
CONSTANTS
  Types = {"free", "director"}
  SourceIds = {a1}
  StreamIds = {x1}
  SinkIds = {k1}
  Timeout = 1
  IdleTime = 2
PROPERTIES
  ReapedOnlyWhenIdle
CHECK_DEADLOCK FALSE
