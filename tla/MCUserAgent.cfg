SPECIFICATION FairSpec
CONSTANTS
  Conns = {c1, c2}
  NoConn = noconn
  Queries = {q}
  Commands = {m}
  MaxReplies = 2
INVARIANTS
  Inductive
  AnsweredOnce
  CrashOnlyRaced
  SessionAgrees
PROPERTIES
  ConnectTold
