SPECIFICATION Spec
CONSTANTS
  Streams = {s1, s2, s3}
  NoStream = NoStream
  MAX_STREAMS = 3
  MAX_CHANNELS = 3
  Opers = {"up", "down", "top", "bottom"}
SYMMETRY Perms
INVARIANTS
  ZOrderExact
