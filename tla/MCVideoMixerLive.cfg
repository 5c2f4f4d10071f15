SPECIFICATION FairSpec
CONSTANTS
  Streams = {s1, s2}
  NoStream = NoStream
  MAX_STREAMS = 2
  MAX_CHANNELS = 2
  Opers = {"up", "down", "top", "bottom"}
PROPERTIES
  RequestAnswered
  FrameSent
