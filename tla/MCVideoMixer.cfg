SPECIFICATION Spec
CONSTANTS
  Streams = {s1, s2, s3, s4}
  NoStream = NoStream
  MAX_STREAMS = 3
  MAX_CHANNELS = 4
  Opers = {"up", "down", "top"}
SYMMETRY Perms
INVARIANTS
  Inductive
  ZOrderExact
  NoStaleFrame
  EncoderReady
  FreePinFound
PROPERTIES
  ServedBeforeReturn
  DrawsInOrder
  HandsOutChannels
