SPECIFICATION Spec
CONSTANTS
  Audio = {a1, a2}
  Video = {v1}
  Silence = silence
  MAX_STREAMS = 3
  PurgeOffset = 1
  MaxLive = 3
  MaxBurst = 2
  Places = {place}
  MaxSample = 1
INVARIANT
  SourceFound
