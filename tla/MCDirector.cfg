SPECIFICATION Spec
CONSTANTS
  Audio = {a1, a2, a3}
  Video = {v1, v2}
  Silence = silence
  MAX_STREAMS = 3
  PurgeOffset = 1
  MaxLive = 3
  MaxBurst = 2
  Places = {place}
  MaxSample = 1
SYMMETRY Perms
INVARIANTS
  Inductive
  FreeAudioPin
  AbortedOnlyUnlinked
  MixMinus
  DepartedSoonSilent
  WindowAsAsked
PROPERTIES
  RefusedByPublisher
