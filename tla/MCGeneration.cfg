SPECIFICATION FairSpec
CONSTANTS
  Requests = {r1, r2}
  MaxTokens = 2
  ChannelCap = 1
  None = None
\* Every request may have been answered or abandoned.
CHECK_DEADLOCK FALSE
INVARIANTS
  SlotIsSound
  OrphansAreCancelled
  NothingLost
PROPERTY
  EveryGenerationEnds
