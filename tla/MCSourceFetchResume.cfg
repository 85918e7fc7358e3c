SPECIFICATION Spec
CONSTANTS
  NumChunks = 2
  NoFile = NoFile
  MaxAttempts = 2
  MaxFaults = 2
INVARIANT ResumesFromAnyPartialState
