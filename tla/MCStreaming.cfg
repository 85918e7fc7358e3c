SPECIFICATION StreamSpec
CHECK_DEADLOCK FALSE
CONSTANTS
  Vocabulary <- MCVocabulary
  StopSets <- MCStops
  Maxima <- MCMaxima
  ClientRequests <- MCRequests
INVARIANTS
  ChunkingIrrelevant
  SaidIsParsed
  
  PromptKeepsMessages
