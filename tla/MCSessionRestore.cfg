SPECIFICATION ModelSpec
CONSTANTS
  NumLayers = 3
  FullLayers = {3}
  PromptLen = 7
  Seed = 4
  MaxContext = 9
  p1 = p1
  p2 = p2
  p3 = p3
  b1 = b1
  b2 = b2
  PrefixIds <- MCPrefixes
  Blobs <- MCBlobs
  Quota = 3
  MaxCrashes = 1
  NoFile = NoFile
  KvHeads = 2
  HeadDim = 4
  ValueGroup = 2
  PageTokens = 2
  LayerKinds <- MCLayerKinds
  ConvTaps = 2
  Texts <- MCOneText
  KeyOf <- MCKeyOf
  ValueOf <- MCValueOf
  Backends = {"bf16"}
  Capacities = {4}
  MaxSnapshots = 1
  MaxRestarts = 1
  LogThreads = 2
  StripRows = 2
  Rows = 3
  Blocks = 2
  Weight <- MCWeight
  Input <- MCInput
  Subjects = {}
  Hidden = 3
  KeyHeads = 2
  ValueHeads = 4
  KeyHeadDim = 2
  ValueHeadDim = 2
  ConvWidth = 3
  Heads = 4
  AttentionKvHeads = 2
  AttentionHeadDim = 5
  RotaryDims = 4
  NumExperts = 5
  TopK = 2
  ExpertWidth = 2
  Underflow = 7
  Draws = 12
CHECK_DEADLOCK FALSE
INVARIANT
  RestoredIsReady
