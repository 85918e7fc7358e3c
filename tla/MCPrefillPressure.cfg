SPECIFICATION PrefillSpec
CONSTANTS
  NumLayers = 3
  FullLayers = {3}
  PromptLen = 4
  Seed = 3
  MaxContext = 9
INVARIANT
  PromptFedOnce
