SPECIFICATION StoreSpec
CONSTANTS
  PrefixIds = {p1, p2}
  Blobs = {b1}
  Quota = 1
  MaxCrashes = 1
  NoFile = NoFile
INVARIANT SurvivesCrash
