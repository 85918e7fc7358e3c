CONSTANTS
  TermsOf <- MCTerms
  PathOrder <- MCOrder
  Trees <- MCTrees
  Texts <- MCTexts
  FirstTree <- MCFirstTree
  Idf <- MCIdf
  RrfK = 60
  NameOrder <- MCNames
  GroupSize = 4
  CoarseDim = 4
  Subjects <- MCSubjects
  Procs = {p1, p2}
  Roots = {r1, r2}
  MaxCommands = 3
  Capacity = 1
  Window = 1
  Budget = 1
  MaxEdits = 3
SPECIFICATION RetrievalSpec
SYMMETRY Symmetry
INVARIANTS
  AnswersAreOfOneSync
  PreviousIntact
  SyncedIsFound
  
  
  
PROPERTY
  IdentityKept
CHECK_DEADLOCK FALSE
