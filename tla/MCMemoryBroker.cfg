SPECIFICATION Spec
CONSTANTS
  MaxLeases = 3
  NumOwners = 2
  Budget = 3
  U64Max = 3
  MaxRequest = 2
  Readers = {r1}
INVARIANTS
  TypeOK
  OwnerLedgerExact
  SnapshotSound
PROPERTY
  ImplementsBudget
