\* Something else appends lines and changes node files between operations.
CONSTANTS
  h1 = h1  h2 = h2  n1 = n1  n2 = n2  mech = mech  elec = elec
  pMech = pMech  pElec = pElec  pIface = pIface  pBare = pBare
  NoFile = NoFile  Nobody = Nobody
  Handle <- MCHandle
  Node <- MCNode
  Role <- MCRole
  Payload <- MCPayload
  OwnerOf <- MCOwnerOf
  Interface <- MCInterface
  Unitless <- MCUnitless
  ForeignLine <- MCForeignLine
  ForeignFile <- MCForeignFile
  Overlap = FALSE
  IoErrors = "none"
  MaxRev = 2
SPECIFICATION Spec
INVARIANTS AnswersFromJournal ViewsCoherent
