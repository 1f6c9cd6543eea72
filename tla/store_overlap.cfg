\* Two handles inside one another's operations: the check and the append are two steps.
CONSTANTS
  h1 = h1  h2 = h2  n1 = n1  n2 = n2  mech = mech  elec = elec
  pMech = pMech  pElec = pElec  pIface = pIface  pBare = pBare
  NoFile = NoFile  Nobody = Nobody
  Handle <- MCHandle
  Node <- MCNode
  Role <- MCRole
  Payload <- MCPayload
  OwnerOf <- MCOwnerOf
  Interface <- MCInterface
  Unitless <- MCUnitless
  ForeignLine <- Nothing
  ForeignFile <- Nothing
  Overlap = TRUE
  IoErrors = "none"
  MaxRev = 3
SPECIFICATION Spec
INVARIANT AnswersFromJournal
