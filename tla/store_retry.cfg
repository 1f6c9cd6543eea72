\* A handle is used again after its append raised.
CONSTANTS
  h1 = h1  h2 = h2  n1 = n1  n2 = n2  mech = mech  elec = elec
  pMech = pMech  pElec = pElec  pIface = pIface  pBare = pBare
  NoFile = NoFile  Nobody = Nobody
  Handle <- MCHandle
  Node <- MCNode
  Role <- MCRole
  Payload <- MCPayload
  OwnerOf <- MCOwnerOf
  Interface <- MCInterface
  Unitless <- MCUnitless
  ForeignLine <- Nothing
  ForeignFile <- Nothing
  Overlap = FALSE
  IoErrors = "retry"
  MaxRev = 3
SPECIFICATION Spec
INVARIANT JournalCoherent
