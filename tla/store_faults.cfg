\* Two processes taking turns, killed at any point, and writes that raise.
CONSTANTS
  h1 = h1  h2 = h2  n1 = n1  n2 = n2  mech = mech  elec = elec
  pMech = pMech  pElec = pElec  pIface = pIface  pBare = pBare
  NoFile = NoFile  Nobody = Nobody
  Handle <- MCHandle
  Node <- MCNode
  Role <- MCRole
  Payload <- MCPayload
  OwnerOf <- MCOwnerOf
  Interface <- MCInterface
  Unitless <- MCUnitless
  ForeignLine <- Nothing
  ForeignFile <- Nothing
  Overlap = FALSE
  IoErrors = "stop"
  MaxRev = 3
SPECIFICATION Spec
INVARIANTS TypeOK JournalCoherent ReadsAreHeads StoredKept GuardAgreesWithDivergence InterfaceOnlyRolledBack
PROPERTY GraphSpec
