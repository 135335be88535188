CONSTANTS
  Meta <- MCMeta
  DropOrder <- MCDropOrder
  CreateOrder <- MCCreateOrder
  Listed <- MCListed
  Version = 4
  OldVersions = {0, 3}
  NewVersions = {5}
  BeforeRow <- MCBeforeRow
SPECIFICATION FairSpec
INVARIANTS
  ServesNoOldTable
PROPERTIES
  KeepsUserRows
  RecoversOnceCrashesStop
