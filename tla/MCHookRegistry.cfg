SPECIFICATION Spec
CONSTANTS
  Modifications <- MCModifications
  Kind <- MCKind
  Addresses <- MCAddresses
  ByteCount <- MCByteCount
  Processes <- MCProcesses
  PreferredBase = 20
  LongModulus = 17
  Marker = 37
  PageSize = 4
  k_maximum_individual_modification_count = 2
INVARIANTS
  TypeOK
  ModificationsInPlace
  ImageRestored
  ProtectionKept
PROPERTIES
  RevertGetsThrough
