SPECIFICATION Spec
CONSTANTS
  shared = shared
  dlc = dlc
  own = own
  lzx = lzx
  mp3 = mp3
  NoResource = NoResource
  NoCodec = NoCodec
  Resources = {0, 1, 2}
  LocationIndex <- MCLocationIndex
  DefaultLocationCount = 3
  Files = {1, 2, 3, 4}
  IoConfig <- MCIoConfig
  OwnPath = own
  Codecs = {lzx, mp3}
  Answers <- MCAnswers
  MaxSharedFiles = 4
  MaxCodecs = 2
  MaxTables = 4
  MaxSublocations = 3
  MaxFileLocations = 4
  CharModulus = 4
  ShortModulus = 8
  LongModulus = 8
INVARIANTS
  TypeOK
  IndexesResolve
  ReferenceCountsExact
  LocationsExclusive
  CodecDefinitionsDistinct
  SharedFileCacheCoherent
  StreamingTablesSorted
PROPERTIES
  HandedOutRowsStay
  KeepsLocationPromise
