SPECIFICATION Spec
CONSTANTS
  shared = shared
  dlc = dlc
  own = own
  lzx = lzx
  mp3 = mp3
  NoResource = NoResource
  NoCodec = NoCodec
  Resources = {1, 2, 3, 4}
  LocationIndex <- MCLocationIndex
  DefaultLocationCount = 2
  Files = {1, 2, 3, 4}
  IoConfig <- MCIoConfig
  OwnPath = own
  Codecs = {lzx, mp3}
  Answers <- MCAnswers
  MaxSharedFiles = 2
  MaxCodecs = 1
  MaxTables = 3
  MaxSublocations = 1
  MaxFileLocations = 2
  CharModulus = 2
  ShortModulus = 4
  LongModulus = 4
INVARIANTS
  IndexesResolve
PROPERTIES
  KeepsLocationPromise
