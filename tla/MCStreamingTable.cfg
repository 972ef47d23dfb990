SPECIFICATION StreamSpec
CONSTANTS
  own = own
  NoResource = NoResource
  NoCodec = NoCodec
  Resources = {1, 2, 3}
  LocationIndex <- MCLocationIndex
  DefaultLocationCount = 2
  Files = {1}
  IoConfig <- MCIoConfig
  OwnPath = own
  Codecs = {}
  Answers <- MCAnswers
  Emissions <- MCEmissions
  Definitions <- MCDefinitions
  MaxSharedFiles = 2
  MaxCodecs = 1
  MaxTables = 3
  MaxSublocations = 2
  MaxFileLocations = 2
  CharModulus = 4
  ShortModulus = 4
  LongModulus = 8
INVARIANTS
  StreamTypeOK
PROPERTIES
  ImplementsGestalt
  GrantedRowsStored
  EveryCallReturns
