SPECIFICATION Spec
CONSTANTS
  WordBits = 2
  MaxWords = 3
  BuilderArrays <- MCBuilderArrays
  UsedResources <- MCUsedResources
  ResourcesCounts = {3, 7}
  MaximumTagInstancesCounts = {5, 7, 8}
  Tags <- MCTags
  IndexModulus = 8
  MaxManifests = 2
  MaxNodes = 7
  MaxChildren = 2
INVARIANTS
  ReturnsUsedResources
