SPECIFICATION ReadSpec
CONSTANTS
  NamesInOrder <- MCNames
  Places <- MCPaths
  ReadScenarios <- MCScenarios
  Contents <- MCContents
  MaxListLimit = 4
  MaxSearchLimit = 3
  MaxReadLineCount = 2
  SnapshotEntries = 4
  SnapshotDepth = 2
  PlacesInOrder <- MCPathsInOrder
  MaxImportantDirs = 2
  DefaultIgnoredDirs <- MCIgnoredDirs
  DefaultIgnoredFiles <- MCIgnoredFiles
INVARIANTS
  NothingHidden
  ShownIsThere
CHECK_DEADLOCK FALSE
