\* Reading the configuration, starting, and serving any command.
SPECIFICATION FairSpec
CONSTANTS
  NULL = NULL
  Lines <- MCLines
  Libs <- MCLibs
  PluginName <- MCPluginName
  Incomplete = {"broken"}
  Matches <- MCMatches
  MallocFails = TRUE
  Files <- MCFiles
  Glob <- MCGlob
  Contents <- MCContents
  Pieces <- MCPieces
  Shortened <- MCShortened
  ConfigFile = "main"
  Pids <- MCPids
INVARIANT TypeOK
INVARIANT LibrariesOpen
INVARIANT LogIsOpen
INVARIANT ConfigExecuted
INVARIANT PidFileNamesServer
PROPERTY StartsUp
\* The program may exit or crash.
CHECK_DEADLOCK FALSE
