SPECIFICATION Spec
\* A behaviour ends with a fault, with nothing connected, or with all commands given.
CHECK_DEADLOCK FALSE
CONSTANTS
  NULL = NULL
  file = file
  irc = irc
  xmpp = xmpp
  Uris <- MCUris
  Scheme <- MCScheme
  Ops = {"connect"}
  Modes <- MCAnyUsers
  Commands = 2
INVARIANT ReportsRunning
