SPECIFICATION Spec
\* A behaviour ends with a fault, with nothing connected, or with all commands given.
CHECK_DEADLOCK FALSE
CONSTANTS
  NULL = NULL
  file = file
  irc = irc
  xmpp = xmpp
  Uris <- MCFileAndIrc
  Scheme <- MCScheme
  Ops = {"disconnect"}
  Modes <- MCAnyUsers
  Commands = 2
INVARIANT ServerBailsOut
