SPECIFICATION Spec
\* A behaviour ends with a fault, with nothing connected, or with all commands given.
CHECK_DEADLOCK FALSE
CONSTANTS
  NULL = NULL
  file = file
  irc = irc
  xmpp = xmpp
  Uris <- MCUris
  Scheme <- MCScheme
  Ops = {"list"}
  Modes <- MCDaemon
  Commands = 1
INVARIANT ServesInBackground
