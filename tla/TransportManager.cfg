\* Careful users, and users who do anything while connections fail.
SPECIFICATION Spec
\* A behaviour ends with a fault, with nothing connected, or with all commands given.
CHECK_DEADLOCK FALSE
CONSTANTS
  NULL = NULL
  file = file
  irc = irc
  xmpp = xmpp
  Uris <- MCUris
  Scheme <- MCScheme
  Ops = {"add", "remove", "list", "connect", "disconnect"}
  Modes <- MCAll
  Commands = 3
INVARIANT TypeOK
INVARIANT NoFault
INVARIANT OneThread
INVARIANT TableIsLive
INVARIANT OneServer
INVARIANT RunningIsServed
