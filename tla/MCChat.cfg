SPECIFICATION FairSpec
CONSTANTS
  NULL = NULL
  b1 = b1
  x = x
  Bots = {b1, b2}
  Users = {u, w}
  Channel = channel
  Fits = 4
  OnXmpp = {b1}
  Names = {x}
  Known <- MCKnown
  Said <- MCSaid
  Written <- MCWritten
  Replies <- MCReplies
  Configured <- MCConfigured
  Quota = 2
  Capacity = 2
INVARIANT TypeOK
INVARIANT AnsweredInOrder
PROPERTY DiesOut
\* Everything may have been said.
CHECK_DEADLOCK FALSE
