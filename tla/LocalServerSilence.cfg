\* Commands that answer with an empty text.
SPECIFICATION FairSpec
CONSTANTS
  c1 = c1
  c2 = c2
  c3 = c3
  NULL = NULL
  Clients = {c1, c2}
  Fds = {4, 5}
  Answers = {"text", "empty"}
  Worlds <- MCPatient
  Capacity = 1
PROPERTY ClientsMoveOn
\* All clients may have come and gone.
CHECK_DEADLOCK FALSE
