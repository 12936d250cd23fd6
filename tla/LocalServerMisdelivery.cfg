\* Whom the answer to an interrupted command reaches.
SPECIFICATION FairSpec
CONSTANTS
  c1 = c1
  c2 = c2
  c3 = c3
  NULL = NULL
  Clients = {c1, c2}
  Fds = {4, 5}
  Answers = {"text"}
  Worlds <- MCInterrupted
  Capacity = 1
INVARIANT AnswersToSender
\* All clients may have come and gone.
CHECK_DEADLOCK FALSE
