\* Users who wait and users who interrupt, short answers and long ones.
SPECIFICATION FairSpec
CONSTANTS
  c1 = c1
  c2 = c2
  c3 = c3
  NULL = NULL
  Clients = {c1, c2, c3}
  Fds = {4, 5}
  Answers = {"NULL", "text"}
  Worlds <- MCAll
  Capacity = 1
INVARIANT TypeOK
INVARIANT ClientOutlivesAnswer
INVARIANT InStep
INVARIANT TableMatchesFiles
PROPERTY ClientsMoveOn
PROPERTY ServedInTurn
PROPERTY QueueIsReleased
\* All clients may have come and gone.
CHECK_DEADLOCK FALSE
