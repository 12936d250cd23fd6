\* All short lines and parameters, answers around the size of the buffer.
SPECIFICATION FairSpec
CONSTANTS
  NULL = NULL
  Chars <- MCChars
  BufSize = 3
  ReallocZeroFrees = TRUE
  ArgLists <- MCArgLists
  TypedLines <- MCTypedLines
  FewLines <- MCFewLines
  Answers = {NULL, 0, 1, 2, 3, 4}
  CutShort = TRUE
INVARIANT TypeOK
INVARIANT NothingLeftOver
PROPERTY IsExchange
PROPERTY PromptReturns
\* bituctl may have left.
CHECK_DEADLOCK FALSE
