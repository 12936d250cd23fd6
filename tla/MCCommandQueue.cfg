\* Two transports and two consumers around a list of two.
SPECIFICATION FairSpec
CONSTANTS
  p1 = p1
  p2 = p2
  c1 = c1
  c2 = c2
  NULL = NULL
  Producers = {p1, p2}
  Consumers = {c1, c2}
  MaxSize = 2
  Quota = 3
INVARIANT TypeOK
INVARIANT SerialExecution
INVARIANT ProducersNotForgotten
INVARIANT ConsumersNotForgotten
INVARIANT SenderOrder
PROPERTY QueueIsFifo
PROPERTY CommandsExecuted
PROPERTY AddReturns
