SPECIFICATION FairHttpSpec
CONSTANTS
  c1 = c1
  c2 = c2
  c3 = c3
  None = None
  Clients = {c1, c2, c3}
  Plans <- MCPlans
  Fds = {1, 2}
  Workers = {"w1", "w2"}
  MaxChunks = 1
  MaxTasks = 1
INVARIANTS HttpTypeOK DescriptorsOwned EventsReachTheirSocket OwnAnswersOnly AnswersInOrder HandledAsSent
PROPERTIES Answered GoneIsForgotten
CHECK_DEADLOCK FALSE
