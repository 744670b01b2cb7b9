CONSTANTS
  r1 = r1
  r2 = r2
  h1 = h1
  h2 = h2
  Requests <- TwoRequests
  Assignments <- SomeNames
  Retries = 1
  Handlers <- TwoHandlers
  HistoryLimit = 2
  Subscribed <- FirstSubscriptions
  Loyal <- OneLoyal
  Changes = 1
SPECIFICATION FairSpec
CHECK_DEADLOCK FALSE
INVARIANTS ToolsTypeOK AnnouncedInOrder CalledOncePerName
PROPERTIES RequestsAnswered
