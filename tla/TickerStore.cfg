SPECIFICATION Spec
CONSTANTS
  c1 = c1  e1 = e1  e2 = e2  none = none  empty = empty
  tool_error = tool_error  credentials = credentials  quiet = quiet
  unbound = unbound
  Check = {c1}
  Endpoint = {e1, e2}
  NoEndpoint = unbound
  Count = {0, 1, 2}
  Empty = empty
  Period = {1}
  Category = {tool_error}
  Quiet = quiet
  AckTtl = 2
  MaxTime = 3
  MaxFaults = 1
  TornContext = FALSE
  None = none
INVARIANTS AckCoversOneEpisode FeedIsThisEndpoint
PROPERTIES ComparedLikeWithLike
CHECK_DEADLOCK FALSE
