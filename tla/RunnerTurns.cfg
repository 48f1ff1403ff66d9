SPECIFICATION FairSpec
CONSTANTS
  def = def  extra = extra
  Source = {def, extra}
  Default = def
  Watched = {def, extra}
  FailureTrip = 2
  Beat = 2
  Cadence = 3
  Endpoints = {1, 2}
  FirstEndpoint = 1
  Fixable = {extra}
  MaxRestarts = 0
  LimitsMayBreak = TRUE
PROPERTIES EveryoneGetsTurns FixSeenWhileAlive
