SPECIFICATION Spec
CONSTANTS
  def = def  extra = extra
  Source = {def, extra}
  Default = def
  Watched = {def, extra}
  FailureTrip = 2
  Beat = 2
  Cadence = 3
  Endpoints = {1, 2}
  FirstEndpoint = 1
  Fixable = {def, extra}
  MaxRestarts = 1
  LimitsMayBreak = FALSE
INVARIANTS DeadDatabaseTrips SilenceDisclosed
PROPERTY RefusedNotAskedAgain
