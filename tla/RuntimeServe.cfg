\* One dev server that is started twice, stopped, crashes and restarts.
SPECIFICATION FairSpec
CONSTANTS
  web = web
  api = api
  install = install
  Slot = {web}
  Serve = {web}
  Port = {1, 2}
  MaxRestarts = 1
  MaxStarts <- StartsOfOne
  MaxStops = 1
INVARIANT Supervised
PROPERTIES StopIsFinal RestartsAreEarned TransientStatesPass
CHECK_DEADLOCK FALSE
