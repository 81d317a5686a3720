\* One dev server, started twice, never stopped.
SPECIFICATION Spec
CONSTANTS
  web = web
  api = api
  install = install
  Slot = {web}
  Serve = {web}
  Port = {1, 2}
  MaxRestarts = 1
  MaxStarts <- StartsOfOne
  MaxStops = 0
INVARIANT EveryProcessIsSupervised
CHECK_DEADLOCK FALSE
