\* Two dev servers and an install, side by side.
SPECIFICATION Spec
CONSTANTS
  web = web
  api = api
  install = install
  Slot = {web, api, install}
  Serve = {web, api}
  Port = {1, 2}
  MaxRestarts = 1
  MaxStarts <- StartsOfEach
  MaxStops = 1
SYMMETRY Servers
INVARIANTS SupervisorInv LeasesAreHeld
CHECK_DEADLOCK FALSE
