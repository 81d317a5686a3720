\* One window: calls and streams share its channel.
SPECIFICATION MCSpec
CONSTANTS
  t1 = t1
  t2 = t2
  Command = {11, 12}
  Query = {1, 2, 3}
  Stream = {21, 22}
  Sub = {21, 22}
  Event = {"cache.invalidate", "task.changed"}
  MaxListens = 1
  Task = {t1, t2}
  MaxChunks = 3
  Async = FALSE
  MaxCancels = 1
  MaxEvents = 1
INVARIANTS RendererInv EachRequestIsInOnePlace ReplayThenLive FreshAtRest
CHECK_DEADLOCK FALSE
