\* One task; the run looks for a counterexample to EndedTasksAreNotEdited.
SPECIFICATION Spec
CONSTANTS
  t1 = t1
  t2 = t2
  s1 = s1
  s2 = s2
  Task = {t1}
  Session = {s1}
  SessionOf <- SameSession
  Requests <- AllRequests
  MaxToolSteps <- ToolSteps
  MaxModelCalls <- ModelCalls
  MaxRepairAttempts = 1
  MaxReviewRounds = 1
  MaxCalls = 1
  MaxRevisions = 1
  MaxResumes = 2
  MaxCrashes = 1
PROPERTY EndedTasksAreNotEdited
CHECK_DEADLOCK FALSE
