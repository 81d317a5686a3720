\* One task, every kind of request, revisions, two repairs, a crash, resumes.
SPECIFICATION Spec
CONSTANTS
  t1 = t1
  t2 = t2
  s1 = s1
  s2 = s2
  Task = {t1}
  Session = {s1}
  SessionOf <- SameSession
  Requests <- AllRequests
  MaxToolSteps <- ToolSteps
  MaxModelCalls <- ModelCalls
  MaxRepairAttempts = 1
  MaxReviewRounds = 1
  MaxCalls = 1
  MaxRevisions = 1
  MaxResumes = 2
  MaxCrashes = 1
INVARIANTS IInv EditsAreGated StreamsEnd
PROPERTIES CompletionIsVerified CancelWins
CHECK_DEADLOCK FALSE
