\* Liveness: two tasks of one session.
SPECIFICATION FairSpec
CONSTANTS
  t1 = t1
  t2 = t2
  s1 = s1
  s2 = s2
  Task = {t1, t2}
  Session = {s1}
  SessionOf <- SameSession
  Requests <- TwoRequests
  MaxToolSteps <- FewToolSteps
  MaxModelCalls <- FewModelCalls
  MaxRepairAttempts = 1
  MaxReviewRounds = 1
  MaxCalls = 0
  MaxRevisions = 0
  MaxResumes = 1
  MaxCrashes = 0
PROPERTIES EveryTaskSettles CancelTakesEffect
CHECK_DEADLOCK FALSE
