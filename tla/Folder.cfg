SPECIFICATION Spec
CONSTANTS
  file1 = file1
  file2 = file2
  check1 = check1
  check2 = check2
  Task = {"t1"}
  Path = {"a", "b"}
  Branch = {"main", "side"}
  Mine = 2
  Yours <- YourContents
  MaxActs = 3
  MaxTools = 1
  MaxUndos = 1
  File = {file1, file2}
  Large <- LargeFiles
  Huge <- HugeFiles
  Budget <- FileBudget
  Check = {check1, check2}
  Applicable = {"syntax", "lint", "tests"}
  MaxEditions = 1
INVARIANTS
  FolderInv
  TaskCommitsAreOfItsPaths
  NothingIsClobbered
  EditsAreListed
  ImportGraphIsWhole
  VerdictIsEarned
PROPERTIES
  HistoryOnlyGrows
  UndoSparesLaterEdits
SYMMETRY Interchangeable
CHECK_DEADLOCK FALSE
