CONSTANTS
  NumWorkers = 2
  BatchSizes <- MCBatchSizes
  RequestCap = 1
  ResponseCap = 1
  MaxBatches = 2
  NoResult = NoResult
  Failure = Failure
  MaxPages = 3
  MaxAttempts = 5
  Callers = {task1, task2}
  DataRequests <- MCDataRequests
  Events <- MCEvents
  Indexed = {4}
  PageSize = 2
  MaxClears = 1
  Nothing = Nothing
  Threads = {t1, t2}
  Main = t1
  MaxJobs = 2
  MaxCalls = 2
  Nobody = Nobody
SPECIFICATION MCFairSpec
CHECK_DEADLOCK FALSE
INVARIANTS ResultsBelong FailuresAreContained RangeIsWhole LossesAreAtPageEnds AnswersAreTheirs
PROPERTIES ImplementsService BatchReturns FetchEnds JobsShareOnePython
