SPECIFICATION FairSpec
CONSTANTS
  Callers = {render, job1, job2}
  MaxUploads = 3
INVARIANT
  UploadExecuted
PROPERTY
  UploadReturns
CHECK_DEADLOCK FALSE
