CONSTANTS
  b1 = b1
  b2 = b2
  NoJob = NoJob
  Jobs <- MCJobs
  MaxSpurious = 2
SPECIFICATION FairSpec
INVARIANTS NoLostWakeup FinishSeesLatest GoneIsQuiet
PROPERTIES JobStable FinishReturns StopReturns ImplementsContract
