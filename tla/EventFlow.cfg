SPECIFICATION FairFlow
CONSTANTS
  MaxAttempts = 2
  MaxRetries = 1
  MaxMishaps = 2
INVARIANTS MissedHasReason DeadHasReason MailsHaveReasons
PROPERTY CommittedArrives
CHECK_DEADLOCK FALSE
