SPECIFICATION Spec
CONSTANTS
  Cases = {c1}
  Slots = {s1, s2, s3}
  Passwords = {p1, p2}
  NoPassword = NoPassword
  Unreadable = Unreadable
  MaxPasswordAttempts = 2
  NotifyMaxRetries = 1
  ResubmitMaxRetries = 1
  Polls = 2
  Faults = {"smtp", "list", "rescan", "bounce", "rekey"}
  MaxFaults = 1
  MaxCrashes = 1
  MaxPushes = 2
  MaxRequests = 2
SYMMETRY Symmetry
INVARIANTS TypeOK PurgedOnceResubmitted VerdictFollowsRescan
PROPERTIES SettledStands ImplementsCaseLifecycle
CHECK_DEADLOCK FALSE
