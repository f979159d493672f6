SPECIFICATION FairSpec
CONSTANTS
  Emails = {e1, e2, e3}
  Held = {e1, e2, e3}
  Triggers = {e1, e2, e3}
  Linked = {e1, e3}
  Unreadable = {e3}
  Runs = {r1, r2}
  MaxPushes = 1
  MaxFaults = 1
  MaxCrashes = 1
  MaxReleases = 1
INVARIANTS TypeOK MailsOnlyHeld ReceivedIsBeingMailed
PROPERTIES MailedStartsNoOther NothingMissed
