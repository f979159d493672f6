SPECIFICATION FairSpec
CONSTANTS
  Requests = {r1, r2}
  Clients = {x1, x2}
  Sessions = {t1, t2, t3, t4, t5}
  NoToken = NoToken
  MaxFaults = 2
  MaxReloads = 2
INVARIANT TypeOK
PROPERTIES UnauthorizedOnlyAfterOwnLogin ClosedOnlyIfReplaced RequestsEnd LoginsSettle
