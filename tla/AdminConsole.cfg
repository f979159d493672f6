SPECIFICATION FairSpec
CONSTANTS
  EDITABLE <- MCEDITABLE
  SECRET_KEYS <- MCSECRET_KEYS
  Env <- MCEnv
  Blank = ""
  Masked = "********"
  Unloadable <- MCUnloadable
  Unusable <- MCUnusable
  Changes <- MCChanges
  Removals <- MCRemovals
  NoKey = NoKey
  Sids = {s1, s2}
  SESSION_TTL = 2
  Pairs = {n1, n2}
  SelfSigned = n1
  NoFile = NoFile
  Empty = Empty
  NoSession = NoSession
  Nothing = Nothing
  MaxKeys = 2
  MaxSaves = 2
  MaxCrashes = 1
  MaxClock = 3
INVARIANTS TypeOK RunningIsStored StartsUnlessCut
PROPERTIES SetupNeverReopens EndedStaysEnded SavesAsAsked ComesUp
CHECK_DEADLOCK FALSE
