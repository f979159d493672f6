SPECIFICATION RotatingSpec
CONSTANTS
  EDITABLE <- MCEDITABLE
  SECRET_KEYS <- MCSECRET_KEYS
  Env <- MCEnv
  Blank = ""
  Masked = "********"
  Unloadable <- MCUnloadable
  Unusable = {}
  Changes <- MCChanges
  Removals <- MCRemovals
  NoKey = NoKey
  Sids = {s1, s2}
  SESSION_TTL = 2
  Pairs = {}
  SelfSigned = NoFile
  NoFile = NoFile
  Empty = Empty
  NoSession = NoSession
  Nothing = Nothing
  MaxKeys = 2
  MaxSaves = 2
  MaxCrashes = 1
  MaxClock = 3
INVARIANT ComesUpToReenterSecrets
CHECK_DEADLOCK FALSE
