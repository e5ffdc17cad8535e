SPECIFICATION FairSyncSpec
CONSTANTS
  daemon = daemon
  cli = cli
  None = None
  Writer = {daemon, cli}
  Syncer = daemon
  MaxVersion = 3
  Unreadable = {2}
  MaxRollbacks = 1
  MaxWriteFails = 1
  MaxKills = 1
INVARIANTS StampIsTrue
PROPERTIES PolicyArrives
