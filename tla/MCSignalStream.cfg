SPECIFICATION FairSpec
CONSTANTS
  l1 = l1
  l2 = l2
  NoListener = NoListener
  Absent = Absent
  Listener = {l1, l2}
  Replay = 1
  MaxBuffered = 2
  MaxRequests = 2
  MaxEvents = 3
  MaxEnds = 2
  MaxUnread = 1
INVARIANTS CursorNeverOutruns RepeatsOnlyAfterCut TurnsInOrder
PROPERTY StreamIsRead
