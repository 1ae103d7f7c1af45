\* A staff member's page through hints, lost answers and other people's moves.
CONSTANTS
  Order = {k1}
  Me = Me
  Other = Other
  Nobody = Nobody
  Setting = {a, b}
  Anything = Anything
  Hidden = Hidden
  Page = {"orders", "order", "failures", "runners", "refunds", "settings", "inventory", "catalog", "queue", "packing", "phone"}
  MaxKeys <- KeysDrawn
  MaxCalls <- CallsAtOnce
  MaxMoves = 1
SPECIFICATION FairSpec
INVARIANTS PaysOncePerDialog OwnCallsAreReread DoneIsDone
PROPERTIES ScreenCatchesUp ButtonsComeBack
