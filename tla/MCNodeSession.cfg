CONSTANTS
  Files <- ThreeFiles
  MaxTicks = 2
  MaxKeepalives = 2
  MaxInbound = 3
  FlushLimit = 2
SPECIFICATION Spec
INVARIANTS TypeOK Intact OwnReply LagBound OnlyLastMissing NoHang NodeSessionInv
\* A reader may wait for ever, and every loop comes to its end.
CHECK_DEADLOCK FALSE
