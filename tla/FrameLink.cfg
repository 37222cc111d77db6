SPECIFICATION FairLinkSpec
CONSTANTS
  Sizes = {1, 3}
  MaxBatch = 4
  MaxFrames = 3
  MaxFiring = 2
  Receivers = {a}
  InboxSize = 1
  Buffers = {x}
  None = None
INVARIANTS
  NothingLost
  WaitingIsScheduled
  HandedIntact
PROPERTIES
  KeepsOrder
  FramesArrive
