SPECIFICATION QueueFairSpec
CONSTANTS
  p1 = p1
  p2 = p2
  a = a
  b = b
  NullPtr = NullPtr
  Producers <- MCProducers
  Msg <- MCMsg
  MaxPush = 4
INVARIANTS
  NoUseAfterFree
  HiddenOnlyByPendingLink
PROPERTIES
  ImplementsChannel
  EveryPushPopped
