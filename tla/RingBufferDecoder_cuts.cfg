SPECIFICATION Spec
CONSTANTS
  SizeBytes = 1
  HeaderSize = 2
  ItemSizes = {2, 5}
  Orders = {native, swapped}
  SwappedSize = 99
  GarbageSizes = {0, 1, 99}
  BufferSize = 6
  MaxItems = 2
  MaxSources = 2
  NoTranslator = NoTranslator
INVARIANTS TypeOK BytesKept ItemsWhole HeldIncomplete HelperOfSource
CHECK_DEADLOCK FALSE
