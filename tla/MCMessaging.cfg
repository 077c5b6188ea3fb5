SPECIFICATION Spec
CONSTANTS
  Requests = 2
  Notices = 1
  Lengths = {2}
  PipeSize = 2
  SeqNums = 2
  MAX_QUEUE_ITEMS = 1
  INITERRORS_THRESHOLD = 1
  Faults = 1
INVARIANTS NoMutualBlock NeverDesynchronized
PROPERTIES ChannelKept QueueMoves
CHECK_DEADLOCK FALSE
