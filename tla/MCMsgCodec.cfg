SPECIFICATION CodecSpec
CONSTANTS
  NULL = NULL
  Strings <- MCStrings
  Numbers = {0, 1}
  MaxList = 2
  MSG_MAX_USERDATA = 26
INVARIANT InfoKept
