SPECIFICATION Spec
CONSTANTS
  Numeral <- MCNumeral
  UINT32 = 1048576
  Size <- MCSize
  Outside <- MCOutside
  Addresses = {"10.0.0.1", "192.0.0.1", "192.0.0.2"}
  Directories = {"/dir"}
  Padded <- MCPadded
  Files <- MCFiles
  Edits <- MCEdits
  DefaultFiles <- MCDefaultFiles
  Changes <- MCChanges
  CommandLines <- MCCommandLines
  Builds = {"desktop", "android"}
  MaxChanges = 2
INVARIANTS
  AcceptedConsistent
  SavedReadBack
  BuildsAgree
