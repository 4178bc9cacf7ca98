SPECIFICATION BellSpec
CONSTANTS
  MaxClipboardBytes = 1048576
  FirstScrollback = 64
  ScrollbackLines = 10000
  MaxMessages = 3
INVARIANT UnseenBellIsMarked
