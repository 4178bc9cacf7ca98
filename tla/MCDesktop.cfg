SPECIFICATION DesktopSpec
CONSTANTS
  MaxClipboardBytes = 1048576
  FirstScrollback = 64
  ScrollbackLines = 10000
  Queries = {q1, q2}
  NoQuery = none
  MaxMatches = 2
  HighlightLimit = 1
  Links <- MCLinks
  NoLink <- MCNoLink
  Modifiers <- MCModifiers
  Modes = {"none", "any", "sgr"}
  Turns <- MCTurns
  Gaps = {0, 16, 100}
  CellHeight = 16
  Rows = 2
  MaxTurns = 3
  MaxOutputs = 3
  MaxKeys = 2
  MaxMessages = 3
  MaxTabs = 3
  MaxPanes = 3
  MaxSessions = 1
  TextPaths = {"config"}
  Lines = {l1}
  Names = {"id"}
  Sources = {s1}
  Generators = {g1, g2}
  Passphrases = {p1}
  None = none
  Assets <- MCAssets
  MaxVersion = 3
INVARIANTS
  AppTypeOK
  ClosedSearchLeavesNothing
  FeedbackMatchesSelection
  WheelFollowsLast
  PendingHasFrame
  RestoreIsSilent
  ChecksTakeWholeBuilds
  StoredPairsMatch
  StartRestoresState
  ImportedKeysStay
  MarkCanBeTypedAway
  WarmTabExpires
  PolicyTestsPass
PROPERTIES
  OpensOnlyWhatWasPressed
  MigrationKeepsAll
  CheckpointBeforeUnmount
CHECK_DEADLOCK FALSE
