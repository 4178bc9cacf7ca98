SPECIFICATION FairDialogue
CONSTANTS
  MaxInteractiveRounds = 3
  MaxAuthStages = 3
  MaxPrompts = 2
  MaxRoundId = 255
INVARIANTS
  TypeOK
  AnswerMatchesRequest
  PromptIsCurrent
  GiveUpIsJustified
PROPERTIES
  ImplementsBudget
  DialogueEnds
CHECK_DEADLOCK FALSE
