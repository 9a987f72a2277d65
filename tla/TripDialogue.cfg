SPECIFICATION DialogueSpec
CONSTANTS
    Revisions <- MCUpdates
    FirstDate = 1
    LastDate = 3
    HasTier = FALSE
    None = None
    Invalid = Invalid
INVARIANTS
    AnswersKept
    StartMoves
    CompleteIsSearchable
CHECK_DEADLOCK FALSE
