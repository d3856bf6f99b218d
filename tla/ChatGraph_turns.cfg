SPECIFICATION Spec
CONSTANTS
    MaxTurns = 3
    Limit = 7
    MaxHistory = 3
    Raises = {"trigger", "retrieve", "chat", "computer", "remember"}
INVARIANTS TypeOK RememberedPairs QuestionInWindow ResultBelongsToTurn
CHECK_DEADLOCK FALSE
