SPECIFICATION Spec
CONSTANTS
    max_rounds = 1
    MaxChunks = 2
    MaxEvents = 3
INVARIANTS FinalAnswerIsNotFolded
