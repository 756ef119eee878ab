SPECIFICATION FairSpec
CONSTANTS
    max_rounds = 2
    MaxChunks = 2
    MaxEvents = 3
INVARIANTS TypeOK OneResponse ModelIsTold
PROPERTIES SearchIsAnswered
