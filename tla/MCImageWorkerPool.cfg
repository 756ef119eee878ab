SPECIFICATION FairSpec
CONSTANTS
    Requests = {r1, r2, r3, r4}
    Workers = {w1, w2}
ACTION_CONSTRAINT InOrder
INVARIANTS
    TypeOK
    WorkIsPermitted
    AbandonedIsCancelled
    NoLostWakeup
PROPERTIES
    EveryRequestAnswered
    WorkersExit
