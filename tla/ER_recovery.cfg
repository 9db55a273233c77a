SPECIFICATION MCSpec
CONSTANTS
    Tasks = {"original", "second", "originalRescue", "secondRescue"}
    ClaimAttempts = 2
INVARIANTS
    RecoveryInv
    RunsOnce
PROPERTIES
    AnswersForTheRun
    SubmitsOnEvidence
    EndsAnyway
CHECK_DEADLOCK FALSE
