SPECIFICATION FairSpec
CONSTANTS
    Batches <- MCBatches
    Place <- MCPlace
    Materialize <- MCMaterialize
    Reset <- WithoutClones
    Trees <- MCTrees
    Clean <- MCClean
    Staged <- MCStaged
    CanStage <- MCCanStage
INVARIANTS
    BatchInv
    StageIsOwn
    LinesAreOwn
PROPERTIES
    BatchEnds
CHECK_DEADLOCK FALSE
