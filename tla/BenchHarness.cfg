SPECIFICATION FairSpec
CONSTANT Clean = FALSE
INVARIANTS TypeOK SameModel RowFresh
PROPERTY Finishes
CHECK_DEADLOCK FALSE
