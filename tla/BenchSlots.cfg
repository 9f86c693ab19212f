SPECIFICATION Spec
CONSTANT Clean = TRUE
INVARIANT RowSlots
CHECK_DEADLOCK FALSE
