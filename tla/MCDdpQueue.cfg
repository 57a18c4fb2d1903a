SPECIFICATION Spec
CONSTANT MaxUid = 4
\* The ids of the bound may be used up while processQueue() loops.
CHECK_DEADLOCK FALSE
INVARIANT QueueHoldsOnlyUnsent
