SPECIFICATION Spec
CONSTANT MaxUid = 5
\* The ids of the bound may be used up while processQueue() loops.
CHECK_DEADLOCK FALSE
INVARIANT TypeOK
INVARIANT AnswerReachesAsker
INVARIANT SubscriptionsKnown
