SPECIFICATION Spec
CONSTANTS
  Rid = {"a", "b"}
  MaxChanges = 3
INVARIANTS TypeOK NoDuplicates ListFollowsSubscriptions RowsFollowRooms
\* The changes of the bound may be used up, and nothing more is told.
CHECK_DEADLOCK FALSE
