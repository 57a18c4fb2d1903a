SPECIFICATION Spec
CONSTANTS
  Message <- Messages
  Timestamp <- Times
  History = {1, 2}
  PageSize = 2
  KeepRows = 1
  MaxVersion = 1
  MaxChanged = 1
  MaxEvents = 2
  MaxJobs = 2
INVARIANTS TypeOK RowsSorted NoDuplicates RowsAreCurrent NothingMissing
