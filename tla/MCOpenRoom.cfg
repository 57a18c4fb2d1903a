\* Two accounts whose servers have a room of the same id.
SPECIFICATION Spec
CONSTANTS
  Account = {"work", "home"}
  RoomId = {"GENERAL", "lobby"}
  Place <- MCPlace
  Members <- MCMembers
  Searches = {{}, {"GENERAL"}}
  MaxRequests = 1
  MaxChanges = 1
INVARIANTS TypeOK WantedIsPending
PROPERTY WantedIsShown
CHECK_DEADLOCK FALSE
