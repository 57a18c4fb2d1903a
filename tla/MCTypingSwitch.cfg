SPECIFICATION SafetySpec
CONSTANTS
  User = {"u", "v"}
  Room = {"a", "b"}
  MaxTyped = 2
  MaxClosed = 1
INVARIANT RoomChangeIsTold
