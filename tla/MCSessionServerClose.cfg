SPECIFICATION SafetySpec
CONSTANTS
  MaxDisruptions = 2
  MaxRequests = 2
\* An account that is connected, or logged out, waits for its user.
CHECK_DEADLOCK FALSE
PROPERTY ServerCloseClearsRooms
