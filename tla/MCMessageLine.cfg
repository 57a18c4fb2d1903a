\* The line, its drafts, and the switching of rooms and accounts.
SPECIFICATION Spec
CONSTANTS
  Account = {"a", "b"}
  RoomId = {"general", "other"}
  Place <- MCPlace
  Message <- MCMessage
  PlaceOf <- MCPlaceOf
  Text = {"x", "y"}
  MaxInputs = 4
INVARIANTS TypeOK DraftOfItsRoom QuoteIsShown LastRoomIsShown
PROPERTY Implements
