SPECIFICATION TypingSpec
CONSTANTS
  User = {"u", "v"}
  Room = {"a", "b"}
  MaxTyped = 3
  MaxClosed = 1
INVARIANTS TypingTypeOK NamesAreTyping StatusBarIsOfRoom
PROPERTY ShownEnds
