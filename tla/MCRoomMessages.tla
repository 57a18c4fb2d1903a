--------------------------- MODULE MCRoomMessages ---------------------------
\* Times of the messages: the two old ones have the same.
EXTENDS RoomMessages

Messages == 1..4
Times == <<1, 1, 2, 3>>
=============================================================================
