--------------------------------- MODULE Drafts ---------------------------------
(***************************************************************************)
(* What is being written for a room: the text, the message it is to        *)
(* replace, the one it quotes and the thread it answers                    *)
(* (AccountRoomSettings::PendingTypedInfo, but for the scroll bar), and    *)
(* the requests that come of it.                                           *)
(***************************************************************************)
CONSTANTS
  Account,
  RoomId,            \* ids of rooms; two accounts may know the same id
  Place,             \* the rooms there are, as pairs of an account and an id
  Message,
  PlaceOf,           \* of each message
  Text

ASSUME DraftsAssumption ==
  /\ Place \subseteq Account \X RoomId
  /\ PlaceOf \in [Message -> Place]
  /\ "none" \notin RoomId /\ "none" \notin Message /\ "none" \notin Text

Draft == [text : Text \cup {"none"}, editing : Message \cup {"none"},
          quote : Message \cup {"none"}, thread : Message \cup {"none"}]

Empty == [text |-> "none", editing |-> "none", quote |-> "none", thread |-> "none"]

\* No room is shown.
NoPlace == <<"none", "none">>

Request == [kind : {"post", "update", "command", "file"}, account : Account, roomId : RoomId \cup {"none"},
            draft : Draft]

NoRequest == [kind |-> "none"]
=============================================================================
