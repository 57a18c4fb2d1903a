------------------------------- MODULE RoomDrafts -------------------------------
(***************************************************************************)
(* What the message line promises: every room of every account has a draft *)
(* of its own.  The user writes in the draft of the room that is shown,    *)
(* what is sent goes to that room and is what its draft says, and other    *)
(* drafts stay as they are.  A draft without a text is dropped when its    *)
(* room is left or selected again.                                         *)
(***************************************************************************)
EXTENDS Drafts

VARIABLES
  shown,             \* the room that is shown, or NoPlace
  drafts,            \* of each room
  sent               \* the request made by the last step, or NoRequest

vars == <<shown, drafts, sent>>

TypeOK ==
  /\ shown \in Place \cup {NoPlace}
  /\ drafts \in [Place -> Draft]
  /\ sent \in Request \cup {NoRequest}

Init ==
  /\ shown = NoPlace
  /\ drafts = [place \in Place |-> Empty]
  /\ sent = NoRequest

OthersKept == \A place \in Place \ {shown} : drafts'[place] = drafts[place]

\* The user changes the draft of the room that is shown.
Write ==
  /\ shown \in Place
  /\ drafts' \in [Place -> Draft] /\ OthersKept
  /\ UNCHANGED shown
  /\ sent' = NoRequest

\* Another room is shown, or the same again, or none.
Show ==
  /\ \E place \in Place \cup {NoPlace} : shown' = place
  /\ drafts' = [place \in Place |->
                  IF place = shown /\ drafts[place].text = "none" THEN Empty ELSE drafts[place]]
  /\ sent' = NoRequest

\* The draft is sent to its room, as it stands; at most the thread
\* it answers remains.
Send ==
  /\ shown \in Place
  /\ \E kind \in {"post", "update", "command"} :
       /\ kind = "update" <=> drafts[shown].editing # "none"
       /\ sent' = [kind |-> kind, account |-> shown[1], roomId |-> shown[2], draft |-> drafts[shown]]
  /\ drafts' \in [Place -> Draft] /\ OthersKept
  /\ drafts'[shown] \in {[Empty EXCEPT !.thread = thread] : thread \in {"none", drafts[shown].thread}}
  /\ UNCHANGED shown

\* A file is sent to the room, in the thread that is answered, maybe in place of
\* the text.
SendFile ==
  /\ shown \in Place
  /\ sent' = [kind |-> "file", account |-> shown[1], roomId |-> shown[2], draft |-> drafts[shown]]
  /\ \/ \E thread \in {drafts[shown].thread, "none"} :
            drafts' = [drafts EXCEPT ![shown].thread = thread]
     \/ drafts' = [drafts EXCEPT ![shown].text = "none"]
  /\ UNCHANGED shown

Next == Write \/ Show \/ Send \/ SendFile

Spec == Init /\ [][Next]_vars
=============================================================================
