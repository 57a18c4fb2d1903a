------------------------------ MODULE MessageLine ------------------------------
(***************************************************************************)
(* The one line in which the user writes, whatever room of whatever        *)
(* account is shown: MessageLineWidget with its text edit, the RoomWidget  *)
(* that stores what was written when the room is left and restores it when *)
(* it is shown again, and the RuqolaMainWidget that switches rooms and     *)
(* accounts.  Message models are their messages; a refused update comes    *)
(* back at any time.                                                       *)
(***************************************************************************)
EXTENDS Drafts, Naturals

CONSTANT MaxInputs   \* bound on the user's inputs in the line

ASSUME MaxInputsAssumption == MaxInputs \in Nat

VARIABLES
  account,           \* mCurrentRocketChatAccount
  mRoomId,           \* of RoomWidgetBase: the room shown, or "none"
  lineRoomId,        \* of MessageTextEdit: where the line sends to
  line,              \* text, mMessageIdBeingEdited, mQuotePermalink, mThreadMessageId
  quoteShown,        \* the quote the RoomQuoteMessageWidget shows, or "none"
  mPendingTypedTexts, \* of every account
  lastSelectedRoom,  \* of every account, in its settings
  listed,            \* accounts whose rooms are in the list
  mThreadMessageModel, \* of every account: the messages of the thread last opened
  updates,           \* chat.update jobs under way
  sent,              \* the request made by the last step
  crossed,           \* history: messages taken for editing from the thread model
  inputs

window == <<account, mRoomId, lineRoomId>>
memory == <<mPendingTypedTexts, lastSelectedRoom, listed>>
vars == <<window, line, quoteShown, memory, mThreadMessageModel, updates, sent, crossed, inputs>>

shown == IF mRoomId = "none" THEN NoPlace ELSE <<account, mRoomId>>

Update == [account : Account, text : Text]

TypeOK ==
  /\ account \in Account
  /\ mRoomId \in RoomId \cup {"none"}
  /\ lineRoomId \in RoomId \cup {"none"}
  /\ shown \in Place \cup {NoPlace}
  /\ line \in Draft
  /\ quoteShown \in Message \cup {"none"}
  /\ mPendingTypedTexts \in [Place -> Draft]
  /\ lastSelectedRoom \in [Account -> RoomId \cup {"none"}]
  /\ listed \subseteq Account
  /\ mThreadMessageModel \in [Account -> SUBSET Message]
  /\ updates \subseteq Update
  /\ sent \in Request \cup {NoRequest}
  /\ crossed \subseteq Message
  /\ inputs \in 0..MaxInputs

Init ==
  /\ account \in Account
  /\ mRoomId = "none"
  /\ lineRoomId = "none"
  /\ line = Empty
  /\ quoteShown = "none"
  /\ mPendingTypedTexts = [place \in Place |-> Empty]
  /\ lastSelectedRoom \in [Account -> RoomId \cup {"none"}]
  /\ listed = {}
  /\ mThreadMessageModel = [a \in Account |-> {}]
  /\ updates = {}
  /\ sent = NoRequest
  /\ crossed = {}
  /\ inputs = 0

-----------------------------------------------------------------------------
\* The line after some calls.
clearMessageIdBeingEdited(l) == [l EXCEPT !.text = "none", !.editing = "none", !.quote = "none"]
setQuoteMessage(l, message) == [clearMessageIdBeingEdited(l) EXCEPT !.quote = message]
setEditMessage(l, message, text) == [l EXCEPT !.editing = message, !.text = text]

\* What is stored without a text is only the place of the scroll bar.  Under no
\* room, between two accounts, it is stored for an id that is never asked for.
storeRoomSettings ==
  mPendingTypedTexts' = [place \in Place |->
    IF place = shown THEN (IF line.text = "none" THEN Empty ELSE line) ELSE mPendingTypedTexts[place]]

\* Faulty: the thread is not cleared before switching.
setChannelSelectedKeepsThread(a, room) ==
  /\ mRoomId' = room
  /\ lineRoomId' = room
  /\ LET stored == mPendingTypedTexts'[<<a, room>>]
         quoting == setQuoteMessage(line, stored.quote) IN
       /\ line' = IF stored = Empty THEN setQuoteMessage(line, "none")
                  ELSE [quoting EXCEPT !.thread = stored.thread, !.text = stored.text,
                                       !.editing = stored.editing]
       /\ quoteShown' = stored.quote

\* The room is shown, the line cleared, and what was stored for the room put in.
setChannelSelected(a, room) ==
  /\ mRoomId' = room
  /\ lineRoomId' = room
  /\ LET stored == mPendingTypedTexts'[<<a, room>>]
         cleared == setQuoteMessage([line EXCEPT !.thread = "none"], "none")
         quoting == setQuoteMessage(cleared, stored.quote) IN
       /\ line' = IF stored = Empty THEN cleared
                  ELSE [quoting EXCEPT !.thread = stored.thread, !.text = stored.text,
                                       !.editing = stored.editing]
       /\ quoteShown' = stored.quote

\* A room is selected in the list, by the user or as its row is removed or comes
\* back "During reconnect".
selectChannelRoom(room) ==
  /\ account \in listed
  /\ <<account, room>> \in Place
  /\ storeRoomSettings
  /\ setChannelSelected(account, room)
  /\ lastSelectedRoom' = IF mRoomId = room THEN lastSelectedRoom
                         ELSE [lastSelectedRoom EXCEPT ![account] = room]
  /\ sent' = NoRequest
  /\ UNCHANGED <<account, listed, mThreadMessageModel, updates, crossed, inputs>>

\* Faulty: the room is only selected by the switch of accounts.
accountInitializedSelectsNothing ==
  /\ listed' = listed \cup {account}
  /\ sent' = NoRequest
  /\ UNCHANGED <<window, line, quoteShown, mPendingTypedTexts, lastSelectedRoom,
                 mThreadMessageModel, updates, crossed, inputs>>

\* ChannelListWidget::slotAccountInitialized: the rooms are there, and the one
\* that was selected last is selected.  Nothing happens if its row is selected.
accountInitialized ==
  /\ listed' = listed \cup {account}
  /\ \/ /\ <<account, lastSelectedRoom[account]>> \in Place
        /\ storeRoomSettings
        /\ setChannelSelected(account, lastSelectedRoom[account])
     \/ /\ \/ <<account, lastSelectedRoom[account]>> \notin Place
           \/ mRoomId = lastSelectedRoom[account]
        /\ UNCHANGED <<mRoomId, lineRoomId, line, quoteShown, mPendingTypedTexts>>
  /\ sent' = NoRequest
  /\ UNCHANGED <<account, lastSelectedRoom, mThreadMessageModel, updates, crossed, inputs>>

\* The rooms of an account that is not shown come in.
OtherInitialized(a) ==
  /\ a # account
  /\ listed' = listed \cup {a}
  /\ sent' = NoRequest
  /\ UNCHANGED <<window, line, quoteShown, mPendingTypedTexts, lastSelectedRoom,
                 mThreadMessageModel, updates, crossed, inputs>>

\* Faulty: the id of the room shown is not cleared, so that a room of the other
\* account with this id is taken for it.
setCurrentRocketChatAccountKeepsRoom(a) ==
  /\ a # account
  /\ storeRoomSettings
  /\ account' = a
  /\ LET room == lastSelectedRoom[a] IN
       IF a \in listed /\ <<a, room>> \in Place
         THEN IF room = mRoomId
                THEN /\ line' = IF line.text = "none" THEN Empty ELSE line
                     /\ quoteShown' = line'.quote
                     /\ UNCHANGED <<mRoomId, lineRoomId>>
                ELSE setChannelSelected(a, room)
         ELSE mRoomId' = "none" /\ UNCHANGED <<lineRoomId, line, quoteShown>>
  /\ lastSelectedRoom' = [lastSelectedRoom EXCEPT ![account] = mRoomId]
  /\ sent' = NoRequest
  /\ UNCHANGED <<listed, mThreadMessageModel, updates, crossed, inputs>>

\* RuqolaMainWidget::setCurrentRocketChatAccount, and what it calls: the id of
\* the room shown is cleared, and the room selected last in the other account is
\* selected if it is listed.
setCurrentRocketChatAccount(a) ==
  /\ a # account
  /\ storeRoomSettings
  /\ account' = a
  /\ LET room == lastSelectedRoom[a] IN
       IF a \in listed /\ <<a, room>> \in Place
         THEN setChannelSelected(a, room)
         ELSE mRoomId' = "none" /\ UNCHANGED <<lineRoomId, line, quoteShown>>
  /\ lastSelectedRoom' = [lastSelectedRoom EXCEPT ![account] = mRoomId]
  /\ sent' = NoRequest
  /\ UNCHANGED <<listed, mThreadMessageModel, updates, crossed, inputs>>

-----------------------------------------------------------------------------
\* What the user does in the line, and in the list of messages above it.
InLine ==
  /\ mRoomId # "none"
  /\ inputs < MaxInputs
  /\ inputs' = inputs + 1
  /\ UNCHANGED <<window, memory>>

Type(text) ==
  /\ InLine
  /\ line' = [line EXCEPT !.text = text]
  /\ sent' = NoRequest
  /\ UNCHANGED <<quoteShown, mThreadMessageModel, updates, crossed>>

\* "Edit", "Quote" and "Reply in Thread" of the messages of the room.
editMessageRequested(message, text) ==
  /\ InLine
  /\ PlaceOf[message] = shown
  /\ line' = setEditMessage(line, message, text)
  /\ sent' = NoRequest
  /\ UNCHANGED <<quoteShown, mThreadMessageModel, updates, crossed>>

quoteMessageRequested(message) ==
  /\ InLine
  /\ PlaceOf[message] = shown
  /\ line' = setQuoteMessage(line, message)
  /\ quoteShown' = message
  /\ sent' = NoRequest
  /\ UNCHANGED <<mThreadMessageModel, updates, crossed>>

replyInThreadRequested(message) ==
  /\ InLine
  /\ PlaceOf[message] = shown
  /\ line' = [line EXCEPT !.thread = message]
  /\ sent' = NoRequest
  /\ UNCHANGED <<quoteShown, mThreadMessageModel, updates, crossed>>

\* Alt+Up and Alt+Down: the next message one may edit, of the room, or while a
\* thread is answered, of the thread that was opened last; or none.
messageModel ==
  IF line.thread = "none" THEN {m \in Message : PlaceOf[m] = <<account, lineRoomId>>}
  ELSE mThreadMessageModel[account]

AltArrow(message, text) ==
  /\ InLine
  /\ message \in messageModel \cup {"none"}
  /\ message = "none" => text = "none"
  /\ line' = setEditMessage(line, message, text)
  /\ crossed' = IF line.thread = "none" THEN crossed ELSE crossed \cup ({message} \cap Message)
  /\ sent' = NoRequest
  /\ UNCHANGED <<quoteShown, mThreadMessageModel, updates>>

\* A thread is opened in a dialog of its own.
openThread(message) ==
  /\ InLine
  /\ PlaceOf[message][1] = account
  /\ mThreadMessageModel' = [mThreadMessageModel EXCEPT ![account] = {message}]
  /\ sent' = NoRequest
  /\ UNCHANGED <<line, quoteShown, updates, crossed>>

\* Escape: of the line itself, or else of the thread or quote that is shown.  The
\* line does not tell that its quote is gone.
Escape ==
  /\ InLine
  /\ \/ /\ line.editing # "none" \/ line.quote # "none"
        /\ line' = clearMessageIdBeingEdited(line)
        /\ UNCHANGED quoteShown
     \/ /\ line.editing = "none" /\ line.quote = "none"
        /\ line.thread # "none"
        /\ line' = [line EXCEPT !.thread = "none"]
        /\ UNCHANGED quoteShown
     \/ /\ line.editing = "none" /\ line.quote = "none" /\ line.thread = "none"
        /\ quoteShown # "none"
        /\ line' = setQuoteMessage(line, "none")
        /\ quoteShown' = "none"
  /\ sent' = NoRequest
  /\ UNCHANGED <<mThreadMessageModel, updates, crossed>>

\* Faulty: the widget hides, and the line is not told.
cancelQuoteMessageSilent ==
  /\ InLine
  /\ quoteShown # "none"
  /\ quoteShown' = "none"
  /\ sent' = NoRequest
  /\ UNCHANGED <<line, mThreadMessageModel, updates, crossed>>

\* The buttons of the two widgets.
cancelReplyingInThread ==
  /\ InLine
  /\ line.thread # "none"
  /\ line' = [line EXCEPT !.thread = "none"]
  /\ sent' = NoRequest
  /\ UNCHANGED <<quoteShown, mThreadMessageModel, updates, crossed>>

cancelQuoteMessage ==
  /\ InLine
  /\ quoteShown # "none"
  /\ line' = setQuoteMessage(line, "none")
  /\ quoteShown' = "none"
  /\ sent' = NoRequest
  /\ UNCHANGED <<mThreadMessageModel, updates, crossed>>

-----------------------------------------------------------------------------
\* slotSendMessage, and the clear() of the text edit that follows it.
Ask(kind) == sent' = [kind |-> kind, account |-> account, roomId |-> lineRoomId, draft |-> line]

\* A new message, in a thread or not, with a quote or not.
sendMessage ==
  /\ InLine
  /\ line.text # "none"
  /\ line.editing = "none"
  /\ Ask("post")
  /\ \/ /\ line.quote = "none"
        /\ line' = Empty
        /\ UNCHANGED quoteShown
     \/ /\ line.quote # "none"
        /\ line' = setQuoteMessage(Empty, "none")
        /\ quoteShown' = "none"
  /\ UNCHANGED <<mThreadMessageModel, updates, crossed>>

\* A command, which leaves the thread.
runCommand ==
  /\ InLine
  /\ line.text # "none"
  /\ line.editing = "none" /\ line.quote = "none"
  /\ Ask("command")
  /\ line' = [line EXCEPT !.text = "none"]
  /\ UNCHANGED <<quoteShown, mThreadMessageModel, updates, crossed>>

\* A command whose result is previewed first, or a text that is too long and
\* that may not, or shall not, be sent as a file: the text is cleared all the same.
NotSent ==
  /\ InLine
  /\ line.text # "none"
  /\ line.editing = "none" /\ line.quote = "none"
  /\ line' = [line EXCEPT !.text = "none"]
  /\ sent' = NoRequest
  /\ UNCHANGED <<quoteShown, mThreadMessageModel, updates, crossed>>

\* Faulty: an empty text is sent as well.
updateMessageEmpty ==
  /\ InLine
  /\ line.editing # "none"
  /\ Ask("update")
  /\ updates' = updates \cup {[account |-> account, text |-> line.text]}
  /\ line' = clearMessageIdBeingEdited(line)
  /\ UNCHANGED <<quoteShown, mThreadMessageModel, crossed>>

\* The message that is edited gets the text.
updateMessage ==
  /\ InLine
  /\ line.text # "none"
  /\ line.editing # "none"
  /\ Ask("update")
  /\ updates' = updates \cup {[account |-> account, text |-> line.text]}
  /\ line' = clearMessageIdBeingEdited(line)
  /\ UNCHANGED <<quoteShown, mThreadMessageModel, crossed>>

\* A file goes to the room and thread; one that is dropped or pasted ends the reply.
\* A text that is too long may be sent as a file.
sendFile ==
  /\ InLine
  /\ Ask("file")
  /\ \/ \E thread \in {line.thread, "none"} : line' = [line EXCEPT !.thread = thread]
     \/ /\ line.text # "none"
        /\ line.editing = "none" /\ line.quote = "none"
        /\ line' = [line EXCEPT !.text = "none"]
  /\ UNCHANGED <<quoteShown, mThreadMessageModel, updates, crossed>>

updateMessageDone(update) ==
  /\ update \in updates
  /\ updates' = updates \ {update}
  /\ sent' = NoRequest
  /\ UNCHANGED <<window, line, quoteShown, memory, mThreadMessageModel, crossed, inputs>>

\* "Message Update failed => don't lose text!": it is put in the line, whatever
\* is there, whatever room is shown.
slotUpdateMessageFailed(update) ==
  /\ update \in updates
  /\ updates' = updates \ {update}
  /\ line' = [line EXCEPT !.text = update.text]
  /\ sent' = NoRequest
  /\ UNCHANGED <<window, quoteShown, memory, mThreadMessageModel, crossed, inputs>>

Next ==
  \/ \E room \in RoomId : selectChannelRoom(room)
  \/ accountInitialized
  \/ \E a \in Account : OtherInitialized(a) \/ setCurrentRocketChatAccount(a)
  \/ \E text \in Text \cup {"none"} : Type(text)
  \/ \E message \in Message :
       \/ \E text \in Text \cup {"none"} : editMessageRequested(message, text)
       \/ quoteMessageRequested(message)
       \/ replyInThreadRequested(message)
       \/ openThread(message)
  \/ \E message \in Message \cup {"none"}, text \in Text \cup {"none"} : AltArrow(message, text)
  \/ Escape \/ cancelReplyingInThread \/ cancelQuoteMessage
  \/ sendMessage \/ runCommand \/ NotSent \/ updateMessage \/ sendFile
  \/ \E update \in updates : updateMessageDone(update) \/ slotUpdateMessageFailed(update)

Spec == Init /\ [][Next]_vars

-----------------------------------------------------------------------------
\* The draft of each room: in the line for the room that is shown, or stored.
drafts == [place \in Place |-> IF place = shown THEN line ELSE mPendingTypedTexts[place]]

RD == INSTANCE RoomDrafts

\* The single line that is stored and restored behaves as if each room of each
\* account had a line of its own: what is sent goes to the room that is shown
\* and is what was written for it, and no switching mixes two drafts up.
Implements == RD!Spec

\* What is edited, quoted or answered for a room is a message of that room, but
\* for an edit taken from the thread that was opened last.
DraftOfItsRoom ==
  \A place \in Place :
    LET draft == drafts[place] IN
    /\ draft.editing # "none" => PlaceOf[draft.editing] = place \/ draft.editing \in crossed
    /\ draft.quote # "none" => PlaceOf[draft.quote] = place
    /\ draft.thread # "none" => PlaceOf[draft.thread] = place

\* The message that will be quoted is the one that is shown as quoted, after any
\* switching; the converse fails, see Escape.
QuoteIsShown == line.quote # "none" => quoteShown = line.quote

\* An account whose rooms are listed shows the room that was selected last in it,
\* in whatever order accounts are switched and their rooms come in, and the line
\* sends to this room.
LastRoomIsShown ==
  account \in listed /\ <<account, lastSelectedRoom[account]>> \in Place =>
    mRoomId = lastSelectedRoom[account] /\ lineRoomId = mRoomId
=============================================================================
