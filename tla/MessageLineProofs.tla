--------------------------- MODULE MessageLineProofs ---------------------------
(***************************************************************************)
(* The types of MessageLine, what its drafts are about, that the one line  *)
(* implements a draft per room, and that quotes and the last rooms of the  *)
(* accounts are shown.                                                     *)
(***************************************************************************)
EXTENDS MessageLine, TLAPS

LineSendsToShown == mRoomId # "none" => lineRoomId = mRoomId

IInv == TypeOK /\ LineSendsToShown

\* The types of what is not of the line.
RestTyped ==
  /\ quoteShown \in Message \cup {"none"}
  /\ lastSelectedRoom \in [Account -> RoomId \cup {"none"}]
  /\ listed \subseteq Account
  /\ mThreadMessageModel \in [Account -> SUBSET Message]
  /\ updates \subseteq Update
  /\ crossed \subseteq Message
  /\ inputs \in 0..MaxInputs

-----------------------------------------------------------------------------
\* The steps that change the line of the room that is shown, and nothing stored.
Writing ==
  /\ mRoomId # "none"
  /\ UNCHANGED <<window, memory>>
  /\ line' \in Draft

\* The steps that leave a room: what was written is stored, and what is shown
\* then, if anything, is what was stored.
Switching ==
  /\ storeRoomSettings
  /\ account' \in Account
  /\ \/ /\ <<account', mRoomId'>> \in Place
        /\ mRoomId' # "none"
        /\ lineRoomId' = mRoomId'
        /\ line' = mPendingTypedTexts'[<<account', mRoomId'>>]
     \/ /\ mRoomId' = "none"
        /\ UNCHANGED <<lineRoomId, line>>

\* The steps that change neither what is shown nor what is stored nor, if a
\* room is shown, the line.
Elsewhere ==
  /\ UNCHANGED <<window, mPendingTypedTexts>>
  /\ line' \in Draft
  /\ mRoomId # "none" => UNCHANGED line

\* The steps that send, each as what RoomDrafts calls it.
Sending(kind) ==
  /\ Writing
  /\ sent' = [kind |-> kind, account |-> account, roomId |-> lineRoomId, draft |-> line]

\* What is left in the line when a file was sent.
FileSent ==
  \/ \E thread \in {line.thread, "none"} : line' = [line EXCEPT !.thread = thread]
  \/ line' = [line EXCEPT !.text = "none"]

LEMMA ShownPlace ==
  ASSUME TypeOK, mRoomId # "none"
  PROVE  /\ shown = <<account, mRoomId>>
         /\ shown \in Place
  <1>1. shown = <<account, mRoomId>>
    BY DEF shown
  <1>2. shown # NoPlace
    BY <1>1 DEF NoPlace
  <1>3. QED
    BY <1>1, <1>2 DEF TypeOK

LEMMA NoPlaceNotPlace == NoPlace \notin Place
  BY DraftsAssumption DEF NoPlace

LEMMA StoreLemma ==
  ASSUME TypeOK, storeRoomSettings
  PROVE  mPendingTypedTexts' \in [Place -> Draft]
  <1>1. Empty \in Draft
    BY DEF Empty, Draft
  <1>2. QED
    BY <1>1 DEF TypeOK, storeRoomSettings

LEMMA ClearedLemma ==
  ASSUME NEW l \in Draft
  PROVE  setQuoteMessage([l EXCEPT !.thread = "none"], "none") = Empty
  <1> DEFINE c == setQuoteMessage([l EXCEPT !.thread = "none"], "none")
  <1>1. c \in [text : {"none"}, editing : {"none"}, quote : {"none"}, thread : {"none"}]
    BY DEF setQuoteMessage, clearMessageIdBeingEdited, Draft
  <1> HIDE DEF c
  <1>2. c = [text |-> "none", editing |-> "none", quote |-> "none", thread |-> "none"]
    BY <1>1
  <1>3. QED
    BY <1>2 DEF Empty, c

LEMMA SelectLemma ==
  ASSUME TypeOK, storeRoomSettings, NEW a \in Account, NEW room,
         <<a, room>> \in Place, setChannelSelected(a, room)
  PROVE  /\ room \in RoomId /\ room # "none"
         /\ mRoomId' = room /\ lineRoomId' = room
         /\ line' = mPendingTypedTexts'[<<a, room>>]
         /\ quoteShown' \in Message \cup {"none"}
  <1> DEFINE stored == mPendingTypedTexts'[<<a, room>>]
  <1>1. stored \in Draft
    BY StoreLemma
  <1>2. room \in RoomId /\ room # "none"
    BY DraftsAssumption
  <1>3. mRoomId' = room /\ lineRoomId' = room /\ quoteShown' = stored.quote
    BY DEF setChannelSelected
  <1>4. line' = stored
    <2>1. CASE stored = Empty
      BY <2>1, ClearedLemma DEF setChannelSelected, TypeOK
    <2>2. CASE stored # Empty
      BY <1>1, <2>2 DEF setChannelSelected, setQuoteMessage, clearMessageIdBeingEdited, TypeOK, Draft
    <2>3. QED
      BY <2>1, <2>2
  <1>5. stored.quote \in Message \cup {"none"}
    BY <1>1 DEF Draft
  <1>6. QED
    BY <1>2, <1>3, <1>4, <1>5
-----------------------------------------------------------------------------
LEMMA SelectStep ==
  ASSUME IInv, NEW room \in RoomId, selectChannelRoom(room)
  PROVE  Switching /\ RestTyped' /\ sent' = NoRequest
  <1>1. account \in Account
    BY DEF IInv, TypeOK
  <1>2. TypeOK /\ <<account, room>> \in Place
    BY DEF IInv, selectChannelRoom
  <1>3. /\ mRoomId' = room /\ lineRoomId' = room /\ room # "none"
        /\ line' = mPendingTypedTexts'[<<account, room>>]
        /\ quoteShown' \in Message \cup {"none"}
    BY <1>1, <1>2, SelectLemma DEF selectChannelRoom
  <1>4. Switching
    BY <1>1, <1>2, <1>3 DEF Switching, selectChannelRoom
  <1>5. lastSelectedRoom' \in [Account -> RoomId \cup {"none"}]
    BY <1>1 DEF selectChannelRoom, IInv, TypeOK
  <1>6. RestTyped'
    BY <1>2, <1>3, <1>5 DEF RestTyped, selectChannelRoom, TypeOK
  <1>7. QED
    BY <1>4, <1>6 DEF selectChannelRoom

LEMMA InitializedStep ==
  ASSUME IInv, accountInitialized
  PROVE  (Switching \/ Elsewhere) /\ RestTyped' /\ sent' = NoRequest
  <1>1. TypeOK /\ account \in Account
    BY DEF IInv, TypeOK
  <1>2. listed' \subseteq Account
    BY <1>1 DEF accountInitialized, TypeOK
  <1>3. CASE /\ <<account, lastSelectedRoom[account]>> \in Place
             /\ storeRoomSettings
             /\ setChannelSelected(account, lastSelectedRoom[account])
    <2> DEFINE room == lastSelectedRoom[account]
    <2>1. /\ mRoomId' = room /\ lineRoomId' = room /\ room # "none"
          /\ line' = mPendingTypedTexts'[<<account, room>>]
          /\ quoteShown' \in Message \cup {"none"}
      BY <1>1, <1>3, SelectLemma
    <2>2. Switching
      BY <1>1, <1>3, <2>1 DEF Switching, accountInitialized
    <2>3. RestTyped'
      BY <1>1, <1>2, <2>1 DEF RestTyped, accountInitialized, TypeOK
    <2>4. QED
      BY <2>2, <2>3 DEF accountInitialized
  <1>4. CASE UNCHANGED <<mRoomId, lineRoomId, line, quoteShown, mPendingTypedTexts>>
    <2>1. Elsewhere
      BY <1>1, <1>4 DEF Elsewhere, accountInitialized, window, TypeOK
    <2>2. RestTyped'
      BY <1>1, <1>2, <1>4 DEF RestTyped, accountInitialized, TypeOK
    <2>3. QED
      BY <2>1, <2>2 DEF accountInitialized
  <1>5. QED
    BY <1>3, <1>4 DEF accountInitialized

LEMMA OtherStep ==
  ASSUME IInv, NEW a \in Account, OtherInitialized(a)
  PROVE  Elsewhere /\ RestTyped' /\ sent' = NoRequest
  <1>1. Elsewhere
    BY DEF IInv, TypeOK, OtherInitialized, Elsewhere, window
  <1>2. RestTyped'
    BY DEF IInv, TypeOK, OtherInitialized, RestTyped
  <1>3. QED
    BY <1>1, <1>2 DEF OtherInitialized

LEMMA AccountStep ==
  ASSUME IInv, NEW a \in Account, setCurrentRocketChatAccount(a)
  PROVE  Switching /\ RestTyped' /\ sent' = NoRequest
  <1> DEFINE room == lastSelectedRoom[a]
  <1>1. TypeOK
    BY DEF IInv
  <1>2. lastSelectedRoom' \in [Account -> RoomId \cup {"none"}]
    BY <1>1 DEF setCurrentRocketChatAccount, TypeOK
  <1>3. CASE a \in listed /\ <<a, room>> \in Place
    <2>1. storeRoomSettings /\ setChannelSelected(a, room)
      BY <1>3 DEF setCurrentRocketChatAccount
    <2>2. /\ mRoomId' = room /\ lineRoomId' = room /\ room # "none"
          /\ line' = mPendingTypedTexts'[<<a, room>>]
          /\ quoteShown' \in Message \cup {"none"}
      BY <1>1, <1>3, <2>1, SelectLemma
    <2>3. Switching
      BY <1>3, <2>1, <2>2 DEF Switching, setCurrentRocketChatAccount
    <2>4. RestTyped'
      BY <1>1, <1>2, <2>2 DEF RestTyped, setCurrentRocketChatAccount, TypeOK
    <2>5. QED
      BY <2>3, <2>4 DEF setCurrentRocketChatAccount
  <1>4. CASE ~(a \in listed /\ <<a, room>> \in Place)
    <2>1. mRoomId' = "none" /\ UNCHANGED <<lineRoomId, line, quoteShown>>
      BY <1>4 DEF setCurrentRocketChatAccount
    <2>2. Switching
      BY <2>1 DEF Switching, setCurrentRocketChatAccount
    <2>3. RestTyped'
      BY <1>1, <1>2, <2>1 DEF RestTyped, setCurrentRocketChatAccount, TypeOK
    <2>4. QED
      BY <2>2, <2>3 DEF setCurrentRocketChatAccount
  <1>5. QED
    BY <1>3, <1>4

LEMMA AnswerStep ==
  ASSUME IInv, NEW update \in updates,
         updateMessageDone(update) \/ slotUpdateMessageFailed(update)
  PROVE  (Writing \/ Elsewhere) /\ RestTyped' /\ sent' = NoRequest
  <1>1. update.text \in Text
    BY DEF IInv, TypeOK, Update
  <1>2. line' \in Draft
    BY <1>1 DEF IInv, TypeOK, Draft, updateMessageDone, slotUpdateMessageFailed
  <1>3. Writing \/ Elsewhere
    BY <1>2 DEF Writing, Elsewhere, updateMessageDone, slotUpdateMessageFailed, memory
  <1>4. RestTyped'
    BY DEF IInv, TypeOK, updateMessageDone, slotUpdateMessageFailed, RestTyped, memory
  <1>5. QED
    BY <1>3, <1>4 DEF updateMessageDone, slotUpdateMessageFailed

-----------------------------------------------------------------------------
\* A change of some fields of the line leaves a draft.
LEMMA LineLemma ==
  ASSUME NEW l \in Draft, NEW message \in Message \cup {"none"}, NEW text \in Text \cup {"none"}
  PROVE  /\ clearMessageIdBeingEdited(l) \in Draft
         /\ setQuoteMessage(l, message) \in Draft
         /\ setEditMessage(l, message, text) \in Draft
         /\ [l EXCEPT !.thread = message] \in Draft
         /\ [l EXCEPT !.text = text] \in Draft
         /\ Empty \in Draft
  <1>1. clearMessageIdBeingEdited(l) \in Draft
    BY DEF clearMessageIdBeingEdited, Draft
  <1>2. setQuoteMessage(l, message) \in Draft
    BY <1>1 DEF setQuoteMessage, Draft
  <1>3. setEditMessage(l, message, text) \in Draft
    BY DEF setEditMessage, Draft
  <1>4. [l EXCEPT !.thread = message] \in Draft /\ [l EXCEPT !.text = text] \in Draft
    BY DEF Draft
  <1>5. Empty \in Draft
    BY DEF Empty, Draft
  <1>6. QED
    BY <1>1, <1>2, <1>3, <1>4, <1>5

\* A step in the line is one of Writing if the line stays a draft.
LEMMA InLineLemma ==
  ASSUME IInv, InLine, line' \in Draft,
         quoteShown' \in Message \cup {"none"}, mThreadMessageModel' \in [Account -> SUBSET Message],
         updates' \subseteq Update, crossed' \subseteq Message
  PROVE  Writing /\ RestTyped'
  <1>1. inputs' \in 0..MaxInputs
    BY MaxInputsAssumption DEF InLine, IInv, TypeOK
  <1>2. QED
    BY <1>1 DEF InLine, Writing, RestTyped, IInv, TypeOK, memory

LEMMA WriteStep ==
  ASSUME IInv, NEW text \in Text \cup {"none"}, NEW message \in Message,
         \/ Type(text)
         \/ editMessageRequested(message, text)
         \/ quoteMessageRequested(message)
         \/ replyInThreadRequested(message)
  PROVE  Writing /\ RestTyped' /\ sent' = NoRequest
  <1>1. line' \in Draft
    <2>1. line \in Draft
      BY DEF IInv, TypeOK
    <2>2. /\ setQuoteMessage(line, message) \in Draft /\ setEditMessage(line, message, text) \in Draft
          /\ [line EXCEPT !.thread = message] \in Draft /\ [line EXCEPT !.text = text] \in Draft
      BY <2>1, LineLemma
    <2>3. QED
      BY <2>2 DEF Type, editMessageRequested, quoteMessageRequested, replyInThreadRequested
  <1>2. InLine /\ sent' = NoRequest
    BY DEF Type, editMessageRequested, quoteMessageRequested, replyInThreadRequested
  <1>3. /\ quoteShown' \in Message \cup {"none"}
        /\ UNCHANGED <<mThreadMessageModel, updates, crossed>>
    BY DEF IInv, TypeOK, Type, editMessageRequested, quoteMessageRequested, replyInThreadRequested
  <1>4. QED
    BY <1>1, <1>2, <1>3, InLineLemma DEF IInv, TypeOK

LEMMA ArrowStep ==
  ASSUME IInv, NEW text \in Text \cup {"none"}, NEW message \in Message \cup {"none"},
         AltArrow(message, text)
  PROVE  Writing /\ RestTyped' /\ sent' = NoRequest
  <1>1. line' \in Draft
    BY LineLemma DEF IInv, TypeOK, AltArrow
  <1>2. crossed' \subseteq Message
    BY DEF IInv, TypeOK, AltArrow
  <1>3. InLine /\ sent' = NoRequest /\ UNCHANGED <<quoteShown, mThreadMessageModel, updates>>
    BY DEF AltArrow
  <1>4. QED
    BY <1>1, <1>2, <1>3, InLineLemma DEF IInv, TypeOK

LEMMA ThreadStep ==
  ASSUME IInv, NEW message \in Message, openThread(message)
  PROVE  Writing /\ RestTyped' /\ sent' = NoRequest
  <1>1. mThreadMessageModel' \in [Account -> SUBSET Message]
    BY DEF IInv, TypeOK, openThread
  <1>2. InLine /\ sent' = NoRequest /\ UNCHANGED <<line, quoteShown, updates, crossed>>
    BY DEF openThread
  <1>3. QED
    BY <1>1, <1>2, InLineLemma DEF IInv, TypeOK

LEMMA CancelStep ==
  ASSUME IInv, Escape \/ cancelReplyingInThread \/ cancelQuoteMessage \/ NotSent
  PROVE  Writing /\ RestTyped' /\ sent' = NoRequest
  <1>1. line' \in Draft
    <2>1. line \in Draft
      BY DEF IInv, TypeOK
    <2>2. /\ clearMessageIdBeingEdited(line) \in Draft /\ setQuoteMessage(line, "none") \in Draft
          /\ [line EXCEPT !.thread = "none"] \in Draft /\ [line EXCEPT !.text = "none"] \in Draft
      BY <2>1, LineLemma
    <2>3. QED
      BY <2>2 DEF Escape, cancelReplyingInThread, cancelQuoteMessage, NotSent
  <1>2. InLine /\ sent' = NoRequest /\ UNCHANGED <<mThreadMessageModel, updates, crossed>>
    BY DEF Escape, cancelReplyingInThread, cancelQuoteMessage, NotSent
  <1>3. quoteShown' \in Message \cup {"none"}
    BY DEF IInv, TypeOK, Escape, cancelReplyingInThread, cancelQuoteMessage, NotSent
  <1>4. QED
    BY <1>1, <1>2, <1>3, InLineLemma DEF IInv, TypeOK

\* What is left of the line when it was sent.
LEMMA SentLemma ==
  ASSUME NEW l \in Draft
  PROVE  /\ l.editing = "none" /\ l.quote = "none" =>
              [l EXCEPT !.text = "none"] = [Empty EXCEPT !.thread = l.thread]
         /\ clearMessageIdBeingEdited(l) = [Empty EXCEPT !.thread = l.thread]
         /\ setQuoteMessage(Empty, "none") = [Empty EXCEPT !.thread = "none"]
         /\ Empty = [Empty EXCEPT !.thread = "none"]
  <1> DEFINE Left(l2, t) == l2 \in [text : {"none"}, editing : {"none"}, quote : {"none"}, thread : {t}]
  <1>1. ASSUME NEW l2, NEW t, Left(l2, t)
        PROVE  l2 = [Empty EXCEPT !.thread = t]
    BY <1>1 DEF Empty
  <1>2. l.editing = "none" /\ l.quote = "none" => Left([l EXCEPT !.text = "none"], l.thread)
    BY DEF Draft
  <1>3. Left(clearMessageIdBeingEdited(l), l.thread)
    BY DEF Draft, clearMessageIdBeingEdited
  <1>4. Left(Empty, "none") /\ Left(setQuoteMessage(Empty, "none"), "none")
    BY DEF Empty, clearMessageIdBeingEdited, setQuoteMessage
  <1> HIDE DEF Left
  <1>5. QED
    BY <1>1, <1>2, <1>3, <1>4

LEMMA SendStep ==
  ASSUME IInv, sendMessage \/ runCommand \/ updateMessage
  PROVE  /\ \E kind \in {"post", "update", "command"} :
              Sending(kind) /\ (kind = "update" <=> line.editing # "none")
         /\ line' \in {[Empty EXCEPT !.thread = thread] : thread \in {"none", line.thread}}
         /\ RestTyped' /\ sent' \in Request
  <1>1. line \in Draft /\ line.text \in Text \cup {"none"}
    BY DEF IInv, TypeOK, Draft
  <1>2. line' \in {[Empty EXCEPT !.thread = thread] : thread \in {"none", line.thread}}
    BY <1>1, SentLemma DEF sendMessage, runCommand, updateMessage
  <1>3. line' \in Draft
    <2>1. Empty \in Draft /\ line.thread \in Message
              \cup {"none"}
      BY <1>1, LineLemma DEF Draft
    <2>2. [Empty EXCEPT !.thread = line.thread] \in Draft /\ [Empty EXCEPT !.thread = "none"] \in Draft
      BY <2>1 DEF Draft
    <2>3. QED
      BY <1>2, <2>2
  <1>4. InLine /\ UNCHANGED <<mThreadMessageModel, crossed>>
    BY DEF sendMessage, runCommand, updateMessage
  <1>5. quoteShown' \in Message \cup {"none"}
    BY DEF IInv, TypeOK, sendMessage, runCommand, updateMessage
  <1>6. updates' \subseteq Update
    BY <1>1 DEF IInv, TypeOK, Update, sendMessage, runCommand, updateMessage
  <1>7. Writing /\ RestTyped'
    BY <1>3, <1>4, <1>5, <1>6, InLineLemma DEF IInv, TypeOK
  <1>8. \E kind \in {"post", "update", "command"} :
           Sending(kind) /\ (kind = "update" <=> line.editing # "none")
    BY <1>7 DEF Sending, sendMessage, runCommand, updateMessage, Ask
  <1>9. sent' \in Request
    BY <1>1, <1>8 DEF Sending, Request, IInv, TypeOK
  <1>10. QED
    BY <1>2, <1>7, <1>8, <1>9

LEMMA FileStep ==
  ASSUME IInv, sendFile
  PROVE  /\ Sending("file")
         /\ FileSent
         /\ RestTyped' /\ sent' \in Request
  <1>1. line \in Draft /\ line.thread \in Message \cup {"none"}
    BY DEF IInv, TypeOK, Draft
  <1>2. line' \in Draft
    <2>1. [line EXCEPT !.thread = line.thread] \in Draft /\ [line EXCEPT !.thread = "none"] \in Draft
      BY <1>1, LineLemma
    <2>2. [line EXCEPT !.text = "none"] \in Draft
      BY <1>1, LineLemma
    <2>3. QED
      BY <2>1, <2>2 DEF sendFile
  <1>3. Writing /\ RestTyped'
    BY <1>2, InLineLemma DEF sendFile, IInv, TypeOK
  <1>4. Sending("file")
    BY <1>3 DEF Sending, sendFile, Ask
  <1>5. sent' \in Request
    BY <1>1, <1>4 DEF Sending, Request, IInv, TypeOK
  <1>6. QED
    BY <1>3, <1>4, <1>5 DEF sendFile, FileSent

-----------------------------------------------------------------------------
\* Every step, as what it does to the drafts.
StepShape ==
  \/ /\ Writing \/ Switching \/ Elsewhere
     /\ sent' = NoRequest
  \/ /\ \E kind \in {"post", "update", "command"} :
          Sending(kind) /\ (kind = "update" <=> line.editing # "none")
     /\ line' \in {[Empty EXCEPT !.thread = thread] : thread \in {"none", line.thread}}
     /\ sent' \in Request
  \/ /\ Sending("file")
     /\ FileSent
     /\ sent' \in Request

LEMMA ShapeLemma ==
  ASSUME IInv, Next
  PROVE  StepShape /\ RestTyped'
  <1>1. CASE \E room \in RoomId : selectChannelRoom(room)
    BY <1>1, SelectStep DEF StepShape
  <1>2. CASE accountInitialized
    BY <1>2, InitializedStep DEF StepShape
  <1>3. CASE \E a \in Account : OtherInitialized(a) \/ setCurrentRocketChatAccount(a)
    BY <1>3, OtherStep, AccountStep DEF StepShape
  <1>4. CASE \E text \in Text \cup {"none"} : Type(text)
    <2>1. PICK text \in Text \cup {"none"} : Type(text)
      BY <1>4
    <2>2. line' \in Draft
      BY <2>1, LineLemma DEF IInv, TypeOK, Type
    <2>3. Writing /\ RestTyped' /\ sent' = NoRequest
      BY <2>1, <2>2, InLineLemma DEF IInv, TypeOK, Type
    <2>4. QED
      BY <2>3 DEF StepShape
  <1>5. CASE \E message \in Message :
                \/ \E text \in Text \cup {"none"} : editMessageRequested(message, text)
                \/ quoteMessageRequested(message)
                \/ replyInThreadRequested(message)
                \/ openThread(message)
    <2>1. PICK message \in Message :
                \/ \E text \in Text \cup {"none"} : editMessageRequested(message, text)
                \/ quoteMessageRequested(message)
                \/ replyInThreadRequested(message)
                \/ openThread(message)
      BY <1>5
    <2>2. PICK text \in Text \cup {"none"} :
                \/ editMessageRequested(message, text)
                \/ quoteMessageRequested(message)
                \/ replyInThreadRequested(message)
                \/ openThread(message)
      BY <2>1
    <2>3. QED
      BY <2>2, WriteStep, ThreadStep DEF StepShape
  <1>6. CASE \E message \in Message \cup {"none"}, text \in Text \cup {"none"} : AltArrow(message, text)
    BY <1>6, ArrowStep DEF StepShape
  <1>7. CASE Escape \/ cancelReplyingInThread \/ cancelQuoteMessage \/ NotSent
    BY <1>7, CancelStep DEF StepShape
  <1>8. CASE sendMessage \/ runCommand \/ updateMessage
    BY <1>8, SendStep DEF StepShape
  <1>9. CASE sendFile
    BY <1>9, FileStep DEF StepShape
  <1>10. CASE \E update \in updates : updateMessageDone(update) \/ slotUpdateMessageFailed(update)
    BY <1>10, AnswerStep DEF StepShape
  <1>11. QED
    BY <1>1, <1>2, <1>3, <1>4, <1>5, <1>6, <1>7, <1>8, <1>9, <1>10 DEF Next

LEMMA InitLemma == Init => IInv
  <1> SUFFICES ASSUME Init
               PROVE  IInv
    OBVIOUS
  <1>1. Empty \in Draft
    BY DEF Empty, Draft
  <1>2. 0 \in 0..MaxInputs
    BY MaxInputsAssumption
  <1>3. shown = NoPlace
    BY DEF Init, shown
  <1>4. QED
    BY <1>1, <1>2, <1>3 DEF Init, IInv, TypeOK, LineSendsToShown

\* The types, step by step: a switch shows a room that there is, or none.
LEMMA StepLemma ==
  ASSUME IInv, [Next]_vars
  PROVE  IInv'
  <1>1. CASE UNCHANGED vars
    BY <1>1 DEF IInv, TypeOK, LineSendsToShown, vars, window, memory, shown
  <1>2. CASE Next
    <2>1. StepShape /\ RestTyped'
      BY <1>2, ShapeLemma
    <2>2. sent' \in Request \cup {NoRequest}
      BY <2>1 DEF StepShape
    <2>3. CASE Switching
      <3>1. mPendingTypedTexts' \in [Place -> Draft]
        BY <2>3, StoreLemma DEF Switching, IInv
      <3>2. CASE /\ <<account', mRoomId'>> \in Place
                 /\ mRoomId' # "none"
                 /\ lineRoomId' = mRoomId'
                 /\ line' = mPendingTypedTexts'[<<account', mRoomId'>>]
        <4>1. mRoomId' \in RoomId /\ account' \in Account
          BY <3>2, DraftsAssumption
        <4>2. shown' \in Place
          BY <3>2 DEF shown
        <4>3. line' \in Draft
          BY <3>1, <3>2
        <4>4. QED
          BY <2>1, <2>2, <3>1, <3>2, <4>1, <4>2, <4>3 DEF IInv, TypeOK, LineSendsToShown, RestTyped
      <3>3. CASE mRoomId' = "none" /\ UNCHANGED <<lineRoomId, line>>
        <4>1. shown' = NoPlace
          BY <3>3 DEF shown
        <4>2. QED
          BY <2>1, <2>2, <2>3, <3>1, <3>3, <4>1 DEF IInv, TypeOK, LineSendsToShown, RestTyped, Switching
      <3>4. QED
        BY <2>3, <3>2, <3>3 DEF Switching
    <2>4. CASE Writing \/ Elsewhere
      <3>1. UNCHANGED <<window, mPendingTypedTexts>> /\ line' \in Draft
        BY <2>4 DEF Writing, Elsewhere, memory
      <3>2. shown' = shown
        BY <3>1 DEF shown, window
      <3>3. QED
        BY <2>1, <2>2, <3>1, <3>2 DEF IInv, TypeOK, LineSendsToShown, RestTyped, window
    <2>5. QED
      BY <2>1, <2>3, <2>4 DEF StepShape, Sending
  <1>3. QED
    BY <1>1, <1>2

THEOREM Invariance == Spec => []IInv
  <1>1. Init => IInv
    BY InitLemma
  <1>2. IInv /\ [Next]_vars => IInv'
    BY StepLemma
  <1>3. QED
    BY <1>1, <1>2, PTL DEF Spec

\* The variables of MessageLine have their types: what is shown is a room that
\* there is, whatever is selected while accounts are switched.
THEOREM TypeCorrect == Spec => []TypeOK
  <1>1. IInv => TypeOK
    BY DEF IInv
  <1>2. QED
    BY <1>1, Invariance, PTL

-----------------------------------------------------------------------------
LEMMA DraftsTyped ==
  ASSUME TypeOK
  PROVE  drafts \in [Place -> Draft]
  BY DEF TypeOK, drafts

LEMMA WritingDrafts ==
  ASSUME IInv, Writing
  PROVE  /\ shown \in Place /\ shown' = shown
         /\ drafts[shown] = line /\ drafts'[shown] = line'
         /\ \A place \in Place \ {shown} : drafts'[place] = drafts[place]
         /\ shown = <<account, lineRoomId>>
  <1>1. shown \in Place /\ shown = <<account, mRoomId>>
    BY ShownPlace DEF IInv, Writing
  <1>2. shown' = shown
    BY DEF Writing, window, shown
  <1>3. mPendingTypedTexts' = mPendingTypedTexts
    BY DEF Writing, memory
  <1>4. drafts[shown] = line
    BY <1>1 DEF drafts
  <1>5. drafts'[shown] = line'
    BY <1>1, <1>2 DEF drafts
  <1>6. \A place \in Place \ {shown} : drafts'[place] = drafts[place]
    BY <1>2, <1>3 DEF drafts
  <1>7. lineRoomId = mRoomId
    BY DEF IInv, LineSendsToShown, Writing
  <1>8. QED
    BY <1>1, <1>2, <1>4, <1>5, <1>6, <1>7

LEMMA SwitchingDrafts ==
  ASSUME IInv, Switching
  PROVE  /\ shown' \in Place \cup {NoPlace}
         /\ drafts' = [place \in Place |->
                IF place = shown /\ drafts[place].text = "none" THEN Empty ELSE drafts[place]]
  <1>1. mPendingTypedTexts' = [place \in Place |->
           IF place = shown THEN (IF line.text = "none" THEN Empty ELSE line) ELSE mPendingTypedTexts[place]]
    BY DEF Switching, storeRoomSettings
  <1>2. mPendingTypedTexts' = [place \in Place |->
           IF place = shown /\ drafts[place].text = "none" THEN Empty ELSE drafts[place]]
    BY <1>1 DEF drafts
  <1>3. /\ shown' \in Place \cup {NoPlace}
        /\ \A place \in Place : place = shown' => line' = mPendingTypedTexts'[place]
    BY NoPlaceNotPlace DEF Switching, shown
  <1>4. drafts' = [place \in Place |-> mPendingTypedTexts'[place]]
    BY <1>3 DEF drafts
  <1>5. drafts' = mPendingTypedTexts'
    BY <1>1, <1>4
  <1>6. QED
    BY <1>2, <1>3, <1>5

LEMMA ElsewhereDrafts ==
  ASSUME IInv, Elsewhere
  PROVE  shown' = shown /\ drafts' = drafts
  <1>1. shown' = shown /\ mPendingTypedTexts' = mPendingTypedTexts
    BY DEF Elsewhere, window, shown
  <1>2. CASE mRoomId = "none"
    <2>1. shown \notin Place
      BY <1>2, NoPlaceNotPlace DEF shown
    <2>2. QED
      BY <1>1, <2>1 DEF drafts
  <1>3. CASE mRoomId # "none"
    BY <1>1, <1>3 DEF drafts, Elsewhere
  <1>4. QED
    BY <1>1, <1>2, <1>3

\* RoomDrafts takes its drafts and requests from the same module.
LEMMA SameDrafts ==
  /\ RD!Draft = Draft /\ RD!Empty = Empty
  /\ RD!NoPlace = NoPlace /\ RD!NoRequest = NoRequest
  BY DEF RD!Draft, Draft, RD!Empty, Empty, RD!NoPlace, NoPlace, RD!NoRequest, NoRequest

LEMMA InitRefines == Init => RD!Init
  <1> SUFFICES ASSUME Init
               PROVE  RD!Init
    OBVIOUS
  <1>1. shown = NoPlace /\ sent = NoRequest
    BY DEF Init, shown
  <1>2. drafts = [place \in Place |-> Empty]
    BY <1>1, NoPlaceNotPlace DEF Init, drafts
  <1>3. QED
    BY <1>1, <1>2, SameDrafts DEF RD!Init

LEMMA StepRefines ==
  ASSUME IInv, IInv', [Next]_vars
  PROVE  [RD!Next]_(RD!vars)
  <1>1. CASE UNCHANGED vars
    BY <1>1 DEF vars, window, memory, RD!vars, shown, drafts
  <1>2. CASE Next
    <2>1. StepShape
      BY <1>2, ShapeLemma
    <2>2. drafts' \in [Place -> Draft]
      BY DEF IInv, TypeOK, drafts
    <2>3. CASE Writing /\ sent' = NoRequest
      BY <2>2, <2>3, WritingDrafts, SameDrafts DEF RD!Next, RD!Write, RD!OthersKept
    <2>4. CASE Switching /\ sent' = NoRequest
      BY <2>4, SwitchingDrafts, SameDrafts DEF RD!Next, RD!Show
    <2>5. CASE Elsewhere /\ sent' = NoRequest
      <3>1. shown' = shown /\ drafts' = drafts
        BY <2>5, ElsewhereDrafts
      <3>2. CASE shown \in Place
        BY <2>2, <2>5, <3>1, <3>2, SameDrafts DEF RD!Next, RD!Write, RD!OthersKept
      <3>3. CASE shown \notin Place
        <4>1. shown' = NoPlace
          BY <3>1, <3>3 DEF IInv, TypeOK
        <4>2. drafts' = [place \in Place |->
                 IF place = shown /\ drafts[place].text = "none" THEN Empty ELSE drafts[place]]
          BY <2>2, <3>1, <3>3
        <4>3. QED
          BY <2>5, <4>1, <4>2, SameDrafts DEF RD!Next, RD!Show
      <3>4. QED
        BY <3>2, <3>3
    <2>6. CASE /\ \E kind \in {"post", "update", "command"} :
                    Sending(kind) /\ (kind = "update" <=> line.editing # "none")
               /\ line' \in {[Empty EXCEPT !.thread = thread] : thread \in {"none", line.thread}}
      <3>1. PICK kind \in {"post", "update", "command"} :
               Sending(kind) /\ (kind = "update" <=> line.editing # "none")
        BY <2>6
      <3>2. Writing
        BY <3>1 DEF Sending
      <3>3. shown[1] = account /\ shown[2] = lineRoomId
        BY <3>2, WritingDrafts
      <3>4. sent' = [kind |-> kind, account |-> shown[1], roomId |-> shown[2], draft |-> drafts[shown]]
        BY <3>1, <3>2, <3>3, WritingDrafts DEF Sending
      <3>5. kind = "update" <=> drafts[shown].editing # "none"
        BY <3>1, <3>2, WritingDrafts
      <3>6. drafts'[shown] \in {[Empty EXCEPT !.thread = thread] : thread \in {"none", drafts[shown].thread}}
        BY <2>6, <3>2, WritingDrafts
      <3>7. RD!Send
        BY <2>2, <3>2, <3>4, <3>5, <3>6, WritingDrafts, SameDrafts DEF RD!Send, RD!OthersKept
      <3>8. QED
        BY <3>7 DEF RD!Next
    <2>7. CASE /\ Sending("file")
               /\ FileSent
      <3>1. Writing
        BY <2>7 DEF Sending
      <3>2. shown[1] = account /\ shown[2] = lineRoomId
        BY <3>1, WritingDrafts
      <3>3. sent' = [kind |-> "file", account |-> shown[1], roomId |-> shown[2], draft |-> drafts[shown]]
        BY <2>7, <3>1, <3>2, WritingDrafts DEF Sending
      <3>4. CASE line' = [line EXCEPT !.text = "none"]
        <4>1. drafts' = [drafts EXCEPT ![shown].text = "none"]
          BY <2>2, <3>1, <3>4, WritingDrafts, DraftsTyped DEF IInv
        <4>2. RD!SendFile
          BY <3>1, <3>3, <4>1, WritingDrafts DEF RD!SendFile
        <4>3. QED
          BY <4>2 DEF RD!Next
      <3>5. CASE \E thread \in {line.thread, "none"} : line' = [line EXCEPT !.thread = thread]
        <4>1. PICK thread \in {line.thread, "none"} : line' = [line EXCEPT !.thread = thread]
          BY <3>5
        <4>2. drafts' = [drafts EXCEPT ![shown].thread = thread]
          BY <2>2, <3>1, <4>1, WritingDrafts, DraftsTyped DEF IInv
        <4>3. RD!SendFile
          BY <3>1, <3>3, <4>1, <4>2, WritingDrafts DEF RD!SendFile
        <4>4. QED
          BY <4>3 DEF RD!Next
      <3>6. QED
        BY <2>7, <3>4, <3>5 DEF FileSent
    <2>8. QED
      BY <2>1, <2>3, <2>4, <2>5, <2>6, <2>7 DEF StepShape
  <1>3. QED
    BY <1>1, <1>2

\* The line, stored and restored as rooms and accounts are switched, behaves as a
\* draft for each room: what is sent goes to the room shown, as it was written
\* there, and the drafts of other rooms stay as they are.
THEOREM DraftsImplemented == Spec => Implements
  <1>1. Init => RD!Init
    BY InitRefines
  <1>2. IInv /\ IInv' /\ [Next]_vars => [RD!Next]_(RD!vars)
    BY StepRefines
  <1>3. QED
    BY <1>1, <1>2, Invariance, PTL DEF Spec, Implements, RD!Spec

-----------------------------------------------------------------------------
\* A draft is about messages of a place, or edits one of those that were crossed.
About(draft, place, over) ==
  /\ draft.editing # "none" => PlaceOf[draft.editing] = place \/ draft.editing \in over
  /\ draft.quote # "none" => PlaceOf[draft.quote] = place
  /\ draft.thread # "none" => PlaceOf[draft.thread] = place

\* What the user takes for the line is of the room that is shown: the line sends
\* to this room, so that its messages are those of the room's model.
LEMMA TakenLemma ==
  ASSUME IInv, Next, Writing, About(line, shown, crossed)
  PROVE  About(line', shown, crossed') /\ crossed \subseteq crossed'
  <1>1. line \in Draft /\ shown = <<account, lineRoomId>>
    BY WritingDrafts DEF IInv, TypeOK
  <1>2. CASE \E room \in RoomId : selectChannelRoom(room)
    <2>1. PICK room \in RoomId : selectChannelRoom(room)
      BY <1>2
    <2>2. Switching
      BY <2>1, SelectStep
    <2>3. UNCHANGED shown /\ UNCHANGED crossed
      BY <2>1 DEF Writing, window, shown, selectChannelRoom
    <2>4. line' = drafts'[shown]
      BY <2>3, WritingDrafts
    <2>5. line' = (IF line.text = "none" THEN Empty ELSE line)
      BY <2>2, <2>4, SwitchingDrafts, WritingDrafts
    <2>6. About(Empty, shown, crossed)
      BY DEF About, Empty
    <2>7. QED
      BY <2>3, <2>5, <2>6 DEF About
  <1>3. CASE accountInitialized
    <2>1. UNCHANGED shown /\ UNCHANGED crossed
      BY <1>3 DEF Writing, window, shown, accountInitialized
    <2>2. About(Empty, shown, crossed)
      BY DEF About, Empty
    <2>3. CASE Switching
      <3>1. line' = (IF line.text = "none" THEN Empty ELSE line)
        BY <2>1, <2>3, SwitchingDrafts, WritingDrafts
      <3>2. QED
        BY <2>1, <2>2, <3>1 DEF About
    <2>4. CASE Elsewhere
      BY <2>1, <2>4 DEF Elsewhere, Writing, About
    <2>5. QED
      BY <1>3, <2>3, <2>4, InitializedStep
  <1>4. CASE \E a \in Account : OtherInitialized(a) \/ setCurrentRocketChatAccount(a)
    <2>1. PICK a \in Account : OtherInitialized(a) \/ setCurrentRocketChatAccount(a)
      BY <1>4
    <2>2. OtherInitialized(a)
      BY <2>1 DEF setCurrentRocketChatAccount, Writing, window
    <2>3. QED
      BY <2>2 DEF OtherInitialized, About
  <1>5. CASE \E text \in Text \cup {"none"} : Type(text)
    BY <1>1, <1>5 DEF Type, About, Draft
  <1>6. CASE \E message \in Message :
                \/ \E text \in Text \cup {"none"} : editMessageRequested(message, text)
                \/ quoteMessageRequested(message)
                \/ replyInThreadRequested(message)
                \/ openThread(message)
    <2>1. PICK message \in Message :
                \/ \E text \in Text \cup {"none"} : editMessageRequested(message, text)
                \/ quoteMessageRequested(message)
                \/ replyInThreadRequested(message)
                \/ openThread(message)
      BY <1>6
    <2>2. CASE \E text \in Text \cup {"none"} : editMessageRequested(message, text)
      BY <1>1, <2>2 DEF editMessageRequested, setEditMessage, About, Draft
    <2>3. CASE quoteMessageRequested(message)
      BY <1>1, <2>3 DEF quoteMessageRequested, setQuoteMessage, clearMessageIdBeingEdited, About, Draft
    <2>4. CASE replyInThreadRequested(message)
      BY <1>1, <2>4 DEF replyInThreadRequested, About, Draft
    <2>5. CASE openThread(message)
      BY <2>5 DEF openThread, About
    <2>6. QED
      BY <2>1, <2>2, <2>3, <2>4, <2>5
  <1>7. CASE \E message \in Message \cup {"none"}, text \in Text \cup {"none"} : AltArrow(message, text)
    <2>1. PICK message \in Message \cup {"none"}, text \in Text \cup {"none"} : AltArrow(message, text)
      BY <1>7
    <2>2. line' = setEditMessage(line, message, text) /\ crossed \subseteq crossed'
      BY <2>1 DEF AltArrow
    <2>3. message # "none" => PlaceOf[message] = shown \/ message \in crossed'
      BY <1>1, <2>1 DEF AltArrow, messageModel
    <2>4. QED
      BY <1>1, <2>2, <2>3 DEF setEditMessage, About, Draft
  <1>8. CASE Escape \/ cancelReplyingInThread \/ cancelQuoteMessage \/ NotSent
    BY <1>1, <1>8 DEF Escape, cancelReplyingInThread, cancelQuoteMessage, NotSent,
                      setQuoteMessage, clearMessageIdBeingEdited, About, Draft
  <1>9. CASE sendMessage \/ runCommand \/ updateMessage
    <2>1. PICK thread \in {"none", line.thread} : line' = [Empty EXCEPT !.thread = thread]
      BY <1>9, SendStep
    <2>2. line'.editing = "none" /\ line'.quote = "none" /\ line'.thread = thread
      BY <2>1 DEF Empty
    <2>3. UNCHANGED crossed
      BY <1>9 DEF sendMessage, runCommand, updateMessage
    <2>4. QED
      BY <2>2, <2>3 DEF About
  <1>10. CASE sendFile
    BY <1>1, <1>10 DEF sendFile, About, Draft
  <1>11. CASE \E update \in updates : updateMessageDone(update) \/ slotUpdateMessageFailed(update)
    BY <1>1, <1>11 DEF updateMessageDone, slotUpdateMessageFailed, About, Draft
  <1>12. QED
    BY <1>2, <1>3, <1>4, <1>5, <1>6, <1>7, <1>8, <1>9, <1>10, <1>11 DEF Next

LEMMA AboutStep ==
  ASSUME IInv, IInv', DraftOfItsRoom, [Next]_vars
  PROVE  DraftOfItsRoom'
  <1> SUFFICES ASSUME NEW place \in Place
               PROVE  About(drafts'[place], place, crossed')
    BY DEF DraftOfItsRoom, About
  <1>1. About(drafts[place], place, crossed)
    BY DEF DraftOfItsRoom, About
  <1>2. CASE UNCHANGED vars
    BY <1>1, <1>2 DEF vars, window, memory, shown, drafts
  <1>3. CASE Next
    <2>1. CASE Writing
      <3>1. shown \in Place /\ drafts[shown] = line
        BY <2>1, WritingDrafts
      <3>2. About(line, shown, crossed)
        BY <3>1 DEF DraftOfItsRoom, About
      <3>3. About(line', shown, crossed') /\ crossed \subseteq crossed'
        BY <1>3, <2>1, <3>2, TakenLemma
      <3>4. CASE place = shown
        BY <2>1, <3>3, <3>4, WritingDrafts
      <3>5. CASE place # shown
        <4>1. drafts'[place] = drafts[place]
          BY <2>1, <3>5, WritingDrafts
        <4>2. QED
          BY <1>1, <3>3, <4>1 DEF About
      <3>6. QED
        BY <3>4, <3>5
    <2>2. CASE ~Writing
      <3>1. Switching \/ Elsewhere
        BY <1>3, <2>2, ShapeLemma DEF StepShape, Sending
      <3>2. crossed \subseteq crossed'
        BY <1>3 DEF Next, selectChannelRoom, accountInitialized, OtherInitialized,
             setCurrentRocketChatAccount, Type, editMessageRequested, quoteMessageRequested,
             replyInThreadRequested, openThread, AltArrow, Escape, cancelReplyingInThread,
             cancelQuoteMessage, sendMessage, runCommand, NotSent, updateMessage, sendFile,
             updateMessageDone, slotUpdateMessageFailed
      <3>3. drafts'[place] = Empty \/ drafts'[place] = drafts[place]
        BY <3>1, SwitchingDrafts, ElsewhereDrafts
      <3>4. About(Empty, place, crossed')
        BY DEF About, Empty
      <3>5. QED
        BY <1>1, <3>2, <3>3, <3>4 DEF About
    <2>3. QED
      BY <2>1, <2>2
  <1>4. QED
    BY <1>2, <1>3

\* What is edited, quoted or answered for a room is a message of the room, after
\* any switching of rooms and accounts, but for edits of an opened thread.
THEOREM DraftsAreOfTheirRooms == Spec => []DraftOfItsRoom
  <1>1. Init => DraftOfItsRoom
    <2>1. Init => \A place \in Place : drafts[place] = Empty
      BY DEF Init, drafts
    <2>2. QED
      BY <2>1 DEF DraftOfItsRoom, Empty
  <1>2. IInv /\ IInv' /\ DraftOfItsRoom /\ [Next]_vars => DraftOfItsRoom'
    BY AboutStep
  <1>3. QED
    BY <1>1, <1>2, Invariance, PTL DEF Spec

-----------------------------------------------------------------------------
\* A switch shows the quote of what it restores.
LEMMA SelectQuote ==
  ASSUME TypeOK, NEW a \in Account, NEW room \in RoomId, <<a, room>> \in Place,
         storeRoomSettings, setChannelSelected(a, room)
  PROVE  /\ line'.quote = quoteShown'
         /\ mRoomId' = room /\ lineRoomId' = room
  <1>1. mPendingTypedTexts'[<<a, room>>] \in Draft
    BY StoreLemma
  <1>2. QED
    BY <1>1 DEF setChannelSelected, setQuoteMessage, clearMessageIdBeingEdited, TypeOK, Draft, Empty

LEMMA QuoteStep ==
  ASSUME IInv, QuoteIsShown, [Next]_vars
  PROVE  QuoteIsShown'
  <1>0. TypeOK /\ line \in Draft /\ account \in Account
    BY DEF IInv, TypeOK
  <1>1. CASE UNCHANGED <<line, quoteShown>>
    BY <1>1 DEF QuoteIsShown
  <1>2. ASSUME NEW room \in RoomId, selectChannelRoom(room) PROVE QuoteIsShown'
    BY <1>0, <1>2, SelectQuote DEF selectChannelRoom, QuoteIsShown
  <1>3. ASSUME accountInitialized PROVE QuoteIsShown'
    <2>1. CASE UNCHANGED <<line, quoteShown>>
      BY <1>1, <2>1
    <2>2. CASE /\ <<account, lastSelectedRoom[account]>> \in Place
               /\ storeRoomSettings
               /\ setChannelSelected(account, lastSelectedRoom[account])
      <3>1. PICK room \in RoomId : room = lastSelectedRoom[account]
        BY <2>2, DraftsAssumption
      <3>2. QED
        BY <1>0, <2>2, <3>1, SelectQuote DEF QuoteIsShown
    <2>3. QED
      BY <1>3, <2>1, <2>2 DEF accountInitialized
  <1>4. ASSUME NEW a \in Account, setCurrentRocketChatAccount(a) PROVE QuoteIsShown'
    <2>1. CASE UNCHANGED <<line, quoteShown>>
      BY <1>1, <2>1
    <2>2. CASE <<a, lastSelectedRoom[a]>> \in Place /\ setChannelSelected(a, lastSelectedRoom[a])
      <3>1. PICK room \in RoomId : room = lastSelectedRoom[a]
        BY <2>2, DraftsAssumption
      <3>2. QED
        BY <1>0, <1>4, <2>2, <3>1, SelectQuote DEF setCurrentRocketChatAccount, QuoteIsShown
    <2>3. QED
      BY <1>4, <2>1, <2>2 DEF setCurrentRocketChatAccount
  <1>5. ASSUME UNCHANGED quoteShown, line'.quote \in {line.quote, "none"} PROVE QuoteIsShown'
    BY <1>5 DEF QuoteIsShown
  <1>6. ASSUME line'.quote = quoteShown' PROVE QuoteIsShown'
    BY <1>6 DEF QuoteIsShown
  <1>7. ASSUME NEW a \in Account, OtherInitialized(a) PROVE QuoteIsShown'
    BY <1>1, <1>7 DEF OtherInitialized
  <1>8. ASSUME NEW message, NEW text, \/ editMessageRequested(message, text) \/ AltArrow(message, text)
                                      \/ Type(text) \/ replyInThreadRequested(message) \/ openThread(message)
        PROVE  QuoteIsShown'
    BY <1>0, <1>5, <1>8
    DEF editMessageRequested, AltArrow, Type, replyInThreadRequested, openThread, setEditMessage, Draft
  <1>9. ASSUME NEW message \in Message, quoteMessageRequested(message) PROVE QuoteIsShown'
    BY <1>0, <1>6, <1>9
    DEF quoteMessageRequested, setQuoteMessage, clearMessageIdBeingEdited, Draft
  <1>10. ASSUME Escape \/ cancelReplyingInThread \/ cancelQuoteMessage PROVE QuoteIsShown'
    BY <1>0, <1>5, <1>6, <1>10
    DEF Escape, cancelReplyingInThread, cancelQuoteMessage, setQuoteMessage, clearMessageIdBeingEdited, Draft
  <1>11. ASSUME sendMessage \/ runCommand \/ NotSent \/ updateMessage \/ sendFile PROVE QuoteIsShown'
    <2>1. CASE sendMessage
      <3>1. setQuoteMessage(Empty, "none").quote = "none" /\ Empty.quote = "none"
        BY DEF setQuoteMessage, clearMessageIdBeingEdited, Empty
      <3>2. QED
        BY <2>1, <3>1 DEF sendMessage, QuoteIsShown
    <2>2. CASE runCommand \/ NotSent \/ updateMessage
      BY <1>0, <1>5, <2>2 DEF runCommand, NotSent, updateMessage, clearMessageIdBeingEdited, Draft
    <2>3. CASE sendFile
      BY <1>0, <1>5, <2>3 DEF sendFile, Draft
    <2>4. QED
      BY <1>11, <2>1, <2>2, <2>3
  <1>12. ASSUME NEW update, updateMessageDone(update) \/ slotUpdateMessageFailed(update) PROVE QuoteIsShown'
    BY <1>0, <1>5, <1>12 DEF updateMessageDone, slotUpdateMessageFailed, Draft
  <1>13. CASE UNCHANGED vars
    BY <1>1, <1>13 DEF vars
  <1>14. QED
    BY <1>2, <1>3, <1>4, <1>7, <1>8, <1>9, <1>10, <1>11, <1>12, <1>13 DEF Next

\* The message that will be quoted is shown as quoted, after any switching.
THEOREM QuotesAreShown == Spec => []QuoteIsShown
  <1>1. Init => QuoteIsShown
    BY DEF Init, QuoteIsShown, Empty
  <1>2. IInv /\ QuoteIsShown /\ [Next]_vars => QuoteIsShown'
    BY QuoteStep
  <1>3. QED
    BY <1>1, <1>2, Invariance, PTL DEF Spec

-----------------------------------------------------------------------------
LEMMA LastRoomStep ==
  ASSUME IInv, LastRoomIsShown, [Next]_vars
  PROVE  LastRoomIsShown'
  <1>0. /\ TypeOK /\ LineSendsToShown /\ account \in Account
        /\ lastSelectedRoom \in [Account -> RoomId \cup {"none"}]
    BY DEF IInv, TypeOK
  <1>1. ASSUME UNCHANGED <<window, memory>> PROVE LastRoomIsShown'
    BY <1>1 DEF LastRoomIsShown, window, memory
  <1>2. ASSUME NEW room \in RoomId, selectChannelRoom(room) PROVE LastRoomIsShown'
    <2>1. mRoomId' = room /\ lineRoomId' = room
      BY <1>2 DEF selectChannelRoom, setChannelSelected
    <2>2. CASE mRoomId = room
      BY <1>0, <1>2, <2>1, <2>2 DEF selectChannelRoom, LastRoomIsShown
    <2>3. CASE mRoomId # room
      BY <1>0, <1>2, <2>1, <2>3 DEF selectChannelRoom, LastRoomIsShown
    <2>4. QED
      BY <2>2, <2>3
  <1>3. ASSUME accountInitialized PROVE LastRoomIsShown'
    <2>1. "none" \notin RoomId /\ Place \subseteq Account \X RoomId
      BY DraftsAssumption
    <2>2. QED
      BY <1>0, <1>3, <2>1 DEF accountInitialized, setChannelSelected, LastRoomIsShown, LineSendsToShown
  <1>4. ASSUME NEW a \in Account, setCurrentRocketChatAccount(a) PROVE LastRoomIsShown'
    <2>1. lastSelectedRoom'[a] = lastSelectedRoom[a] /\ account' = a /\ UNCHANGED listed
      BY <1>0, <1>4 DEF setCurrentRocketChatAccount
    <2>2. QED
      BY <1>4, <2>1 DEF setCurrentRocketChatAccount, setChannelSelected, LastRoomIsShown
  <1>5. ASSUME NEW a \in Account, OtherInitialized(a) PROVE LastRoomIsShown'
    BY <1>5 DEF OtherInitialized, LastRoomIsShown, window
  <1>6. ASSUME InLine PROVE LastRoomIsShown'
    BY <1>1, <1>6 DEF InLine
  <1>7. ASSUME NEW update, updateMessageDone(update) \/ slotUpdateMessageFailed(update) PROVE LastRoomIsShown'
    BY <1>1, <1>7 DEF updateMessageDone, slotUpdateMessageFailed
  <1>8. CASE UNCHANGED vars
    BY <1>1, <1>8 DEF vars
  <1>9. Next => \/ InLine
                \/ \E room \in RoomId : selectChannelRoom(room)
                \/ accountInitialized
                \/ \E a \in Account : OtherInitialized(a) \/ setCurrentRocketChatAccount(a)
                \/ \E update \in updates : updateMessageDone(update) \/ slotUpdateMessageFailed(update)
    BY Zenon DEF Next, Type, editMessageRequested, quoteMessageRequested, replyInThreadRequested, openThread,
       AltArrow, Escape, cancelReplyingInThread, cancelQuoteMessage, sendMessage, runCommand, NotSent,
       updateMessage, sendFile
  <1>10. QED
    BY <1>2, <1>3, <1>4, <1>5, <1>6, <1>7, <1>8, <1>9

\* Each account shows the room that was selected last in it, in whatever order
\* accounts are switched and their rooms come in.
THEOREM LastRoomsAreShown == Spec => []LastRoomIsShown
  <1>1. Init => LastRoomIsShown
    BY DEF Init, LastRoomIsShown
  <1>2. IInv /\ LastRoomIsShown /\ [Next]_vars => LastRoomIsShown'
    BY LastRoomStep
  <1>3. QED
    BY <1>1, <1>2, Invariance, PTL DEF Spec
=============================================================================
