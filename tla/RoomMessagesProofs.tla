------------------------- MODULE RoomMessagesProofs -------------------------
(***************************************************************************)
(* For any messages, times, page size and bounds: the rows stay sorted;    *)
(* none is there twice; and with nothing under way every row is current    *)
(* and none is missing.  Messages that share a time are told apart as far  *)
(* as the code tells them apart.                                           *)
(***************************************************************************)
EXTENDS RoomMessages, SequenceTheorems, FiniteSetTheorems, TLAPS

\* InsertAt puts an element behind the first u, which messages.insert does at an
\* upper bound.
InsertedAt(t, S, s, u, e) ==
  /\ t \in Seq(S)
  /\ Len(t) = Len(s) + 1
  /\ \A i \in 1..(Len(s) + 1) :
       t[i] = IF i <= u THEN s[i] ELSE IF i = u + 1 THEN e ELSE s[i - 1]

LEMMA InsertAtLemma ==
  ASSUME NEW S, NEW s \in Seq(S), NEW u \in 0..Len(s), NEW e \in S
  PROVE  InsertedAt(InsertAt(s, u + 1, e), S, s, u, e)
<1> DEFINE front == SubSeq(s, 1, u)
           back == SubSeq(s, u + 1, Len(s))
<1>0. Len(s) \in Nat /\ u \in Int /\ u + 1 \in Int /\ Len(s) \in Int /\ u + 1 - 1 = u
  BY LenProperties
<1>1. /\ front \in Seq(S) /\ Len(front) = u
      /\ \A i \in 1..u : front[i] = s[i]
  <2>1. \A i \in 1..u : s[i] \in S
    BY <1>0
  <2>2. /\ front \in Seq(S) /\ Len(front) = IF 1 <= u THEN u - 1 + 1 ELSE 0
        /\ \A i \in 1..(u - 1 + 1) : front[i] = s[1 + i - 1]
    BY <1>0, <2>1, SubSeqProperties
  <2> QED BY <1>0, <2>2
<1>2. /\ back \in Seq(S) /\ Len(back) = Len(s) - u
      /\ \A i \in 1..(Len(s) - u) : back[i] = s[u + i]
  <2>1. \A i \in (u + 1)..Len(s) : s[i] \in S
    BY <1>0
  <2>2. /\ back \in Seq(S) /\ Len(back) = IF u + 1 <= Len(s) THEN Len(s) - (u + 1) + 1 ELSE 0
        /\ \A i \in 1..(Len(s) - (u + 1) + 1) : back[i] = s[u + 1 + i - 1]
    BY <1>0, <2>1, SubSeqProperties
  <2> QED BY <1>0, <2>2
<1>3. /\ <<e>> \in Seq(S) /\ Len(<<e>>) = 1 /\ <<e>>[1] = e
  OBVIOUS
<1> HIDE DEF front, back
<1>4. /\ front \o <<e>> \in Seq(S) /\ Len(front \o <<e>>) = u + 1
      /\ \A i \in 1..(u + 1) : (front \o <<e>>)[i] = IF i <= u THEN s[i] ELSE e
  <2>1. /\ front \o <<e>> \in Seq(S) /\ Len(front \o <<e>>) = Len(front) + Len(<<e>>)
        /\ \A i \in 1..(Len(front) + Len(<<e>>)) :
             (front \o <<e>>)[i] = IF i <= Len(front) THEN front[i] ELSE <<e>>[i - Len(front)]
    BY <1>1, <1>3, ConcatProperties
  <2> QED BY <1>0, <1>1, <1>3, <2>1
<1>5. /\ (front \o <<e>>) \o back \in Seq(S)
      /\ Len((front \o <<e>>) \o back) = Len(s) + 1
      /\ \A i \in 1..(Len(s) + 1) :
           ((front \o <<e>>) \o back)[i] = IF i <= u + 1 THEN (front \o <<e>>)[i] ELSE back[i - (u + 1)]
  <2>1. /\ (front \o <<e>>) \o back \in Seq(S)
        /\ Len((front \o <<e>>) \o back) = Len(front \o <<e>>) + Len(back)
        /\ \A i \in 1..(Len(front \o <<e>>) + Len(back)) :
             ((front \o <<e>>) \o back)[i] =
                IF i <= Len(front \o <<e>>) THEN (front \o <<e>>)[i] ELSE back[i - Len(front \o <<e>>)]
    BY <1>2, <1>4, ConcatProperties
  <2> QED BY <1>0, <1>2, <1>4, <2>1
<1>6. InsertAt(s, u + 1, e) = (front \o <<e>>) \o back
  <2>1. PICK k \in Int : k = u + 1
    BY <1>0
  <2>2. InsertAt(s, k, e) = (SubSeq(s, 1, k - 1) \o <<e>>) \o SubSeq(s, k, Len(s))
    BY Zenon DEF InsertAt
  <2>3. k - 1 = u
    BY <1>0, <2>1
  <2>4. InsertAt(s, k, e) = (front \o <<e>>) \o back
    BY <2>1, <2>2, <2>3, Zenon DEF front, back
  <2> QED BY <2>1, <2>4, Zenon
<1>7. \A i \in 1..(Len(s) + 1) :
        ((front \o <<e>>) \o back)[i] = IF i <= u THEN s[i] ELSE IF i = u + 1 THEN e ELSE s[i - 1]
  <2> SUFFICES ASSUME NEW i \in 1..(Len(s) + 1)
      PROVE  ((front \o <<e>>) \o back)[i] = IF i <= u THEN s[i] ELSE IF i = u + 1 THEN e ELSE s[i - 1]
    OBVIOUS
  <2>1. CASE i <= u + 1
    BY <1>0, <1>4, <1>5, <2>1
  <2>2. CASE i > u + 1
    <3>1. PICK k \in 1..(Len(s) - u) : k = i - (u + 1) /\ u + k = i - 1
      BY <1>0, <2>2
    <3>2. back[k] = s[u + k]
      BY <1>2, <3>1
    <3>3. ((front \o <<e>>) \o back)[i] = back[k]
      BY <1>0, <1>5, <2>2, <3>1
    <3>4. ~(i <= u) /\ i # u + 1
      BY <1>0, <2>2
    <3>5. s[u + k] = s[i - 1]
      BY <3>1, Zenon
    <3> QED BY <3>2, <3>3, <3>4, <3>5, Zenon
  <2>3. i <= u + 1 \/ i > u + 1
    BY <1>0
  <2> QED BY <2>1, <2>2, <2>3, Zenon
<1>8. InsertAt(s, u + 1, e) \in Seq(S) /\ Len(InsertAt(s, u + 1, e)) = Len(s) + 1
  BY <1>5, <1>6, Zenon
<1>9. ASSUME NEW i \in 1..(Len(s) + 1)
      PROVE  InsertAt(s, u + 1, e)[i] = IF i <= u THEN s[i] ELSE IF i = u + 1 THEN e ELSE s[i - 1]
  BY <1>6, <1>7, Zenon
<1> QED BY <1>8, <1>9, Zenon DEF InsertedAt

\* RemoveAt closes the gap, as takeAt and erase do.
LEMMA RemoveAtLemma ==
  ASSUME NEW S, NEW s \in Seq(S), NEW k \in 1..Len(s)
  PROVE  /\ RemoveAt(s, k) \in Seq(S)
         /\ Len(RemoveAt(s, k)) = Len(s) - 1
         /\ \A i \in 1..(Len(s) - 1) :
              RemoveAt(s, k)[i] = IF i < k THEN s[i] ELSE s[i + 1]
<1> DEFINE front == SubSeq(s, 1, k - 1)
           back == SubSeq(s, k + 1, Len(s))
<1>0. Len(s) \in Nat /\ k \in Int /\ k + 1 \in Int /\ k - 1 \in Int /\ Len(s) \in Int
  BY LenProperties
<1>1. /\ front \in Seq(S) /\ Len(front) = k - 1
      /\ \A i \in 1..(k - 1) : front[i] = s[i]
  <2>1. \A i \in 1..(k - 1) : s[i] \in S
    BY <1>0
  <2>2. /\ front \in Seq(S) /\ Len(front) = IF 1 <= k - 1 THEN k - 1 - 1 + 1 ELSE 0
        /\ \A i \in 1..(k - 1 - 1 + 1) : front[i] = s[1 + i - 1]
    BY <1>0, <2>1, SubSeqProperties
  <2> QED BY <1>0, <2>2
<1>2. /\ back \in Seq(S) /\ Len(back) = Len(s) - k
      /\ \A i \in 1..(Len(s) - k) : back[i] = s[k + i]
  <2>1. \A i \in (k + 1)..Len(s) : s[i] \in S
    BY <1>0
  <2>2. /\ back \in Seq(S) /\ Len(back) = IF k + 1 <= Len(s) THEN Len(s) - (k + 1) + 1 ELSE 0
        /\ \A i \in 1..(Len(s) - (k + 1) + 1) : back[i] = s[k + 1 + i - 1]
    BY <1>0, <2>1, SubSeqProperties
  <2> QED BY <1>0, <2>2
<1> HIDE DEF front, back
<1>3. /\ front \o back \in Seq(S)
      /\ Len(front \o back) = Len(front) + Len(back)
      /\ \A i \in 1..(Len(front) + Len(back)) :
           (front \o back)[i] = IF i <= Len(front) THEN front[i] ELSE back[i - Len(front)]
  BY <1>1, <1>2, ConcatProperties
<1>4. RemoveAt(s, k) = front \o back
  BY Zenon DEF RemoveAt, front, back
<1>5. \A i \in 1..(Len(s) - 1) : (front \o back)[i] = IF i < k THEN s[i] ELSE s[i + 1]
  <2> SUFFICES ASSUME NEW i \in 1..(Len(s) - 1)
      PROVE  (front \o back)[i] = IF i < k THEN s[i] ELSE s[i + 1]
    OBVIOUS
  <2>1. CASE i < k
    BY <1>0, <1>1, <1>2, <1>3, <2>1
  <2>2. CASE i >= k
    <3>1. PICK n \in 1..(Len(s) - k) : n = i - (k - 1) /\ k + n = i + 1
      BY <1>0, <2>2
    <3>2. back[n] = s[k + n]
      BY <1>2, <3>1
    <3>3. (front \o back)[i] = back[n]
      BY <1>0, <1>1, <1>2, <1>3, <2>2, <3>1
    <3>4. ~(i < k)
      BY <1>0, <2>2
    <3>5. s[k + n] = s[i + 1]
      BY <3>1, Zenon
    <3> QED BY <3>2, <3>3, <3>4, <3>5, Zenon
  <2>3. i < k \/ i >= k
    BY <1>0
  <2> QED BY <2>1, <2>2, <2>3, Zenon
<1>6. Len(front \o back) = Len(s) - 1
  BY <1>0, <1>1, <1>2, <1>3
<1> QED BY <1>3, <1>4, <1>5, <1>6, Zenon

-----------------------------------------------------------------------------
\* A page under way is finite and holds each message once.
PagesCorrect ==
  \A i \in DOMAIN jobs :
    /\ IsFiniteSet(jobs[i].page)
    /\ \A r, s \in jobs[i].page : r.id = s.id => r = s

IInv == TypeOK /\ PagesCorrect /\ RowsSorted

-----------------------------------------------------------------------------
LEMMA TimeType == \A row \in Row : Time(row) \in Nat
BY TimestampAssumption DEF Row, Time

\* One turn of addMessages' loop, and addMessages with a single message.
LEMMA AddMessageLemma ==
  ASSUME rows \in Seq(Row), RowsSorted, NEW row \in Row, AddMessage(row)
  PROVE  rows' \in Seq(Row) /\ RowsSorted'
<1>1. PICK u \in 0..Len(rows) : AddMessage(row)!(u)
  BY DEF AddMessage
<1>2. CASE IsOnlyRow(row) /\ rows' = <<row>>
  BY <1>2, TimeType DEF RowsSorted
<1>3. CASE /\ ~IsOnlyRow(row) /\ u > 0 /\ rows[u].id = row.id
           /\ rows' = IF row.pending THEN rows ELSE [rows EXCEPT ![u] = row]
  <2>1. u \in 1..Len(rows) /\ rows[u] \in Row
    BY <1>3
  <2>2. CASE rows' = rows
    BY <2>2 DEF RowsSorted
  <2>3. CASE rows' = [rows EXCEPT ![u] = row]
    <3>1. rows' \in Seq(Row) /\ Len(rows') = Len(rows)
      BY <2>1, <2>3
    <3>2. \A i \in 1..Len(rows) : Time(rows'[i]) = Time(rows[i])
      BY <1>3, <2>1, <2>3 DEF Time
    <3> QED BY <3>1, <3>2 DEF RowsSorted
  <2> QED BY <1>3, <2>2, <2>3
<1>4. CASE /\ ~IsOnlyRow(row) /\ ~(u > 0 /\ rows[u].id = row.id)
           /\ rows' = InsertAt(rows, u + 1, row)
  <2>1. /\ rows' \in Seq(Row) /\ Len(rows') = Len(rows) + 1
        /\ \A i \in 1..(Len(rows) + 1) :
             rows'[i] = IF i <= u THEN rows[i] ELSE IF i = u + 1 THEN row ELSE rows[i - 1]
    <3>1. InsertedAt(InsertAt(rows, u + 1, row), Row, rows, u, row)
      BY InsertAtLemma
    <3> QED BY <1>4, <3>1, Zenon DEF InsertedAt
  <2>2. UpperBound(u, row)
    BY <1>1
  <2>3. ASSUME NEW i \in 1..(Len(rows) + 1), NEW j \in 1..(Len(rows) + 1), i <= j
        PROVE  Time(rows'[i]) <= Time(rows'[j])
    <3>1. Len(rows) \in Nat /\ \A k \in 1..Len(rows) : rows[k] \in Row /\ Time(rows[k]) \in Nat
      BY TimeType
    <3>2. CASE j <= u
      BY <2>1, <2>3, <3>1, <3>2 DEF RowsSorted
    <3>3. CASE j = u + 1
      <4>1. rows'[j] = row /\ Time(row) \in Nat
        BY <2>1, <3>1, <3>3, TimeType
      <4>2. CASE i <= u
        <5>1. rows'[i] = rows[i] /\ i \in 1..Len(rows)
          BY <2>1, <3>1, <4>2
        <5>2. Time(rows[i]) <= Time(row)
          BY <2>2, <4>2, <5>1 DEF UpperBound
        <5> QED BY <4>1, <5>1, <5>2, Zenon
      <4>3. CASE i = u + 1
        BY <3>3, <4>1, <4>3
      <4> QED BY <2>3, <3>1, <3>3, <4>2, <4>3
    <3>4. CASE j > u + 1
      <4>1. PICK k \in (u + 1)..Len(rows) : k = j - 1 /\ rows'[j] = rows[k]
        <5>1. j - 1 \in (u + 1)..Len(rows) /\ ~(j <= u) /\ j # u + 1
          BY <3>1, <3>4
        <5> QED BY <2>1, <5>1, Zenon
      <4>2. CASE i <= u
        BY <2>1, <3>1, <4>1, <4>2 DEF RowsSorted
      <4>3. CASE i = u + 1
        <5>1. rows'[i] = row /\ Time(row) \in Nat
          BY <2>1, <3>1, <4>3, TimeType
        <5>2. Time(rows[k]) > Time(row) /\ Time(rows[k]) \in Nat
          BY <2>2, <3>1, <4>1 DEF UpperBound
        <5>3. Time(row) <= Time(rows[k])
          BY <5>1, <5>2
        <5> QED BY <4>1, <5>1, <5>3, Zenon
      <4>4. CASE i > u + 1
        <5>1. PICK l \in (u + 1)..Len(rows) : l = i - 1 /\ rows'[i] = rows[l]
          <6>1. i - 1 \in (u + 1)..Len(rows) /\ ~(i <= u) /\ i # u + 1
            BY <3>1, <4>4
          <6> QED BY <2>1, <6>1, Zenon
        <5>2. l <= k
          BY <2>3, <4>1, <5>1
        <5> QED BY <3>1, <4>1, <5>1, <5>2 DEF RowsSorted
      <4> QED BY <3>1, <4>2, <4>3, <4>4
    <3> QED BY <3>1, <3>2, <3>3, <3>4
  <2>4. DOMAIN rows' = 1..(Len(rows) + 1)
    BY <2>1
  <2> QED BY <2>1, <2>3, <2>4 DEF RowsSorted, Time
<1> QED BY <1>1, <1>2, <1>3, <1>4

LEMMA AddMessagesLemma ==
  ASSUME rows \in Seq(Row), RowsSorted, NEW row \in Row, AddMessages(row)
  PROVE  rows' \in Seq(Row) /\ RowsSorted'
<1>1. CASE rows = <<>> /\ rows' = <<row>>
  BY <1>1, TimeType DEF RowsSorted
<1>2. CASE rows # <<>> /\ AddMessage(row)
  BY <1>2, AddMessageLemma
<1> QED BY <1>1, <1>2 DEF AddMessages

LEMMA DeleteLemma ==
  ASSUME rows \in Seq(Row), RowsSorted, NEW id \in Message, deleteMessage(id)
  PROVE  rows' \in Seq(Row) /\ RowsSorted'
<1>1. CASE UNCHANGED rows
  BY <1>1 DEF RowsSorted, Time
<1>2. CASE \E k \in DOMAIN rows : rows' = RemoveAt(rows, k)
  <2>1. PICK k \in 1..Len(rows) : rows' = RemoveAt(rows, k)
    BY <1>2
  <2>2. /\ rows' \in Seq(Row) /\ Len(rows') = Len(rows) - 1
        /\ \A i \in 1..(Len(rows) - 1) : rows'[i] = IF i < k THEN rows[i] ELSE rows[i + 1]
    BY <2>1, RemoveAtLemma
  <2>3. ASSUME NEW i \in 1..(Len(rows) - 1), NEW j \in 1..(Len(rows) - 1), i <= j
        PROVE  Time(rows'[i]) <= Time(rows'[j])
    <3>1. PICK a \in 1..Len(rows) : rows'[i] = rows[a] /\ a = IF i < k THEN i ELSE i + 1
      BY <2>2
    <3>2. PICK b \in 1..Len(rows) : rows'[j] = rows[b] /\ b = IF j < k THEN j ELSE j + 1
      BY <2>2
    <3>3. a <= b
      BY <2>3, <3>1, <3>2
    <3> QED BY <3>1, <3>2, <3>3 DEF RowsSorted
  <2>4. DOMAIN rows' = 1..(Len(rows) - 1)
    BY <2>2
  <2> QED BY <2>2, <2>3, <2>4 DEF RowsSorted, Time
<1> QED BY <1>1, <1>2 DEF deleteMessage

\* clearHistory keeps a stretch of the rows, which it numbers anew.
LEMMA ClearRows ==
  ASSUME rows \in Seq(Row), clearHistory
  PROVE  /\ rows' \in Seq(Row) /\ DOMAIN rows' = 1..KeepRows /\ KeepRows \in Nat
         /\ \E first \in 1..Len(rows) :
              /\ first + KeepRows = Len(rows) + 1
              /\ \A i \in 1..KeepRows : first + i - 1 \in 1..Len(rows) /\ rows'[i] = rows[first + i - 1]
<1> DEFINE first == Len(rows) - KeepRows + 1
<1>1. Len(rows) \in Nat /\ KeepRows \in Nat \ {0} /\ first \in 1..Len(rows)
  BY SizeAssumption DEF clearHistory
<1>2. \A i \in first..Len(rows) : rows[i] \in Row
  BY <1>1
<1>3. \A i \in 1..KeepRows : first + i - 1 \in 1..Len(rows)
  BY <1>1
<1>4. rows' = SubSeq(rows, first, Len(rows))
  BY DEF clearHistory
<1>5. Len(rows) - first + 1 = KeepRows /\ first <= Len(rows) /\ first + KeepRows = Len(rows) + 1
  BY <1>1
<1> HIDE DEF first
<1>6. /\ rows' \in Seq(Row) /\ Len(rows') = KeepRows
      /\ \A i \in 1..KeepRows : rows'[i] = rows[first + i - 1]
  <2>1. /\ SubSeq(rows, first, Len(rows)) \in Seq(Row)
        /\ Len(SubSeq(rows, first, Len(rows))) = IF first <= Len(rows) THEN Len(rows) - first + 1 ELSE 0
        /\ \A i \in 1..(Len(rows) - first + 1) : SubSeq(rows, first, Len(rows))[i] = rows[first + i - 1]
    BY <1>1, <1>2, SubSeqProperties
  <2> QED BY <1>4, <1>5, <2>1
<1>7. DOMAIN rows' = 1..KeepRows
  BY <1>1, <1>6
<1> QED BY <1>1, <1>3, <1>5, <1>6, <1>7, Zenon

LEMMA ClearLemma ==
  ASSUME rows \in Seq(Row), RowsSorted, clearHistory
  PROVE  rows' \in Seq(Row) /\ RowsSorted'
<1>1. rows' \in Seq(Row) /\ DOMAIN rows' = 1..KeepRows /\ KeepRows \in Nat
  BY ClearRows
<1>2. PICK first \in 1..Len(rows) : \A i \in 1..KeepRows :
        first + i - 1 \in 1..Len(rows) /\ rows'[i] = rows[first + i - 1]
  BY ClearRows
<1>3. ASSUME NEW i \in 1..KeepRows, NEW j \in 1..KeepRows, i <= j
      PROVE  Time(rows'[i]) <= Time(rows'[j])
  <2>1. PICK a \in 1..Len(rows) : a = first + i - 1 /\ rows'[i] = rows[a]
    BY <1>2, Zenon
  <2>2. PICK b \in 1..Len(rows) : b = first + j - 1 /\ rows'[j] = rows[b]
    BY <1>2, Zenon
  <2>3. a <= b
    BY <1>1, <1>3, <2>1, <2>2
  <2> QED BY <2>1, <2>2, <2>3 DEF RowsSorted
<1> QED BY <1>1, <1>3 DEF RowsSorted, Time

-----------------------------------------------------------------------------
\* Lists made of a page.
LEMMA PageLemma ==
  ASSUME NEW page \in SUBSET Row, IsFiniteSet(page)
  PROVE  /\ \A s \in Sorted(page) : s \in Seq(Row) /\ \A i, j \in DOMAIN s : i <= j => Time(s[i]) <= Time(s[j])
         /\ \A s \in NewestFirst(page) : s \in Seq(Row)
<1>1. Cardinality(page) \in Nat
  BY FS_CardinalityType
<1>2. \A s \in SetToSeqs(page) : s \in [1..Cardinality(page) -> page]
  BY Zenon DEF SetToSeqs
<1>3. \A s \in SetToSeqs(page) : s \in Seq(Row)
  BY <1>1, <1>2
<1> QED BY <1>3, Zenon DEF Sorted, NewestFirst

\* The page of an answer is finite and holds each message once.
LEMMA AnswerLemma ==
  ASSUME NEW chosen \in SUBSET Message, version \in [Message -> 0..MaxVersion]
  PROVE  /\ {Current(id) : id \in chosen} \in SUBSET Row
         /\ IsFiniteSet({Current(id) : id \in chosen})
         /\ \A r, s \in {Current(id) : id \in chosen} : r.id = s.id => r = s
<1> DEFINE f == [id \in chosen |-> Current(id)]
           page == {Current(id) : id \in chosen}
<1>1. IsFiniteSet(chosen)
  BY MessageAssumption, FS_Subset
<1>2. f \in Surjection(chosen, page)
  BY DEF Surjection
<1>3. IsFiniteSet(page)
  BY <1>1, <1>2, FS_Surjection, Zenon DEF ExistsSurjection
<1>4. page \in SUBSET Row
  <2>1. \A id \in Message : Current(id) \in Row /\ Current(id).id = id
    BY DEF Current, Row
  <2> QED BY <2>1
<1>5. \A r, s \in page : r.id = s.id => r = s
  <2>1. \A id \in Message : Current(id).id = id
    BY DEF Current
  <2> QED BY <2>1
<1> QED BY <1>3, <1>4, <1>5

LEMMA EmitLemma ==
  ASSUME events \in Seq(Event), NEW k \in {"message", "delete"}, NEW r \in Row, Emit(k, r)
  PROVE  events' \in Seq(Event)
<1>1. [kind |-> k, row |-> r] \in Event
  BY DEF Event
<1>2. Append(events, [kind |-> k, row |-> r]) \in Seq(Event)
  BY <1>1
<1> QED BY <1>2 DEF Emit

\* A job that is started, and one that ends.
LEMMA StartJobLemma ==
  ASSUME jobs \in Seq(Job), PagesCorrect, NEW end \in Nat, StartJob(end)
  PROVE  jobs' \in Seq(Job) /\ PagesCorrect'
<1>1. PICK job \in Job : job = [end |-> end, answered |-> FALSE, page |-> {}] /\ job.page = {}
  <2>1. FALSE \in BOOLEAN /\ {} \in SUBSET Row
    OBVIOUS
  <2>2. [end |-> end, answered |-> FALSE, page |-> {}] \in Job
    BY <2>1, Zenon DEF Job
  <2>3. [end |-> end, answered |-> FALSE, page |-> {}].page = {}
    OBVIOUS
  <2> QED BY <2>2, <2>3, Zenon
<1>2. jobs' = Append(jobs, job)
  BY <1>1 DEF StartJob
<1>3. /\ jobs' \in Seq(Job)
      /\ \A i \in DOMAIN jobs' : (i \in DOMAIN jobs /\ jobs'[i] = jobs[i]) \/ jobs'[i] = job
  BY <1>2
<1>4. IsFiniteSet(job.page) /\ \A r, s \in job.page : r.id = s.id => r = s
  BY <1>1, FS_EmptySet
<1> QED BY <1>3, <1>4 DEF PagesCorrect

LEMMA EndJobLemma ==
  ASSUME jobs \in Seq(Job), PagesCorrect, NEW k \in DOMAIN jobs, jobs' = RemoveAt(jobs, k)
  PROVE  jobs' \in Seq(Job) /\ PagesCorrect'
<1>1. k \in 1..Len(jobs) /\ DOMAIN jobs = 1..Len(jobs) /\ Len(jobs) \in Nat
  OBVIOUS
<1>2. /\ jobs' \in Seq(Job) /\ Len(jobs') = Len(jobs) - 1
      /\ \A i \in 1..(Len(jobs) - 1) : jobs'[i] = IF i < k THEN jobs[i] ELSE jobs[i + 1]
  BY <1>1, RemoveAtLemma
<1>3. ASSUME NEW i \in DOMAIN jobs'
      PROVE  \E n \in DOMAIN jobs : jobs'[i] = jobs[n]
  <2>1. i \in 1..(Len(jobs) - 1)
    BY <1>1, <1>2
  <2>2. i \in 1..Len(jobs) /\ i + 1 \in 1..Len(jobs)
    BY <1>1, <2>1
  <2>3. jobs'[i] = jobs[i] \/ jobs'[i] = jobs[i + 1]
    BY <1>2, <2>1
  <2> QED BY <1>1, <2>2, <2>3, Zenon
<1> QED BY <1>2, <1>3 DEF PagesCorrect

LEMMA InitLemma == Init => IInv
<1> SUFFICES ASSUME Init PROVE IInv
  OBVIOUS
<1>1. TypeOK
  <2>1. <<>> \in Seq(Event) /\ <<>> \in Seq(Job) /\ <<>> \in Seq(Row)
    BY EmptySeq
  <2>2. version \in [Message -> 0..MaxVersion]
    BY BoundAssumption DEF Init
  <2>3. live \subseteq Message /\ unposted \subseteq Message /\ replies \subseteq Message /\ overtaken \subseteq Message
    BY HistoryAssumption DEF Init
  <2> QED BY <2>1, <2>2, <2>3 DEF Init, TypeOK
<1>2. PagesCorrect /\ RowsSorted
  BY DEF Init, PagesCorrect, RowsSorted
<1> QED BY <1>1, <1>2 DEF IInv

LEMMA StepLemma == IInv /\ [Next]_vars => IInv'
<1> SUFFICES ASSUME IInv, [Next]_vars PROVE IInv'
  OBVIOUS
<1> USE DEF IInv
<1>0. BOOLEAN = {TRUE, FALSE}
  OBVIOUS
<1>1. ASSUME NEW id \in Message, NEW own \in BOOLEAN, Post(id, own)
      PROVE  IInv'
  <2>1. Current(id) \in Row
    BY DEF TypeOK, Current, Row
  <2>2. events' \in Seq(Event)
    BY <1>1, <2>1, EmitLemma DEF TypeOK, Post
  <2>3. TypeOK'
    BY <1>1, <2>2 DEF TypeOK, Post
  <2>4. PagesCorrect' /\ RowsSorted'
    BY <1>1 DEF Post, PagesCorrect, RowsSorted, Time
  <2> QED BY <2>3, <2>4
<1>2. ASSUME NEW id \in Message, Edit(id)
      PROVE  IInv'
  <2>1. version[id] + 1 \in 0..MaxVersion
    BY <1>2, BoundAssumption DEF TypeOK, Edit
  <2>2. [Current(id) EXCEPT !.version = @ + 1] \in Row
    BY <2>1 DEF TypeOK, Current, Row
  <2>3. events' \in Seq(Event)
    BY <1>2, <2>2, EmitLemma DEF TypeOK, Edit
  <2>4. TypeOK'
    BY <1>2, <2>1, <2>3 DEF TypeOK, Edit, Untold
  <2>5. PagesCorrect' /\ RowsSorted'
    BY <1>2 DEF Edit, PagesCorrect, RowsSorted, Time
  <2> QED BY <2>4, <2>5
<1>3. ASSUME NEW id \in Message, Delete(id)
      PROVE  IInv'
  <2>1. Current(id) \in Row
    BY DEF TypeOK, Current, Row
  <2>2. events' \in Seq(Event)
    BY <1>3, <2>1, EmitLemma DEF TypeOK, Delete
  <2>3. TypeOK'
    BY <1>3, <2>2 DEF TypeOK, Delete, Untold
  <2>4. PagesCorrect' /\ RowsSorted'
    BY <1>3 DEF Delete, PagesCorrect, RowsSorted, Time
  <2> QED BY <2>3, <2>4
<1>4. ASSUME Subscribed PROVE IInv'
  BY <1>4 DEF TypeOK, Subscribed, server, PagesCorrect, RowsSorted, Time
<1>5. ASSUME NEW i \in DOMAIN jobs, AnswerHistory(i)
      PROVE  IInv'
  <2>1. PICK chosen \in SUBSET Message :
          jobs' = [jobs EXCEPT ![i].answered = TRUE, ![i].page = {Current(id) : id \in chosen}]
    BY <1>5 DEF TypeOK, AnswerHistory
  <2>2. PICK page \in SUBSET Row :
          /\ page = {Current(id) : id \in chosen}
          /\ IsFiniteSet(page)
          /\ \A r, s \in page : r.id = s.id => r = s
    BY AnswerLemma DEF TypeOK
  <2>3. jobs' = [jobs EXCEPT ![i].answered = TRUE, ![i].page = page]
    BY <2>1, <2>2, Zenon
  <2>4. jobs' \in Seq(Job) /\ DOMAIN jobs' = DOMAIN jobs
    <3>1. jobs[i] \in Job /\ [jobs[i] EXCEPT !.answered = TRUE] \in Job
      <4>1. PICK job \in Job : job = jobs[i]
        BY DEF TypeOK
      <4>2. TRUE \in BOOLEAN
        OBVIOUS
      <4>3. [job EXCEPT !.answered = TRUE] \in Job
        BY <4>2 DEF Job
      <4> QED BY <4>1, <4>3, Zenon
    <3>2. PICK job \in Job : job = [[jobs[i] EXCEPT !.answered = TRUE] EXCEPT !.page = page]
      BY <3>1 DEF Job
    <3>3. jobs' = [jobs EXCEPT ![i] = job]
      BY <2>3, <3>2 DEF TypeOK
    <3> QED BY <3>3 DEF TypeOK
  <2>5. \A k \in DOMAIN jobs : jobs'[k].page = IF k = i THEN page ELSE jobs[k].page
    <3>1. jobs[i] \in Job
      BY DEF TypeOK
    <3>2. [[jobs[i] EXCEPT !.answered = TRUE] EXCEPT !.page = page].page = page
      BY <3>1 DEF Job
    <3> QED BY <2>3, <3>2 DEF TypeOK
  <2>6. PagesCorrect'
    BY <2>2, <2>4, <2>5 DEF PagesCorrect
  <2>7. TypeOK' /\ RowsSorted'
    BY <1>5, <2>4 DEF TypeOK, AnswerHistory, server, RowsSorted, Time
  <2> QED BY <2>6, <2>7
<1>6. lastTimestamp \in Nat
  <2>1. rows # <<>> => rows[1] \in Row
    BY DEF TypeOK
  <2> QED BY <2>1, TimeType DEF lastTimestamp, NoEnd
<1>7. ASSUME checkInitializedRoom PROVE IInv'
  <2>1. jobs' \in Seq(Job) /\ PagesCorrect'
    BY <1>7, StartJobLemma DEF TypeOK, checkInitializedRoom, NoEnd
  <2>2. TypeOK' /\ RowsSorted'
    BY <1>7, <2>1 DEF TypeOK, checkInitializedRoom, server, RowsSorted, Time
  <2> QED BY <2>1, <2>2
<1>8. ASSUME NEW numberMessages \in 0..Cardinality(Message), loadHistory(numberMessages)
      PROVE  IInv'
  <2>1. PICK end \in Nat : StartJob(end)
    BY <1>6, <1>8 DEF loadHistory
  <2>2. jobs' \in Seq(Job) /\ PagesCorrect'
    BY <2>1, StartJobLemma DEF TypeOK
  <2>3. TypeOK' /\ RowsSorted'
    BY <1>8, <2>2 DEF TypeOK, loadHistory, server, RowsSorted, Time
  <2> QED BY <2>2, <2>3
<1>9. ASSUME NEW i \in DOMAIN jobs, HistoryDone(i)
      PROVE  IInv'
  <2>1. jobs' \in Seq(Job) /\ PagesCorrect'
    BY <1>9, EndJobLemma DEF TypeOK, HistoryDone
  <2>2. PICK page \in SUBSET Row : page = jobs[i].page /\ IsFiniteSet(page)
    <3>1. jobs[i] \in Job
      BY DEF TypeOK
    <3>2. jobs[i].page \in SUBSET Row
      BY <3>1, Zenon DEF Job
    <3>3. IsFiniteSet(jobs[i].page)
      BY DEF PagesCorrect
    <3> QED BY <3>2, <3>3, Zenon
  <2>3. /\ \A s \in Sorted(page) : s \in Seq(Row) /\ \A m, n \in DOMAIN s : m <= n => Time(s[m]) <= Time(s[n])
        /\ \A s \in NewestFirst(page) : s \in Seq(Row)
    BY <2>2, PageLemma
  <2>4. /\ overtaken' = overtaken \cup {row.id : row \in {r \in page : Outdated(r)}}
        /\ \/ rows' \in Sorted(page) /\ batch' = <<>>
           \/ batch' \in NewestFirst(page) /\ rows' = rows
    BY <1>9, <2>2 DEF HistoryDone
  <2>5. overtaken' \subseteq Message
    <3>1. \A row \in page : row.id \in Message
      BY DEF Row
    <3> QED BY <2>4, <3>1 DEF TypeOK
  <2>6. rows' \in Seq(Row) /\ batch' \in Seq(Row) /\ RowsSorted'
    <3>1. CASE rows' \in Sorted(page) /\ batch' = <<>>
      BY <2>3, <3>1 DEF RowsSorted, Time
    <3>2. CASE batch' \in NewestFirst(page) /\ rows' = rows
      BY <2>3, <3>2 DEF TypeOK, RowsSorted, Time
    <3> QED BY <2>4, <3>1, <3>2
  <2>7. TypeOK'
    BY <1>9, <2>1, <2>5, <2>6 DEF TypeOK, HistoryDone, server
  <2> QED BY <2>1, <2>6, <2>7
<1>10. ASSUME NEW i \in DOMAIN jobs, HistoryFails(i)
       PROVE  IInv'
  <2>1. jobs' \in Seq(Job) /\ PagesCorrect'
    BY <1>10, EndJobLemma DEF TypeOK, HistoryFails
  <2>2. TypeOK' /\ RowsSorted'
    BY <1>10, <2>1 DEF TypeOK, HistoryFails, server, RowsSorted, Time
  <2> QED BY <2>1, <2>2
<1>11. ASSUME AddNext PROVE IInv'
  <2>1. Head(batch) \in Row /\ Tail(batch) \in Seq(Row)
    BY <1>11, HeadTailProperties DEF TypeOK, AddNext, Idle
  <2>2. rows' \in Seq(Row) /\ RowsSorted'
    BY <1>11, <2>1, AddMessageLemma DEF TypeOK, AddNext
  <2>3. TypeOK' /\ PagesCorrect'
    BY <1>11, <2>1, <2>2 DEF TypeOK, AddNext, server, PagesCorrect
  <2> QED BY <2>2, <2>3
<1>12. ASSUME slotChanged PROVE IInv'
  <2>1. PICK event \in Event : event = Head(events)
    BY <1>12, HeadTailProperties DEF TypeOK, slotChanged
  <2>2. Tail(events) \in Seq(Event)
    BY <1>12, HeadTailProperties DEF TypeOK, slotChanged
  <2>3. event.row \in Row /\ event.row.id \in Message
    BY DEF Event, Row
  <2>4. \/ AddMessages(event.row)
        \/ deleteMessage(event.row.id)
    BY <1>12, <2>1 DEF slotChanged
  <2>5. rows' \in Seq(Row) /\ RowsSorted'
    BY <2>3, <2>4, AddMessagesLemma, DeleteLemma DEF TypeOK
  <2>6. overtaken' \subseteq Message /\ torn' \in BOOLEAN
    BY <1>12 DEF TypeOK, slotChanged
  <2>7. TypeOK' /\ PagesCorrect'
    BY <1>12, <2>2, <2>5, <2>6 DEF TypeOK, slotChanged, server, PagesCorrect
  <2> QED BY <2>5, <2>7
<1>13. ASSUME NEW id \in Message, slotPostMessageDone(id)
       PROVE  IInv'
  <2>1. PICK row \in Row : row = [id |-> id, version |-> 0, pending |-> TRUE]
    <3>1. TRUE \in BOOLEAN /\ 0 \in 0..MaxVersion
      BY BoundAssumption
    <3> QED BY <3>1 DEF Row
  <2>2. AddMessages(row)
    BY <1>13, <2>1 DEF slotPostMessageDone
  <2>3. rows' \in Seq(Row) /\ RowsSorted'
    BY <2>2, AddMessagesLemma DEF TypeOK
  <2>4. overtaken' \subseteq Message /\ torn' \in BOOLEAN /\ replies' \subseteq Message
    BY <1>13 DEF TypeOK, slotPostMessageDone
  <2>5. TypeOK' /\ PagesCorrect'
    BY <1>13, <2>3, <2>4 DEF TypeOK, slotPostMessageDone, server, PagesCorrect
  <2> QED BY <2>3, <2>5
<1>14. ASSUME clearHistory PROVE IInv'
  <2>1. rows' \in Seq(Row) /\ RowsSorted'
    BY <1>14, ClearLemma DEF TypeOK
  <2>2. TypeOK' /\ PagesCorrect'
    BY <1>14, <2>1 DEF TypeOK, clearHistory, server, PagesCorrect
  <2> QED BY <2>1, <2>2
<1>15. ASSUME UNCHANGED vars PROVE IInv'
  BY <1>15 DEF vars, TypeOK, PagesCorrect, RowsSorted, Time
<1> QED BY <1>1, <1>2, <1>3, <1>4, <1>5, <1>7, <1>8, <1>9, <1>10, <1>11, <1>12, <1>13, <1>14, <1>15, Zenon
    DEF Next, Server, Client

-----------------------------------------------------------------------------
LEMMA Inductive == Spec => []IInv
BY InitLemma, StepLemma, PTL DEF Spec

\* The lists of the model keep their types, in particular when rows are put
\* in, taken out and cut off.
THEOREM TypeCorrect == Spec => []TypeOK
<1>1. IInv => TypeOK
  BY DEF IInv
<1> QED BY <1>1, Inductive, PTL

\* The rows are in the order of their times, whatever the order in which
\* events, pages and replies arrive.
THEOREM OrderCorrect == Spec => []RowsSorted
<1>1. IInv => RowsSorted
  BY DEF IInv
<1> QED BY <1>1, Inductive, PTL

-----------------------------------------------------------------------------
\* The row before the upper bound is the only one that can hold the message,
\* unless that row is another message's of the same time.
LEMMA AddMessageUnique ==
  ASSUME rows \in Seq(Row), RowsSorted, NoDuplicates, NEW row \in Row, AddMessage(row)
  PROVE  NoDuplicates'
<1>1. PICK u \in 0..Len(rows) : AddMessage(row)!(u)
  BY DEF AddMessage
<1>2. CASE IsOnlyRow(row) /\ rows' = <<row>>
  BY <1>2 DEF NoDuplicates
<1>3. CASE /\ ~IsOnlyRow(row) /\ u > 0 /\ rows[u].id = row.id
           /\ rows' = IF row.pending THEN rows ELSE [rows EXCEPT ![u] = row]
  <2>1. DOMAIN rows' = DOMAIN rows /\ \A i \in DOMAIN rows : rows'[i].id = rows[i].id
    BY <1>3
  <2> QED BY <2>1 DEF NoDuplicates
<1>4. CASE /\ ~IsOnlyRow(row) /\ ~(u > 0 /\ rows[u].id = row.id)
           /\ rows' = InsertAt(rows, u + 1, row)
  <2>1. /\ rows' \in Seq(Row) /\ Len(rows') = Len(rows) + 1
        /\ \A i \in 1..(Len(rows) + 1) :
             rows'[i] = IF i <= u THEN rows[i] ELSE IF i = u + 1 THEN row ELSE rows[i - 1]
    <3>1. InsertedAt(InsertAt(rows, u + 1, row), Row, rows, u, row)
      BY InsertAtLemma
    <3> QED BY <1>4, <3>1, Zenon DEF InsertedAt
  <2>2. UpperBound(u, row)
    BY <1>1
  <2>3. Len(rows) \in Nat /\ \A k \in 1..Len(rows) : rows[k].id \in Message /\ Time(rows[k]) \in Nat
    <3>1. \A k \in 1..Len(rows) : rows[k] \in Row
      OBVIOUS
    <3> QED BY <3>1, TimeType DEF Row
  <2>4. row.id \in Message /\ Time(row) \in Nat
    BY TimeType DEF Row
  <2>5. ASSUME NEW k \in 1..Len(rows), rows[k].id = row.id
        PROVE  SharesTime(row.id)
    <3>1. Time(rows[k]) = Time(row)
      BY <2>5 DEF Time
    <3>2. k <= u
      BY <2>2, <2>3, <2>4, <3>1 DEF UpperBound
    <3>3. u \in 1..Len(rows)
      BY <2>3, <3>2
    <3>4. Time(rows[k]) <= Time(rows[u])
      BY <2>3, <3>2, <3>3 DEF RowsSorted
    <3>5. Time(rows[u]) <= Time(row)
      BY <2>2, <2>3, <3>3 DEF UpperBound
    <3>6. Time(rows[u]) = Time(row)
      BY <2>3, <2>4, <3>1, <3>3, <3>4, <3>5
    <3>7. rows[u].id # row.id /\ Timestamp[rows[u].id] = Timestamp[row.id]
      BY <1>4, <2>3, <3>3, <3>6 DEF Time
    <3> QED BY <2>3, <3>3, <3>7 DEF SharesTime
  <2>6. ASSUME NEW i \in 1..(Len(rows) + 1)
        PROVE  \/ i = u + 1 /\ rows'[i] = row
               \/ \E k \in 1..Len(rows) :
                    rows'[i] = rows[k] /\ ((i <= u /\ k = i) \/ (i > u + 1 /\ k = i - 1))
    <3>1. CASE i <= u
      BY <2>1, <2>3, <3>1
    <3>2. CASE i = u + 1
      BY <2>1, <2>3, <3>2
    <3>3. CASE i > u + 1
      <4>1. i - 1 \in 1..Len(rows) /\ ~(i <= u) /\ i # u + 1
        BY <2>3, <3>3
      <4> QED BY <2>1, <3>3, <4>1, Zenon
    <3> QED BY <2>3, <3>1, <3>2, <3>3
  <2>7. ASSUME NEW i \in 1..(Len(rows) + 1), NEW j \in 1..(Len(rows) + 1), rows'[i].id = rows'[j].id
        PROVE  i = j \/ SharesTime(rows'[i].id)
    <3>1. CASE i = u + 1 /\ rows'[i] = row
      BY <2>5, <2>6, <2>7, <3>1
    <3>2. CASE j = u + 1 /\ rows'[j] = row
      BY <2>5, <2>6, <2>7, <3>2
    <3>3. CASE /\ \E k \in 1..Len(rows) :
                    rows'[i] = rows[k] /\ ((i <= u /\ k = i) \/ (i > u + 1 /\ k = i - 1))
               /\ \E l \in 1..Len(rows) :
                    rows'[j] = rows[l] /\ ((j <= u /\ l = j) \/ (j > u + 1 /\ l = j - 1))
      <4>1. PICK k \in 1..Len(rows) :
              rows'[i] = rows[k] /\ ((i <= u /\ k = i) \/ (i > u + 1 /\ k = i - 1))
        BY <3>3
      <4>2. PICK l \in 1..Len(rows) :
              rows'[j] = rows[l] /\ ((j <= u /\ l = j) \/ (j > u + 1 /\ l = j - 1))
        BY <3>3
      <4>3. k = l \/ SharesTime(rows[k].id)
        BY <2>7, <4>1, <4>2 DEF NoDuplicates
      <4>4. k = l => i = j
        BY <2>3, <4>1, <4>2
      <4> QED BY <4>1, <4>3, <4>4
    <3> QED BY <2>6, <3>1, <3>2, <3>3
  <2>8. DOMAIN rows' = 1..(Len(rows) + 1)
    BY <2>1
  <2> QED BY <2>7, <2>8 DEF NoDuplicates
<1> QED BY <1>1, <1>2, <1>3, <1>4

LEMMA AddMessagesUnique ==
  ASSUME rows \in Seq(Row), RowsSorted, NoDuplicates, NEW row \in Row, AddMessages(row)
  PROVE  NoDuplicates'
<1>1. CASE rows = <<>> /\ rows' = <<row>>
  BY <1>1 DEF NoDuplicates
<1>2. CASE rows # <<>> /\ AddMessage(row)
  BY <1>2, AddMessageUnique
<1> QED BY <1>1, <1>2 DEF AddMessages

LEMMA DeleteUnique ==
  ASSUME rows \in Seq(Row), NoDuplicates, NEW id \in Message, deleteMessage(id)
  PROVE  NoDuplicates'
<1>1. CASE UNCHANGED rows
  BY <1>1 DEF NoDuplicates
<1>2. CASE \E k \in DOMAIN rows : rows' = RemoveAt(rows, k)
  <2>1. PICK k \in 1..Len(rows) : rows' = RemoveAt(rows, k)
    BY <1>2
  <2>2. /\ rows' \in Seq(Row) /\ Len(rows') = Len(rows) - 1
        /\ \A i \in 1..(Len(rows) - 1) : rows'[i] = IF i < k THEN rows[i] ELSE rows[i + 1]
    BY <2>1, RemoveAtLemma
  <2>3. ASSUME NEW i \in 1..(Len(rows) - 1), NEW j \in 1..(Len(rows) - 1), rows'[i].id = rows'[j].id
        PROVE  i = j \/ SharesTime(rows'[i].id)
    <3>1. PICK a \in 1..Len(rows) : rows'[i] = rows[a] /\ a = IF i < k THEN i ELSE i + 1
      BY <2>2
    <3>2. PICK b \in 1..Len(rows) : rows'[j] = rows[b] /\ b = IF j < k THEN j ELSE j + 1
      BY <2>2
    <3>3. a = b \/ SharesTime(rows[a].id)
      BY <2>3, <3>1, <3>2 DEF NoDuplicates
    <3>4. a = b => i = j
      BY <3>1, <3>2
    <3> QED BY <3>1, <3>3, <3>4
  <2>4. DOMAIN rows' = 1..(Len(rows) - 1)
    BY <2>2
  <2> QED BY <2>3, <2>4 DEF NoDuplicates
<1> QED BY <1>1, <1>2 DEF deleteMessage

LEMMA ClearUnique ==
  ASSUME rows \in Seq(Row), NoDuplicates, clearHistory
  PROVE  NoDuplicates'
<1>1. rows' \in Seq(Row) /\ DOMAIN rows' = 1..KeepRows /\ KeepRows \in Nat
  BY ClearRows
<1>2. PICK first \in 1..Len(rows) : \A i \in 1..KeepRows :
        first + i - 1 \in 1..Len(rows) /\ rows'[i] = rows[first + i - 1]
  BY ClearRows
<1>3. ASSUME NEW i \in 1..KeepRows, NEW j \in 1..KeepRows, rows'[i].id = rows'[j].id
      PROVE  i = j \/ SharesTime(rows'[i].id)
  <2>1. PICK a \in 1..Len(rows) : a = first + i - 1 /\ rows'[i] = rows[a]
    BY <1>2, Zenon
  <2>2. PICK b \in 1..Len(rows) : b = first + j - 1 /\ rows'[j] = rows[b]
    BY <1>2, Zenon
  <2>3. a = b \/ SharesTime(rows[a].id)
    BY <1>3, <2>1, <2>2 DEF NoDuplicates
  <2>4. a = b => i = j
    BY <1>1, <2>1, <2>2
  <2> QED BY <2>1, <2>3, <2>4
<1> QED BY <1>1, <1>3 DEF NoDuplicates

LEMMA UniqueStep == IInv /\ NoDuplicates /\ [Next]_vars => NoDuplicates'
<1> SUFFICES ASSUME IInv, NoDuplicates, [Next]_vars PROVE NoDuplicates'
  OBVIOUS
<1> USE DEF IInv
<1>1. CASE UNCHANGED rows
  BY <1>1 DEF NoDuplicates
<1>2. ASSUME NEW i \in DOMAIN jobs, HistoryDone(i)
      PROVE  NoDuplicates'
  <2>1. PICK page : /\ page = jobs[i].page
                    /\ \A r, s \in page : r.id = s.id => r = s
    BY DEF PagesCorrect
  <2>2. CASE rows' \in Sorted(page)
    <3>1. rows' \in SetToSeqs(page)
      BY <2>2, Zenon DEF Sorted
    <3>2. /\ rows' \in [1..Cardinality(page) -> page]
          /\ \A m, n \in 1..Cardinality(page) : m # n => rows'[m] # rows'[n]
      BY <3>1, Zenon DEF SetToSeqs
    <3> QED BY <2>1, <3>2 DEF NoDuplicates
  <2>3. rows' \in Sorted(page) \/ UNCHANGED rows
    BY <1>2, <2>1 DEF HistoryDone
  <2> QED BY <1>1, <2>2, <2>3
<1>3. ASSUME AddNext PROVE NoDuplicates'
  <2>1. Head(batch) \in Row
    BY <1>3, HeadTailProperties DEF TypeOK, AddNext, Idle
  <2> QED BY <1>3, <2>1, AddMessageUnique DEF TypeOK, AddNext
<1>4. ASSUME slotChanged PROVE NoDuplicates'
  <2>1. PICK event \in Event : event = Head(events)
    BY <1>4, HeadTailProperties DEF TypeOK, slotChanged
  <2>2. event.row \in Row /\ event.row.id \in Message
    BY DEF Event, Row
  <2>3. AddMessages(event.row) \/ deleteMessage(event.row.id)
    BY <1>4, <2>1 DEF slotChanged
  <2> QED BY <2>2, <2>3, AddMessagesUnique, DeleteUnique DEF TypeOK
<1>5. ASSUME NEW id \in Message, slotPostMessageDone(id)
      PROVE  NoDuplicates'
  <2>1. PICK row \in Row : row = [id |-> id, version |-> 0, pending |-> TRUE]
    <3>1. TRUE \in BOOLEAN /\ 0 \in 0..MaxVersion
      BY BoundAssumption
    <3> QED BY <3>1 DEF Row
  <2>2. AddMessages(row)
    BY <1>5, <2>1 DEF slotPostMessageDone
  <2> QED BY <2>2, AddMessagesUnique DEF TypeOK
<1>6. ASSUME clearHistory PROVE NoDuplicates'
  BY <1>6, ClearUnique DEF TypeOK
<1>7. CASE Server
  BY <1>1, <1>7 DEF Server, Post, Edit, Delete, Subscribed, AnswerHistory
<1>8. CASE \/ checkInitializedRoom
           \/ \E numberMessages \in 0..Cardinality(Message) : loadHistory(numberMessages)
           \/ \E i \in DOMAIN jobs : HistoryFails(i)
           \/ UNCHANGED vars
  BY <1>1, <1>8 DEF checkInitializedRoom, loadHistory, HistoryFails, vars
<1> QED BY <1>2, <1>3, <1>4, <1>5, <1>6, <1>7, <1>8, Zenon DEF Next, Client

\* No message is in the list twice, unless it shares its time with another:
\* the binary search finds the row a message is to replace.
THEOREM RowsUnique == Spec => []NoDuplicates
<1>1. Init => NoDuplicates
  BY DEF Init, NoDuplicates
<1> QED BY <1>1, Inductive, UniqueStep, PTL DEF Spec

-----------------------------------------------------------------------------
\* An upper bound is behind all the rows that have the message already.
LEMMA BehindAll ==
  ASSUME rows \in Seq(Row), NEW row \in Row, NEW u \in 0..Len(rows), UpperBound(u, row),
         NEW k \in 1..Len(rows), rows[k].id = row.id
  PROVE  k <= u
<1>1. rows[k] \in Row /\ Time(rows[k]) \in Nat /\ Len(rows) \in Nat
  BY TimeType
<1>2. Time(rows[k]) = Time(row)
  BY DEF Time
<1> QED BY <1>1, <1>2 DEF UpperBound

\* What an insertion makes of a list, its order left aside.
LEMMA InsertedElements ==
  ASSUME NEW S, NEW s \in Seq(S), NEW e \in S, NEW u \in 0..Len(s)
  PROVE  /\ Range(InsertAt(s, u + 1, e)) = Range(s) \cup {e}
         /\ InsertAt(s, u + 1, e) # <<>>
         /\ InsertAt(s, u + 1, e)[1] = IF u = 0 THEN e ELSE s[1]
<1> DEFINE t == InsertAt(s, u + 1, e)
<1>1. /\ t \in Seq(S) /\ Len(t) = Len(s) + 1
      /\ \A i \in 1..(Len(s) + 1) :
           t[i] = IF i <= u THEN s[i] ELSE IF i = u + 1 THEN e ELSE s[i - 1]
  <2>1. InsertedAt(t, S, s, u, e)
    BY InsertAtLemma
  <2> HIDE DEF t
  <2> QED BY <2>1, Zenon DEF InsertedAt
<1> HIDE DEF t
<1>2. Len(s) \in Nat /\ DOMAIN s = 1..Len(s) /\ DOMAIN t = 1..(Len(s) + 1)
  BY <1>1
<1>3. ASSUME NEW i \in 1..(Len(s) + 1)
      PROVE  t[i] \in Range(s) \cup {e}
  <2>1. CASE i <= u
    BY <1>1, <1>2, <2>1 DEF Range
  <2>2. CASE i = u + 1
    <3>1. ~(i <= u)
      BY <1>2, <2>2
    <3> QED BY <1>1, <2>2, <3>1, Zenon
  <2>3. CASE i > u + 1
    <3>1. i - 1 \in 1..Len(s) /\ ~(i <= u) /\ i # u + 1
      BY <1>2, <2>3
    <3>2. t[i] = s[i - 1]
      BY <1>1, <3>1, Zenon
    <3> QED BY <1>2, <3>1, <3>2 DEF Range
  <2> QED BY <1>2, <2>1, <2>2, <2>3
<1>4. e \in Range(t)
  <2>1. u + 1 \in 1..(Len(s) + 1) /\ ~(u + 1 <= u)
    BY <1>2
  <2>2. t[u + 1] = e
    BY <1>1, <2>1, Zenon
  <2> QED BY <1>2, <2>1, <2>2 DEF Range
<1>5. ASSUME NEW k \in 1..Len(s)
      PROVE  s[k] \in Range(t)
  <2>1. CASE k <= u
    BY <1>1, <1>2, <2>1 DEF Range
  <2>2. CASE k > u
    <3>1. PICK i \in 1..(Len(s) + 1) : i = k + 1 /\ ~(i <= u) /\ i # u + 1 /\ i - 1 = k
      BY <1>2, <2>2
    <3>2. t[i] = s[k]
      BY <1>1, <3>1, Zenon
    <3> QED BY <1>2, <3>2 DEF Range
  <2> QED BY <1>2, <2>1, <2>2
<1>6. Range(t) = Range(s) \cup {e}
  BY <1>2, <1>3, <1>4, <1>5 DEF Range
<1>7. t[1] = IF u = 0 THEN e ELSE s[1]
  <2>1. 1 \in 1..(Len(s) + 1) /\ (u = 0 => ~(1 <= u) /\ 1 = u + 1) /\ (u # 0 => 1 <= u)
    BY <1>2
  <2> QED BY <1>1, <2>1, Zenon
<1>8. t # <<>>
  BY <1>1, <1>2
<1> QED BY <1>6, <1>7, <1>8, Zenon DEF t

\* The last row of each message.
LastRows == {rows[i] : i \in {k \in DOMAIN rows : IsLast(k)}}

\* What adding a message makes of the rows: only that message gets a new last
\* row, always when it is not pending; none drops out; the oldest row stays the
\* oldest, unless the message is older.
Added(row) ==
  /\ rows' # <<>>
  /\ \A r \in LastRows' : r = row \/ r \in LastRows
  /\ ~row.pending => \A r \in LastRows' : r.id = row.id => r = row
  /\ \E r \in Range(rows') : r.id = row.id
  /\ \A q \in Range(rows) : \E r \in Range(rows') : r.id = q.id
  /\ \/ rows # <<>> /\ rows'[1].id = rows[1].id
     \/ rows'[1] = row /\ ~Loaded(row.id) /\ (rows # <<>> => Time(row) < Time(rows[1]))

LEMMA InsertedLast ==
  ASSUME rows \in Seq(Row), NEW row \in Row, NEW u \in 0..Len(rows), UpperBound(u, row),
         rows' = InsertAt(rows, u + 1, row)
  PROVE  \A r \in LastRows' : r = row \/ (r \in LastRows /\ r.id # row.id)
<1>1. /\ rows' \in Seq(Row) /\ Len(rows') = Len(rows) + 1
      /\ \A i \in 1..(Len(rows) + 1) :
           rows'[i] = IF i <= u THEN rows[i] ELSE IF i = u + 1 THEN row ELSE rows[i - 1]
  <2>1. InsertedAt(InsertAt(rows, u + 1, row), Row, rows, u, row)
    BY InsertAtLemma
  <2> QED BY <2>1, Zenon DEF InsertedAt
<1>2. Len(rows) \in Nat /\ DOMAIN rows = 1..Len(rows) /\ DOMAIN rows' = 1..(Len(rows) + 1)
  BY <1>1
<1>3. rows'[u + 1] = row /\ u + 1 \in 1..(Len(rows) + 1)
  <2>1. u + 1 \in 1..(Len(rows) + 1) /\ ~(u + 1 <= u)
    BY <1>2
  <2> QED BY <1>1, <2>1, Zenon
<1>4. ASSUME NEW k \in 1..Len(rows), k > u
      PROVE  k + 1 \in 1..(Len(rows) + 1) /\ rows'[k + 1] = rows[k]
  <2>1. PICK n \in 1..(Len(rows) + 1) : n = k + 1 /\ ~(n <= u) /\ n # u + 1 /\ n - 1 = k
    BY <1>2, <1>4
  <2>2. rows'[n] = rows[k]
    BY <1>1, <2>1, Zenon
  <2> QED BY <2>1, <2>2
<1>5. ASSUME NEW k \in 1..Len(rows), k <= u
      PROVE  k \in 1..(Len(rows) + 1) /\ rows'[k] = rows[k]
  BY <1>1, <1>2, <1>5
<1>6. ASSUME NEW i \in 1..(Len(rows) + 1), IsLast(i)', rows'[i] # row
      PROVE  rows'[i] \in LastRows /\ rows'[i].id # row.id
  <2>1. \A j \in 1..(Len(rows) + 1) : j > i => rows'[j].id # rows'[i].id
    BY <1>2, <1>6 DEF IsLast
  <2>2. CASE i <= u
    <3>1. i \in 1..Len(rows) /\ rows'[i] = rows[i]
      BY <1>2, <1>5, <2>2
    <3>2. ASSUME NEW j \in 1..Len(rows), j > i
          PROVE  rows[j].id # rows[i].id
      <4>1. CASE j <= u
        BY <1>5, <2>1, <3>1, <3>2, <4>1
      <4>2. CASE j > u
        <5>1. j + 1 \in 1..(Len(rows) + 1) /\ rows'[j + 1] = rows[j]
          BY <1>4, <4>2
        <5>2. j + 1 > i
          BY <3>2
        <5> QED BY <2>1, <3>1, <5>1, <5>2
      <4> QED BY <4>1, <4>2
    <3>3. rows'[i].id # row.id
      BY <1>2, <1>3, <2>1, <2>2
    <3>4. IsLast(i)
      BY <1>2, <3>2 DEF IsLast
    <3> QED BY <1>2, <3>1, <3>3, <3>4 DEF LastRows
  <2>3. CASE i > u
    <3>1. PICK k \in 1..Len(rows) : k + 1 = i /\ k > u
      <4>1. i # u + 1
        BY <1>3, <1>6
      <4>2. i - 1 \in 1..Len(rows) /\ i - 1 + 1 = i /\ i - 1 > u
        BY <1>2, <2>3, <4>1
      <4> QED BY <4>2, Zenon
    <3>2. rows'[i] = rows[k]
      BY <1>4, <3>1
    <3>3. ASSUME NEW j \in 1..Len(rows), j > k
          PROVE  rows[j].id # rows[k].id
      <4>1. j > u /\ j + 1 > i
        BY <3>1, <3>3
      <4>2. j + 1 \in 1..(Len(rows) + 1) /\ rows'[j + 1] = rows[j]
        BY <1>4, <4>1
      <4> QED BY <2>1, <3>2, <4>1, <4>2
    <3>4. rows[k].id # row.id
      <4>1. rows[k].id = row.id => k <= u
        BY BehindAll
      <4> QED BY <3>1, <4>1
    <3>5. IsLast(k)
      BY <1>2, <3>3 DEF IsLast
    <3> QED BY <1>2, <3>2, <3>4, <3>5 DEF LastRows
  <2> QED BY <1>2, <2>2, <2>3
<1> QED BY <1>2, <1>6 DEF LastRows

LEMMA AddMessageEffect ==
  ASSUME rows \in Seq(Row), NEW row \in Row, AddMessage(row)
  PROVE  Added(row)
<1>1. PICK u \in 0..Len(rows) : AddMessage(row)!(u)
  BY DEF AddMessage
<1>2. UpperBound(u, row) /\ Len(rows) \in Nat /\ DOMAIN rows = 1..Len(rows)
  BY <1>1
<1>3. CASE IsOnlyRow(row) /\ rows' = <<row>>
  <2>1. Len(rows) = 1 /\ rows[1].id = row.id
    BY <1>3 DEF IsOnlyRow
  <2>2. Range(rows') = {row} /\ rows' # <<>> /\ rows'[1] = row /\ DOMAIN rows' = {1}
    BY <1>3 DEF Range
  <2>3. rows # <<>>
    BY <2>1
  <2>4. Range(rows) = {rows[1]}
    BY <1>2, <2>1 DEF Range
  <2>5. \A r \in LastRows' : r = row
    BY <2>2 DEF LastRows
  <2> QED BY <2>1, <2>2, <2>3, <2>4, <2>5 DEF Added
<1>4. CASE /\ ~IsOnlyRow(row) /\ u > 0 /\ rows[u].id = row.id
           /\ rows' = IF row.pending THEN rows ELSE [rows EXCEPT ![u] = row]
  <2>1. u \in 1..Len(rows) /\ rows # <<>> /\ 1 \in 1..Len(rows)
    BY <1>2, <1>4
  <2>2. CASE row.pending
    <3>1. rows' = rows
      BY <1>4, <2>2
    <3>2. rows[u] \in Range(rows)
      BY <1>2, <2>1 DEF Range
    <3>3. LastRows' = LastRows
      BY <3>1 DEF LastRows, IsLast
    <3> QED BY <1>4, <2>1, <2>2, <3>1, <3>2, <3>3, Zenon DEF Added
  <2>3. CASE ~row.pending
    <3>1. /\ DOMAIN rows' = 1..Len(rows) /\ rows' # <<>>
          /\ \A i \in 1..Len(rows) : rows'[i] = IF i = u THEN row ELSE rows[i]
      BY <1>2, <1>4, <2>1, <2>3
    <3>2. \A i \in 1..Len(rows) : rows'[i].id = rows[i].id
      BY <1>4, <3>1
    <3>3. ASSUME NEW i \in 1..Len(rows), IsLast(i)'
          PROVE  rows'[i] = row \/ (rows'[i] \in LastRows /\ rows'[i].id # row.id)
      <4>1. CASE i = u
        BY <3>1, <4>1
      <4>2. CASE i # u
        <5>1. rows'[i] = rows[i] /\ IsLast(i)
          BY <1>2, <3>1, <3>2, <3>3, <4>2 DEF IsLast
        <5>2. rows[i] \in LastRows
          BY <1>2, <5>1 DEF LastRows
        <5>3. rows[i].id # row.id
          <6>1. rows[i].id = row.id => i <= u
            BY <1>2, BehindAll
          <6>2. rows[i].id = row.id => ~(u > i)
            BY <1>2, <1>4, <2>1, <5>1 DEF IsLast
          <6> QED BY <2>1, <4>2, <6>1, <6>2
        <5> QED BY <5>1, <5>2, <5>3
      <4> QED BY <4>1, <4>2
    <3>4. \A r \in LastRows' : r = row \/ (r \in LastRows /\ r.id # row.id)
      BY <3>1, <3>3 DEF LastRows
    <3>5. row \in Range(rows')
      BY <2>1, <3>1 DEF Range
    <3>6. \A q \in Range(rows) : \E r \in Range(rows') : r.id = q.id
      BY <1>2, <3>1, <3>2 DEF Range
    <3>7. rows # <<>> /\ rows'[1].id = rows[1].id
      BY <2>1, <3>2
    <3> QED BY <3>1, <3>4, <3>5, <3>6, <3>7, Zenon DEF Added
  <2> QED BY <2>2, <2>3
<1>5. CASE /\ ~IsOnlyRow(row) /\ ~(u > 0 /\ rows[u].id = row.id)
           /\ rows' = InsertAt(rows, u + 1, row)
  <2>1. /\ Range(rows') = Range(rows) \cup {row}
        /\ rows' # <<>>
        /\ rows'[1] = IF u = 0 THEN row ELSE rows[1]
    <3>1. /\ Range(InsertAt(rows, u + 1, row)) = Range(rows) \cup {row}
          /\ InsertAt(rows, u + 1, row) # <<>>
          /\ InsertAt(rows, u + 1, row)[1] = IF u = 0 THEN row ELSE rows[1]
      BY InsertedElements
    <3> QED BY <1>5, <3>1
  <2>2. \A r \in LastRows' : r = row \/ (r \in LastRows /\ r.id # row.id)
    BY <1>2, <1>5, InsertedLast
  <2>3. \/ rows # <<>> /\ rows'[1].id = rows[1].id
        \/ rows'[1] = row /\ ~Loaded(row.id) /\ (rows # <<>> => Time(row) < Time(rows[1]))
    <3>1. CASE u = 0
      <4>1. rows # <<>> => 1 \in (u + 1)..Len(rows)
        BY <1>2, <3>1
      <4>2. rows # <<>> => Time(rows[1]) > Time(row) /\ Time(row) \in Nat /\ Time(rows[1]) \in Nat
        BY <1>2, <4>1, TimeType DEF UpperBound
      <4>3. rows # <<>> => Time(row) < Time(rows[1])
        BY <4>2
      <4>4. ~Loaded(row.id)
        <5>1. \A k \in 1..Len(rows) : rows[k].id = row.id => k <= u
          BY <1>2, BehindAll
        <5> QED BY <1>2, <3>1, <5>1 DEF Loaded
      <4> QED BY <2>1, <3>1, <4>3, <4>4
    <3>2. CASE u # 0
      <4>1. rows # <<>>
        BY <1>2, <3>2
      <4> QED BY <2>1, <3>2, <4>1
    <3> QED BY <3>1, <3>2
  <2> QED BY <2>1, <2>2, <2>3, Zenon DEF Added
<1> QED BY <1>1, <1>3, <1>4, <1>5

LEMMA AddMessagesEffect ==
  ASSUME rows \in Seq(Row), NEW row \in Row, AddMessages(row)
  PROVE  Added(row)
<1>1. CASE rows = <<>> /\ rows' = <<row>>
  <2>1. Range(rows') = {row} /\ Range(rows) = {} /\ rows' # <<>> /\ rows'[1] = row /\ DOMAIN rows' = {1}
    BY <1>1 DEF Range
  <2>2. ~Loaded(row.id)
    BY <1>1 DEF Loaded
  <2>3. \A r \in LastRows' : r = row
    BY <2>1 DEF LastRows
  <2> QED BY <1>1, <2>1, <2>2, <2>3 DEF Added
<1>2. CASE rows # <<>> /\ AddMessage(row)
  BY <1>2, AddMessageEffect
<1> QED BY <1>1, <1>2 DEF AddMessages

\* What deleting a message makes of the rows: its first row goes.
LEMMA DeleteEffect ==
  ASSUME rows \in Seq(Row), NoDuplicates, NEW id \in Message, deleteMessage(id)
  PROVE  /\ Range(rows') \subseteq Range(rows)
         /\ \A r \in Range(rows) : r.id # id => r \in Range(rows')
         /\ LastRows' \subseteq LastRows
         /\ \A r \in LastRows' : r.id = id => SharesTime(id)
<1>1. CASE ~Loaded(id) /\ UNCHANGED rows
  <2>1. LastRows' = LastRows
    BY <1>1 DEF LastRows, IsLast
  <2>2. \A r \in LastRows : r.id # id
    BY <1>1 DEF Loaded, LastRows
  <2> QED BY <1>1, <2>1, <2>2
<1>2. ASSUME NEW k \in DOMAIN rows, rows[k].id = id, \A j \in 1..(k - 1) : rows[j].id # id,
             rows' = RemoveAt(rows, k)
      PROVE  /\ Range(rows') \subseteq Range(rows)
             /\ \A r \in Range(rows) : r.id # id => r \in Range(rows')
             /\ LastRows' \subseteq LastRows
             /\ \A r \in LastRows' : r.id = id => SharesTime(id)
  <2>1. k \in 1..Len(rows) /\ Len(rows) \in Nat /\ DOMAIN rows = 1..Len(rows)
    OBVIOUS
  <2>2. /\ rows' \in Seq(Row) /\ Len(rows') = Len(rows) - 1
        /\ \A i \in 1..(Len(rows) - 1) : rows'[i] = IF i < k THEN rows[i] ELSE rows[i + 1]
    BY <1>2, <2>1, RemoveAtLemma
  <2>3. DOMAIN rows' = 1..(Len(rows) - 1)
    BY <2>2
  <2>4. ASSUME NEW a \in 1..Len(rows), a # k
        PROVE  \E i \in 1..(Len(rows) - 1) : rows'[i] = rows[a] /\ i = IF a < k THEN a ELSE a - 1
    <3>1. CASE a < k
      BY <2>1, <2>2, <3>1
    <3>2. CASE a > k
      <4>1. PICK i \in 1..(Len(rows) - 1) : i + 1 = a /\ ~(i < k) /\ i = a - 1
        <5>1. a - 1 \in 1..(Len(rows) - 1) /\ a - 1 + 1 = a /\ ~(a - 1 < k)
          BY <2>1, <3>2
        <5> QED BY <5>1, Zenon
      <4>2. rows'[i] = rows[a]
        BY <2>2, <4>1, Zenon
      <4>3. ~(a < k)
        BY <2>1, <3>2
      <4> QED BY <4>1, <4>2, <4>3
    <3> QED BY <2>1, <2>4, <3>1, <3>2
  <2>5. ASSUME NEW i \in 1..(Len(rows) - 1)
        PROVE  \E a \in 1..Len(rows) : rows'[i] = rows[a] /\ a # k /\ a = IF i < k THEN i ELSE i + 1
    BY <2>1, <2>2
  <2>6. Range(rows') \subseteq Range(rows)
    BY <2>1, <2>3, <2>5 DEF Range
  <2>7. \A r \in Range(rows) : r.id # id => r \in Range(rows')
    <3>1. SUFFICES ASSUME NEW a \in 1..Len(rows), rows[a].id # id
                   PROVE  rows[a] \in Range(rows')
      BY <2>1 DEF Range
    <3>2. a # k
      BY <1>2, <3>1
    <3>3. \E i \in 1..(Len(rows) - 1) : rows'[i] = rows[a]
      BY <2>4, <3>2
    <3> QED BY <2>3, <3>3 DEF Range
  <2>8. ASSUME NEW i \in 1..(Len(rows) - 1), IsLast(i)'
        PROVE  rows'[i] \in LastRows /\ (rows'[i].id = id => SharesTime(id))
    <3>1. PICK a \in 1..Len(rows) : rows'[i] = rows[a] /\ a # k /\ a = IF i < k THEN i ELSE i + 1
      BY <2>5
    <3>2. rows[a].id = id => SharesTime(id)
      BY <1>2, <2>1, <3>1 DEF NoDuplicates
    <3>3. ASSUME NEW b \in 1..Len(rows), b > a, b # k
          PROVE  rows[b].id # rows[a].id
      <4>1. PICK j \in 1..(Len(rows) - 1) : rows'[j] = rows[b] /\ j = IF b < k THEN b ELSE b - 1
        BY <2>4, <3>3
      <4>2. j > i
        BY <2>1, <3>1, <3>3, <4>1
      <4>3. rows'[j].id # rows'[i].id
        BY <2>3, <2>8, <4>2 DEF IsLast
      <4> QED BY <3>1, <4>1, <4>3
    <3>4. k > a => rows[k].id # rows[a].id
      BY <1>2, <2>1
    <3>5. IsLast(a)
      BY <2>1, <3>3, <3>4 DEF IsLast
    <3> QED BY <2>1, <3>1, <3>2, <3>5 DEF LastRows
  <2> QED BY <2>3, <2>6, <2>7, <2>8 DEF LastRows
<1> QED BY <1>1, <1>2 DEF deleteMessage

-----------------------------------------------------------------------------
\* What a client that applied all it is told would show.  A row is right when
\* it is as the server has it, or the client will still hear of its message,
\* or it never will, or the message is deleted and its time is another's, too; the
\* last event there is of a message tells the truth.
Right(row) ==
  \/ row.id \in overtaken
  \/ Announced(row.id)
  \/ row.id \in live /\ row.version = version[row.id]
  \/ Gone(row.id) /\ SharesTime(row.id)

Tells(event) ==
  IF event.kind = "message" THEN event.row.id \in live /\ event.row.version = version[event.row.id]
                            ELSE event.row.id \notin live

LastOfItsMessage(i) == \A j \in DOMAIN events : j > i => events[j].row.id # events[i].row.id

EventsTell ==
  /\ stream # "active" => events = <<>>
  /\ \A i \in DOMAIN events :
       /\ ~events[i].row.pending
       /\ LastOfItsMessage(i) => Tells(events[i])

RowsRight == \A row \in LastRows \cup Range(batch) : Right(row)

CurrentInv == EventsTell /\ RowsRight

LEMMA CurrentRow ==
  ASSUME TypeOK, NEW id \in Message, NEW v \in 0..MaxVersion
  PROVE  [id |-> id, version |-> v, pending |-> FALSE] \in Row
BY DEF Row

\* The server announces a change of e's message, and no other message changes.
LEMMA EmitTells ==
  ASSUME TypeOK, EventsTell, NEW e \in Event, Emit(e.kind, e.row), stream' = stream,
         ~e.row.pending, Tells(e)',
         \A id \in Message : id # e.row.id => (id \in live' <=> id \in live) /\ version'[id] = version[id]
  PROVE  EventsTell'
<1>1. e.kind \in {"message", "delete"} /\ e.row \in Row /\ e = [kind |-> e.kind, row |-> e.row]
  BY DEF Event
<1>2. CASE stream = "active"
  <2>1. events' = Append(events, e)
    BY <1>1, <1>2 DEF Emit
  <2>2. /\ events \in Seq(Event) /\ Len(events) \in Nat /\ DOMAIN events = 1..Len(events)
        /\ DOMAIN events' = 1..(Len(events) + 1) /\ events'[Len(events) + 1] = e
        /\ \A i \in 1..Len(events) : events'[i] = events[i]
    BY <2>1 DEF TypeOK
  <2>3. ASSUME NEW i \in 1..(Len(events) + 1)
        PROVE  ~events'[i].row.pending /\ (LastOfItsMessage(i)' => Tells(events[i])')
    <3>1. CASE i = Len(events) + 1
      <4>1. events'[i] = e
        BY <2>2, <3>1
      <4>2. Tells(e)' => Tells(events[i])'
        BY <4>1 DEF Tells
      <4> QED BY <4>1, <4>2
    <3>2. CASE i \in 1..Len(events)
      <4>1. PICK f \in Event : f = events[i] /\ events'[i] = f /\ ~f.row.pending
        BY <2>2, <3>2 DEF EventsTell
      <4>2. f.row.id \in Message
        BY DEF Event, Row
      <4>3. ASSUME LastOfItsMessage(i)'
            PROVE  Tells(f)'
        <5>1. \A j \in DOMAIN events' : j > i => events'[j].row.id # events'[i].row.id
          BY <4>3 DEF LastOfItsMessage
        <5>2. f.row.id # e.row.id
          <6>1. Len(events) + 1 \in DOMAIN events' /\ Len(events) + 1 > i
            BY <2>2, <3>2
          <6> QED BY <2>2, <4>1, <5>1, <6>1
        <5>3. LastOfItsMessage(i)
          BY <2>2, <3>2, <5>1 DEF LastOfItsMessage
        <5>4. Tells(f)
          BY <2>2, <3>2, <4>1, <5>3 DEF EventsTell
        <5> QED BY <4>2, <5>2, <5>4 DEF Tells
      <4>4. Tells(f)' => Tells(events[i])'
        BY <4>1 DEF Tells
      <4> QED BY <4>1, <4>3, <4>4
    <3> QED BY <2>2, <3>1, <3>2
  <2> QED BY <1>2, <2>2, <2>3 DEF EventsTell
<1>3. CASE stream # "active"
  <2>1. events' = <<>>
    BY <1>3 DEF Emit, EventsTell
  <2> QED BY <2>1 DEF EventsTell
<1> QED BY <1>2, <1>3

LEMMA EventsStep == IInv /\ EventsTell /\ [Next]_vars => EventsTell'
<1> SUFFICES ASSUME IInv, EventsTell, [Next]_vars PROVE EventsTell'
  OBVIOUS
<1> USE DEF IInv
<1>0. TypeOK /\ \A id \in Message : version[id] \in 0..MaxVersion
  BY DEF TypeOK
<1>1. ASSUME NEW id \in Message, NEW own \in BOOLEAN, Post(id, own)
      PROVE  EventsTell'
  <2>1. PICK e \in Event : e.kind = "message" /\ e.row = Current(id)
    <3>1. Current(id) \in Row
      BY <1>0, CurrentRow DEF Current
    <3>2. [kind |-> "message", row |-> Current(id)] \in Event
      BY <3>1 DEF Event
    <3> QED BY <3>2
  <2>2. e.row.id = id /\ e.row.version = version[id] /\ ~e.row.pending
    BY <2>1 DEF Current
  <2>3. Emit(e.kind, e.row) /\ stream' = stream /\ live' = live \cup {id} /\ version' = version
    BY <1>1, <2>1 DEF Post
  <2>4. Tells(e)'
    BY <2>1, <2>2, <2>3 DEF Tells
  <2> QED BY <1>0, <2>2, <2>3, <2>4, EmitTells
<1>2. ASSUME NEW id \in Message, Edit(id)
      PROVE  EventsTell'
  <2>1. version[id] + 1 \in 0..MaxVersion
    BY <1>0, <1>2, BoundAssumption DEF Edit
  <2>2. PICK r \in Row : r = Current(id) /\ r.id = id /\ r.version = version[id] /\ ~r.pending
    <3>1. Current(id) \in Row
      BY <1>0, CurrentRow DEF Current
    <3> QED BY <3>1 DEF Current
  <2>3. PICK e \in Event : e.kind = "message" /\ e.row = [r EXCEPT !.version = @ + 1]
    <3>1. [r EXCEPT !.version = @ + 1] \in Row
      BY <2>1, <2>2 DEF Row
    <3>2. [kind |-> "message", row |-> [r EXCEPT !.version = @ + 1]] \in Event
      BY <3>1 DEF Event
    <3> QED BY <3>2
  <2>4. e.row.id = id /\ e.row.version = version[id] + 1 /\ ~e.row.pending
    BY <2>2, <2>3 DEF Row
  <2>5. Emit(e.kind, e.row) /\ stream' = stream /\ live' = live /\ id \in live
    BY <1>2, <2>2, <2>3, Zenon DEF Edit
  <2>6. version' = [version EXCEPT ![id] = @ + 1] /\ version \in [Message -> 0..MaxVersion]
    BY <1>2 DEF Edit, TypeOK
  <2>7. Tells(e)'
    BY <2>3, <2>4, <2>5, <2>6 DEF Tells
  <2>8. \A other \in Message : other # e.row.id =>
          (other \in live' <=> other \in live) /\ version'[other] = version[other]
    BY <2>4, <2>5, <2>6
  <2> QED BY <1>0, <2>4, <2>5, <2>7, <2>8, EmitTells
<1>3. ASSUME NEW id \in Message, Delete(id)
      PROVE  EventsTell'
  <2>1. PICK e \in Event : e.kind = "delete" /\ e.row = Current(id)
    <3>1. Current(id) \in Row
      BY <1>0, CurrentRow DEF Current
    <3>2. [kind |-> "delete", row |-> Current(id)] \in Event
      BY <3>1 DEF Event
    <3> QED BY <3>2
  <2>2. e.row.id = id /\ ~e.row.pending
    BY <2>1 DEF Current
  <2>3. Emit(e.kind, e.row) /\ stream' = stream /\ live' = live \ {id} /\ version' = version
    BY <1>3, <2>1 DEF Delete
  <2>4. Tells(e)'
    BY <2>1, <2>2, <2>3 DEF Tells
  <2> QED BY <1>0, <2>2, <2>3, <2>4, EmitTells
<1>4. ASSUME slotChanged PROVE EventsTell'
  <2>1. events # <<>> /\ events \in Seq(Event) /\ events' = Tail(events) /\ UNCHANGED <<live, version, stream>>
    BY <1>4 DEF slotChanged, TypeOK, server
  <2>2. /\ Len(events) \in Nat \ {0} /\ DOMAIN events = 1..Len(events) /\ DOMAIN events' = 1..(Len(events) - 1)
        /\ \A i \in 1..(Len(events) - 1) : events'[i] = events[i + 1] /\ i + 1 \in 1..Len(events)
    BY <2>1
  <2>3. ASSUME NEW i \in 1..(Len(events) - 1)
        PROVE  ~events'[i].row.pending /\ (LastOfItsMessage(i)' => Tells(events[i])')
    <3>1. events'[i] = events[i + 1] /\ i + 1 \in 1..Len(events)
      BY <2>2
    <3>2. ASSUME LastOfItsMessage(i)'
          PROVE  LastOfItsMessage(i + 1)
      <4> SUFFICES ASSUME NEW j \in 1..Len(events), j > i + 1
          PROVE  events[j].row.id # events[i + 1].row.id
        BY <2>2 DEF LastOfItsMessage
      <4>1. PICK k \in 1..(Len(events) - 1) : k + 1 = j /\ k > i
        <5>1. j - 1 \in 1..(Len(events) - 1) /\ j - 1 + 1 = j /\ j - 1 > i
          BY <2>2
        <5> QED BY <5>1, Zenon
      <4>2. events'[k] = events[j]
        BY <2>2, <4>1
      <4>3. events'[k].row.id # events'[i].row.id
        BY <2>2, <3>2, <4>1 DEF LastOfItsMessage
      <4> QED BY <3>1, <4>2, <4>3
    <3>3. ~events[i + 1].row.pending /\ (LastOfItsMessage(i + 1) => Tells(events[i + 1]))
      BY <2>2, <3>1 DEF EventsTell
    <3>4. Tells(events[i + 1]) => Tells(events[i])'
      BY <2>1, <3>1 DEF Tells
    <3> QED BY <3>1, <3>2, <3>3, <3>4
  <2>4. stream' = "active"
    BY <2>1 DEF EventsTell
  <2> QED BY <2>2, <2>3, <2>4 DEF EventsTell
<1>5. CASE UNCHANGED <<events, live, version, stream>>
  BY <1>5 DEF EventsTell, Tells, LastOfItsMessage
<1>6. CASE Subscribed \/ checkInitializedRoom
  <2>1. events = <<>> /\ events' = <<>>
    BY <1>6 DEF Subscribed, checkInitializedRoom, EventsTell
  <2> QED BY <2>1 DEF EventsTell
<1>7. CASE \/ \E i \in DOMAIN jobs : AnswerHistory(i)
           \/ \E numberMessages \in 0..Cardinality(Message) : loadHistory(numberMessages)
           \/ \E i \in DOMAIN jobs : HistoryDone(i) \/ HistoryFails(i)
           \/ AddNext
           \/ \E id \in Message : slotPostMessageDone(id)
           \/ clearHistory
           \/ UNCHANGED vars
  <2>1. UNCHANGED <<events, live, version, stream>>
    BY <1>7 DEF AnswerHistory, loadHistory, HistoryDone, HistoryFails, AddNext, slotPostMessageDone,
                clearHistory, vars, server
  <2> QED BY <1>5, <2>1
<1> QED BY <1>1, <1>2, <1>3, <1>4, <1>6, <1>7, Zenon DEF Next, Server, Client

\* Before the room is opened nothing is loaded; messages are posted in the
\* order of their times; a message that is deleted does not come back.
Orderly ==
  /\ stream = "none" => jobs = <<>> /\ replies = {} /\ rows = <<>> /\ batch = <<>>
  /\ \A id \in live : id \notin unposted
  /\ \A id \in Message \ unposted, other \in unposted : Timestamp[id] <= Timestamp[other]
  /\ \A event \in Range(events) :
       /\ event.row.id \notin unposted
       /\ event.kind = "delete" => event.row.id \notin live

LEMMA EmitElements ==
  ASSUME TypeOK, NEW kind, NEW row, Emit(kind, row)
  PROVE  /\ Range(events) \subseteq Range(events')
         /\ Range(events') \subseteq Range(events) \cup {[kind |-> kind, row |-> row]}
<1>1. CASE events' = Append(events, [kind |-> kind, row |-> row])
  <2>1. PICK e : e = [kind |-> kind, row |-> row]
    OBVIOUS
  <2>2. events \in Seq(Event) /\ events' = Append(events, e)
    BY <1>1, <2>1 DEF TypeOK
  <2>3. /\ DOMAIN events' = 1..(Len(events) + 1) /\ events'[Len(events) + 1] = e /\ Len(events) \in Nat
        /\ DOMAIN events = 1..Len(events) /\ \A i \in 1..Len(events) : events'[i] = events[i]
    BY <2>2
  <2>4. Range(events) \subseteq Range(events') /\ Range(events') \subseteq Range(events) \cup {e}
    BY <2>3 DEF Range
  <2> QED BY <2>1, <2>4
<1>2. CASE events' = events
  BY <1>2 DEF Range
<1> QED BY <1>1, <1>2 DEF Emit

LEMMA OrderlyStep == IInv /\ EventsTell /\ Orderly /\ [Next]_vars => Orderly'
<1> SUFFICES ASSUME IInv, EventsTell, Orderly, [Next]_vars PROVE Orderly'
  OBVIOUS
<1>0. /\ TypeOK /\ events \in Seq(Event) /\ live \subseteq Message /\ unposted \subseteq Message
      /\ Timestamp \in [Message -> Nat \ {0}]
  BY TimestampAssumption DEF IInv, TypeOK
<1>1. ASSUME UNCHANGED stream,
             stream = "none" => UNCHANGED <<jobs, rows, batch>> /\ replies' \subseteq replies,
             \A id \in live' : id \notin unposted', unposted' \subseteq unposted,
             \A id \in Message \ unposted', other \in unposted' : Timestamp[id] <= Timestamp[other],
             \A event \in Range(events') : event \in Range(events) \/ event.row.id \notin unposted',
             \A event \in Range(events') : event.kind = "delete" => event.row.id \notin live'
      PROVE  Orderly'
  BY <1>1 DEF Orderly
<1>2. ASSUME Idle, NEW id \in Message, NEW own \in BOOLEAN, Post(id, own)
      PROVE  Orderly'
  <2>1. /\ UNCHANGED <<stream, jobs, rows, batch>> /\ live' = live \cup {id} /\ unposted' = unposted \ {id}
        /\ id \in unposted /\ \A other \in unposted : Timestamp[id] <= Timestamp[other]
        /\ stream = "none" => replies' = replies
    BY <1>2 DEF Post
  <2>2. Range(events') \subseteq Range(events) \cup {[kind |-> "message", row |-> Current(id)]}
    BY <1>0, <1>2, EmitElements DEF Post
  <2>3. ASSUME NEW event \in Range(events')
        PROVE  /\ event \in Range(events) \/ event.row.id \notin unposted'
               /\ event.kind = "delete" => event.row.id \notin live'
    <3>1. CASE event = [kind |-> "message", row |-> Current(id)]
      <4>1. event.kind = "message" /\ event.row.id = id
        BY <3>1 DEF Current
      <4> QED BY <2>1, <4>1
    <3>2. CASE event \in Range(events)
      BY <2>1, <3>2 DEF Orderly
    <3> QED BY <2>2, <3>1, <3>2
  <2>4. \A a \in live' : a \notin unposted'
    BY <2>1 DEF Orderly
  <2>5. \A a \in Message \ unposted', other \in unposted' : Timestamp[a] <= Timestamp[other]
    BY <2>1 DEF Orderly
  <2> QED BY <1>1, <2>1, <2>3, <2>4, <2>5
<1>3. ASSUME Idle, NEW id \in Message, Edit(id)
      PROVE  Orderly'
  <2>1. UNCHANGED <<stream, jobs, rows, batch, replies, live, unposted>> /\ id \in live
    BY <1>3 DEF Edit
  <2>2. PICK row : row = [Current(id) EXCEPT !.version = @ + 1]
    OBVIOUS
  <2>3. row.id = id
    BY <2>2 DEF Current
  <2>4. Emit("message", row)
    BY <1>3, <2>2, Zenon DEF Edit
  <2>5. Range(events') \subseteq Range(events) \cup {[kind |-> "message", row |-> row]}
    BY <1>0, <2>4, EmitElements
  <2>6. ASSUME NEW event \in Range(events')
        PROVE  /\ event \in Range(events) \/ event.row.id \notin unposted'
               /\ event.kind = "delete" => event.row.id \notin live'
    <3>1. CASE event = [kind |-> "message", row |-> row]
      <4>1. event.kind = "message" /\ event.row.id = id
        BY <2>3, <3>1
      <4> QED BY <2>1, <4>1 DEF Orderly
    <3>2. CASE event \in Range(events)
      BY <2>1, <3>2 DEF Orderly
    <3> QED BY <2>5, <3>1, <3>2
  <2> QED BY <1>1, <2>1, <2>6 DEF Orderly
<1>4. ASSUME Idle, NEW id \in Message, Delete(id)
      PROVE  Orderly'
  <2>1. UNCHANGED <<stream, jobs, rows, batch, replies, unposted>> /\ live' = live \ {id} /\ id \in live
    BY <1>4 DEF Delete
  <2>2. Range(events') \subseteq Range(events) \cup {[kind |-> "delete", row |-> Current(id)]}
    BY <1>0, <1>4, EmitElements DEF Delete
  <2>3. ASSUME NEW event \in Range(events')
        PROVE  /\ event \in Range(events) \/ event.row.id \notin unposted'
               /\ event.kind = "delete" => event.row.id \notin live'
    <3>1. CASE event = [kind |-> "delete", row |-> Current(id)]
      <4>1. event.row.id = id
        BY <3>1 DEF Current
      <4> QED BY <2>1, <4>1 DEF Orderly
    <3>2. CASE event \in Range(events)
      BY <2>1, <3>2 DEF Orderly
    <3> QED BY <2>2, <3>1, <3>2
  <2> QED BY <1>1, <2>1, <2>3 DEF Orderly
<1>5. CASE \/ Subscribed
           \/ checkInitializedRoom
  BY <1>5 DEF Subscribed, checkInitializedRoom, server, Orderly
<1>6. CASE slotChanged
  <2>1. stream = "active"
    BY <1>6 DEF slotChanged, EventsTell
  <2>2. Range(events') \subseteq Range(events)
    BY <1>0, <1>6 DEF slotChanged, Range
  <2>3. UNCHANGED <<live, unposted, stream>>
    BY <1>6 DEF slotChanged, server
  <2> QED BY <1>1, <2>1, <2>2, <2>3 DEF Orderly
<1>7. CASE UNCHANGED <<live, unposted, stream, events>> /\ stream # "none"
  BY <1>7 DEF Orderly
<1>8. CASE UNCHANGED <<live, unposted, stream, events, rows, batch, jobs, replies>>
  BY <1>8 DEF Orderly
<1>9. CASE \E i \in DOMAIN jobs : AnswerHistory(i) \/ HistoryDone(i) \/ HistoryFails(i)
  <2>1. jobs # <<>>
    BY <1>9
  <2>2. UNCHANGED <<live, unposted, stream, events>>
    BY <1>9 DEF AnswerHistory, HistoryDone, HistoryFails, server
  <2> QED BY <1>7, <2>1, <2>2 DEF Orderly
<1>10. CASE \/ \E numberMessages \in 0..Cardinality(Message) : loadHistory(numberMessages)
            \/ AddNext
            \/ \E id \in Message : slotPostMessageDone(id)
  <2>1. stream # "none"
    BY <1>10 DEF loadHistory, AddNext, Idle, slotPostMessageDone, Orderly
  <2>2. UNCHANGED <<live, unposted, stream, events>>
    BY <1>10 DEF loadHistory, AddNext, slotPostMessageDone, server
  <2> QED BY <1>7, <2>1, <2>2
<1>11. CASE clearHistory
  <2>1. rows # <<>>
    BY <1>11, SizeAssumption DEF clearHistory
  <2>2. UNCHANGED <<live, unposted, stream, events>>
    BY <1>11 DEF clearHistory, server
  <2> QED BY <1>7, <2>1, <2>2 DEF Orderly
<1>12. CASE UNCHANGED vars
  BY <1>8, <1>12 DEF vars
<1> QED BY <1>2, <1>3, <1>4, <1>5, <1>6, <1>9, <1>10, <1>11, <1>12, Zenon DEF Next, Server, Client

-----------------------------------------------------------------------------
\* The lists made of a page hold nothing else.
LEMMA PageElements ==
  ASSUME NEW page
  PROVE  \A s \in Sorted(page) \cup NewestFirst(page) : Range(s) \subseteq page
<1>1. \A s \in SetToSeqs(page) : s \in [1..Cardinality(page) -> page]
  BY Zenon DEF SetToSeqs
<1>2. \A s \in SetToSeqs(page) : Range(s) \subseteq page
  BY <1>1 DEF Range
<1> QED BY <1>2, Zenon DEF Sorted, NewestFirst

\* A message that is edited or deleted while its row is in the list is
\* announced, or noted as one the client is not told about.
LEMMA ServerRight ==
  ASSUME IInv, NEW row \in Row, row \in Range(rows), Right(row), Server
  PROVE  Right(row)'
<1> USE DEF IInv
<1>0. /\ row.id \in Message /\ Loaded(row.id) /\ version \in [Message -> 0..MaxVersion]
      /\ events \in Seq(Event)
  BY DEF Row, Loaded, Range, TypeOK
<1>1. ASSUME NEW e, events' = Append(events, e)
      PROVE  (Announced(row.id) => Announced(row.id)') /\ (e.row.id = row.id => Announced(row.id)')
  <2>1. /\ DOMAIN events' = 1..(Len(events) + 1) /\ events'[Len(events) + 1] = e /\ Len(events) \in Nat
        /\ DOMAIN events = 1..Len(events) /\ \A i \in 1..Len(events) : events'[i] = events[i]
    BY <1>0, <1>1
  <2> QED BY <2>1 DEF Announced
<1>2. ASSUME NEW id \in Message, NEW own \in BOOLEAN, Post(id, own)
      PROVE  Right(row)'
  <2>1. /\ live' = live \cup {id} /\ UNCHANGED <<version, overtaken>> /\ Emit("message", Current(id))
      /\ id \in unposted /\ unposted' = unposted \ {id}
    BY <1>2 DEF Post
  <2>2. Announced(row.id) => Announced(row.id)'
    <3>1. CASE events' = events
      BY <3>1 DEF Announced
    <3>2. CASE events' = Append(events, [kind |-> "message", row |-> Current(id)])
      BY <1>1, <3>2
    <3> QED BY <2>1, <3>1, <3>2 DEF Emit
  <2> QED BY <2>1, <2>2 DEF Right, Gone
<1>3. ASSUME NEW id \in Message, NEW kind, NEW changed, Emit(kind, changed), changed.id = id,
             overtaken' = overtaken \cup Untold(id), live' \subseteq live, unposted' = unposted,
             \A other \in Message : other # id => (other \in live' <=> other \in live) /\ version'[other] = version[other]
      PROVE  Right(row)'
  <2>1. CASE stream = "active"
    <3>1. events' = Append(events, [kind |-> kind, row |-> changed]) /\ overtaken \subseteq overtaken'
      BY <1>3, <2>1 DEF Emit
    <3>2. (Announced(row.id) => Announced(row.id)') /\ (changed.id = row.id => Announced(row.id)')
      BY <1>1, <3>1
    <3> QED BY <1>0, <1>3, <3>1, <3>2 DEF Right, Gone
  <2>2. CASE stream # "active"
    <3>1. events' = events /\ overtaken' = overtaken \cup (IF Loaded(id) THEN {id} ELSE {})
      BY <1>3, <2>2 DEF Emit, Untold
    <3>2. Announced(row.id) <=> Announced(row.id)'
      BY <3>1 DEF Announced
    <3> QED BY <1>0, <1>3, <3>1, <3>2 DEF Right, Gone
  <2> QED BY <2>1, <2>2
<1>4. ASSUME NEW id \in Message, Edit(id)
      PROVE  Right(row)'
  <2>1. PICK changed : changed = [Current(id) EXCEPT !.version = @ + 1]
    OBVIOUS
  <2>2. changed.id = id
    BY <2>1 DEF Current
  <2>3. Emit("message", changed)
    BY <1>4, <2>1, Zenon DEF Edit
  <2>4. /\ overtaken' = overtaken \cup Untold(id) /\ live' = live /\ version' = [version EXCEPT ![id] = @ + 1]
        /\ unposted' = unposted
    BY <1>4 DEF Edit
  <2>5. \A other \in Message : other # id =>
          (other \in live' <=> other \in live) /\ version'[other] = version[other]
    BY <1>0, <2>4
  <2> QED BY <1>3, <2>2, <2>3, <2>4, <2>5
<1>5. ASSUME NEW id \in Message, Delete(id)
      PROVE  Right(row)'
  <2>1. /\ Emit("delete", Current(id)) /\ Current(id).id = id
        /\ overtaken' = overtaken \cup Untold(id) /\ live' = live \ {id} /\ UNCHANGED <<version, unposted>>
    BY <1>5 DEF Delete, Current
  <2> QED BY <1>3, <2>1
<1>6. CASE Subscribed \/ \E i \in DOMAIN jobs : AnswerHistory(i)
  BY <1>6 DEF Subscribed, AnswerHistory, server, Right, Announced, Gone
<1> QED BY <1>2, <1>4, <1>5, <1>6 DEF Server

\* What clearHistory keeps are the last rows.
LEMMA ClearLast ==
  ASSUME rows \in Seq(Row), clearHistory
  PROVE  LastRows' \subseteq LastRows
<1>1. /\ DOMAIN rows = 1..Len(rows) /\ DOMAIN rows' = 1..KeepRows /\ KeepRows \in Nat /\ Len(rows) \in Nat
      /\ \E first \in 1..Len(rows) :
           /\ first + KeepRows = Len(rows) + 1
           /\ \A i \in 1..KeepRows : first + i - 1 \in 1..Len(rows) /\ rows'[i] = rows[first + i - 1]
  BY ClearRows
<1>2. PICK first \in 1..Len(rows) :
        /\ first + KeepRows = Len(rows) + 1
        /\ \A i \in 1..KeepRows : first + i - 1 \in 1..Len(rows) /\ rows'[i] = rows[first + i - 1]
  BY <1>1
<1>3. ASSUME NEW i \in 1..KeepRows, IsLast(i)'
      PROVE  rows'[i] \in LastRows
  <2>1. PICK k \in 1..Len(rows) : k = first + i - 1 /\ rows'[i] = rows[k]
    BY <1>2, Zenon
  <2>2. ASSUME NEW l \in 1..Len(rows), l > k
        PROVE  rows[l].id # rows[k].id
    <3>1. PICK j \in 1..KeepRows : l = first + j - 1
      <4>1. l - first + 1 \in 1..KeepRows /\ l = first + (l - first + 1) - 1
        BY <1>1, <1>2, <2>1, <2>2
      <4> QED BY <4>1, Zenon
    <3>2. rows'[j] = rows[l]
      BY <1>2, <3>1, Zenon
    <3>3. j > i
      BY <1>1, <2>1, <2>2, <3>1
    <3>4. rows'[j].id # rows'[i].id
      BY <1>1, <1>3, <3>3 DEF IsLast
    <3> QED BY <2>1, <3>2, <3>4
  <2>3. IsLast(k)
    BY <1>1, <2>2 DEF IsLast
  <2> QED BY <1>1, <2>1, <2>3 DEF LastRows
<1> QED BY <1>1, <1>3 DEF LastRows

LEMMA RowsStep == IInv /\ NoDuplicates /\ Orderly /\ CurrentInv /\ [Next]_vars => RowsRight'
<1> SUFFICES ASSUME IInv, NoDuplicates, Orderly, CurrentInv, [Next]_vars PROVE RowsRight'
  OBVIOUS
<1> USE DEF IInv
<1>0. /\ rows \in Seq(Row) /\ batch \in Seq(Row) /\ RowsSorted /\ events \in Seq(Event)
      /\ \A r \in Range(rows) \cup Range(batch) : r \in Row
      /\ LastRows \subseteq Range(rows)
  BY DEF TypeOK, Range, LastRows
<1>1. CASE Idle /\ Server
  <2>1. batch = <<>> /\ UNCHANGED <<rows, batch>> /\ Range(batch) = {}
    <3>1. UNCHANGED <<rows, batch>>
      BY <1>1 DEF Server, Post, Edit, Delete, Subscribed, AnswerHistory
    <3>2. batch = <<>>
      BY <1>1 DEF Idle
    <3> QED BY <3>1, <3>2 DEF Range
  <2>2. LastRows' = LastRows
    BY <2>1 DEF LastRows, IsLast
  <2>3. \A r \in LastRows : Right(r)'
    BY <1>0, <1>1, ServerRight DEF CurrentInv, RowsRight
  <2> QED BY <2>1, <2>2, <2>3 DEF RowsRight
<1>2. ASSUME UNCHANGED <<live, version, unposted, events>>, overtaken \subseteq overtaken',
             \A r \in LastRows' \cup Range(batch') : r \in LastRows \cup Range(batch) \/ Right(r)'
      PROVE  RowsRight'
  <2>1. \A r : Right(r) => Right(r)'
    BY <1>2 DEF Right, Announced, Gone
  <2> QED BY <1>2, <2>1 DEF RowsRight, CurrentInv
<1>3. ASSUME NEW i \in DOMAIN jobs, HistoryDone(i)
      PROVE  RowsRight'
  <2>1. PICK page : page = jobs[i].page
    OBVIOUS
  <2>2. /\ overtaken' = overtaken \cup {row.id : row \in {r \in page : Outdated(r)}}
        /\ UNCHANGED <<live, version, unposted, events>>
        /\ \/ rows' \in Sorted(page) /\ batch' = <<>>
           \/ batch' \in NewestFirst(page) /\ rows' = rows
    BY <1>3, <2>1 DEF HistoryDone, server
  <2>3. LastRows' \cup Range(batch') \subseteq LastRows \cup page
    <3>1. CASE rows' \in Sorted(page) /\ batch' = <<>>
      <4>1. Range(rows') \subseteq page /\ Range(batch') = {}
        BY <3>1, PageElements DEF Range
      <4> QED BY <4>1 DEF LastRows, Range
    <3>2. CASE batch' \in NewestFirst(page) /\ rows' = rows
      <4>1. LastRows' = LastRows
        BY <3>2 DEF LastRows, IsLast
      <4> QED BY <3>2, <4>1, PageElements
    <3> QED BY <2>2, <3>1, <3>2
  <2>4. ASSUME NEW r \in page
        PROVE  Right(r)'
    <3>1. CASE Outdated(r)
      BY <2>2, <3>1 DEF Right
    <3>2. CASE ~Outdated(r)
      BY <2>2, <3>2 DEF Outdated, Right, Announced
    <3> QED BY <3>1, <3>2
  <2> QED BY <1>2, <2>2, <2>3, <2>4
<1>4. ASSUME AddNext PROVE RowsRight'
  <2>1. Head(batch) \in Row /\ Range(batch') \cup {Head(batch)} \subseteq Range(batch)
    BY <1>0, <1>4 DEF AddNext, Idle, Range
  <2>2. Added(Head(batch))
    BY <1>0, <1>4, <2>1, AddMessageEffect DEF AddNext
  <2>3. UNCHANGED <<live, version, unposted, events, overtaken>>
    BY <1>4 DEF AddNext, server
  <2> QED BY <1>2, <2>1, <2>2, <2>3 DEF Added
<1>5. ASSUME slotChanged PROVE RowsRight'
  <2>1. PICK event \in Event : event = Head(events) /\ event.row \in Row /\ event.row.id \in Message
    <3>1. \A event \in Event : event.row \in Row /\ event.row.id \in Message
      BY DEF Event, Row
    <3> QED BY <1>0, <1>5, <3>1, HeadTailProperties DEF slotChanged
  <2>2. /\ batch = <<>> /\ batch' = <<>> /\ Range(batch') = {} /\ UNCHANGED <<live, version, unposted>>
        /\ events # <<>> /\ events' = Tail(events) /\ overtaken' = overtaken \ {event.row.id}
    BY <1>5, <2>1 DEF slotChanged, Idle, server, Range
  <2>3. \A id \in Message : id # event.row.id /\ Announced(id) => Announced(id)'
    <3> SUFFICES ASSUME NEW id \in Message, id # event.row.id, Announced(id) PROVE Announced(id)'
      OBVIOUS
    <3>1. PICK k \in DOMAIN events : events[k].row.id = id
      BY DEF Announced
    <3>2. k # 1
      <4>1. events[1] = event
        BY <1>0, <2>1, <2>2
      <4> QED BY <3>1, <4>1
    <3>3. k - 1 \in DOMAIN events' /\ events'[k - 1] = events[k]
      BY <1>0, <2>2, <3>2
    <3> QED BY <3>1, <3>3 DEF Announced
  <2>4. ASSUME NEW r \in LastRows, r.id # event.row.id
        PROVE  Right(r)'
    BY <1>0, <2>2, <2>3, <2>4 DEF Right, RowsRight, CurrentInv, Row, Gone
  <2>5. CASE event.kind = "message" /\ AddMessages(event.row)
    <3>1. Added(event.row)
      BY <1>0, <2>1, <2>5, AddMessagesEffect
    <3>2. 1 \in DOMAIN events /\ events[1] = event /\ Len(events) \in Nat
      BY <1>0, <2>1, <2>2
    <3>3. ~event.row.pending /\ (LastOfItsMessage(1) => Tells(event))
      BY <3>2 DEF CurrentInv, EventsTell
    <3>4. Right(event.row)'
      <4>1. CASE LastOfItsMessage(1)
        BY <2>2, <2>5, <3>3, <4>1 DEF Tells, Right
      <4>2. CASE ~LastOfItsMessage(1)
        <5>1. PICK k \in 1..Len(events) : k > 1 /\ events[k].row.id = event.row.id
          BY <1>0, <3>2, <4>2 DEF LastOfItsMessage
        <5>2. k - 1 \in DOMAIN events' /\ events'[k - 1] = events[k]
          BY <1>0, <2>2, <5>1
        <5> QED BY <5>1, <5>2 DEF Right, Announced
      <4> QED BY <4>1, <4>2
    <3>5. ASSUME NEW r \in LastRows'
          PROVE  Right(r)'
      <4>1. CASE r.id = event.row.id
        BY <3>1, <3>3, <3>4, <4>1, Zenon DEF Added
      <4>2. CASE r.id # event.row.id
        BY <2>4, <3>1, <4>2, Zenon DEF Added
      <4> QED BY <4>1, <4>2
    <3> QED BY <2>2, <3>5 DEF RowsRight
  <2>6. CASE event.kind = "delete" /\ deleteMessage(event.row.id)
    <3>1. LastRows' \subseteq LastRows /\ \A r \in LastRows' : r.id = event.row.id => SharesTime(r.id)
      BY <1>0, <2>1, <2>6, DeleteEffect
    <3>2. 1 \in DOMAIN events /\ events[1] = event /\ Len(events) \in Nat
      BY <1>0, <2>1, <2>2
    <3>3. ASSUME NEW r \in LastRows', r.id = event.row.id
          PROVE  Right(r)'
      <4>1. CASE LastOfItsMessage(1)
        <5>1. event.row.id \notin live
          BY <2>6, <3>2, <4>1 DEF CurrentInv, EventsTell, Tells
        <5>2. event.row.id \notin unposted
          BY <3>2 DEF Orderly, Range
        <5> QED BY <2>2, <3>1, <3>3, <5>1, <5>2 DEF Right, Gone
      <4>2. CASE ~LastOfItsMessage(1)
        <5>1. PICK k \in 1..Len(events) : k > 1 /\ events[k].row.id = event.row.id
          BY <1>0, <3>2, <4>2 DEF LastOfItsMessage
        <5>2. k - 1 \in DOMAIN events' /\ events'[k - 1] = events[k]
          BY <1>0, <2>2, <5>1
        <5> QED BY <3>3, <5>1, <5>2 DEF Right, Announced
      <4> QED BY <4>1, <4>2
    <3> QED BY <2>2, <2>4, <3>1, <3>3 DEF RowsRight
  <2>7. \/ event.kind = "message" /\ AddMessages(event.row)
        \/ event.kind = "delete" /\ deleteMessage(event.row.id)
    BY <1>5, <2>1 DEF slotChanged
  <2> QED BY <2>5, <2>6, <2>7
<1>6. ASSUME NEW id \in Message, slotPostMessageDone(id)
      PROVE  RowsRight'
  <2>1. PICK row \in Row : row = [id |-> id, version |-> 0, pending |-> TRUE]
    <3>1. TRUE \in BOOLEAN /\ 0 \in 0..MaxVersion
      BY BoundAssumption
    <3> QED BY <3>1 DEF Row
  <2>2. /\ AddMessages(row) /\ UNCHANGED <<live, version, unposted, events, batch>>
        /\ overtaken' = IF Outdated(row) /\ rows' # rows THEN overtaken \cup {id} ELSE overtaken
    BY <1>6, <2>1 DEF slotPostMessageDone, server
  <2>3. Added(row)
    BY <1>0, <2>2, AddMessagesEffect
  <2>4. row.id = id /\ row.pending
    BY <2>1
  <2>5. CASE rows' = rows
    <3>1. LastRows' = LastRows
      BY <2>5 DEF LastRows, IsLast
    <3> QED BY <1>2, <2>2, <2>5, <3>1
  <2>6. CASE rows' # rows
    <3>1. Right(row)'
      <4>1. CASE Outdated(row)
        BY <2>2, <2>4, <2>6, <4>1 DEF Right
      <4>2. CASE ~Outdated(row)
        BY <2>2, <4>2 DEF Outdated, Right, Announced
      <4> QED BY <4>1, <4>2
    <3>2. \A r \in LastRows' \cup Range(batch') : r \in LastRows \cup Range(batch) \/ Right(r)'
      BY <2>2, <2>3, <3>1 DEF Added
    <3> QED BY <1>2, <2>2, <3>2
  <2> QED BY <2>5, <2>6
<1>7. ASSUME clearHistory PROVE RowsRight'
  <2>1. LastRows' \subseteq LastRows
    BY <1>0, <1>7, ClearLast
  <2>2. UNCHANGED <<live, version, unposted, events, overtaken, batch>>
    BY <1>7 DEF clearHistory, server
  <2> QED BY <1>2, <2>1, <2>2
<1>8. CASE \/ checkInitializedRoom
           \/ \E numberMessages \in 0..Cardinality(Message) : loadHistory(numberMessages)
           \/ \E i \in DOMAIN jobs : HistoryFails(i)
           \/ UNCHANGED vars
  <2>1. UNCHANGED <<live, version, unposted, events, overtaken, rows, batch>>
    BY <1>8 DEF checkInitializedRoom, loadHistory, HistoryFails, vars, server
  <2>2. LastRows' = LastRows
    BY <2>1 DEF LastRows, IsLast
  <2> QED BY <1>2, <2>1, <2>2
<1> QED BY <1>1, <1>3, <1>4, <1>5, <1>6, <1>7, <1>8, Zenon DEF Next, Client

\* A row that differs from the server's message, when all events are applied, is
\* one that a page, a reply or a change before the subscription is known to have
\* left behind, or one of a message that shares its time with another and is
\* there twice: what overtakes what is all there is to it.
THEOREM RowsCorrect == Spec => []RowsAreCurrent
<1>1. Init => CurrentInv /\ Orderly
  <2> SUFFICES ASSUME Init PROVE CurrentInv /\ Orderly
    OBVIOUS
  <2>1. /\ rows = <<>> /\ jobs = <<>> /\ batch = <<>> /\ events = <<>> /\ replies = {}
        /\ live = History /\ unposted = Message \ History
    BY DEF Init
  <2>2. Range(rows) = {} /\ LastRows = {} /\ Range(batch) = {} /\ Range(events) = {} /\ DOMAIN events = {}
    BY <2>1 DEF Range, LastRows
  <2>3. CurrentInv
    BY <2>1, <2>2 DEF CurrentInv, EventsTell, RowsRight
  <2>4. Orderly
    BY <2>1, <2>2, HistoryAssumption DEF Orderly
  <2> QED BY <2>3, <2>4
<1>2. IInv /\ NoDuplicates /\ Orderly /\ CurrentInv /\ [Next]_vars => CurrentInv' /\ Orderly'
  BY EventsStep, RowsStep, OrderlyStep DEF CurrentInv
<1>3. CurrentInv => RowsAreCurrent
  <2> SUFFICES ASSUME CurrentInv, Quiet, NEW i \in DOMAIN rows, rows[i].id \notin overtaken, IsLast(i)
      PROVE  IF rows[i].id \in live THEN rows[i].version = version[rows[i].id] ELSE SharesTime(rows[i].id)
    BY DEF RowsAreCurrent
  <2>1. Right(rows[i])
    BY DEF CurrentInv, RowsRight, LastRows
  <2>2. ~Announced(rows[i].id)
    BY DEF Quiet, Announced
  <2> QED BY <2>1, <2>2 DEF Right, Gone
<1> QED BY <1>1, <1>2, <1>3, Inductive, RowsUnique, PTL DEF Spec

-----------------------------------------------------------------------------
\* Nothing is missing after a time when for every later message the server
\* has, that message or one of its time is in the list, or on its way there (in
\* the batch being added, in a page, or announced), or deleted.
Known(id) == Loaded(id) \/ Announced(id) \/ \E row \in Range(batch) : row.id = id

Covered(id) == \E other \in Message : Timestamp[other] = Timestamp[id] /\ (Known(other) \/ Gone(other))

Complete(time) == \A id \in live : Timestamp[id] > time => Covered(id)

RowsIntact == rows # <<>> => Complete(Time(rows[1]))

BatchIntact == \A row \in Range(batch) : Complete(Time(row))

JobIntact(job) ==
  /\ job.end # NoEnd => \A id \in live : Timestamp[id] >= job.end => Covered(id)
  /\ \A row \in job.page, id \in live :
       Timestamp[id] > Time(row) => Covered(id) \/ \E other \in job.page : Time(other) = Timestamp[id]

JobsIntact == \A job \in Range(jobs) : JobIntact(job)

\* An event that brings a new message is followed by those of all later ones.
EventsIntact ==
  \A i \in DOMAIN events :
    events[i].kind = "message" /\ events[i].row.version = 0 =>
      \A id \in live : Timestamp[id] > Time(events[i].row) =>
        \E j \in DOMAIN events : j > i /\ events[j].row.id = id

Intact == RowsIntact /\ BatchIntact /\ JobsIntact /\ EventsIntact

MissingInv == Orderly /\ (~torn => Intact)

\* No message drops out of what is known, unless it is deleted; new ones are
\* known.
KeepsKnown ==
  /\ live \subseteq Message /\ live' \subseteq Message
  /\ \A id \in Message : Known(id) \/ Gone(id) => Known(id)' \/ Gone(id)'
  /\ \A id \in live' \ live : Known(id)'

LEMMA KeepsCovered ==
  ASSUME KeepsKnown, NEW id \in live', id \in live => Covered(id)
  PROVE  Covered(id)'
<1>1. CASE id \in live
  <2>1. PICK other \in Message : Timestamp[other] = Timestamp[id] /\ (Known(other) \/ Gone(other))
    BY <1>1 DEF Covered
  <2> QED BY <2>1 DEF KeepsKnown, Covered
<1>2. CASE id \notin live
  BY <1>2 DEF KeepsKnown, Covered
<1> QED BY <1>1, <1>2

LEMMA KeepsComplete ==
  ASSUME KeepsKnown, NEW time, Complete(time)
  PROVE  Complete(time)'
<1> SUFFICES ASSUME NEW id \in live', Timestamp[id] > time PROVE Covered(id)'
  BY DEF Complete
<1> QED BY KeepsCovered DEF Complete

LEMMA KeepsJob ==
  ASSUME KeepsKnown, NEW job, JobIntact(job)
  PROVE  JobIntact(job)'
<1>1. ASSUME job.end # NoEnd, NEW id \in live', Timestamp[id] >= job.end
      PROVE  Covered(id)'
  BY <1>1, KeepsCovered DEF JobIntact
<1>2. ASSUME NEW row \in job.page, NEW id \in live', Timestamp[id] > Time(row)
      PROVE  Covered(id)' \/ \E other \in job.page : Time(other) = Timestamp[id]
  BY <1>2, KeepsCovered DEF JobIntact
<1> QED BY <1>1, <1>2 DEF JobIntact, Time

\* What stays untorn keeps its rows, its pages and what is still to be added.
LEMMA KeepsIntact ==
  ASSUME KeepsKnown, Intact, Range(jobs') \subseteq Range(jobs), Range(batch') \subseteq Range(batch),
         rows' # <<>> => rows # <<>> /\ rows'[1].id = rows[1].id
  PROVE  RowsIntact' /\ BatchIntact' /\ JobsIntact'
<1>1. RowsIntact'
  <2> SUFFICES ASSUME rows' # <<>> PROVE RowsIntact'
    BY DEF RowsIntact
  <2>1. PICK time : time = Timestamp[rows[1].id] /\ time = Timestamp[rows'[1].id]
    OBVIOUS
  <2>2. Complete(time)
    BY <2>1 DEF Intact, RowsIntact, Time
  <2>3. Complete(time)'
    BY <2>2, KeepsComplete
  <2> QED BY <2>1, <2>3 DEF RowsIntact, Complete, Time
<1>2. BatchIntact'
  <2> SUFFICES ASSUME NEW row \in Range(batch') PROVE Complete(Time(row))'
    BY DEF BatchIntact
  <2> QED BY KeepsComplete DEF Intact, BatchIntact, Time
<1>3. JobsIntact'
  BY KeepsJob DEF Intact, JobsIntact
<1> QED BY <1>1, <1>2, <1>3

\* Times of the messages of rows.
LEMMA Times ==
  /\ Timestamp \in [Message -> Nat \ {0}]
  /\ \A row \in Row : row.id \in Message /\ Time(row) = Timestamp[row.id] /\ Time(row) \in Nat
BY TimestampAssumption DEF Row, Time

\* The lists made of a page hold all of it.
LEMMA PageComplete ==
  ASSUME NEW page, IsFiniteSet(page)
  PROVE  \A s \in Sorted(page) \cup NewestFirst(page) : Range(s) = page
<1> SUFFICES ASSUME NEW s \in SetToSeqs(page) PROVE Range(s) = page
  BY Zenon DEF Sorted, NewestFirst
<1>1. Cardinality(page) \in Nat
  BY FS_CardinalityType
<1>2. /\ s \in [1..Cardinality(page) -> page]
      /\ \A i, j \in 1..Cardinality(page) : i # j => s[i] # s[j]
  BY Zenon DEF SetToSeqs
<1>3. s \in Injection(1..Cardinality(page), page)
  BY <1>2, Zenon DEF Injection, IsInjective
<1>4. Cardinality(1..Cardinality(page)) = Cardinality(page)
  BY <1>1, FS_Interval
<1>5. s \in Surjection(1..Cardinality(page), page)
  BY <1>3, <1>4, FS_Injection, Zenon
<1> QED BY <1>2, <1>5 DEF Surjection, Range

\* A new message is announced behind all others, unless the room is not open yet.
LEMMA PostIntact ==
  ASSUME IInv, EventsTell, MissingInv, Idle, ~torn', NEW id \in Message, NEW own \in BOOLEAN, Post(id, own)
  PROVE  Intact'
<1>0. /\ TypeOK /\ events \in Seq(Event) /\ live \subseteq Message /\ unposted \subseteq Message
      /\ Timestamp \in [Message -> Nat \ {0}]
  BY TimestampAssumption DEF IInv, TypeOK
<1>1. /\ UNCHANGED <<stream, jobs, rows, batch>> /\ live' = live \cup {id} /\ id \in unposted
      /\ stream \in {"none", "active"} /\ ~torn /\ Intact /\ Orderly
  BY <1>0 DEF Post, MissingInv, TypeOK
<1>2. CASE stream = "none"
  <2>1. jobs' = <<>> /\ rows' = <<>> /\ batch' = <<>> /\ events' = <<>>
    <3>1. jobs = <<>> /\ rows = <<>> /\ batch = <<>> /\ events = <<>>
      BY <1>1, <1>2 DEF Orderly, EventsTell
    <3>2. events' = events
      BY <1>2 DEF Post, Emit
    <3> QED BY <1>1, <3>1, <3>2
  <2>2. Range(jobs') = {} /\ Range(batch') = {} /\ DOMAIN events' = {}
    BY <2>1 DEF Range
  <2> QED BY <2>1, <2>2 DEF Intact, RowsIntact, BatchIntact, JobsIntact, EventsIntact
<1>3. CASE stream = "active"
  <2>1. PICK e : e = [kind |-> "message", row |-> Current(id)]
    OBVIOUS
  <2>2. events' = Append(events, e)
    BY <1>3, <2>1 DEF Post, Emit
  <2>3. e.row.id = id
    BY <2>1 DEF Current
  <2>4. /\ DOMAIN events' = 1..(Len(events) + 1) /\ events'[Len(events) + 1] = e /\ Len(events) \in Nat
        /\ DOMAIN events = 1..Len(events) /\ \A i \in 1..Len(events) : events'[i] = events[i]
    BY <1>0, <2>2
  <2>5. KeepsKnown
    <3>1. Known(id)'
      BY <2>3, <2>4 DEF Known, Announced
    <3>2. \A a : Known(a) => Known(a)'
      BY <1>1, <2>4 DEF Known, Loaded, Announced
    <3>3. \A a : Gone(a) => Gone(a)'
      BY <1>1 DEF Post, Gone
    <3> QED BY <1>0, <1>1, <3>1, <3>2, <3>3 DEF KeepsKnown
  <2>6. EventsIntact'
    <3>1. ASSUME NEW i \in 1..(Len(events) + 1), events'[i].kind = "message", events'[i].row.version = 0,
                 NEW a \in live', Timestamp[a] > Time(events'[i].row)
          PROVE  \E j \in DOMAIN events' : j > i /\ events'[j].row.id = a
      <4>1. CASE i = Len(events) + 1
        <5>1. Timestamp[a] > Timestamp[id]
          BY <2>3, <2>4, <3>1, <4>1 DEF Time
        <5>2. a \in Message /\ id \in Message /\ a # id
          BY <1>0, <1>1, <5>1
        <5>3. a \in live /\ a \notin unposted
          BY <1>1, <5>2 DEF Orderly
        <5>4. Timestamp[a] <= Timestamp[id]
          BY <1>1, <5>2, <5>3 DEF Orderly
        <5> QED BY <1>0, <5>1, <5>2, <5>4
      <4>2. CASE i \in 1..Len(events)
        <5>1. events'[i] = events[i]
          BY <2>4, <4>2
        <5>2. CASE a = id
          <6>1. Len(events) + 1 \in DOMAIN events' /\ Len(events) + 1 > i
            BY <2>4, <4>2
          <6> QED BY <2>3, <2>4, <5>2, <6>1
        <5>3. CASE a # id
          <6>1. a \in live
            BY <1>1, <5>3
          <6>2. PICK j \in DOMAIN events : j > i /\ events[j].row.id = a
            BY <1>1, <2>4, <3>1, <4>2, <5>1, <6>1 DEF Intact, EventsIntact
          <6> QED BY <2>4, <6>2
        <5> QED BY <5>2, <5>3
      <4> QED BY <2>4, <4>1, <4>2
    <3> QED BY <2>4, <3>1 DEF EventsIntact, Time
  <2> QED BY <1>1, <2>5, <2>6, KeepsIntact DEF Intact
<1> QED BY <1>1, <1>2, <1>3

\* An edit or a deletion only adds an event of another kind.
LEMMA ChangeIntact ==
  ASSUME IInv, EventsTell, Intact, NEW e, Emit(e.kind, e.row), e = [kind |-> e.kind, row |-> e.row],
         e.kind = "delete" \/ e.row.version # 0,
         live' \subseteq live, UNCHANGED <<unposted, stream, jobs, rows, batch>>
  PROVE  Intact'
<1>0. events \in Seq(Event) /\ live \subseteq Message /\ \A id : Gone(id) => Gone(id)'
  BY DEF IInv, TypeOK, Gone
<1>1. CASE stream # "active"
  <2>1. events' = <<>> /\ events = <<>>
    BY <1>1 DEF Emit, EventsTell
  <2>2. KeepsKnown
    BY <1>0, <2>1 DEF KeepsKnown, Known, Loaded, Announced
  <2>3. EventsIntact'
    BY <2>1 DEF EventsIntact
  <2> QED BY <2>2, <2>3, KeepsIntact DEF Intact
<1>2. CASE stream = "active"
  <2>1. events' = Append(events, e)
    BY <1>2 DEF Emit
  <2>2. /\ DOMAIN events' = 1..(Len(events) + 1) /\ events'[Len(events) + 1] = e /\ Len(events) \in Nat
        /\ DOMAIN events = 1..Len(events) /\ \A i \in 1..Len(events) : events'[i] = events[i]
    BY <1>0, <2>1
  <2>3. \A a : Known(a) => Known(a)'
    BY <2>2 DEF Known, Loaded, Announced
  <2>4. KeepsKnown
    BY <1>0, <2>3 DEF KeepsKnown
  <2>5. EventsIntact'
    <3>1. ASSUME NEW i \in 1..(Len(events) + 1), events'[i].kind = "message", events'[i].row.version = 0,
                 NEW a \in live', Timestamp[a] > Time(events'[i].row)
          PROVE  \E j \in DOMAIN events' : j > i /\ events'[j].row.id = a
      <4>1. i \in 1..Len(events) /\ events'[i] = events[i]
        BY <2>2, <3>1
      <4>2. PICK j \in DOMAIN events : j > i /\ events[j].row.id = a
        BY <2>2, <3>1, <4>1 DEF Intact, EventsIntact
      <4> QED BY <2>2, <4>2
    <3> QED BY <2>2, <3>1 DEF EventsIntact, Time
  <2> QED BY <2>4, <2>5, KeepsIntact DEF Intact
<1> QED BY <1>1, <1>2

\* The page the server answers with leaves out no message newer than its oldest.
LEMMA AnswerIntact ==
  ASSUME IInv, Intact, NEW i \in DOMAIN jobs, AnswerHistory(i)
  PROVE  Intact'
<1>0. jobs \in Seq(Job) /\ live \subseteq Message /\ Timestamp \in [Message -> Nat \ {0}]
  BY TimestampAssumption DEF IInv, TypeOK
<1>1. UNCHANGED <<live, version, unposted, stream, events, rows, batch>>
  BY DEF AnswerHistory, server
<1>2. KeepsKnown /\ RowsIntact' /\ BatchIntact' /\ EventsIntact'
  <2>1. \A id : (Known(id) <=> Known(id)') /\ (Gone(id) <=> Gone(id)')
    BY <1>1 DEF Known, Loaded, Announced, Gone
  <2>2. RowsIntact' /\ BatchIntact'
    BY <1>1, <2>1 DEF Intact, RowsIntact, BatchIntact, Complete, Covered, Time
  <2>3. EventsIntact'
    BY <1>1 DEF Intact, EventsIntact, Time
  <2> QED BY <1>0, <1>1, <2>1, <2>2, <2>3 DEF KeepsKnown
<1>3. PICK end \in Nat : end = jobs[i].end /\ jobs[i] \in Job /\ jobs[i] \in Range(jobs)
  <2>1. jobs[i] \in Job /\ jobs[i] \in Range(jobs)
    BY <1>0 DEF Range
  <2>2. jobs[i].end \in Nat
    BY <2>1 DEF Job
  <2> QED BY <2>1, <2>2
<1> DEFINE Older == {id \in live : end = NoEnd \/ Timestamp[id] < end}
<1>4. PICK ids \in SUBSET Older :
        /\ \A id \in ids, other \in Older \ ids : Timestamp[other] <= Timestamp[id]
        /\ jobs' = [jobs EXCEPT ![i].answered = TRUE, ![i].page = {Current(id) : id \in ids}]
  BY <1>3 DEF AnswerHistory
<1>5. PICK page : page = {Current(id) : id \in ids}
  OBVIOUS
<1>6. PICK job : job = [[jobs[i] EXCEPT !.answered = TRUE] EXCEPT !.page = page]
  OBVIOUS
<1>7. jobs' = [jobs EXCEPT ![i] = job]
  BY <1>0, <1>4, <1>5, <1>6
<1>8. job.end = end /\ job.page = page
  BY <1>3, <1>6 DEF Job
<1>9. JobIntact(job)
  <2>1. JobIntact(jobs[i])
    BY <1>3 DEF Intact, JobsIntact
  <2>2. ASSUME NEW row \in page, NEW id \in live, Timestamp[id] > Time(row)
        PROVE  Covered(id) \/ \E other \in page : Time(other) = Timestamp[id]
    <3>1. PICK a \in ids : row = Current(a)
      BY <1>5
    <3>2. Time(row) = Timestamp[a] /\ a \in Message
      BY <1>0, <3>1 DEF Current, Time
    <3>3. CASE id \in ids
      <4>1. Current(id) \in page /\ Time(Current(id)) = Timestamp[id]
        BY <1>5, <3>3 DEF Current, Time
      <4> QED BY <4>1
    <3>4. CASE id \in Older \ ids
      <4>1. Timestamp[id] <= Timestamp[a]
        BY <1>4, <3>4
      <4>2. Timestamp[id] \in Nat /\ Timestamp[a] \in Nat
        BY <1>0, <3>2
      <4> QED BY <2>2, <3>2, <4>1, <4>2
    <3>5. CASE id \notin Older
      <4>1. end # NoEnd /\ Timestamp[id] >= end
        BY <1>0, <3>5
      <4> QED BY <1>3, <2>1, <4>1 DEF JobIntact
    <3> QED BY <3>3, <3>4, <3>5
  <2> QED BY <1>3, <1>8, <2>1, <2>2 DEF JobIntact
<1>10. JobsIntact'
  <2>1. Range(jobs') \subseteq Range(jobs) \cup {job}
    BY <1>0, <1>7 DEF Range
  <2>2. \A j \in Range(jobs') : JobIntact(j)
    BY <1>9, <2>1 DEF Intact, JobsIntact
  <2>3. \A j \in Range(jobs') : JobIntact(j)'
    BY <1>2, <2>2, KeepsJob
  <2> QED BY <2>3 DEF JobsIntact
<1> QED BY <1>2, <1>10 DEF Intact

\* A job that is started asks for what is before the oldest row, and all that
\* is not is known.
LEMMA StartIntact ==
  ASSUME IInv, Intact, NEW end \in Nat, StartJob(end), end \in {NoEnd, lastTimestamp},
         UNCHANGED <<live, version, unposted, events, rows, batch>>
  PROVE  Intact'
<1>0. /\ jobs \in Seq(Job) /\ rows \in Seq(Row) /\ live \subseteq Message
      /\ Timestamp \in [Message -> Nat \ {0}]
  BY TimestampAssumption DEF IInv, TypeOK
<1>1. KeepsKnown /\ RowsIntact' /\ BatchIntact' /\ EventsIntact'
  <2>1. KeepsKnown
    BY <1>0 DEF KeepsKnown, Known, Loaded, Announced, Gone
  <2>2. RowsIntact' /\ BatchIntact'
    BY <2>1, KeepsComplete DEF Intact, RowsIntact, BatchIntact, Time
  <2>3. EventsIntact'
    BY DEF Intact, EventsIntact, Time
  <2> QED BY <2>1, <2>2, <2>3
<1>2. PICK job : job = [end |-> end, answered |-> FALSE, page |-> {}]
  OBVIOUS
<1>3. job.end = end /\ job.page = {}
  BY <1>2
<1>4. ASSUME end # NoEnd, NEW id \in live, Timestamp[id] >= end
      PROVE  Covered(id)
  <2>1. rows # <<>> /\ end = Time(rows[1]) /\ 1 \in DOMAIN rows /\ rows[1] \in Row
    BY <1>0, <1>4 DEF lastTimestamp
  <2>2. Complete(end)
    BY <2>1 DEF Intact, RowsIntact
  <2>3. CASE Timestamp[id] > end
    BY <2>2, <2>3 DEF Complete
  <2>4. CASE Timestamp[id] = end
    <3>1. Known(rows[1].id) /\ rows[1].id \in Message /\ Timestamp[rows[1].id] = Timestamp[id]
      BY <2>1, <2>4 DEF Time, Row, Known, Loaded
    <3> QED BY <3>1 DEF Covered
  <2>5. id \in Message
    BY <1>0
  <2> QED BY <1>0, <1>4, <2>3, <2>4, <2>5
<1>5. JobIntact(job)
  BY <1>3, <1>4 DEF JobIntact
<1>6. JobsIntact'
  <2>1. jobs' = Append(jobs, job)
    BY <1>2 DEF StartJob
  <2>2. Range(jobs') \subseteq Range(jobs) \cup {job}
    BY <1>0, <2>1 DEF Range
  <2>3. \A j \in Range(jobs') : JobIntact(j)
    BY <1>5, <2>2 DEF Intact, JobsIntact
  <2>4. \A j \in Range(jobs') : JobIntact(j)'
    BY <1>1, <2>3, KeepsJob
  <2> QED BY <2>4 DEF JobsIntact
<1> QED BY <1>1, <1>6 DEF Intact

LEMMA EndJobElements ==
  ASSUME jobs \in Seq(Job), NEW i \in DOMAIN jobs, jobs' = RemoveAt(jobs, i)
  PROVE  Range(jobs') \subseteq Range(jobs)
<1>1. i \in 1..Len(jobs) /\ Len(jobs) \in Nat /\ DOMAIN jobs = 1..Len(jobs)
  OBVIOUS
<1>2. /\ jobs' \in Seq(Job) /\ Len(jobs') = Len(jobs) - 1
      /\ \A k \in 1..(Len(jobs) - 1) : jobs'[k] = IF k < i THEN jobs[k] ELSE jobs[k + 1]
  BY <1>1, RemoveAtLemma
<1>3. ASSUME NEW k \in 1..(Len(jobs) - 1)
      PROVE  jobs'[k] \in Range(jobs)
  <2>1. PICK a \in 1..Len(jobs) : jobs'[k] = jobs[a]
    BY <1>1, <1>2
  <2> QED BY <1>1, <2>1 DEF Range
<1>4. DOMAIN jobs' = 1..(Len(jobs) - 1)
  BY <1>2
<1> QED BY <1>3, <1>4 DEF Range

\* A page that is complete makes the rows, or what is to be added to them,
\* complete.
LEMMA DoneIntact ==
  ASSUME IInv, Idle, Intact, NEW i \in DOMAIN jobs, HistoryDone(i)
  PROVE  Intact'
<1>0. jobs \in Seq(Job) /\ rows \in Seq(Row) /\ batch = <<>> /\ live \subseteq Message
  BY DEF IInv, TypeOK, Idle
<1>1. PICK page \in SUBSET Row : page = jobs[i].page /\ IsFiniteSet(page) /\ jobs[i] \in Range(jobs)
  <2>1. jobs[i] \in Job /\ jobs[i] \in Range(jobs) /\ IsFiniteSet(jobs[i].page)
    BY <1>0 DEF IInv, PagesCorrect, Range
  <2>2. jobs[i].page \in SUBSET Row
    BY <2>1, Zenon DEF Job
  <2> QED BY <2>1, <2>2, Zenon
<1>2. /\ UNCHANGED <<live, version, unposted, events>> /\ jobs' = RemoveAt(jobs, i)
      /\ \/ rows = <<>> /\ rows' \in Sorted(page) /\ batch' = <<>>
         \/ rows # <<>> /\ batch' \in NewestFirst(page) /\ rows' = rows
  BY <1>1 DEF HistoryDone, server
<1>3. Range(jobs') \subseteq Range(jobs)
  BY <1>0, <1>2, EndJobElements
<1>4. KeepsKnown
  <2>1. \A id : Loaded(id) => Loaded(id)'
    BY <1>2 DEF Loaded
  <2>2. \A id : Announced(id) => Announced(id)'
    BY <1>2 DEF Announced
  <2>3. Range(batch) = {}
    BY <1>0 DEF Range
  <2>4. \A id : Known(id) \/ Gone(id) => Known(id)' \/ Gone(id)'
    BY <1>2, <2>1, <2>2, <2>3 DEF Known, Gone
  <2> QED BY <1>0, <1>2, <2>4 DEF KeepsKnown
<1>5. JobsIntact' /\ EventsIntact'
  BY <1>2, <1>3, <1>4, KeepsJob DEF Intact, JobsIntact, EventsIntact, Time
<1>6. ASSUME NEW row \in page, NEW id \in live, Timestamp[id] > Time(row)
      PROVE  Covered(id)' \/ \E other \in page : Timestamp[other.id] = Timestamp[id] /\ other.id \in Message
  <2>1. Covered(id) \/ \E other \in page : Time(other) = Timestamp[id]
    BY <1>1, <1>6 DEF Intact, JobsIntact, JobIntact
  <2>2. Covered(id) => Covered(id)'
    BY <1>2, <1>4, KeepsCovered
  <2>3. \A other \in page : Time(other) = Timestamp[other.id] /\ other.id \in Message
    BY <1>1, Times
  <2> QED BY <2>1, <2>2, <2>3
<1>7. CASE rows = <<>> /\ rows' \in Sorted(page) /\ batch' = <<>>
  <2>1. Range(rows') = page /\ Range(batch') = {}
    BY <1>1, <1>7, PageComplete DEF Range
  <2>2. RowsIntact'
    <3> SUFFICES ASSUME rows' # <<>>, NEW id \in live, Timestamp[id] > Timestamp[rows'[1].id]
        PROVE  Covered(id)'
      BY <1>2 DEF RowsIntact, Complete, Time
    <3>1. PICK row \in page : row = rows'[1]
      <4>1. IInv'
        BY StepLemma DEF Next, Client
      <4>2. 1 \in DOMAIN rows'
        BY <4>1 DEF IInv, TypeOK
      <4> QED BY <2>1, <4>2 DEF Range
    <3>2. Covered(id)' \/ \E other \in page : Timestamp[other.id] = Timestamp[id] /\ other.id \in Message
      BY <1>6, <3>1 DEF Time
    <3>3. \A other \in page : Known(other.id)'
      BY <2>1 DEF Known, Loaded, Range
    <3> QED BY <3>2, <3>3 DEF Covered
  <2> QED BY <1>5, <2>1, <2>2 DEF Intact, BatchIntact
<1>8. CASE rows # <<>> /\ batch' \in NewestFirst(page) /\ rows' = rows
  <2>1. Range(batch') = page
    BY <1>1, <1>8, PageComplete
  <2>2. BatchIntact'
    <3> SUFFICES ASSUME NEW row \in page, NEW id \in live, Timestamp[id] > Time(row)
        PROVE  Covered(id)'
      BY <1>2, <2>1 DEF BatchIntact, Complete, Time
    <3>1. Covered(id)' \/ \E other \in page : Timestamp[other.id] = Timestamp[id] /\ other.id \in Message
      BY <1>6
    <3>2. \A other \in page : Known(other.id)'
      BY <2>1 DEF Known
    <3> QED BY <3>1, <3>2 DEF Covered
  <2>3. RowsIntact'
    BY <1>4, <1>8, KeepsComplete DEF Intact, RowsIntact, Time
  <2> QED BY <1>5, <2>2, <2>3 DEF Intact
<1> QED BY <1>2, <1>7, <1>8

\* A row that is added keeps the list complete from its oldest row on, when it
\* does not go in front of it, or is itself complete.
LEMMA AddedIntact ==
  ASSUME IInv, NEW row \in Row, Added(row), Intact, KeepsKnown,
         ~Loaded(row.id) /\ (rows # <<>> => Time(row) < Time(rows[1])) => Complete(Time(row))'
  PROVE  RowsIntact'
<1>1. CASE rows # <<>> /\ rows'[1].id = rows[1].id
  <2>1. PICK time : time = Timestamp[rows[1].id] /\ time = Timestamp[rows'[1].id]
    BY <1>1
  <2>2. Complete(time)
    BY <1>1, <2>1 DEF Intact, RowsIntact, Time
  <2>3. Complete(time)'
    BY <2>2, KeepsComplete
  <2> QED BY <2>1, <2>3 DEF RowsIntact, Complete, Time
<1>2. CASE rows'[1] = row /\ ~Loaded(row.id) /\ (rows # <<>> => Time(row) < Time(rows[1]))
  BY <1>2 DEF RowsIntact, Complete, Time
<1> QED BY <1>1, <1>2 DEF Added

LEMMA NextIntact ==
  ASSUME IInv, Intact, AddNext
  PROVE  Intact'
<1>0. rows \in Seq(Row) /\ batch \in Seq(Row) /\ batch # <<>> /\ live \subseteq Message
  BY DEF IInv, TypeOK, AddNext, Idle
<1>1. PICK row \in Row : row = Head(batch) /\ row \in Range(batch)
  BY <1>0, HeadTailProperties DEF Range
<1>2. /\ batch' = Tail(batch) /\ UNCHANGED <<live, unposted, events, jobs>> /\ AddMessage(row)
      /\ Range(batch') \subseteq Range(batch) /\ Range(batch) \subseteq Range(batch') \cup {row}
  <2>1. batch' = Tail(batch) /\ UNCHANGED <<live, unposted, events, jobs>> /\ AddMessage(row)
    BY <1>1 DEF AddNext, server
  <2>2. /\ DOMAIN batch = 1..Len(batch) /\ Len(batch) \in Nat \ {0} /\ batch[1] = row
        /\ DOMAIN batch' = 1..(Len(batch) - 1) /\ \A k \in 1..(Len(batch) - 1) : batch'[k] = batch[k + 1]
    BY <1>0, <1>1, <2>1
  <2>3. Range(batch') \subseteq Range(batch)
    BY <2>2 DEF Range
  <2>4. ASSUME NEW k \in 1..Len(batch)
        PROVE  batch[k] \in Range(batch') \cup {row}
    <3>1. CASE k = 1
      BY <2>2, <3>1
    <3>2. CASE k # 1
      <4>1. PICK l \in 1..(Len(batch) - 1) : l + 1 = k
        <5>1. k - 1 \in 1..(Len(batch) - 1) /\ k - 1 + 1 = k
          BY <2>2, <3>2
        <5> QED BY <5>1, Zenon
      <4>2. batch'[l] = batch[k]
        BY <2>2, <4>1
      <4> QED BY <2>2, <4>2 DEF Range
    <3> QED BY <3>1, <3>2
  <2>5. Range(batch) \subseteq Range(batch') \cup {row}
    BY <2>2, <2>4 DEF Range
  <2> QED BY <2>1, <2>3, <2>5
<1>3. Added(row)
  BY <1>0, <1>2, AddMessageEffect
<1>4. KeepsKnown
  <2>1. \A id : Loaded(id) \/ id = row.id => Loaded(id)'
    BY <1>3 DEF Added, Loaded, Range
  <2>2. \A id : Announced(id) => Announced(id)'
    BY <1>2 DEF Announced
  <2>3. \A id : Known(id) \/ Gone(id) => Known(id)' \/ Gone(id)'
    BY <1>2, <2>1, <2>2 DEF Known, Gone
  <2> QED BY <1>0, <1>2, <2>3 DEF KeepsKnown
<1>5. Complete(Time(row))'
  BY <1>1, <1>4, KeepsComplete DEF Intact, BatchIntact, Time
<1>6. RowsIntact'
  BY <1>3, <1>4, <1>5, AddedIntact
<1>7. BatchIntact'
  <2>1. \A r \in Range(batch') : Complete(Time(r))
    BY <1>2 DEF Intact, BatchIntact
  <2> QED BY <1>4, <2>1, KeepsComplete DEF BatchIntact, Time
<1>8. JobsIntact' /\ EventsIntact'
  BY <1>2, <1>4, KeepsJob DEF Intact, JobsIntact, EventsIntact, Time
<1> QED BY <1>6, <1>7, <1>8 DEF Intact

\* What later rows there are is complete when the oldest is.
LEMMA OldestFirst ==
  ASSUME IInv, Intact, NEW row \in Range(rows)
  PROVE  Complete(Time(row))
<1>1. rows \in Seq(Row) /\ RowsSorted /\ live \subseteq Message
  BY DEF IInv, TypeOK
<1>2. PICK k \in 1..Len(rows) : row = rows[k]
  BY <1>1 DEF Range
<1>3. 1 \in 1..Len(rows) /\ 1 <= k /\ rows # <<>> /\ row \in Row /\ rows[1] \in Row
  BY <1>1, <1>2
<1>4. Time(rows[1]) <= Time(row) /\ Time(rows[1]) \in Nat /\ Time(row) \in Nat
  BY <1>1, <1>2, <1>3, Times DEF RowsSorted
<1>5. Complete(Time(rows[1]))
  BY <1>3 DEF Intact, RowsIntact
<1>6. \A id \in live : Timestamp[id] \in Nat
  BY <1>1, Times
<1> QED BY <1>4, <1>5, <1>6 DEF Complete

\* An event that goes in front of the rows tears them apart, unless it is the
\* first of all messages, which those that follow announce.
LEMMA ChangedIntact ==
  ASSUME IInv, NoDuplicates, EventsTell, Orderly, Intact, ~torn', slotChanged
  PROVE  Intact'
<1>0. rows \in Seq(Row) /\ batch = <<>> /\ RowsSorted /\ events \in Seq(Event) /\ live \subseteq Message
  BY DEF IInv, TypeOK, slotChanged, Idle
<1>1. PICK event \in Event : event = Head(events) /\ event.row \in Row /\ event.row.id \in Message
  <2>1. \A event \in Event : event.row \in Row /\ event.row.id \in Message
    BY DEF Event, Row
  <2> QED BY <1>0, <2>1, HeadTailProperties DEF slotChanged
<1>2. /\ UNCHANGED <<live, version, unposted, jobs, batch>> /\ events # <<>> /\ events' = Tail(events)
      /\ \/ event.kind = "message" /\ AddMessages(event.row)
         \/ event.kind = "delete" /\ deleteMessage(event.row.id)
      /\ ~(event.kind = "message" /\ PutInFront(event.row))
  BY <1>1 DEF slotChanged, server
<1>3. /\ DOMAIN events = 1..Len(events) /\ Len(events) \in Nat \ {0} /\ events[1] = event
      /\ DOMAIN events' = 1..(Len(events) - 1)
      /\ \A k \in 1..(Len(events) - 1) : events'[k] = events[k + 1] /\ k + 1 \in 1..Len(events)
      /\ \A k \in 2..Len(events) : k - 1 \in 1..(Len(events) - 1) /\ k - 1 + 1 = k
  BY <1>0, <1>1, <1>2
<1>4. \A k \in 2..Len(events) : k - 1 \in DOMAIN events' /\ events'[k - 1] = events[k]
  <2> SUFFICES ASSUME NEW k \in 2..Len(events) PROVE k - 1 \in DOMAIN events' /\ events'[k - 1] = events[k]
    OBVIOUS
  <2>1. PICK l \in 1..(Len(events) - 1) : l = k - 1 /\ l + 1 = k
    BY <1>3, Zenon
  <2> QED BY <1>3, <2>1, Zenon
<1>5. \A id : Announced(id) => id = event.row.id \/ Announced(id)'
  <2> SUFFICES ASSUME NEW id, NEW k \in 1..Len(events), events[k].row.id = id, id # event.row.id
      PROVE  Announced(id)'
    BY <1>3 DEF Announced
  <2>1. k \in 2..Len(events)
    BY <1>3
  <2> QED BY <1>4, <2>1 DEF Announced
<1>6. EventsIntact'
  <2>1. ASSUME NEW i \in 1..(Len(events) - 1), events'[i].kind = "message", events'[i].row.version = 0,
               NEW a \in live, Timestamp[a] > Time(events'[i].row)
        PROVE  \E j \in DOMAIN events' : j > i /\ events'[j].row.id = a
    <3>1. events'[i] = events[i + 1] /\ i + 1 \in 1..Len(events)
      BY <1>3
    <3>2. PICK j \in 1..Len(events) : j > i + 1 /\ events[j].row.id = a
      BY <1>3, <2>1, <3>1 DEF Intact, EventsIntact
    <3>3. j \in 2..Len(events) /\ j - 1 > i
      BY <1>3, <3>2
    <3> QED BY <1>4, <3>2, <3>3
  <2> QED BY <1>2, <1>3, <2>1 DEF EventsIntact, Time
<1>7. CASE event.kind = "message" /\ AddMessages(event.row)
  <2>1. Added(event.row)
    BY <1>0, <1>1, <1>7, AddMessagesEffect
  <2>2. KeepsKnown
    <3>1. \A id : Loaded(id) \/ id = event.row.id => Loaded(id)'
      BY <2>1 DEF Added, Loaded, Range
    <3>2. \A id : Known(id) \/ Gone(id) => Known(id)' \/ Gone(id)'
      BY <1>2, <1>5, <3>1 DEF Known, Gone
    <3> QED BY <1>0, <1>2, <3>2 DEF KeepsKnown
  <2>3. ASSUME ~Loaded(event.row.id), rows # <<>> => Time(event.row) < Time(rows[1])
        PROVE  Complete(Time(event.row))'
    <3>1. rows = <<>> /\ ~event.row.pending /\ ~(event.row.version > 0)
      BY <1>2, <1>7, <2>3 DEF PutInFront
    <3>2. event.row.version = 0
      BY <1>1, <3>1, BoundAssumption DEF Row
    <3>3. ASSUME NEW id \in live, Timestamp[id] > Time(event.row)
          PROVE  Covered(id)'
      <4>1. PICK j \in 1..Len(events) : j > 1 /\ events[j].row.id = id
        <5>1. 1 \in DOMAIN events /\ events[1] = event
          BY <1>3
        <5>2. \E j \in DOMAIN events : j > 1 /\ events[j].row.id = id
          BY <1>7, <3>2, <3>3, <5>1, Zenon DEF Intact, EventsIntact
        <5> QED BY <1>3, <5>2
      <4>2. j \in 2..Len(events)
        BY <1>3, <4>1
      <4>3. Known(id)' /\ id \in Message
        BY <1>0, <1>4, <4>1, <4>2 DEF Known, Announced
      <4> QED BY <4>3 DEF Covered
    <3> QED BY <1>2, <3>3 DEF Complete, Time
  <2>4. RowsIntact'
    BY <1>1, <2>1, <2>2, <2>3, AddedIntact
  <2>5. BatchIntact' /\ JobsIntact'
    BY <1>0, <1>2, <2>2, KeepsJob DEF Intact, BatchIntact, JobsIntact, Range
  <2> QED BY <1>6, <2>4, <2>5 DEF Intact
<1>8. CASE event.kind = "delete" /\ deleteMessage(event.row.id)
  <2>1. /\ Range(rows') \subseteq Range(rows)
        /\ \A r \in Range(rows) : r.id # event.row.id => r \in Range(rows')
    BY <1>0, <1>1, <1>8, DeleteEffect DEF IInv
  <2>2. Gone(event.row.id)
    <3>1. event \in Range(events)
      BY <1>3 DEF Range
    <3> QED BY <1>8, <3>1 DEF Orderly, Gone
  <2>3. KeepsKnown
    <3>1. \A id : Loaded(id) => id = event.row.id \/ Loaded(id)'
      BY <2>1 DEF Loaded, Range
    <3>2. \A id : Known(id) \/ Gone(id) => Known(id)' \/ Gone(id)'
      BY <1>2, <1>5, <2>2, <3>1 DEF Known, Gone
    <3> QED BY <1>0, <1>2, <3>2 DEF KeepsKnown
  <2>4. RowsIntact'
    <3> SUFFICES ASSUME rows' # <<>> PROVE RowsIntact'
      BY DEF RowsIntact
    <3>1. rows' \in Seq(Row)
      BY <1>0, <1>1, <1>8, DeleteLemma
    <3>2. PICK row \in Range(rows) : row = rows'[1]
      BY <2>1, <3>1 DEF Range
    <3>3. Complete(Time(row))
      BY OldestFirst
    <3>4. Complete(Time(row))'
      BY <2>3, <3>3, KeepsComplete DEF Time
    <3> QED BY <3>2, <3>4 DEF RowsIntact, Complete, Time
  <2>5. BatchIntact' /\ JobsIntact'
    BY <1>0, <1>2, <2>3, KeepsJob DEF Intact, BatchIntact, JobsIntact, Range
  <2> QED BY <1>6, <2>4, <2>5 DEF Intact
<1> QED BY <1>2, <1>7, <1>8

LEMMA ReplyIntact ==
  ASSUME IInv, Intact, ~torn', NEW id \in Message, slotPostMessageDone(id)
  PROVE  Intact'
<1>0. rows \in Seq(Row) /\ live \subseteq Message
  BY DEF IInv, TypeOK
<1>1. PICK row \in Row : row = [id |-> id, version |-> 0, pending |-> TRUE]
  <2>1. TRUE \in BOOLEAN /\ 0 \in 0..MaxVersion
    BY BoundAssumption
  <2> QED BY <2>1 DEF Row
<1>2. AddMessages(row) /\ UNCHANGED <<live, version, unposted, events, batch, jobs>> /\ ~PutInFront(row)
  BY <1>1 DEF slotPostMessageDone, server
<1>3. Added(row) /\ row.pending
  BY <1>0, <1>1, <1>2, AddMessagesEffect
<1>4. KeepsKnown
  <2>1. \A a : Loaded(a) => Loaded(a)'
    BY <1>3 DEF Added, Loaded, Range
  <2> QED BY <1>0, <1>2, <2>1 DEF KeepsKnown, Known, Announced, Gone
<1>5. ~(~Loaded(row.id) /\ (rows # <<>> => Time(row) < Time(rows[1])))
  BY <1>2, <1>3 DEF PutInFront
<1>6. RowsIntact'
  BY <1>3, <1>4, <1>5, AddedIntact
<1>7. BatchIntact' /\ JobsIntact' /\ EventsIntact'
  <2>1. BatchIntact'
    BY <1>2, <1>4, KeepsComplete DEF Intact, BatchIntact, Time
  <2> QED BY <1>2, <1>4, <2>1, KeepsJob DEF Intact, JobsIntact, EventsIntact, Time
<1> QED BY <1>6, <1>7 DEF Intact

\* With no job under way, the newest rows are complete by themselves.
LEMMA ClearIntact ==
  ASSUME IInv, Idle, Intact, ~torn', clearHistory
  PROVE  Intact'
<1>0. /\ rows \in Seq(Row) /\ RowsSorted /\ live \subseteq Message
      /\ jobs = <<>> /\ batch = <<>> /\ UNCHANGED <<live, unposted, events, batch, jobs>>
  BY DEF IInv, TypeOK, Idle, clearHistory, server
<1>1. /\ rows' \in Seq(Row) /\ DOMAIN rows' = 1..KeepRows /\ KeepRows \in Nat \ {0}
  BY <1>0, ClearRows, SizeAssumption
<1>2. PICK first \in 1..Len(rows) :
        /\ first + KeepRows = Len(rows) + 1
        /\ \A i \in 1..KeepRows : first + i - 1 \in 1..Len(rows) /\ rows'[i] = rows[first + i - 1]
  BY <1>0, ClearRows
<1>3. rows'[1] = rows[first]
  <2>1. 1 \in 1..KeepRows /\ first + 1 - 1 = first
    BY <1>0, <1>1
  <2> QED BY <1>2, <2>1, Zenon
<1>4. DOMAIN rows = 1..Len(rows) /\ Len(rows) \in Nat /\ \A k \in 1..Len(rows) : rows[k] \in Row
  BY <1>0
<1>5. Complete(Time(rows[first]))
  BY <1>4, OldestFirst DEF Range
<1>6. ASSUME NEW id \in Message, Known(id), Timestamp[id] > Time(rows[first])
      PROVE  Known(id)'
  <2>1. CASE Announced(id)
    BY <1>0, <2>1 DEF Known, Announced
  <2>2. CASE Loaded(id)
    <3>1. PICK k \in 1..Len(rows) : rows[k].id = id
      BY <1>4, <2>2 DEF Loaded
    <3>2. Time(rows[k]) = Timestamp[id]
      BY <3>1 DEF Time
    <3>3. ~(k <= first)
      <4>1. k <= first => Time(rows[k]) <= Time(rows[first])
        BY <1>0, <1>4 DEF RowsSorted
      <4>2. Time(rows[k]) \in Nat /\ Time(rows[first]) \in Nat
        BY <1>4, Times
      <4> QED BY <1>6, <3>2, <4>1, <4>2
    <3>4. PICK i \in 1..KeepRows : first + i - 1 = k
      <4>1. k - first + 1 \in 1..KeepRows /\ first + (k - first + 1) - 1 = k
        BY <1>1, <1>2, <1>4, <3>3
      <4> QED BY <4>1, Zenon
    <3>5. rows'[i] = rows[k]
      BY <1>2, <3>4, Zenon
    <3> QED BY <1>1, <3>1, <3>5 DEF Known, Loaded
  <2>3. Range(batch) = {}
    BY <1>0 DEF Range
  <2> QED BY <1>6, <2>1, <2>2, <2>3 DEF Known
<1>7. RowsIntact'
  <2>1. ASSUME NEW id \in live, Timestamp[id] > Time(rows[first])
        PROVE  Covered(id)'
    <3>1. PICK other \in Message : Timestamp[other] = Timestamp[id] /\ (Known(other) \/ Gone(other))
      BY <1>5, <2>1 DEF Complete, Covered
    <3>2. Known(other)' \/ Gone(other)'
      BY <1>0, <1>6, <2>1, <3>1 DEF Gone
    <3> QED BY <3>1, <3>2 DEF Covered
  <2> QED BY <1>0, <1>3, <2>1 DEF RowsIntact, Complete, Time
<1>8. BatchIntact' /\ JobsIntact' /\ EventsIntact'
  <2>1. Range(batch') = {} /\ Range(jobs') = {}
    BY <1>0 DEF Range
  <2> QED BY <1>0, <2>1 DEF Intact, BatchIntact, JobsIntact, EventsIntact, Time
<1> QED BY <1>7, <1>8 DEF Intact

LEMMA IntactStep == IInv /\ NoDuplicates /\ EventsTell /\ MissingInv /\ [Next]_vars => (~torn' => Intact')
<1> SUFFICES ASSUME IInv, NoDuplicates, EventsTell, MissingInv, [Next]_vars, ~torn' PROVE Intact'
  OBVIOUS
<1>0. Orderly
  BY DEF MissingInv
<1>1. torn => torn'
  BY DEF Next, Server, Client, vars, server, Post, Edit, Delete, Subscribed, AnswerHistory, checkInitializedRoom,
         loadHistory, HistoryDone, HistoryFails, AddNext, slotChanged, slotPostMessageDone, clearHistory
<1>2. Intact
  BY <1>1 DEF MissingInv
<1>3. ASSUME Idle, NEW id \in Message, NEW own \in BOOLEAN, Post(id, own)
      PROVE  Intact'
  BY <1>3, PostIntact
<1>4. ASSUME NEW id \in Message, Edit(id)
      PROVE  Intact'
  <2>1. PICK row : row = [Current(id) EXCEPT !.version = @ + 1]
    OBVIOUS
  <2>2. PICK e : e = [kind |-> "message", row |-> row]
    OBVIOUS
  <2>3. version[id] \in 0..MaxVersion
    BY DEF IInv, TypeOK
  <2>4. row.version = version[id] + 1
    BY <2>1 DEF Current
  <2>5. row.version # 0
    BY <2>3, <2>4, BoundAssumption
  <2>6. Emit("message", row) /\ live' \subseteq live /\ UNCHANGED <<unposted, stream, jobs, rows, batch>>
    BY <1>4, <2>1, Zenon DEF Edit
  <2>7. e.kind = "message" /\ e.row = row
    BY <2>2
  <2> QED BY <1>2, <2>2, <2>5, <2>6, <2>7, ChangeIntact
<1>5. ASSUME NEW id \in Message, Delete(id)
      PROVE  Intact'
  <2>1. PICK e : e = [kind |-> "delete", row |-> Current(id)]
    OBVIOUS
  <2>2. e.kind = "delete" /\ e.row = Current(id)
    BY <2>1
  <2>3. Emit("delete", Current(id)) /\ live' \subseteq live /\ UNCHANGED <<unposted, stream, jobs, rows, batch>>
    BY <1>5 DEF Delete
  <2> QED BY <1>2, <2>1, <2>2, <2>3, ChangeIntact
<1>6. ASSUME NEW i \in DOMAIN jobs, AnswerHistory(i)
      PROVE  Intact'
  BY <1>2, <1>6, AnswerIntact
<1>7. ASSUME NEW end \in Nat, StartJob(end), end \in {NoEnd, lastTimestamp},
             UNCHANGED <<live, version, unposted, events, rows, batch>>
      PROVE  Intact'
  BY <1>2, <1>7, StartIntact
<1>8. CASE checkInitializedRoom
  BY <1>7, <1>8 DEF checkInitializedRoom, NoEnd, server
<1>9. ASSUME NEW numberMessages \in 0..Cardinality(Message), loadHistory(numberMessages)
      PROVE  Intact'
  <2>1. lastTimestamp \in Nat
    <3>1. rows # <<>> => rows[1] \in Row
      BY DEF IInv, TypeOK
    <3> QED BY <3>1, TimeType DEF lastTimestamp, NoEnd
  <2> QED BY <1>7, <1>9, <2>1 DEF loadHistory, server
<1>10. ASSUME NEW i \in DOMAIN jobs, HistoryDone(i)
       PROVE  Intact'
  BY <1>2, <1>10, DoneIntact DEF HistoryDone
<1>11. ASSUME NEW i \in DOMAIN jobs, HistoryFails(i)
       PROVE  Intact'
  <2>1. UNCHANGED <<live, unposted, events, rows, batch>> /\ Range(jobs') \subseteq Range(jobs)
    BY <1>11, EndJobElements DEF HistoryFails, server, IInv, TypeOK
  <2>2. KeepsKnown
    BY <2>1 DEF KeepsKnown, Known, Loaded, Announced, Gone, IInv, TypeOK
  <2>3. EventsIntact'
    BY <1>2, <2>1 DEF Intact, EventsIntact, Time
  <2> QED BY <1>2, <2>1, <2>2, <2>3, KeepsIntact DEF Intact
<1>12. CASE AddNext
  BY <1>2, <1>12, NextIntact
<1>13. CASE slotChanged
  BY <1>0, <1>2, <1>13, ChangedIntact
<1>14. ASSUME NEW id \in Message, slotPostMessageDone(id)
       PROVE  Intact'
  BY <1>2, <1>14, ReplyIntact
<1>15. CASE clearHistory
  BY <1>2, <1>15, ClearIntact DEF clearHistory
<1>16. CASE Subscribed \/ UNCHANGED vars
  <2>1. UNCHANGED <<live, unposted, events, rows, batch, jobs>>
    BY <1>16 DEF Subscribed, vars, server
  <2>2. KeepsKnown
    BY <2>1 DEF KeepsKnown, Known, Loaded, Announced, Gone, IInv, TypeOK
  <2>3. EventsIntact'
    BY <1>2, <2>1 DEF Intact, EventsIntact, Time
  <2> QED BY <1>2, <2>1, <2>2, <2>3, KeepsIntact DEF Intact
<1> QED BY <1>3, <1>4, <1>5, <1>6, <1>8, <1>9, <1>10, <1>11, <1>12, <1>13, <1>14, <1>15, <1>16, Zenon
    DEF Next, Server, Client

\* The list is whole from its oldest row on, once all events are applied, unless
\* one of the known ways tore it: a post that the subscription came too late for,
\* a message put in front of the rows, or rows removed while a page was under
\* way.  Of messages that share a time one at least is there, or was.
THEOREM NoneMissing == Spec => []NothingMissing
<1>1. Init => EventsTell /\ MissingInv
  <2> SUFFICES ASSUME Init PROVE EventsTell /\ MissingInv
    OBVIOUS
  <2>1. /\ rows = <<>> /\ jobs = <<>> /\ batch = <<>> /\ events = <<>> /\ replies = {}
        /\ live = History /\ unposted = Message \ History
    BY DEF Init
  <2>2. Range(rows) = {} /\ Range(jobs) = {} /\ Range(batch) = {} /\ Range(events) = {} /\ DOMAIN events = {}
    BY <2>1 DEF Range
  <2>3. EventsTell
    BY <2>1, <2>2 DEF EventsTell
  <2>4. Orderly
    BY <2>1, <2>2, HistoryAssumption DEF Orderly
  <2>5. Intact
    BY <2>1, <2>2 DEF Intact, RowsIntact, BatchIntact, JobsIntact, EventsIntact
  <2> QED BY <2>3, <2>4, <2>5 DEF MissingInv
<1>2. IInv /\ NoDuplicates /\ EventsTell /\ MissingInv /\ [Next]_vars => EventsTell' /\ MissingInv'
  BY EventsStep, OrderlyStep, IntactStep DEF MissingInv
<1>3. MissingInv => NothingMissing
  <2> SUFFICES ASSUME Orderly, Intact, Quiet, rows # <<>>, NEW id \in live, Timestamp[id] > Time(rows[1])
      PROVE  \E other \in Message : Timestamp[other] = Timestamp[id] /\ (Loaded(other) \/ Gone(other))
    BY DEF MissingInv, NothingMissing
  <2>1. Covered(id)
    BY DEF Intact, RowsIntact, Complete
  <2>2. Range(batch) = {} /\ \A other : ~Announced(other)
    BY DEF Quiet, Idle, Range, Announced
  <2> QED BY <2>1, <2>2 DEF Covered, Known
<1> QED BY <1>1, <1>2, <1>3, Inductive, RowsUnique, PTL DEF Spec
=============================================================================
