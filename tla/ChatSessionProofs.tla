-------------------------- MODULE ChatSessionProofs --------------------------
(***************************************************************************)
(* Proofs about ChatSession, for any number of conversations, questions,   *)
(* pieces and requests.                                                    *)
(***************************************************************************)
EXTENDS ChatSession, FiniteSetTheorems, SequenceTheorems, NaturalsInduction, TLAPS

-----------------------------------------------------------------------------
(* Lists *)

LEMMA LeastOf ==
    ASSUME NEW S \in SUBSET Nat, S # {}
    PROVE  \E n \in S : \A m \in S : n <= m
<1>1. IsWellFoundedOn(OpToRel(<, Nat), Nat)
  BY NatLessThanWellFounded
<1>2. PICK n \in S : \A m \in S : ~(<<m, n>> \in OpToRel(<, Nat))
  BY <1>1, WFMin
<1>3. n \in Nat /\ \A m \in S : m \in Nat
  OBVIOUS
<1>4. \A m \in S : ~(m < n)
  BY <1>2, <1>3 DEF OpToRel
<1>5. \A m \in S : n <= m
  BY <1>3, <1>4
<1>6. QED
  BY <1>5

\* A finite set of positions has a first, a second and so on up to its last.
LEMMA PositionsAreCounted ==
    ASSUME NEW N \in Nat, NEW at \in SUBSET (1 .. N), NEW n \in 1 .. Cardinality(at)
    PROVE  \E i \in at : Cardinality({j \in at : j <= i}) = n
<1> DEFINE upTo(i) == {j \in at : j <= i}
<1> DEFINE size(i) == Cardinality(upTo(i))
<1>1. IsFiniteSet(1 .. N)
  BY FS_Interval
<1>2. IsFiniteSet(at)
  BY <1>1, FS_Subset
<1>3. Cardinality(at) \in Nat /\ n \in Nat /\ n >= 1 /\ n <= Cardinality(at)
  BY <1>2, FS_CardinalityType
<1>4. \A i : upTo(i) \subseteq at
  OBVIOUS
<1>5. \A i : IsFiniteSet(upTo(i))
  BY <1>2, <1>4, FS_Subset
<1>6. \A i : size(i) \in Nat
  BY <1>5, FS_CardinalityType
<1>e. \A j \in at : j \in Nat /\ 1 <= j /\ j <= N
  OBVIOUS
<1>f. \A i, j : j \in upTo(i) <=> j \in at /\ j <= i
  OBVIOUS
<1> HIDE DEF upTo
<1>7. upTo(N) = at
  BY <1>e, <1>f
<1>8. upTo(0) = {}
  <2>1. ASSUME NEW j \in upTo(0) PROVE FALSE
    <3>1. j \in at /\ j <= 0
      BY <1>f
    <3>2. QED
      BY <1>e, <3>1
  <2>2. QED
    BY <2>1
<1>9. size(0) = 0
  BY <1>8, FS_EmptySet
<1>10. size(N) = Cardinality(at)
  BY <1>7
<1>11. \A i \in Nat : i >= 1 /\ i \notin at => upTo(i) = upTo(i - 1)
  <2>1. TAKE i \in Nat
  <2>2. HAVE i >= 1 /\ i \notin at
  <2>3. \A j \in at : j <= i <=> j <= i - 1
    BY <1>e, <2>2
  <2>4. i - 1 \in Nat
    BY <2>2
  <2>5. \A j : j \in upTo(i) <=> j \in upTo(i - 1)
    BY <1>f, <2>3, <2>4
  <2>6. QED
    BY <2>5
<1>12. \A i \in Nat : i >= 1 /\ i \in at
                       => upTo(i) = upTo(i - 1) \cup {i} /\ i \notin upTo(i - 1)
  <2>1. TAKE i \in Nat
  <2>2. HAVE i >= 1 /\ i \in at
  <2>3. \A j \in at : j <= i <=> j <= i - 1 \/ j = i
    BY <1>e, <2>2
  <2>4. ~(i <= i - 1)
    OBVIOUS
  <2>5. QED
    BY <1>f, <2>2, <2>3, <2>4
<1>13. \A i \in Nat : i >= 1 /\ i \notin at => size(i) = size(i - 1)
  BY <1>11
<1>14. \A i \in Nat : i >= 1 /\ i \in at => size(i) = size(i - 1) + 1
  <2>1. TAKE i \in Nat
  <2>2. HAVE i >= 1 /\ i \in at
  <2>3. upTo(i) = upTo(i - 1) \cup {i} /\ i \notin upTo(i - 1)
    BY <1>12, <2>2
  <2>4. IsFiniteSet(upTo(i - 1))
    BY <1>5
  <2>5. QED
    BY <2>3, <2>4, FS_AddElement
<1> HIDE DEF size
<1> DEFINE far == {i \in Nat : n <= size(i)}
<1>15. N \in far
  BY <1>3, <1>10
<1>16. far \subseteq Nat
  OBVIOUS
<1>17. PICK i \in far : \A m \in far : i <= m
  BY <1>15, <1>16, LeastOf
<1>18. i \in Nat /\ n <= size(i)
  BY <1>17
<1>19. i >= 1
  BY <1>3, <1>9, <1>18
<1>20. i - 1 \in Nat /\ i - 1 \notin far
  BY <1>17, <1>18, <1>19
<1>21. size(i - 1) < n
  BY <1>3, <1>6, <1>20
<1>22. i \in at
  BY <1>3, <1>6, <1>13, <1>18, <1>19, <1>20, <1>21
<1>23. size(i) = n
  BY <1>3, <1>6, <1>14, <1>18, <1>19, <1>20, <1>21, <1>22
<1>24. QED
  BY <1>22, <1>23 DEF size, upTo

\* A filter takes what it keeps from different places of the list.
LEMMA FilteredComesFromList ==
    ASSUME NEW T, NEW cs \in Seq(T), NEW kept
    PROVE  /\ Filtered(cs, kept) \in Seq(T)
           /\ \A n \in DOMAIN Filtered(cs, kept) : \E i \in DOMAIN cs : Filtered(cs, kept)[n] = cs[i]
           /\ Distinct(cs) => Distinct(Filtered(cs, kept))
<1> DEFINE at == {i \in DOMAIN cs : cs[i] \in kept}
           nth(n) == CHOOSE i \in at : Cardinality({j \in at : j <= i}) = n
           rest == [n \in 1 .. Cardinality(at) |-> cs[nth(n)]]
<1>1. Filtered(cs, kept) = rest
  BY DEF Filtered
<1>2. Len(cs) \in Nat /\ DOMAIN cs = 1 .. Len(cs) /\ \A i \in DOMAIN cs : cs[i] \in T
  OBVIOUS
<1>3. at \in SUBSET (1 .. Len(cs)) /\ at \subseteq DOMAIN cs
  BY <1>2
<1>4. IsFiniteSet(1 .. Len(cs))
  BY <1>2, FS_Interval
<1>5. IsFiniteSet(at)
  BY <1>3, <1>4, FS_Subset
<1>6. Cardinality(at) \in Nat
  BY <1>5, FS_CardinalityType
<1> HIDE DEF at
<1>7. \A n \in 1 .. Cardinality(at) : \E i \in at : Cardinality({j \in at : j <= i}) = n
  BY <1>2, <1>3, PositionsAreCounted
<1>8. \A n \in 1 .. Cardinality(at) :
          nth(n) \in at /\ Cardinality({j \in at : j <= nth(n)}) = n
  BY <1>7
<1> HIDE DEF nth
<1>9. \A n \in 1 .. Cardinality(at) : rest[n] = cs[nth(n)] /\ nth(n) \in DOMAIN cs
  BY <1>3, <1>8
<1>10. rest \in [1 .. Cardinality(at) -> T]
  BY <1>2, <1>9
<1>11. rest \in Seq(T) /\ DOMAIN rest = 1 .. Cardinality(at)
  BY <1>6, <1>10
<1>12. \A m, n \in 1 .. Cardinality(at) : nth(m) = nth(n) => m = n
  BY <1>8
<1>13. ASSUME Distinct(cs) PROVE Distinct(rest)
  <2> HIDE DEF rest
  <2>1. \A m, n \in DOMAIN rest : rest[m].id = rest[n].id => nth(m) = nth(n)
    BY <1>9, <1>11, <1>13 DEF Distinct
  <2>2. QED
    BY <1>11, <1>12, <2>1 DEF Distinct
<1>14. QED
  BY <1>1, <1>9, <1>11, <1>13

-----------------------------------------------------------------------------
(* The inductive invariant *)

\* With the questions asked as in asked: the messages of a conversation hold no
\* piece of an answer to a question of another one.
OwnMessages(asked, id) == [role: {"user", "assistant"}, text: Seq({k \in Keys : asked[k] = id})]
OwnConversations(asked) == {c \in Conversations : c.messages \in Seq(OwnMessages(asked, c.id))}
OwnLists(asked) == {cs \in Seq(OwnConversations(asked)) : Distinct(cs)}

\* A question's row knows of the messages up to its own at least.
RowsKnowTheirPlace ==
    /\ Len(rows) = Len(selectedConversation.messages) /\ rows \in Seq(Nat)
    /\ \A i \in DOMAIN selectedConversation.messages :
           selectedConversation.messages[i].role = "user" => rows[i] >= i

ScreenOK ==
    /\ conversations \in OwnLists(askedIn)
    /\ selectedConversation \in OwnConversations(askedIn)
    /\ RowsKnowTheirPlace
    /\ messageIsStreaming \in BOOLEAN
    /\ loading \in BOOLEAN
    /\ conversationsRef \in OwnLists(askedIn)
    /\ activeUserMessageId \in Keys \cup {None}

StoreOK == db \in [history: OwnLists(askedIn), selected: SUBSET OwnConversations(askedIn)]

\* What is under way for a question will be written into its conversation.
RequestsOf(asked) ==
    {r \in [key: Keys, conv: OwnConversations(asked), base: OwnLists(asked),
            phase: {"fetch", "stream", "timer"}, pieces: Nat, aborted: BOOLEAN,
            current: BOOLEAN] : asked[r.key] = r.conv.id}
ResendsOf(asked) ==
    {r \in [key: Keys, conv: OwnConversations(asked)] : asked[r.key] = r.conv.id}
AnswersOf(asked) == {a \in [key: Keys, conv: Ids, left: Nat] : asked[a.key] = a.conv}
WireOK ==
    /\ requests \subseteq RequestsOf(askedIn)
    /\ resends \subseteq ResendsOf(askedIn)
    /\ answers \subseteq AnswersOf(askedIn)
    /\ controller \in [aborted: BOOLEAN, resets: Nat]
    /\ socket \in {"none", "connecting", "open"}
    /\ socketConnected \in BOOLEAN

RestOK ==
    /\ folderExists \in BOOLEAN
    /\ webSocketMode \in BOOLEAN
    /\ uploadFlow \in Ids \cup {None}
    /\ stopped \subseteq Keys
    /\ askedIn \in [Keys -> Ids \cup {None}]

ChatInv == ScreenOK /\ StoreOK /\ WireOK /\ RestOK

\* The ref lags behind the list only while an answer streams.
RefKeepsUp == requests = {} => IdsOf(conversations) \subseteq IdsOf(conversationsRef)

-----------------------------------------------------------------------------
(* Lemmas: what the operators do with conversations and lists *)

\* A question asked now spoils no conversation.
LEMMA AskingKeepsLists ==
    ASSUME NEW a, NEW b, a \in [Keys -> Ids \cup {None}],
           \A k \in Keys : a[k] = None \/ b[k] = a[k]
    PROVE  /\ OwnConversations(a) \subseteq OwnConversations(b)
           /\ OwnLists(a) \subseteq OwnLists(b)
<1>1. ASSUME NEW id \in Ids PROVE {k \in Keys : a[k] = id} \subseteq {k \in Keys : b[k] = id}
  <2>1. id # None
    BY DEF Ids, None
  <2>2. QED
    BY <2>1
<1>2. ASSUME NEW id \in Ids PROVE OwnMessages(a, id) \subseteq OwnMessages(b, id)
  <2> DEFINE A == {k \in Keys : a[k] = id}
             B == {k \in Keys : b[k] = id}
  <2>1. A \subseteq B
    BY <1>1
  <2> HIDE DEF A, B
  <2>2. Seq(A) \subseteq Seq(B)
    BY <2>1
  <2>3. [role: {"user", "assistant"}, text: Seq(A)] \subseteq [role: {"user", "assistant"}, text: Seq(B)]
    BY <2>2
  <2>4. QED
    BY <2>3 DEF OwnMessages, A, B
<1>3. ASSUME NEW id \in Ids PROVE Seq(OwnMessages(a, id)) \subseteq Seq(OwnMessages(b, id))
  BY <1>2
<1>4. \A c \in Conversations : c.id \in Ids
  BY DEF Conversations
<1>5. OwnConversations(a) \subseteq OwnConversations(b)
  BY <1>3, <1>4 DEF OwnConversations
<1>6. Seq(OwnConversations(a)) \subseteq Seq(OwnConversations(b))
  BY <1>5
<1>7. QED
  BY <1>5, <1>6 DEF OwnLists

LEMMA NewConversationIsOwn ==
    ASSUME NEW asked, NEW id \in Ids, NEW inFolder \in BOOLEAN, NEW home \in BOOLEAN
    PROVE  /\ NewConversation(id, inFolder, home) \in OwnConversations(asked)
           /\ NewConversation(id, inFolder, home).id = id
<1>1. <<>> \in Seq(Messages) /\ <<>> \in Seq(OwnMessages(asked, id))
  OBVIOUS
<1>2. NewConversation(id, inFolder, home) \in Conversations
  BY <1>1 DEF NewConversation, Conversations
<1>3. QED
  BY <1>1, <1>2 DEF NewConversation, OwnConversations

WithMessages(c, ms) == [c EXCEPT !.messages = ms]
WithFolder(c, flag) == [c EXCEPT !.inFolder = flag]
WithHome(c, flag) == [c EXCEPT !.home = flag]

\* The messages of a conversation change to messages of its own.
LEMMA MessagesChange ==
    ASSUME NEW asked, NEW c \in OwnConversations(asked), NEW ms \in Seq(OwnMessages(asked, c.id))
    PROVE  /\ WithMessages(c, ms) \in OwnConversations(asked)
           /\ WithMessages(c, ms).id = c.id
           /\ WithMessages(c, ms).messages = ms
<1>1. c \in Conversations /\ c.id \in Ids
  BY DEF OwnConversations, Conversations
<1>2. OwnMessages(asked, c.id) \subseteq Messages
  BY DEF OwnMessages, Messages
<1>3. ms \in Seq(Messages)
  BY <1>2
<1>4. [c EXCEPT !.messages = ms] \in Conversations
  BY <1>1, <1>3 DEF Conversations
<1>5. [c EXCEPT !.messages = ms].id = c.id /\ [c EXCEPT !.messages = ms].messages = ms
  BY <1>1 DEF Conversations
<1>6. QED
  BY <1>4, <1>5 DEF OwnConversations, WithMessages

LEMMA FlagsChange ==
    ASSUME NEW asked, NEW c \in OwnConversations(asked), NEW flag \in BOOLEAN
    PROVE  /\ WithFolder(c, flag) \in OwnConversations(asked) /\ WithFolder(c, flag).id = c.id
           /\ WithHome(c, flag) \in OwnConversations(asked) /\ WithHome(c, flag).id = c.id
<1>1. c \in Conversations /\ c.messages \in Seq(OwnMessages(asked, c.id))
  BY DEF OwnConversations
<1>2. [c EXCEPT !.inFolder = flag] \in Conversations /\ [c EXCEPT !.home = flag] \in Conversations
  BY <1>1 DEF Conversations
<1>3. /\ [c EXCEPT !.inFolder = flag].id = c.id /\ [c EXCEPT !.inFolder = flag].messages = c.messages
      /\ [c EXCEPT !.home = flag].id = c.id /\ [c EXCEPT !.home = flag].messages = c.messages
  BY <1>1 DEF Conversations
<1>4. QED
  BY <1>1, <1>2, <1>3 DEF OwnConversations, WithFolder, WithHome

\* A piece of the answer to a question of the conversation goes to its end.
LEMMA PieceIsOwn ==
    ASSUME NEW asked, NEW c \in OwnConversations(asked), NEW k \in Keys, asked[k] = c.id
    PROVE  WithPiece(c.messages, k) \in Seq(OwnMessages(asked, c.id))
<1> DEFINE ms == c.messages
           own == {j \in Keys : asked[j] = c.id}
           M == OwnMessages(asked, c.id)
<1>1. ms \in Seq(M) /\ k \in own
  BY DEF OwnConversations
<1>2. M = [role: {"user", "assistant"}, text: Seq(own)]
  BY DEF OwnMessages
<1> HIDE DEF own, M, ms
<1>3. CASE IsLastAssistant(ms)
  <2>1. ms # <<>> /\ Len(ms) \in DOMAIN ms /\ ms[Len(ms)] \in M
    BY <1>1, <1>3 DEF IsLastAssistant
  <2> DEFINE m == [ms[Len(ms)] EXCEPT !.text = Append(@, k)]
  <2>2. ms[Len(ms)].text \in Seq(own)
    BY <1>2, <2>1
  <2>3. Append(ms[Len(ms)].text, k) \in Seq(own)
    BY <1>1, <2>2
  <2>4. m \in M
    BY <1>2, <2>1, <2>3
  <2>5. [ms EXCEPT ![Len(ms)].text = Append(@, k)] = [ms EXCEPT ![Len(ms)] = m]
    BY <1>1, <2>1
  <2> HIDE DEF m
  <2>6. [ms EXCEPT ![Len(ms)] = m] \in Seq(M)
    BY <1>1, <2>1, <2>4
  <2>7. QED
    BY <1>3, <2>5, <2>6 DEF WithPiece, ms, M
<1>4. CASE ~IsLastAssistant(ms)
  <2>1. <<k>> \in Seq(own)
    BY <1>1
  <2>2. [role |-> "assistant", text |-> <<k>>] \in M
    BY <1>2, <2>1
  <2>3. Append(ms, [role |-> "assistant", text |-> <<k>>]) \in Seq(M)
    BY <1>1, <2>2
  <2>4. QED
    BY <1>4, <2>3 DEF WithPiece, ms, M
<1>5. QED
  BY <1>3, <1>4

\* A question asked in the conversation takes the place of deleteCount messages.
LEMMA QuestionIsOwn ==
    ASSUME NEW asked, NEW c \in OwnConversations(asked), NEW k \in Keys, asked[k] = c.id,
           NEW deleteCount \in Nat
    PROVE  /\ WithQuestion(c, k, deleteCount) \in OwnConversations(asked)
           /\ WithQuestion(c, k, deleteCount).id = c.id
<1> DEFINE own == {j \in Keys : asked[j] = c.id}
           M == OwnMessages(asked, c.id)
           left == IF deleteCount > Len(c.messages) THEN 0 ELSE Len(c.messages) - deleteCount
           kept == SubSeq(c.messages, 1, left)
           ms == Append(kept, Question(k))
           d == WithMessages(c, ms)
           home == c.home /\ deleteCount > 0
<1>1. c.messages \in Seq(M) /\ k \in own /\ c \in Conversations
  BY DEF OwnConversations
<1>2. left \in 0 .. Len(c.messages)
  BY <1>1
<1>3. <<k>> \in Seq(own)
  BY <1>1
<1>4. Question(k) \in M
  BY <1>3 DEF Question, OwnMessages
<1> HIDE DEF M, left, own
<1>5. \A j \in 1 .. left : c.messages[j] \in M
  BY <1>1, <1>2
<1>6. kept \in Seq(M)
  BY <1>1, <1>2, <1>5
<1> HIDE DEF kept
<1>7. ms \in Seq(M)
  BY <1>4, <1>6
<1> HIDE DEF ms
<1>8. d \in OwnConversations(asked) /\ d.id = c.id
  <2>1. ms \in Seq(OwnMessages(asked, c.id))
    BY <1>7 DEF M
  <2>2. QED
    BY <2>1, MessagesChange
<1>9. home \in BOOLEAN
  BY <1>1 DEF Conversations
<1>10. WithQuestion(c, k, deleteCount) = [c EXCEPT !.messages = ms, !.home = home]
  BY DEF WithQuestion, ms, kept, left
<1>11. [c EXCEPT !.messages = ms, !.home = home] = WithHome(d, home)
  BY <1>1 DEF Conversations, WithMessages, WithHome
<1> HIDE DEF d, home
<1>12. WithHome(d, home) \in OwnConversations(asked) /\ WithHome(d, home).id = d.id
  BY <1>8, <1>9, FlagsChange
<1>13. QED
  BY <1>8, <1>10, <1>11, <1>12

\* What is left when messages are taken out of the middle is the conversation's own.
LEMMA DeletionIsOwn ==
    ASSUME NEW asked, NEW c \in OwnConversations(asked), NEW i \in DOMAIN c.messages,
           NEW last \in i .. Len(c.messages)
    PROVE  SubSeq(c.messages, 1, i - 1) \o SubSeq(c.messages, last + 1, Len(c.messages))
               \in Seq(OwnMessages(asked, c.id))
<1> DEFINE ms == c.messages
           M == OwnMessages(asked, c.id)
<1>1. ms \in Seq(M)
  BY DEF OwnConversations
<1> HIDE DEF ms, M
<1>2. i \in 1 .. Len(ms) /\ last \in i .. Len(ms) /\ Len(ms) \in Nat
  BY <1>1 DEF ms
<1>3. SubSeq(ms, 1, i - 1) \in Seq(M)
  BY <1>1, <1>2, SubSeqProperties
<1>4. SubSeq(ms, last + 1, Len(ms)) \in Seq(M)
  BY <1>1, <1>2, SubSeqProperties
<1>5. QED
  BY <1>3, <1>4, ConcatProperties DEF ms, M

\* A list stays a list of own conversations, one of each id.
LEMMA UpdatedIsOwn ==
    ASSUME NEW asked, NEW cs \in OwnLists(asked), NEW c \in OwnConversations(asked)
    PROVE  /\ Updated(cs, c) \in OwnLists(asked)
           /\ IdsOf(Updated(cs, c)) = IdsOf(cs)
<1> DEFINE O == OwnConversations(asked)
<1>1. cs \in Seq(O) /\ Distinct(cs) /\ c \in O
  BY DEF OwnLists
<1> HIDE DEF O
<1> DEFINE us == Updated(cs, c)
<1>2. us = [i \in DOMAIN cs |-> IF cs[i].id = c.id THEN c ELSE cs[i]]
  BY DEF Updated
<1>3. DOMAIN us = DOMAIN cs /\ us \in Seq(O)
  BY <1>1, <1>2
<1>4. \A i \in DOMAIN cs : us[i].id = cs[i].id
  BY <1>2
<1> HIDE DEF us
<1>5. Distinct(us)
  BY <1>1, <1>3, <1>4 DEF Distinct
<1>6. IdsOf(us) = IdsOf(cs)
  BY <1>3, <1>4 DEF IdsOf
<1>7. QED
  BY <1>3, <1>5, <1>6 DEF OwnLists, us, O

LEMMA AppendIsOwn ==
    ASSUME NEW asked, NEW cs \in OwnLists(asked), NEW c \in OwnConversations(asked),
           c.id \notin IdsOf(cs)
    PROVE  /\ Append(cs, c) \in OwnLists(asked)
           /\ IdsOf(cs) \subseteq IdsOf(Append(cs, c)) /\ Append(cs, c) # <<>>
<1> DEFINE O == OwnConversations(asked)
           as == Append(cs, c)
<1>1. cs \in Seq(O) /\ Distinct(cs) /\ c \in O
  BY DEF OwnLists
<1> HIDE DEF O
<1>2. as \in Seq(O) /\ DOMAIN as = DOMAIN cs \cup {Len(cs) + 1} /\ Len(cs) \in Nat
      /\ DOMAIN cs = 1 .. Len(cs)
  BY <1>1
<1>3. as[Len(cs) + 1] = c /\ \A i \in DOMAIN cs : as[i] = cs[i]
  BY <1>1
<1>e. as # <<>>
  BY <1>1, AppendProperties
<1> HIDE DEF as
<1>4. \A i \in DOMAIN cs : cs[i].id # c.id
  BY DEF IdsOf
<1>5. Distinct(as)
  BY <1>1, <1>2, <1>3, <1>4 DEF Distinct
<1>6. IdsOf(cs) \subseteq IdsOf(as)
  BY <1>2, <1>3 DEF IdsOf
<1>7. QED
  BY <1>2, <1>e, <1>5, <1>6 DEF OwnLists, as, O

\* What a send writes: the conversation in its place, or at the end.
LEMMA AddedIsOwn ==
    ASSUME NEW asked, NEW cs \in OwnLists(asked), NEW c \in OwnConversations(asked)
    PROVE  LET all == IF c.id \in IdsOf(cs) THEN Updated(cs, c) ELSE Append(cs, c)
           IN  all \in OwnLists(asked) /\ IdsOf(cs) \subseteq IdsOf(all)
<1>1. CASE c.id \in IdsOf(cs)
  BY <1>1, UpdatedIsOwn
<1>2. CASE c.id \notin IdsOf(cs)
  BY <1>2, AppendIsOwn
<1>3. QED
  BY <1>1, <1>2

LEMMA FilteredIsOwn ==
    ASSUME NEW asked, NEW cs \in OwnLists(asked), NEW kept
    PROVE  /\ Filtered(cs, kept) \in OwnLists(asked)
           /\ IdsOf(Filtered(cs, kept)) \subseteq IdsOf(cs)
<1>1. cs \in Seq(OwnConversations(asked)) /\ Distinct(cs)
  BY DEF OwnLists
<1> DEFINE rest == Filtered(cs, kept)
<1>2. /\ rest \in Seq(OwnConversations(asked))
      /\ \A n \in DOMAIN rest : \E i \in DOMAIN cs : rest[n] = cs[i]
      /\ Distinct(rest)
  BY <1>1, FilteredComesFromList
<1> HIDE DEF rest
<1>3. IdsOf(rest) \subseteq IdsOf(cs)
  BY <1>2 DEF IdsOf
<1>4. QED
  BY <1>2, <1>3 DEF OwnLists, rest

LEMMA MembersAreOwn ==
    ASSUME NEW asked, NEW cs \in OwnLists(asked)
    PROVE  /\ \A c \in ToSet(cs) : c \in OwnConversations(asked) /\ c.id \in IdsOf(cs)
           /\ cs # <<>> => Last(cs) \in OwnConversations(asked)
           /\ \A id \in IdsOf(cs) : /\ Listed(cs, id) \in OwnConversations(asked)
                                    /\ Listed(cs, id).id = id
<1>1. cs \in Seq(OwnConversations(asked)) /\ Distinct(cs)
  BY DEF OwnLists
<1>2. \A c \in ToSet(cs) : c \in OwnConversations(asked) /\ c.id \in IdsOf(cs)
  BY <1>1 DEF ToSet, IdsOf
<1>3. cs # <<>> => Last(cs) \in OwnConversations(asked)
  BY <1>1 DEF Last
<1>4. ASSUME NEW id \in IdsOf(cs)
      PROVE  Listed(cs, id) \in OwnConversations(asked) /\ Listed(cs, id).id = id
  <2>1. \E c \in ToSet(cs) : c.id = id
    BY DEF IdsOf, ToSet
  <2>2. Listed(cs, id) \in ToSet(cs) /\ Listed(cs, id).id = id
    BY <2>1 DEF Listed
  <2>3. QED
    BY <1>2, <2>2
<1>5. QED
  BY <1>2, <1>3, <1>4

\* A row keeps the number it was rendered with only as long as its message stays.
LEMMA RowsKnow ==
    ASSUME RowsKnowTheirPlace, NEW a, selectedConversation \in OwnConversations(a),
           NEW b, NEW sel \in OwnConversations(b)
    PROVE  /\ Rows(sel) \in Seq(Nat) /\ Len(Rows(sel)) = Len(sel.messages)
           /\ \A i \in DOMAIN sel.messages :
                  sel.messages[i].role = "user" => Rows(sel)[i] >= i
           /\ FreshRows(sel) \in Seq(Nat) /\ Len(FreshRows(sel)) = Len(sel.messages)
           /\ \A i \in DOMAIN sel.messages :
                  sel.messages[i].role = "user" => FreshRows(sel)[i] >= i
<1> DEFINE old == selectedConversation.messages
           new == sel.messages
           Stays(i) == i \in DOMAIN old /\ old[i] = new[i] /\ ~Switches(sel)
<1>1. old \in Seq(OwnMessages(a, selectedConversation.id)) /\ new \in Seq(OwnMessages(b, sel.id))
  BY DEF OwnConversations
<1>2. Rows(sel) = [i \in DOMAIN new |-> IF new[i].role # "user" THEN 0
                                        ELSE IF Stays(i) THEN rows[i] ELSE Len(new)]
  BY DEF Rows
<1>3. FreshRows(sel) = [i \in DOMAIN new |-> IF new[i].role # "user" THEN 0 ELSE Len(new)]
  BY DEF FreshRows
<1>4. Len(new) \in Nat /\ DOMAIN new = 1 .. Len(new) /\ DOMAIN old = 1 .. Len(old)
  BY <1>1
<1>5. /\ \A i \in DOMAIN old : rows[i] \in Nat
      /\ \A i \in DOMAIN old : old[i].role = "user" => rows[i] >= i
  BY <1>4 DEF RowsKnowTheirPlace
<1> HIDE DEF old, new
<1>6. \A i \in DOMAIN new : Stays(i) => rows[i] \in Nat /\ (new[i].role = "user" => rows[i] >= i)
  BY <1>5
<1> HIDE DEF Stays
<1>7. \A i \in DOMAIN new : Rows(sel)[i] \in Nat /\ (new[i].role = "user" => Rows(sel)[i] >= i)
  BY <1>2, <1>4, <1>6
<1>8. \A i \in DOMAIN new :
          FreshRows(sel)[i] \in Nat /\ (new[i].role = "user" => FreshRows(sel)[i] >= i)
  BY <1>3, <1>4
<1>9. Rows(sel) \in [1 .. Len(new) -> Nat] /\ FreshRows(sel) \in [1 .. Len(new) -> Nat]
  <2>1. Rows(sel) \in [1 .. Len(new) -> Nat]
    BY <1>2, <1>4, <1>7
  <2>2. FreshRows(sel) \in [1 .. Len(new) -> Nat]
    BY <1>3, <1>4, <1>8
  <2>3. QED
    BY <2>1, <2>2
<1>10. /\ Rows(sel) \in Seq(Nat) /\ Len(Rows(sel)) = Len(new)
       /\ FreshRows(sel) \in Seq(Nat) /\ Len(FreshRows(sel)) = Len(new)
  BY <1>4, <1>9
<1>11. QED
  BY <1>7, <1>8, <1>10 DEF new

\* What a handler shows is rendered and followed by the effects.
LEMMA ShownIsOwn ==
    ASSUME ScreenOK, NEW cs \in OwnLists(askedIn'), NEW sel \in OwnConversations(askedIn'),
           NEW streaming \in BOOLEAN, NEW load \in BOOLEAN, NEW ref \in OwnLists(askedIn'),
           NEW active \in Keys \cup {None},
           Render(cs, sel, streaming, load), Effects(ref, active)
    PROVE  ScreenOK'
<1>1. /\ conversations' = cs /\ selectedConversation' = sel /\ rows' = Rows(sel)
      /\ messageIsStreaming' = (streaming /\ ~Switches(sel))
      /\ loading' = (load /\ ~Switches(sel))
  BY DEF Render
<1>2. messageIsStreaming' \in BOOLEAN /\ loading' \in BOOLEAN
  BY <1>1
<1>3. conversationsRef' \in OwnLists(askedIn') /\ activeUserMessageId' \in Keys \cup {None}
  BY <1>1 DEF Effects
<1>4. RowsKnowTheirPlace /\ selectedConversation \in OwnConversations(askedIn)
  BY DEF ScreenOK
<1>5. RowsKnowTheirPlace'
  BY <1>1, <1>4, RowsKnow DEF RowsKnowTheirPlace
<1>6. QED
  BY <1>1, <1>2, <1>3, <1>5 DEF ScreenOK

LEMMA ShowKeeps ==
    ASSUME ScreenOK, OwnLists(askedIn) \subseteq OwnLists(askedIn'),
           NEW cs \in OwnLists(askedIn'), NEW sel \in OwnConversations(askedIn'),
           NEW streaming \in BOOLEAN, NEW load \in BOOLEAN, Show(cs, sel, streaming, load)
    PROVE  ScreenOK'
<1>1. conversationsRef \in OwnLists(askedIn') /\ activeUserMessageId \in Keys \cup {None}
  BY DEF ScreenOK
<1>2. Render(cs, sel, streaming, load) /\ Effects(conversationsRef, activeUserMessageId)
  BY DEF Show
<1>3. QED
  BY <1>1, <1>2, ShownIsOwn

LEMMA SaveKeeps ==
    ASSUME NEW cs \in OwnLists(askedIn'), NEW sel \in OwnConversations(askedIn'), Save(cs, sel)
    PROVE  StoreOK'
BY DEF Save, StoreOK

LEMMA WriteThroughKeeps ==
    ASSUME ScreenOK, NEW all \in OwnLists(askedIn'), NEW c \in OwnConversations(askedIn'),
           NEW streaming \in BOOLEAN, NEW load \in BOOLEAN, NEW active \in Keys \cup {None},
           WriteThrough(all, c, streaming, load, active)
    PROVE  ScreenOK' /\ StoreOK'
<1>1. Render(all, c, streaming, load) /\ Effects(all, active) /\ Save(all, c)
  BY DEF WriteThrough
<1>2. ScreenOK'
  BY <1>1, ShownIsOwn
<1>3. StoreOK'
  BY <1>1, SaveKeeps
<1>4. QED
  BY <1>2, <1>3

LEMMA FreshIsUnused ==
    ASSUME NEW id \in FreshIds
    PROVE  /\ id \in Ids /\ id \notin IdsOf(conversations) /\ id \notin IdsOf(db.history)
           /\ id # selectedConversation.id
BY DEF FreshIds, UsedIds

\* The screen and the store as ChatInv has them, said at once.
LEMMA OnScreen ==
    ASSUME ChatInv
    PROVE  /\ conversations \in OwnLists(askedIn) /\ conversationsRef \in OwnLists(askedIn)
           /\ selectedConversation \in OwnConversations(askedIn)
           /\ selectedConversation.id \in Ids /\ selectedConversation.home \in BOOLEAN
           /\ messageIsStreaming \in BOOLEAN /\ loading \in BOOLEAN
           /\ activeUserMessageId \in Keys \cup {None}
           /\ db.history \in OwnLists(askedIn) /\ db.selected \subseteq OwnConversations(askedIn)
           /\ askedIn \in [Keys -> Ids \cup {None}]
BY DEF ChatInv, ScreenOK, StoreOK, RestOK, OwnConversations, Conversations

LEMMA UntouchedScreen ==
    ASSUME ScreenOK, UNCHANGED <<conversations, selectedConversation, rows, messageIsStreaming,
                                 loading, conversationsRef, activeUserMessageId, askedIn>>
    PROVE  ScreenOK'
BY DEF ScreenOK, RowsKnowTheirPlace

LEMMA UntouchedWires ==
    ASSUME WireOK, UNCHANGED <<wireVars, askedIn>>
    PROVE  WireOK'
BY DEF WireOK, wireVars

\* The sidebar touches neither the wires nor what is asked.
LEMMA SidebarKeeps ==
    ASSUME ChatInv, ScreenOK', StoreOK', folderExists' \in BOOLEAN, UNCHANGED <<wireVars, restVars>>
    PROVE  ChatInv'
<1>1. UNCHANGED askedIn
  BY DEF restVars
<1>2. WireOK'
  BY <1>1, UntouchedWires DEF ChatInv
<1>3. RestOK'
  BY DEF ChatInv, RestOK, restVars
<1>4. QED
  BY <1>2, <1>3 DEF ChatInv

-----------------------------------------------------------------------------
(* The sidebar *)

LEMMA SelectKeeps ==
    ASSUME ChatInv, NEW c \in ToSet(conversations), HandleSelectConversation(c)
    PROVE  ChatInv'
<1>1. UNCHANGED <<wireVars, restVars>> /\ UNCHANGED askedIn /\ folderExists' \in BOOLEAN
  BY DEF HandleSelectConversation, restVars, ChatInv, RestOK
<1>2. c \in OwnConversations(askedIn)
  BY OnScreen, MembersAreOwn
<1>3. Show(conversations, c, FALSE, FALSE) /\ db' = [db EXCEPT !.selected = {c}]
  BY DEF HandleSelectConversation
<1>4. ScreenOK'
  BY <1>1, <1>2, <1>3, OnScreen, ShowKeeps DEF ChatInv
<1>5. StoreOK'
  BY <1>1, <1>2, <1>3 DEF ChatInv, StoreOK
<1>6. QED
  BY <1>1, <1>4, <1>5, SidebarKeeps

LEMMA NewConversationKeeps ==
    ASSUME ChatInv, NEW createInFolder \in BOOLEAN, HandleNewConversation(createInFolder)
    PROVE  ChatInv'
<1>1. UNCHANGED <<wireVars, restVars>> /\ UNCHANGED askedIn /\ folderExists' \in BOOLEAN
  BY DEF HandleNewConversation, restVars, ChatInv, RestOK
<1>2. PICK cs \in OwnLists(askedIn), c \in OwnConversations(askedIn), streaming \in BOOLEAN,
           load \in BOOLEAN :
          Show(cs, c, streaming, load)
  <2>1. CASE /\ ~createInFolder /\ selectedConversation.home
             /\ selectedConversation.messages = <<>>
    <3> DEFINE c == WithHome(selectedConversation, FALSE)
    <3>1. Show(Updated(conversations, c), c, messageIsStreaming, loading)
      BY <2>1 DEF HandleNewConversation, WithHome
    <3>2. c \in OwnConversations(askedIn)
      BY OnScreen, FlagsChange
    <3> HIDE DEF c
    <3>3. Updated(conversations, c) \in OwnLists(askedIn)
      BY <3>2, OnScreen, UpdatedIsOwn
    <3>4. QED
      BY <3>1, <3>2, <3>3, OnScreen
  <2>2. CASE ~(/\ ~createInFolder /\ selectedConversation.home
               /\ selectedConversation.messages = <<>>)
    <3>1. PICK id \in FreshIds :
              LET c == NewConversation(id, createInFolder, FALSE)
              IN  Show(Append(conversations, c), c, messageIsStreaming, FALSE)
      BY <2>2 DEF HandleNewConversation
    <3> DEFINE c == NewConversation(id, createInFolder, FALSE)
    <3>2. c \in OwnConversations(askedIn) /\ c.id \notin IdsOf(conversations)
      BY FreshIsUnused, NewConversationIsOwn
    <3>3. Show(Append(conversations, c), c, messageIsStreaming, FALSE)
      BY <3>1
    <3> HIDE DEF c
    <3>4. Append(conversations, c) \in OwnLists(askedIn)
      BY <3>2, OnScreen, AppendIsOwn
    <3>5. QED
      BY <3>2, <3>3, <3>4, OnScreen
  <2>3. QED
    BY <2>1, <2>2
<1>3. ScreenOK'
  BY <1>1, <1>2, ShowKeeps DEF ChatInv
<1>4. Save(conversations', selectedConversation')
  BY DEF HandleNewConversation
<1>5. conversations' \in OwnLists(askedIn') /\ selectedConversation' \in OwnConversations(askedIn')
  BY <1>3 DEF ScreenOK
<1>6. StoreOK'
  BY <1>4, <1>5, SaveKeeps
<1>7. QED
  BY <1>1, <1>3, <1>6, SidebarKeeps

LEMMA UpdateKeeps ==
    ASSUME ChatInv, NEW c \in OwnConversations(askedIn), HandleUpdateConversation(c)
    PROVE  ChatInv'
<1>1. UNCHANGED <<wireVars, restVars>> /\ UNCHANGED askedIn /\ folderExists' \in BOOLEAN
  BY DEF HandleUpdateConversation, restVars, ChatInv, RestOK
<1>2. Updated(conversations, c) \in OwnLists(askedIn')
  BY <1>1, OnScreen, UpdatedIsOwn
<1>3. Show(Updated(conversations, c), c, messageIsStreaming, loading) /\ Save(conversations', c)
  BY DEF HandleUpdateConversation
<1>4. ScreenOK'
  BY <1>1, <1>2, <1>3, OnScreen, ShowKeeps DEF ChatInv
<1>5. conversations' \in OwnLists(askedIn')
  BY <1>4 DEF ScreenOK
<1>6. StoreOK'
  BY <1>1, <1>3, <1>5, SaveKeeps
<1>7. QED
  BY <1>1, <1>4, <1>6, SidebarKeeps

LEMMA DropKeeps ==
    ASSUME ChatInv, NEW c \in ToSet(conversations), NEW inFolder \in BOOLEAN,
           DropIntoFolder(c, inFolder)
    PROVE  ChatInv'
<1>1. c \in OwnConversations(askedIn)
  BY OnScreen, MembersAreOwn
<1>2. WithFolder(c, inFolder) \in OwnConversations(askedIn)
  BY <1>1, FlagsChange
<1>3. HandleUpdateConversation(WithFolder(c, inFolder))
  BY DEF DropIntoFolder, WithFolder
<1>4. QED
  BY <1>2, <1>3, UpdateKeeps

LEMMA DeleteKeeps ==
    ASSUME ChatInv, NEW c \in ToSet(conversations), HandleDeleteConversation(c)
    PROVE  ChatInv'
<1> DEFINE rest == Filtered(conversations, {d \in ToSet(conversations) : d.id # c.id})
<1>1. UNCHANGED <<wireVars, restVars>> /\ UNCHANGED askedIn /\ folderExists' \in BOOLEAN
  BY DEF HandleDeleteConversation, restVars, ChatInv, RestOK
<1>2. rest \in OwnLists(askedIn')
  BY <1>1, OnScreen, FilteredIsOwn
<1>3. IF rest # <<>>
      THEN Show(rest, Last(rest), messageIsStreaming, loading) /\ Save(rest, Last(rest))
      ELSE /\ \E id \in FreshIds :
                  Show(rest, NewConversation(id, FALSE, FALSE), messageIsStreaming, loading)
           /\ db' = [history |-> rest, selected |-> {}]
  BY DEF HandleDeleteConversation
<1> HIDE DEF rest
<1>4. CASE rest # <<>>
  <2>1. Last(rest) \in OwnConversations(askedIn')
    BY <1>2, <1>4, MembersAreOwn
  <2>2. Show(rest, Last(rest), messageIsStreaming, loading) /\ Save(rest, Last(rest))
    BY <1>3, <1>4
  <2>3. ScreenOK'
    BY <1>1, <1>2, <2>1, <2>2, OnScreen, ShowKeeps DEF ChatInv
  <2>4. StoreOK'
    BY <1>2, <2>1, <2>2, SaveKeeps
  <2>5. QED
    BY <1>1, <2>3, <2>4, SidebarKeeps
<1>5. CASE rest = <<>>
  <2>1. PICK id \in FreshIds :
            Show(rest, NewConversation(id, FALSE, FALSE), messageIsStreaming, loading)
    BY <1>3, <1>5
  <2>2. NewConversation(id, FALSE, FALSE) \in OwnConversations(askedIn')
    BY FreshIsUnused, NewConversationIsOwn
  <2>3. ScreenOK'
    BY <1>1, <1>2, <2>1, <2>2, OnScreen, ShowKeeps DEF ChatInv
  <2>4. StoreOK'
    BY <1>2, <1>3, <1>5 DEF StoreOK
  <2>5. QED
    BY <1>1, <2>3, <2>4, SidebarKeeps
<1>6. QED
  BY <1>4, <1>5

LEMMA NothingIsOwn ==
    ASSUME NEW asked
    PROVE  <<>> \in OwnLists(asked)
BY DEF OwnLists, Distinct

LEMMA ClearKeeps ==
    ASSUME ChatInv, HandleClearConversations
    PROVE  ChatInv'
<1>1. UNCHANGED <<wireVars, restVars>> /\ UNCHANGED askedIn /\ folderExists' \in BOOLEAN
  BY DEF HandleClearConversations, restVars
<1>2. PICK id \in FreshIds :
          Show(<<>>, NewConversation(id, FALSE, FALSE), messageIsStreaming, loading)
  BY DEF HandleClearConversations
<1>3. NewConversation(id, FALSE, FALSE) \in OwnConversations(askedIn') /\ <<>> \in OwnLists(askedIn')
  BY FreshIsUnused, NewConversationIsOwn, NothingIsOwn
<1>4. ScreenOK'
  BY <1>1, <1>2, <1>3, OnScreen, ShowKeeps DEF ChatInv
<1>5. Save(<<>>, selectedConversation') /\ selectedConversation' \in OwnConversations(askedIn')
  BY <1>4 DEF HandleClearConversations, ScreenOK
<1>6. StoreOK'
  BY <1>3, <1>5, SaveKeeps
<1>7. QED
  BY <1>1, <1>4, <1>6, SidebarKeeps

LEMMA CreateFolderKeeps ==
    ASSUME ChatInv, HandleCreateFolder
    PROVE  ChatInv'
<1>1. UNCHANGED <<wireVars, restVars>> /\ UNCHANGED askedIn /\ folderExists' \in BOOLEAN
  BY DEF HandleCreateFolder, restVars
<1>2. ScreenOK'
  BY <1>1, UntouchedScreen DEF HandleCreateFolder, ChatInv
<1>3. StoreOK'
  BY <1>1 DEF HandleCreateFolder, ChatInv, StoreOK
<1>4. QED
  BY <1>1, <1>2, <1>3, SidebarKeeps

LEMMA SingleIsOwn ==
    ASSUME NEW asked, NEW c \in OwnConversations(asked)
    PROVE  <<c>> \in OwnLists(asked) /\ IdsOf(<<c>>) = {c.id}
<1>1. <<c>> \in Seq(OwnConversations(asked)) /\ DOMAIN <<c>> = {1} /\ <<c>>[1] = c
  OBVIOUS
<1>2. QED
  BY <1>1 DEF OwnLists, Distinct, IdsOf

LEMMA DeleteFolderKeeps ==
    ASSUME ChatInv, HandleDeleteFolder
    PROVE  ChatInv'
<1> DEFINE rest == Filtered(conversations, {d \in ToSet(conversations) : ~d.inFolder})
<1>1. UNCHANGED <<wireVars, restVars>> /\ UNCHANGED askedIn /\ folderExists' \in BOOLEAN
  BY DEF HandleDeleteFolder, restVars
<1>2. rest \in OwnLists(askedIn')
  BY <1>1, OnScreen, FilteredIsOwn
<1>3. IF ~selectedConversation.inFolder
      THEN /\ Show(rest, selectedConversation, messageIsStreaming, loading)
           /\ db' = [db EXCEPT !.history = rest]
      ELSE /\ IF rest # <<>>
              THEN Show(rest, Last(rest), messageIsStreaming, loading)
              ELSE \E id \in FreshIds :
                       LET c == NewConversation(id, FALSE, TRUE)
                       IN Show(<<c>>, c, messageIsStreaming, loading)
           /\ Save(conversations', selectedConversation')
  BY DEF HandleDeleteFolder
<1> HIDE DEF rest
<1>4. ScreenOK'
  <2>1. CASE ~selectedConversation.inFolder
    BY <1>1, <1>2, <1>3, <2>1, OnScreen, ShowKeeps DEF ChatInv
  <2>2. CASE selectedConversation.inFolder /\ rest # <<>>
    <3>1. Last(rest) \in OwnConversations(askedIn')
      BY <1>2, <2>2, MembersAreOwn
    <3>2. QED
      BY <1>1, <1>2, <1>3, <2>2, <3>1, OnScreen, ShowKeeps DEF ChatInv
  <2>3. CASE selectedConversation.inFolder /\ rest = <<>>
    <3>1. PICK id \in FreshIds :
              LET c == NewConversation(id, FALSE, TRUE)
              IN Show(<<c>>, c, messageIsStreaming, loading)
      BY <1>3, <2>3
    <3> DEFINE c == NewConversation(id, FALSE, TRUE)
    <3>2. c \in OwnConversations(askedIn') /\ Show(<<c>>, c, messageIsStreaming, loading)
      BY <3>1, FreshIsUnused, NewConversationIsOwn
    <3> HIDE DEF c
    <3>3. <<c>> \in OwnLists(askedIn')
      BY <3>2, SingleIsOwn
    <3>4. QED
      BY <1>1, <3>2, <3>3, OnScreen, ShowKeeps DEF ChatInv
  <2>4. QED
    BY <2>1, <2>2, <2>3
<1>5. conversations' \in OwnLists(askedIn') /\ selectedConversation' \in OwnConversations(askedIn')
  BY <1>4 DEF ScreenOK
<1>6. StoreOK'
  <2>1. CASE ~selectedConversation.inFolder
    <3>1. db' = [db EXCEPT !.history = rest]
      BY <1>3, <2>1
    <3>2. QED
      BY <1>1, <1>2, <3>1 DEF ChatInv, StoreOK
  <2>2. CASE selectedConversation.inFolder
    <3>1. Save(conversations', selectedConversation')
      BY <1>3, <2>2
    <3>2. QED
      BY <1>5, <3>1, SaveKeeps
  <2>3. QED
    BY <2>1, <2>2
<1>7. QED
  BY <1>1, <1>4, <1>6, SidebarKeeps

\* A page load starts from what was stored.
LEMMA LoadedKeeps ==
    ASSUME ChatInv, NEW history \in OwnLists(askedIn),
           NEW selected \in SUBSET OwnConversations(askedIn),
           selected = {} => IdsOf(history) \subseteq IdsOf(db.history),
           Loaded(history, selected)
    PROVE  ChatInv'
<1>1. UNCHANGED <<folderExists, webSocketMode, askedIn, stopped>>
  BY DEF Loaded
<1>2. /\ conversations' \in OwnLists(askedIn)
      /\ selectedConversation' \in OwnConversations(askedIn)
      /\ StoreOK'
  <2>1. CASE selected # {}
    <3>1. /\ conversations' = history /\ selectedConversation' \in selected
          /\ db' = [history |-> history, selected |-> selected]
      BY <2>1 DEF Loaded
    <3>2. QED
      BY <1>1, <3>1 DEF StoreOK
  <2>2. CASE selected = {}
    <3>1. PICK id \in FreshIds :
              LET c == NewConversation(id, FALSE, TRUE)
              IN  /\ conversations' = Append(history, c)
                  /\ selectedConversation' = c
                  /\ Save(conversations', c)
      BY <2>2 DEF Loaded
    <3> DEFINE c == NewConversation(id, FALSE, TRUE)
    <3>2. c \in OwnConversations(askedIn) /\ c.id \notin IdsOf(history)
      BY <2>2, FreshIsUnused, NewConversationIsOwn
    <3>3. /\ conversations' = Append(history, c) /\ selectedConversation' = c
          /\ Save(conversations', c)
      BY <3>1
    <3> HIDE DEF c
    <3>4. Append(history, c) \in OwnLists(askedIn)
      BY <3>2, AppendIsOwn
    <3>5. StoreOK'
      BY <1>1, <3>2, <3>3, <3>4, SaveKeeps
    <3>6. QED
      BY <3>2, <3>3, <3>4, <3>5
  <2>3. QED
    BY <2>1, <2>2
<1>3. ScreenOK'
  <2>1. /\ rows' = FreshRows(selectedConversation')
        /\ messageIsStreaming' = FALSE /\ loading' = FALSE
        /\ conversationsRef' = conversations' /\ activeUserMessageId' = None
    BY DEF Loaded
  <2>2. RowsKnowTheirPlace /\ selectedConversation \in OwnConversations(askedIn)
    BY DEF ChatInv, ScreenOK
  <2>3. RowsKnowTheirPlace'
    BY <1>2, <2>1, <2>2, RowsKnow DEF RowsKnowTheirPlace
  <2>4. QED
    BY <1>1, <1>2, <2>1, <2>3 DEF ScreenOK
<1>4. WireOK'
  <2>1. requests' = {} /\ resends' = {} /\ answers' = {}
    BY DEF Loaded
  <2>2. /\ controller' = [aborted |-> FALSE, resets |-> 0]
        /\ socket' = (IF webSocketMode THEN "connecting" ELSE "none")
        /\ socketConnected' = FALSE
    BY DEF Loaded
  <2>3. controller' \in [aborted: BOOLEAN, resets: Nat]
    BY <2>2
  <2>4. socket' \in {"none", "connecting", "open"} /\ socketConnected' \in BOOLEAN
    BY <2>2
  <2>5. QED
    BY <2>1, <2>3, <2>4 DEF WireOK
<1>5. RestOK'
  <2>1. uploadFlow' = None
    BY DEF Loaded
  <2>2. QED
    BY <1>1, <2>1 DEF ChatInv, RestOK
<1>6. QED
  BY <1>2, <1>3, <1>4, <1>5 DEF ChatInv

LEMMA ReloadKeeps ==
    ASSUME ChatInv, Reload
    PROVE  ChatInv'
<1>1. CASE Loaded(db.history, db.selected)
  BY <1>1, OnScreen, LoadedKeeps
<1>2. CASE Loaded(<<>>, {})
  <2>1. <<>> \in OwnLists(askedIn) /\ IdsOf(<<>>) = {}
    BY NothingIsOwn DEF IdsOf
  <2>2. QED
    BY <1>2, <2>1, LoadedKeeps
<1>3. QED
  BY <1>1, <1>2 DEF Reload, PageHides

LEMMA ImportKeeps ==
    ASSUME ChatInv, HandleImportConversations
    PROVE  ChatInv'
<1>1. PICK id \in FreshIds :
          LET history == Append(db.history, NewConversation(id, FALSE, FALSE))
          IN PageHides(history, {Last(history)})
  BY DEF HandleImportConversations
<1> DEFINE history == Append(db.history, NewConversation(id, FALSE, FALSE))
<1>2. PageHides(history, {Last(history)})
  BY <1>1
<1>3. history \in OwnLists(askedIn) /\ history # <<>>
  <2>1. /\ NewConversation(id, FALSE, FALSE) \in OwnConversations(askedIn)
        /\ NewConversation(id, FALSE, FALSE).id \notin IdsOf(db.history)
    BY FreshIsUnused, NewConversationIsOwn
  <2>2. QED
    BY <2>1, OnScreen, AppendIsOwn
<1> HIDE DEF history
<1>4. Last(history) \in OwnConversations(askedIn)
  BY <1>3, MembersAreOwn
<1>5. CASE Loaded(history, {Last(history)})
  BY <1>3, <1>4, <1>5, LoadedKeeps
<1>6. CASE Loaded(<<>>, {})
  <2>1. <<>> \in OwnLists(askedIn) /\ IdsOf(<<>>) = {}
    BY NothingIsOwn DEF IdsOf
  <2>2. QED
    BY <1>6, <2>1, LoadedKeeps
<1>7. QED
  BY <1>2, <1>5, <1>6 DEF PageHides

-----------------------------------------------------------------------------
(* Sending *)

\* A question is asked in the conversation on the screen, and of what is under way
\* nothing changes.
LEMMA AskingKeeps ==
    ASSUME ChatInv, NEW k \in NextKey, askedIn' = [askedIn EXCEPT ![k] = selectedConversation.id]
    PROVE  /\ k \in Keys /\ askedIn' \in [Keys -> Ids \cup {None}]
           /\ askedIn'[k] = selectedConversation.id
           /\ OwnConversations(askedIn) \subseteq OwnConversations(askedIn')
           /\ OwnLists(askedIn) \subseteq OwnLists(askedIn')
           /\ requests \subseteq RequestsOf(askedIn')
           /\ resends \subseteq ResendsOf(askedIn')
           /\ answers \subseteq AnswersOf(askedIn')
<1>1. k \in Keys /\ askedIn[k] = None
  BY DEF NextKey
<1>2. askedIn \in [Keys -> Ids \cup {None}] /\ selectedConversation.id \in Ids
  BY OnScreen
<1>3. askedIn' \in [Keys -> Ids \cup {None}] /\ askedIn'[k] = selectedConversation.id
  BY <1>1, <1>2
<1>4. \A j \in Keys : askedIn[j] = None \/ askedIn'[j] = askedIn[j]
  BY <1>1, <1>2
<1>5. /\ OwnConversations(askedIn) \subseteq OwnConversations(askedIn')
      /\ OwnLists(askedIn) \subseteq OwnLists(askedIn')
  BY <1>2, <1>4, AskingKeepsLists
<1>6. \A id \in Ids : id # None
  BY DEF Ids, None
<1>7. ASSUME NEW r \in requests PROVE r \in RequestsOf(askedIn')
  <2>1. r \in RequestsOf(askedIn)
    BY DEF ChatInv, WireOK
  <2>2. r.conv \in OwnConversations(askedIn) /\ r.base \in OwnLists(askedIn) /\ r.key \in Keys
        /\ askedIn[r.key] = r.conv.id
    BY <2>1 DEF RequestsOf
  <2>3. r.conv.id \in Ids
    BY <2>2 DEF OwnConversations, Conversations
  <2>4. askedIn'[r.key] = r.conv.id
    BY <1>4, <1>6, <2>2, <2>3
  <2>5. r \in [key: Keys, conv: OwnConversations(askedIn'), base: OwnLists(askedIn'),
               phase: {"fetch", "stream", "timer"}, pieces: Nat, aborted: BOOLEAN,
               current: BOOLEAN]
    BY <1>5, <2>1 DEF RequestsOf
  <2>6. QED
    BY <2>4, <2>5 DEF RequestsOf
<1>8. ASSUME NEW r \in resends PROVE r \in ResendsOf(askedIn')
  <2>1. r \in ResendsOf(askedIn)
    BY DEF ChatInv, WireOK
  <2>2. r.conv \in OwnConversations(askedIn) /\ r.key \in Keys /\ askedIn[r.key] = r.conv.id
    BY <2>1 DEF ResendsOf
  <2>3. r.conv.id \in Ids
    BY <2>2 DEF OwnConversations, Conversations
  <2>4. askedIn'[r.key] = r.conv.id
    BY <1>4, <1>6, <2>2, <2>3
  <2>5. r \in [key: Keys, conv: OwnConversations(askedIn')]
    BY <1>5, <2>1 DEF ResendsOf
  <2>6. QED
    BY <2>4, <2>5 DEF ResendsOf
<1>9. ASSUME NEW r \in answers PROVE r \in AnswersOf(askedIn')
  <2>1. r \in AnswersOf(askedIn)
    BY DEF ChatInv, WireOK
  <2>2. r.conv \in Ids /\ r.key \in Keys /\ askedIn[r.key] = r.conv
    BY <2>1 DEF AnswersOf
  <2>3. askedIn'[r.key] = r.conv
    BY <1>4, <1>6, <2>2
  <2>4. QED
    BY <2>1, <2>3 DEF AnswersOf
<1>10. QED
  BY <1>1, <1>3, <1>5, <1>7, <1>8, <1>9

LEMMA SendHttpKeeps ==
    ASSUME ChatInv, NEW k \in NextKey, NEW c \in OwnConversations(askedIn'),
           askedIn' = [askedIn EXCEPT ![k] = selectedConversation.id], askedIn'[k] = c.id,
           SendHttp(k, c), UNCHANGED <<socket, resends, controller, socketConnected>>
    PROVE  ScreenOK' /\ StoreOK' /\ WireOK'
<1>1. /\ k \in Keys
      /\ OwnConversations(askedIn) \subseteq OwnConversations(askedIn')
      /\ OwnLists(askedIn) \subseteq OwnLists(askedIn')
      /\ requests \subseteq RequestsOf(askedIn')
      /\ resends \subseteq ResendsOf(askedIn')
      /\ answers \subseteq AnswersOf(askedIn')
  BY AskingKeeps
<1>2. conversations \in OwnLists(askedIn') /\ conversationsRef \in OwnLists(askedIn')
  BY <1>1, OnScreen
<1>3. Render(conversations, c, TRUE, TRUE) /\ Effects(conversationsRef, k)
  BY DEF SendHttp
<1>4. ScreenOK'
  BY <1>1, <1>2, <1>3, ShownIsOwn DEF ChatInv
<1>5. StoreOK'
  <2>1. db' = db /\ StoreOK
    BY DEF SendHttp, ChatInv
  <2>2. QED
    BY <1>1, <2>1 DEF StoreOK
<1>6. WireOK'
  <2> DEFINE r == [key |-> k, conv |-> c, base |-> conversations, phase |-> "fetch",
                   pieces |-> 0, aborted |-> controller.aborted, current |-> TRUE]
  <2>1. controller.aborted \in BOOLEAN
    BY DEF ChatInv, WireOK
  <2>2. r \in [key: Keys, conv: OwnConversations(askedIn'), base: OwnLists(askedIn'),
               phase: {"fetch", "stream", "timer"}, pieces: Nat, aborted: BOOLEAN,
               current: BOOLEAN]
    BY <1>1, <1>2, <2>1
  <2>3. r \in RequestsOf(askedIn')
    BY <2>2 DEF RequestsOf
  <2>4. requests' = requests \cup {r} /\ answers' = answers
    BY DEF SendHttp
  <2> HIDE DEF r
  <2>5. QED
    BY <1>1, <2>3, <2>4 DEF ChatInv, WireOK
<1>7. QED
  BY <1>4, <1>5, <1>6

LEMMA SendSocketKeeps ==
    ASSUME ChatInv, NEW k \in NextKey, NEW c \in OwnConversations(askedIn'),
           askedIn' = [askedIn EXCEPT ![k] = selectedConversation.id], askedIn'[k] = c.id,
           SendSocket(k, c), UNCHANGED <<socket, resends, controller, socketConnected>>
    PROVE  ScreenOK' /\ StoreOK' /\ WireOK'
<1>1. /\ k \in Keys
      /\ OwnLists(askedIn) \subseteq OwnLists(askedIn')
      /\ requests \subseteq RequestsOf(askedIn')
      /\ resends \subseteq ResendsOf(askedIn')
      /\ answers \subseteq AnswersOf(askedIn')
  BY AskingKeeps
<1> DEFINE all == IF c.id \in IdsOf(conversationsRef) THEN Updated(conversationsRef, c)
                  ELSE Append(conversationsRef, c)
<1>2. conversationsRef \in OwnLists(askedIn')
  BY <1>1, OnScreen
<1>3. all \in OwnLists(askedIn')
  BY <1>2, AddedIsOwn
<1>4. WriteThrough(all, c, TRUE, TRUE, k)
  BY DEF SendSocket
<1> HIDE DEF all
<1>5. ScreenOK' /\ StoreOK'
  BY <1>1, <1>3, <1>4, WriteThroughKeeps DEF ChatInv
<1>6. WireOK'
  <2> DEFINE a == [key |-> k, conv |-> c.id, left |-> MaxChunks]
  <2>1. c.id \in Ids /\ MaxChunks \in Nat
    BY ChatBounds DEF OwnConversations, Conversations
  <2>2. a \in AnswersOf(askedIn')
    BY <1>1, <2>1 DEF AnswersOf
  <2>3. requests' = requests /\ answers' \subseteq answers \cup {a}
    BY DEF SendSocket
  <2> HIDE DEF a
  <2>4. QED
    BY <1>1, <2>2, <2>3 DEF ChatInv, WireOK
<1>7. QED
  BY <1>5, <1>6

LEMMA SendLaterKeeps ==
    ASSUME ChatInv, NEW k \in NextKey, NEW shown \in OwnConversations(askedIn'),
           askedIn' = [askedIn EXCEPT ![k] = selectedConversation.id],
           SendLater(k, shown, selectedConversation), UNCHANGED <<controller, socketConnected>>
    PROVE  ScreenOK' /\ StoreOK' /\ WireOK'
<1>1. /\ k \in Keys /\ askedIn'[k] = selectedConversation.id
      /\ OwnConversations(askedIn) \subseteq OwnConversations(askedIn')
      /\ OwnLists(askedIn) \subseteq OwnLists(askedIn')
      /\ requests \subseteq RequestsOf(askedIn')
      /\ resends \subseteq ResendsOf(askedIn')
      /\ answers \subseteq AnswersOf(askedIn')
  BY AskingKeeps
<1>2. /\ conversations \in OwnLists(askedIn') /\ conversationsRef \in OwnLists(askedIn')
      /\ selectedConversation \in OwnConversations(askedIn')
  BY <1>1, OnScreen
<1>3. Render(conversations, shown, TRUE, TRUE) /\ Effects(conversationsRef, k)
  BY DEF SendLater
<1>4. ScreenOK'
  BY <1>1, <1>2, <1>3, ShownIsOwn DEF ChatInv
<1>5. StoreOK'
  <2>1. db' = db /\ StoreOK
    BY DEF SendLater, ChatInv
  <2>2. QED
    BY <1>1, <2>1 DEF StoreOK
<1>6. WireOK'
  <2> DEFINE r == [key |-> k, conv |-> selectedConversation]
  <2>1. r \in ResendsOf(askedIn')
    BY <1>1, <1>2 DEF ResendsOf
  <2>2. /\ resends' = resends \cup {r} /\ requests' = requests /\ answers' = answers
        /\ socket' = IF socket = "none" THEN "connecting" ELSE socket
    BY DEF SendLater
  <2> HIDE DEF r
  <2>3. socket' \in {"none", "connecting", "open"}
    BY <2>2 DEF ChatInv, WireOK
  <2>4. QED
    BY <1>1, <2>1, <2>2, <2>3 DEF ChatInv, WireOK
<1>7. QED
  BY <1>4, <1>5, <1>6

LEMMA SendKeeps ==
    ASSUME ChatInv, NEW k, NEW deleteCount \in Nat, NEW hidden,
           HandleSend(k, deleteCount, hidden), uploadFlow' \in Ids \cup {None}
    PROVE  ChatInv'
<1> DEFINE c == WithQuestion(selectedConversation, k, deleteCount)
           id == selectedConversation.id
<1>1. k \in NextKey /\ k \in Keys
  BY DEF HandleSend, NextKey
<1>2. selectedConversation \in OwnConversations(askedIn)
  BY OnScreen
<1>3. c.id = id
  BY <1>2 DEF WithQuestion, OwnConversations, Conversations
<1>4. askedIn' = [askedIn EXCEPT ![k] = id]
  BY <1>3 DEF HandleSend, Asked
<1>5. /\ askedIn' \in [Keys -> Ids \cup {None}] /\ askedIn'[k] = id
      /\ OwnConversations(askedIn) \subseteq OwnConversations(askedIn')
  BY <1>1, <1>4, AskingKeeps
<1>6. c \in OwnConversations(askedIn') /\ askedIn'[k] = c.id
  BY <1>1, <1>2, <1>3, <1>5, QuestionIsOwn
<1>7. RestOK'
  BY <1>5 DEF HandleSend, ChatInv, RestOK
<1>8. UNCHANGED <<controller, socketConnected>>
  BY DEF HandleSend
<1>9. ScreenOK' /\ StoreOK' /\ WireOK'
  <2>1. CASE webSocketMode /\ ~socketConnected
    <3>1. SendLater(k, c, selectedConversation)
      BY <2>1 DEF HandleSend
    <3> HIDE DEF c
    <3>2. QED
      BY <1>1, <1>4, <1>6, <1>8, <3>1, SendLaterKeeps
  <2>2. CASE ~(webSocketMode /\ ~socketConnected) /\ webSocketMode
    <3>1. SendSocket(k, c) /\ UNCHANGED <<socket, resends>>
      BY <2>2 DEF HandleSend
    <3> HIDE DEF c
    <3>2. QED
      BY <1>1, <1>4, <1>6, <1>8, <3>1, SendSocketKeeps
  <2>3. CASE ~webSocketMode
    <3>1. SendHttp(k, c) /\ UNCHANGED <<socket, resends>>
      BY <2>3 DEF HandleSend
    <3> HIDE DEF c
    <3>2. QED
      BY <1>1, <1>4, <1>6, <1>8, <3>1, SendHttpKeeps
  <2>4. QED
    BY <2>1, <2>2, <2>3
<1>10. QED
  BY <1>7, <1>9 DEF ChatInv

LEMMA RegenerateKeeps ==
    ASSUME ChatInv, NEW k, Regenerate(k)
    PROVE  ChatInv'
<1>1. PICK deleteCount \in {0, 1} : HandleSend(k, deleteCount, FALSE)
  BY DEF Regenerate
<1>2. uploadFlow' \in Ids \cup {None}
  BY DEF Regenerate, ChatInv, RestOK
<1>3. QED
  BY <1>1, <1>2, SendKeeps

LEMMA EditKeeps ==
    ASSUME ChatInv, NEW k, NEW i \in DOMAIN selectedConversation.messages,
           HandleEditMessage(k, i)
    PROVE  ChatInv'
<1>1. selectedConversation.messages[i].role = "user" /\ HandleSend(k, rows[i] - i + 1, FALSE)
  BY DEF HandleEditMessage
<1>2. selectedConversation.messages \in Seq(OwnMessages(askedIn, selectedConversation.id))
  BY OnScreen DEF OwnConversations
<1>3. i \in Nat /\ i \in 1 .. Len(selectedConversation.messages)
  BY <1>2
<1>4. rows[i] \in Nat /\ rows[i] >= i
  BY <1>1, <1>3 DEF ChatInv, ScreenOK, RowsKnowTheirPlace
<1>5. rows[i] - i + 1 \in Nat
  BY <1>3, <1>4
<1>6. uploadFlow' \in Ids \cup {None}
  BY DEF HandleEditMessage, ChatInv, RestOK
<1>7. QED
  BY <1>1, <1>5, <1>6, SendKeeps

LEMMA DeleteMessageKeeps ==
    ASSUME ChatInv, NEW i \in DOMAIN selectedConversation.messages, HandleDeleteMessage(i)
    PROVE  ChatInv'
<1> DEFINE messages == selectedConversation.messages
           last == IF i < Len(messages) /\ messages[i + 1].role = "assistant" THEN i + 1 ELSE i
           kept == SubSeq(messages, 1, i - 1) \o SubSeq(messages, last + 1, Len(messages))
           c == WithMessages(selectedConversation, kept)
           all == Updated(conversationsRef, c)
<1>1. WriteThrough(all, c, messageIsStreaming, loading, activeUserMessageId)
  BY DEF HandleDeleteMessage, WithMessages
<1>2. UNCHANGED <<folderExists, wireVars, restVars>> /\ UNCHANGED askedIn
  BY DEF HandleDeleteMessage, restVars
<1>3. messages \in Seq(OwnMessages(askedIn, selectedConversation.id))
  BY OnScreen DEF OwnConversations
<1>4. last \in i .. Len(messages)
  BY <1>3
<1> HIDE DEF last
<1>5. kept \in Seq(OwnMessages(askedIn, selectedConversation.id))
  BY <1>4, OnScreen, DeletionIsOwn
<1> HIDE DEF kept
<1>6. c \in OwnConversations(askedIn)
  BY <1>5, OnScreen, MessagesChange
<1> HIDE DEF c
<1>7. all \in OwnLists(askedIn)
  BY <1>6, OnScreen, UpdatedIsOwn
<1> HIDE DEF all
<1>8. ScreenOK' /\ StoreOK'
  BY <1>1, <1>2, <1>6, <1>7, OnScreen, WriteThroughKeeps DEF ChatInv
<1>9. folderExists' \in BOOLEAN
  BY <1>2 DEF ChatInv, RestOK
<1>10. QED
  BY <1>2, <1>8, <1>9, SidebarKeeps

LEMMA UntouchedHome ==
    ASSUME ScreenOK, StoreOK, UNCHANGED <<homeVars, askedIn>>
    PROVE  ScreenOK' /\ StoreOK'
<1>1. ScreenOK'
  BY UntouchedScreen DEF homeVars
<1>2. StoreOK'
  BY DEF homeVars, StoreOK
<1>3. QED
  BY <1>1, <1>2

LEMMA UploadDialogKeeps ==
    ASSUME ChatInv, OpenUpload \/ CloseUpload
    PROVE  ChatInv'
<1>1. UNCHANGED <<homeVars, wireVars, webSocketMode, askedIn, stopped>>
  BY DEF OpenUpload, CloseUpload
<1>2. uploadFlow' \in Ids \cup {None}
  BY OnScreen DEF OpenUpload, CloseUpload
<1>3. ScreenOK' /\ StoreOK'
  BY <1>1, UntouchedHome DEF ChatInv
<1>4. WireOK'
  BY <1>1, UntouchedWires DEF ChatInv
<1>5. RestOK'
  BY <1>1, <1>2 DEF ChatInv, RestOK, homeVars
<1>6. QED
  BY <1>3, <1>4, <1>5 DEF ChatInv

LEMMA StopKeeps ==
    ASSUME ChatInv, HandleStopConversation
    PROVE  ChatInv'
<1>1. UNCHANGED <<folderExists, db, socket, socketConnected, resends, answers, completions,
                  webSocketMode, uploadFlow, askedIn>>
  BY DEF HandleStopConversation
<1>2. StoreOK'
  BY <1>1 DEF ChatInv, StoreOK
<1>3. CASE webSocketMode
  <2>1. /\ Render(conversations, selectedConversation, FALSE, FALSE)
        /\ Effects(conversationsRef, None)
        /\ stopped' = stopped \cup ({activeUserMessageId} \ {None})
        /\ UNCHANGED <<requests, controller>>
    BY <1>3 DEF HandleStopConversation
  <2>2. ScreenOK'
    BY <1>1, <2>1, OnScreen, ShownIsOwn DEF ChatInv
  <2>3. WireOK'
    BY <1>1, <2>1 DEF ChatInv, WireOK
  <2>4. RestOK'
    BY <1>1, <2>1, OnScreen DEF ChatInv, RestOK
  <2>5. QED
    BY <1>2, <2>2, <2>3, <2>4 DEF ChatInv
<1>4. CASE ~webSocketMode
  <2>1. /\ requests' = {[r EXCEPT !.aborted = @ \/ r.current] : r \in requests}
        /\ controller' = [aborted |-> TRUE, resets |-> controller.resets + 1]
        /\ UNCHANGED <<conversations, selectedConversation, rows, messageIsStreaming, loading,
                       conversationsRef, activeUserMessageId, stopped>>
    BY <1>4 DEF HandleStopConversation
  <2>2. ScreenOK'
    BY <1>1, <2>1, UntouchedScreen DEF ChatInv
  <2>3. ASSUME NEW r \in requests
        PROVE  [r EXCEPT !.aborted = @ \/ r.current] \in RequestsOf(askedIn)
    <3>1. r \in RequestsOf(askedIn)
      BY DEF ChatInv, WireOK
    <3> DEFINE flag == r.aborted \/ r.current
    <3>2. flag \in BOOLEAN
      OBVIOUS
    <3>3. [r EXCEPT !.aborted = @ \/ r.current] = [r EXCEPT !.aborted = flag]
      OBVIOUS
    <3> HIDE DEF flag
    <3>4. [r EXCEPT !.aborted = flag] \in RequestsOf(askedIn)
      BY <3>1, <3>2 DEF RequestsOf
    <3>5. QED
      BY <3>3, <3>4
  <2>4. controller' \in [aborted: BOOLEAN, resets: Nat]
    BY <2>1 DEF ChatInv, WireOK
  <2>5. WireOK'
    BY <1>1, <2>1, <2>3, <2>4 DEF ChatInv, WireOK
  <2>6. RestOK'
    BY <1>1, <2>1 DEF ChatInv, RestOK
  <2>7. QED
    BY <1>2, <2>2, <2>5, <2>6 DEF ChatInv
<1>5. QED
  BY <1>3, <1>4

LEMMA ResetKeeps ==
    ASSUME ChatInv, ResetController
    PROVE  ChatInv'
<1>1. /\ controller.resets > 0
      /\ controller' = [aborted |-> FALSE, resets |-> controller.resets - 1]
      /\ requests' = {[r EXCEPT !.current = FALSE] : r \in requests}
      /\ UNCHANGED <<homeVars, restVars, socket, socketConnected, resends, answers, completions>>
  BY DEF ResetController
<1>2. UNCHANGED askedIn /\ folderExists' = folderExists
  BY <1>1 DEF restVars, homeVars
<1>3. ScreenOK' /\ StoreOK'
  BY <1>1, <1>2, UntouchedHome DEF ChatInv
<1>4. ASSUME NEW r \in requests PROVE [r EXCEPT !.current = FALSE] \in RequestsOf(askedIn)
  <2>1. r \in RequestsOf(askedIn)
    BY DEF ChatInv, WireOK
  <2>2. QED
    BY <2>1 DEF RequestsOf
<1>5. controller' \in [aborted: BOOLEAN, resets: Nat]
  BY <1>1 DEF ChatInv, WireOK
<1>6. WireOK'
  BY <1>1, <1>2, <1>4, <1>5 DEF ChatInv, WireOK
<1>7. RestOK'
  BY <1>1, <1>2 DEF ChatInv, RestOK, restVars
<1>8. QED
  BY <1>3, <1>6, <1>7 DEF ChatInv

-----------------------------------------------------------------------------
(* The HTTP answer *)

\* A request in flight, its successors and what stays untouched.
LEMMA HttpStepKeeps ==
    ASSUME ChatInv, NEW r \in requests, NEW next \in SUBSET RequestsOf(askedIn),
           Becomes(r, next), ScreenOK', StoreOK', folderExists' = folderExists,
           UNCHANGED <<OtherWires, restVars>>
    PROVE  ChatInv'
<1>1. UNCHANGED askedIn
  BY DEF restVars
<1>2. requests' \subseteq RequestsOf(askedIn)
  BY DEF Becomes, ChatInv, WireOK
<1>3. WireOK'
  BY <1>1, <1>2 DEF ChatInv, WireOK, OtherWires
<1>4. RestOK'
  BY DEF ChatInv, RestOK, restVars
<1>5. QED
  BY <1>3, <1>4 DEF ChatInv

InPhase(r, phase) == [r EXCEPT !.phase = phase]
Extended(r, c) == [r EXCEPT !.conv = c, !.pieces = @ + 1]

\* A request's conversation goes on in its next state.
LEMMA RequestGoesOn ==
    ASSUME ChatInv, NEW r \in requests
    PROVE  /\ r.conv \in OwnConversations(askedIn) /\ r.base \in OwnLists(askedIn)
           /\ r.key \in Keys /\ askedIn[r.key] = r.conv.id
           /\ InPhase(r, "stream") \in RequestsOf(askedIn)
           /\ InPhase(r, "timer") \in RequestsOf(askedIn)
           /\ \A c \in OwnConversations(askedIn) :
                  c.id = r.conv.id => Extended(r, c) \in RequestsOf(askedIn)
<1> DEFINE R == [key: Keys, conv: OwnConversations(askedIn), base: OwnLists(askedIn),
                 phase: {"fetch", "stream", "timer"}, pieces: Nat, aborted: BOOLEAN,
                 current: BOOLEAN]
<1>1. r \in R /\ askedIn[r.key] = r.conv.id
  BY DEF ChatInv, WireOK, RequestsOf
<1>2. \A x \in R : askedIn[x.key] = x.conv.id => x \in RequestsOf(askedIn)
  BY DEF RequestsOf
<1>3. ASSUME NEW p \in {"fetch", "stream", "timer"} PROVE InPhase(r, p) \in RequestsOf(askedIn)
  <2> DEFINE x == [r EXCEPT !.phase = p]
  <2>1. x \in R /\ x.key = r.key /\ x.conv = r.conv
    BY <1>1
  <2> HIDE DEF x, R
  <2>2. x \in RequestsOf(askedIn)
    BY <1>1, <1>2, <2>1
  <2>3. QED
    BY <2>2 DEF x, InPhase
<1>4. ASSUME NEW c \in OwnConversations(askedIn), c.id = r.conv.id
      PROVE  Extended(r, c) \in RequestsOf(askedIn)
  <2> DEFINE n == r.pieces + 1
             x == [r EXCEPT !.conv = c, !.pieces = n]
  <2>1. n \in Nat
    BY <1>1
  <2>2. Extended(r, c) = x
    BY <1>1 DEF Extended
  <2> HIDE DEF n
  <2>3. x \in R /\ x.key = r.key /\ x.conv = c
    BY <1>1, <2>1
  <2> HIDE DEF x, R
  <2>4. QED
    BY <1>1, <1>2, <1>4, <2>2, <2>3
<1>5. QED
  BY <1>1, <1>3, <1>4

LEMMA RequestFailsKeeps ==
    ASSUME ChatInv, NEW r \in requests, RequestFails(r)
    PROVE  ChatInv'
<1>1. UNCHANGED <<OtherWires, restVars>> /\ UNCHANGED askedIn /\ folderExists' = folderExists
  BY DEF RequestFails, restVars
<1>2. Becomes(r, {}) /\ Show(conversations, selectedConversation, FALSE, FALSE)
  BY DEF RequestFails
<1>3. ScreenOK'
  BY <1>1, <1>2, OnScreen, ShowKeeps DEF ChatInv
<1>4. UNCHANGED db \/ db' = [db EXCEPT !.selected = {r.conv}]
  BY DEF RequestFails
<1>5. StoreOK'
  <2>1. r.conv \in OwnConversations(askedIn)
    BY RequestGoesOn
  <2>2. QED
    BY <1>1, <1>4, <2>1 DEF ChatInv, StoreOK
<1>6. QED
  BY <1>1, <1>2, <1>3, <1>5, HttpStepKeeps

LEMMA ResponseKeeps ==
    ASSUME ChatInv, NEW r \in requests, ResponseArrives(r)
    PROVE  ChatInv'
<1>1. /\ UNCHANGED <<OtherWires, restVars>> /\ UNCHANGED askedIn /\ folderExists' = folderExists
      /\ UNCHANGED db
  BY DEF ResponseArrives, restVars
<1> DEFINE next == {InPhase(r, "stream")}
<1>2. Becomes(r, next) /\ Show(conversations, selectedConversation, messageIsStreaming, FALSE)
  BY DEF ResponseArrives, InPhase
<1>3. next \in SUBSET RequestsOf(askedIn)
  BY RequestGoesOn
<1> HIDE DEF next
<1>4. ScreenOK'
  BY <1>1, <1>2, OnScreen, ShowKeeps DEF ChatInv
<1>5. StoreOK'
  BY <1>1 DEF ChatInv, StoreOK
<1>6. QED
  BY <1>1, <1>2, <1>3, <1>4, <1>5, HttpStepKeeps

LEMMA PieceKeeps ==
    ASSUME ChatInv, NEW r \in requests, PieceArrives(r)
    PROVE  ChatInv'
<1>1. /\ UNCHANGED <<OtherWires, restVars>> /\ UNCHANGED askedIn /\ folderExists' = folderExists
      /\ UNCHANGED db
  BY DEF PieceArrives, restVars
<1> DEFINE c == WithMessages(r.conv, WithPiece(r.conv.messages, r.key))
           next == {Extended(r, c)}
<1>2. Becomes(r, next) /\ Show(conversations, c, messageIsStreaming, FALSE)
  BY DEF PieceArrives, WithMessages, Extended
<1>3. /\ r.conv \in OwnConversations(askedIn) /\ r.key \in Keys /\ askedIn[r.key] = r.conv.id
  BY RequestGoesOn
<1>4. WithPiece(r.conv.messages, r.key) \in Seq(OwnMessages(askedIn, r.conv.id))
  BY <1>3, PieceIsOwn
<1>5. c \in OwnConversations(askedIn) /\ c.id = r.conv.id
  BY <1>3, <1>4, MessagesChange
<1> HIDE DEF c
<1>6. next \in SUBSET RequestsOf(askedIn)
  BY <1>5, RequestGoesOn
<1> HIDE DEF next
<1>7. ScreenOK'
  BY <1>1, <1>2, <1>5, OnScreen, ShowKeeps DEF ChatInv
<1>8. StoreOK'
  BY <1>1 DEF ChatInv, StoreOK
<1>9. QED
  BY <1>1, <1>2, <1>6, <1>7, <1>8, HttpStepKeeps

LEMMA StreamEndsKeeps ==
    ASSUME ChatInv, NEW r \in requests, StreamEnds(r)
    PROVE  ChatInv'
<1>1. UNCHANGED <<OtherWires, restVars>> /\ UNCHANGED askedIn /\ folderExists' = folderExists
  BY DEF StreamEnds, restVars
<1> DEFINE all == IF r.base = <<>> THEN <<r.conv>> ELSE Updated(r.base, r.conv)
           next == {InPhase(r, "timer")}
<1>2. /\ Becomes(r, next)
      /\ Show(all, selectedConversation, messageIsStreaming, loading)
      /\ Save(all, r.conv)
  BY DEF StreamEnds, InPhase
<1>3. next \in SUBSET RequestsOf(askedIn)
  BY RequestGoesOn
<1> HIDE DEF next
<1>4. r.conv \in OwnConversations(askedIn) /\ r.base \in OwnLists(askedIn)
  BY RequestGoesOn
<1>5. all \in OwnLists(askedIn)
  BY <1>4, SingleIsOwn, UpdatedIsOwn
<1> HIDE DEF all
<1>6. ScreenOK'
  BY <1>1, <1>2, <1>5, OnScreen, ShowKeeps DEF ChatInv
<1>7. StoreOK'
  BY <1>1, <1>2, <1>4, <1>5, SaveKeeps
<1>8. QED
  BY <1>1, <1>2, <1>3, <1>6, <1>7, HttpStepKeeps

LEMMA CompletesKeeps ==
    ASSUME ChatInv, NEW active \in Keys \cup {None}, NEW load \in BOOLEAN,
           NEW annotates \in BOOLEAN, Completes(active, load, annotates), UNCHANGED askedIn
    PROVE  ScreenOK' /\ StoreOK'
<1> DEFINE all == IF annotates THEN Updated(conversationsRef, selectedConversation)
                  ELSE conversations
<1>1. /\ Render(all, selectedConversation, FALSE, load) /\ Effects(all, active)
      /\ IF annotates THEN Save(all, selectedConversation) ELSE UNCHANGED db
  BY DEF Completes
<1>2. all \in OwnLists(askedIn)
  BY OnScreen, UpdatedIsOwn
<1> HIDE DEF all
<1>3. ScreenOK'
  BY <1>1, <1>2, OnScreen, ShownIsOwn DEF ChatInv
<1>4. StoreOK'
  <2>1. CASE annotates
    BY <1>1, <1>2, <2>1, OnScreen, SaveKeeps
  <2>2. CASE ~annotates
    BY <1>1, <2>2 DEF ChatInv, StoreOK
  <2>3. QED
    BY <2>1, <2>2
<1>5. QED
  BY <1>3, <1>4

LEMMA RequestTimerKeeps ==
    ASSUME ChatInv, NEW r \in requests, RequestTimer(r)
    PROVE  ChatInv'
<1>1. UNCHANGED <<OtherWires, restVars>> /\ UNCHANGED askedIn /\ folderExists' = folderExists
  BY DEF RequestTimer, restVars
<1>2. PICK annotates \in BOOLEAN : Completes(activeUserMessageId, FALSE, annotates)
  BY DEF RequestTimer
<1>3. ScreenOK' /\ StoreOK'
  BY <1>1, <1>2, OnScreen, CompletesKeeps
<1>4. Becomes(r, {})
  BY DEF RequestTimer
<1>5. QED
  BY <1>1, <1>3, <1>4, HttpStepKeeps

-----------------------------------------------------------------------------
(* The WebSocket *)

LEMMA FlagsOffKeeps ==
    ASSUME ChatInv, FlagsOff, UNCHANGED <<db, askedIn>>
    PROVE  ScreenOK' /\ StoreOK'
<1>1. Show(conversations, selectedConversation, FALSE, FALSE) /\ UNCHANGED db /\ UNCHANGED askedIn
  BY DEF FlagsOff
<1>2. ScreenOK'
  BY <1>1, OnScreen, ShowKeeps DEF ChatInv
<1>3. StoreOK'
  BY <1>1 DEF ChatInv, StoreOK
<1>4. QED
  BY <1>2, <1>3

LEMMA OpensKeeps ==
    ASSUME ChatInv, SocketOpens
    PROVE  ChatInv'
<1>1. /\ socket' = "open" /\ socketConnected' = TRUE
      /\ UNCHANGED <<homeVars, requests, resends, answers, controller, restVars>>
      /\ UNCHANGED askedIn /\ folderExists' = folderExists
  BY DEF SocketOpens, restVars, homeVars
<1>2. ScreenOK' /\ StoreOK'
  BY <1>1, UntouchedHome DEF ChatInv
<1>3. WireOK'
  BY <1>1 DEF ChatInv, WireOK
<1>4. RestOK'
  BY <1>1 DEF ChatInv, RestOK, restVars
<1>5. QED
  BY <1>2, <1>3, <1>4 DEF ChatInv

LEMMA ResendKeeps ==
    ASSUME ChatInv, NEW r \in resends, ResendAfterConnect(r)
    PROVE  ChatInv'
<1> DEFINE c == WithQuestion(r.conv, r.key, 1)
           all == IF c.id \in IdsOf(conversationsRef) THEN Updated(conversationsRef, c)
                  ELSE Append(conversationsRef, c)
           a == [key |-> r.key, conv |-> c.id, left |-> MaxChunks]
<1>1. /\ WriteThrough(all, c, TRUE, TRUE, r.key)
      /\ answers' = answers \cup {a}
      /\ resends' = resends \ {r} /\ stopped' = stopped \ {r.key}
      /\ socket' = "open" /\ socketConnected' = TRUE
  BY DEF ResendAfterConnect
<1>2. UNCHANGED <<folderExists, requests, controller, webSocketMode, uploadFlow, askedIn>>
  BY DEF ResendAfterConnect
<1>3. /\ r.conv \in OwnConversations(askedIn) /\ r.key \in Keys
      /\ askedIn[r.key] = r.conv.id
  BY DEF ChatInv, WireOK, ResendsOf
<1>4. c \in OwnConversations(askedIn) /\ c.id = r.conv.id
  BY <1>3, QuestionIsOwn
<1> HIDE DEF c
<1>5. all \in OwnLists(askedIn)
  BY <1>4, OnScreen, AddedIsOwn
<1> HIDE DEF all
<1>6. ScreenOK' /\ StoreOK'
  BY <1>1, <1>2, <1>3, <1>4, <1>5, WriteThroughKeeps DEF ChatInv
<1>7. a \in AnswersOf(askedIn)
  <2>1. c.id \in Ids /\ MaxChunks \in Nat
    BY <1>4, ChatBounds DEF OwnConversations, Conversations
  <2>2. QED
    BY <1>3, <1>4, <2>1 DEF AnswersOf
<1> HIDE DEF a
<1>8. WireOK'
  BY <1>1, <1>2, <1>7 DEF ChatInv, WireOK
<1>9. RestOK'
  BY <1>1, <1>2 DEF ChatInv, RestOK
<1>10. QED
  BY <1>6, <1>8, <1>9 DEF ChatInv

LEMMA ConnectionFailsKeeps ==
    ASSUME ChatInv, ConnectionFails
    PROVE  ChatInv'
<1>1. /\ socket' = "none" /\ socketConnected' = FALSE /\ resends' = {} /\ FlagsOff
      /\ UNCHANGED <<folderExists, db, requests, controller, answers, restVars>>
      /\ UNCHANGED askedIn
  BY DEF ConnectionFails, restVars
<1>2. ScreenOK' /\ StoreOK'
  BY <1>1, FlagsOffKeeps
<1>3. WireOK'
  BY <1>1 DEF ChatInv, WireOK
<1>4. RestOK'
  BY <1>1 DEF ChatInv, RestOK, restVars
<1>5. QED
  BY <1>2, <1>3, <1>4 DEF ChatInv

LEMMA DropsKeep ==
    ASSUME ChatInv, NEW withError \in BOOLEAN, SocketDrops(withError)
    PROVE  ChatInv'
<1>1. /\ socket' = IF webSocketMode THEN "connecting" ELSE "none"
      /\ answers' = {}
      /\ UNCHANGED <<requests, controller, resends, webSocketMode, uploadFlow, askedIn, stopped>>
      /\ IF withError
         THEN socketConnected' = FALSE /\ FlagsOff /\ UNCHANGED <<folderExists, db>>
         ELSE UNCHANGED <<socketConnected, homeVars>>
  BY DEF SocketDrops
<1>2. folderExists' = folderExists /\ socketConnected' \in BOOLEAN
  BY <1>1 DEF homeVars, ChatInv, WireOK
<1>3. ScreenOK' /\ StoreOK'
  <2>1. CASE withError
    BY <1>1, <2>1, FlagsOffKeeps
  <2>2. CASE ~withError
    BY <1>1, <2>2, UntouchedHome DEF ChatInv
  <2>3. QED
    BY <2>1, <2>2
<1>4. WireOK'
  <2>1. socket' \in {"none", "connecting", "open"}
    BY <1>1
  <2>2. QED
    BY <1>1, <1>2, <2>1 DEF ChatInv, WireOK
<1>5. RestOK'
  BY <1>1, <1>2 DEF ChatInv, RestOK
<1>6. QED
  BY <1>3, <1>4, <1>5 DEF ChatInv

LEMMA ToggleKeeps ==
    ASSUME ChatInv, ToggleMode
    PROVE  ChatInv'
<1>1. /\ webSocketMode' = ~webSocketMode /\ socketConnected' = FALSE /\ answers' = {}
      /\ socket' = IF webSocketMode THEN "none" ELSE "connecting"
      /\ UNCHANGED <<homeVars, requests, controller, resends, uploadFlow, askedIn, stopped>>
      /\ folderExists' = folderExists
  BY DEF ToggleMode, homeVars
<1>2. ScreenOK' /\ StoreOK'
  BY <1>1, UntouchedHome DEF ChatInv
<1>3. WireOK'
  <2>1. socket' \in {"none", "connecting", "open"}
    BY <1>1
  <2>2. QED
    BY <1>1, <2>1 DEF ChatInv, WireOK
<1>4. RestOK'
  BY <1>1 DEF ChatInv, RestOK
<1>5. QED
  BY <1>2, <1>3, <1>4 DEF ChatInv

\* An answer's frame: what is left of the answers, the screen and the store.
LEMMA SocketStepKeeps ==
    ASSUME ChatInv, NEW a \in answers, NEW next \in SUBSET AnswersOf(askedIn),
           NextAnswer(a, next), ScreenOK', StoreOK',
           UNCHANGED <<folderExists, requests, controller, socket, socketConnected, resends,
                       restVars>>
    PROVE  ChatInv'
<1>1. UNCHANGED askedIn
  BY DEF restVars
<1>2. answers' \subseteq AnswersOf(askedIn)
  BY DEF NextAnswer, ChatInv, WireOK
<1>3. WireOK'
  BY <1>1, <1>2 DEF ChatInv, WireOK
<1>4. RestOK'
  BY DEF ChatInv, RestOK, restVars
<1>5. QED
  BY <1>3, <1>4 DEF ChatInv

LEMMA AnswerPieceKeeps ==
    ASSUME ChatInv, NEW a \in answers, AnswerPiece(a)
    PROVE  ChatInv'
<1>1. UNCHANGED <<folderExists, requests, controller, socket, socketConnected, resends, restVars>>
      /\ UNCHANGED askedIn
  BY DEF AnswerPiece, restVars
<1>2. a \in AnswersOf(askedIn)
  BY DEF ChatInv, WireOK
<1> DEFINE next == {[a EXCEPT !.left = @ - 1]}
<1>3. NextAnswer(a, next)
  BY DEF AnswerPiece
<1>4. next \in SUBSET AnswersOf(askedIn)
  <2>1. a.left - 1 \in Nat
    BY <1>2 DEF AnswerPiece, AnswersOf
  <2> DEFINE n == a.left - 1
  <2>2. [a EXCEPT !.left = @ - 1] = [a EXCEPT !.left = n]
    OBVIOUS
  <2> HIDE DEF n
  <2>3. [a EXCEPT !.left = n] \in AnswersOf(askedIn)
    BY <1>2, <2>1 DEF AnswersOf, n
  <2>4. QED
    BY <2>2, <2>3
<1> HIDE DEF next
<1>5. ScreenOK' /\ StoreOK'
  <2>1. CASE Accepted(a) /\ a.conv \in IdsOf(conversationsRef)
    <3> DEFINE old == Listed(conversationsRef, a.conv)
               c == WithMessages(old, WithPiece(old.messages, a.key))
               all == Updated(conversationsRef, c)
    <3>1. WriteThrough(all, c, messageIsStreaming, FALSE, activeUserMessageId)
      BY <2>1 DEF AnswerPiece, WithMessages
    <3>2. old \in OwnConversations(askedIn) /\ old.id = a.conv
      BY <2>1, OnScreen, MembersAreOwn
    <3>3. a.key \in Keys /\ askedIn[a.key] = old.id
      BY <1>2, <3>2 DEF AnswersOf
    <3> HIDE DEF old
    <3>4. WithPiece(old.messages, a.key) \in Seq(OwnMessages(askedIn, old.id))
      BY <3>2, <3>3, PieceIsOwn
    <3>5. c \in OwnConversations(askedIn)
      BY <3>2, <3>4, MessagesChange
    <3> HIDE DEF c
    <3>6. all \in OwnLists(askedIn)
      BY <3>5, OnScreen, UpdatedIsOwn
    <3> HIDE DEF all
    <3>7. QED
      BY <1>1, <3>1, <3>5, <3>6, OnScreen, WriteThroughKeeps DEF ChatInv
  <2>2. CASE Accepted(a) /\ a.conv \notin IdsOf(conversationsRef)
    <3>1. Show(conversations, selectedConversation, messageIsStreaming, FALSE) /\ UNCHANGED db
      BY <2>2 DEF AnswerPiece
    <3>2. ScreenOK'
      BY <1>1, <3>1, OnScreen, ShowKeeps DEF ChatInv
    <3>3. StoreOK'
      BY <1>1, <3>1 DEF ChatInv, StoreOK
    <3>4. QED
      BY <3>2, <3>3
  <2>3. CASE ~Accepted(a)
    <3>1. UNCHANGED <<conversations, selectedConversation, rows, messageIsStreaming, loading,
                      conversationsRef, activeUserMessageId, db>>
      BY <2>3 DEF AnswerPiece
    <3>2. ScreenOK'
      BY <1>1, <3>1, UntouchedScreen DEF ChatInv
    <3>3. StoreOK'
      BY <1>1, <3>1 DEF ChatInv, StoreOK
    <3>4. QED
      BY <3>2, <3>3
  <2>4. QED
    BY <2>1, <2>2, <2>3
<1>6. QED
  BY <1>1, <1>3, <1>4, <1>5, SocketStepKeeps

LEMMA AnswerCompleteKeeps ==
    ASSUME ChatInv, NEW a \in answers, AnswerComplete(a)
    PROVE  ChatInv'
<1>1. /\ UNCHANGED <<folderExists, requests, controller, socket, socketConnected, resends, restVars>>
      /\ UNCHANGED askedIn /\ UNCHANGED db
  BY DEF AnswerComplete, restVars
<1>2. NextAnswer(a, {})
  BY DEF AnswerComplete
<1>3. StoreOK'
  BY <1>1 DEF ChatInv, StoreOK
<1>4. ScreenOK'
  <2>1. CASE Accepted(a)
    <3>1. Show(conversations, selectedConversation, messageIsStreaming, FALSE)
      BY <2>1 DEF AnswerComplete
    <3>2. QED
      BY <1>1, <3>1, OnScreen, ShowKeeps DEF ChatInv
  <2>2. CASE ~Accepted(a)
    <3>1. UNCHANGED <<conversations, selectedConversation, rows, messageIsStreaming, loading,
                      conversationsRef, activeUserMessageId>>
      BY <2>2 DEF AnswerComplete
    <3>2. QED
      BY <1>1, <3>1, UntouchedScreen DEF ChatInv
  <2>3. QED
    BY <2>1, <2>2
<1>5. QED
  BY <1>1, <1>2, <1>3, <1>4, SocketStepKeeps

LEMMA CompletionTimerKeeps ==
    ASSUME ChatInv, CompletionTimer
    PROVE  ChatInv'
<1>1. /\ UNCHANGED <<folderExists, requests, controller, socket, socketConnected, resends, answers,
                     restVars>>
      /\ UNCHANGED askedIn
  BY DEF CompletionTimer, restVars
<1>2. PICK annotates \in BOOLEAN : Completes(None, loading, annotates)
  BY DEF CompletionTimer
<1>3. ScreenOK' /\ StoreOK'
  BY <1>1, <1>2, OnScreen, CompletesKeeps
<1>4. WireOK'
  BY <1>1 DEF ChatInv, WireOK
<1>5. RestOK'
  BY <1>1 DEF ChatInv, RestOK, restVars
<1>6. QED
  BY <1>3, <1>4, <1>5 DEF ChatInv

-----------------------------------------------------------------------------
(* The invariant *)

LEMMA StartsAreOwn ==
    ASSUME NEW start \in Starts, NEW asked
    PROVE  /\ start.list \in OwnLists(asked) /\ start.sel \in OwnConversations(asked)
           /\ start.sel.messages = <<>> /\ start.folder \in BOOLEAN
<1> DEFINE first == NewConversation(1, FALSE, TRUE)
           earlier == NewConversation(2, TRUE, FALSE)
<1>1. 1 \in Ids /\ 2 \in Ids
  BY ChatBounds DEF Ids
<1>2. /\ first \in OwnConversations(asked) /\ first.id = 1 /\ first.messages = <<>>
      /\ earlier \in OwnConversations(asked) /\ earlier.id = 2 /\ earlier.messages = <<>>
  BY <1>1, NewConversationIsOwn DEF NewConversation
<1>3. \/ start = [list |-> <<first>>, sel |-> first, folder |-> FALSE]
      \/ start = [list |-> <<earlier, first>>, sel |-> earlier, folder |-> TRUE]
  BY DEF Starts
<1> HIDE DEF first, earlier
<1>4. <<first>> \in OwnLists(asked)
  BY <1>2, SingleIsOwn
<1>5. <<earlier, first>> \in OwnLists(asked)
  <2> DEFINE cs == <<earlier, first>>
  <2>1. cs \in Seq(OwnConversations(asked))
    BY <1>2
  <2>2. DOMAIN cs = {1, 2} /\ cs[1].id = 2 /\ cs[2].id = 1
    BY <1>2
  <2> HIDE DEF cs
  <2>3. Distinct(cs)
    BY <2>2 DEF Distinct
  <2>4. QED
    BY <2>1, <2>3 DEF OwnLists, cs
<1>6. start.folder \in BOOLEAN
  <2>1. Starts \subseteq [list: {<<first>>, <<earlier, first>>}, sel: {first, earlier},
                          folder: BOOLEAN]
    BY DEF Starts, first, earlier
  <2>2. QED
    BY <2>1
<1>7. QED
  BY <1>2, <1>3, <1>4, <1>5, <1>6

LEMMA InitIsOwn ==
    ASSUME ChatInit
    PROVE  ChatInv
<1>1. PICK mode \in Modes, start \in Starts :
        /\ conversations = start.list /\ selectedConversation = start.sel
        /\ rows = <<>>
        /\ messageIsStreaming = FALSE /\ loading = FALSE
        /\ folderExists = start.folder
        /\ webSocketMode = mode
        /\ conversationsRef = start.list /\ activeUserMessageId = None
        /\ requests = {} /\ controller = [aborted |-> FALSE, resets |-> 0]
        /\ socket = (IF mode THEN "connecting" ELSE "none")
        /\ socketConnected = FALSE
        /\ resends = {} /\ answers = {}
        /\ uploadFlow = None
        /\ db = [history |-> start.list, selected |-> {start.sel}]
        /\ askedIn = [k \in Keys |-> None] /\ stopped = {}
  BY DEF ChatInit
<1>2. /\ start.list \in OwnLists(askedIn) /\ start.sel \in OwnConversations(askedIn)
      /\ start.sel.messages = <<>>
  BY StartsAreOwn
<1>3. RowsKnowTheirPlace
  BY <1>1, <1>2 DEF RowsKnowTheirPlace
<1>4. ScreenOK
  BY <1>1, <1>2, <1>3 DEF ScreenOK
<1>5. StoreOK
  BY <1>1, <1>2 DEF StoreOK
<1>6. WireOK
  <2>1. controller \in [aborted: BOOLEAN, resets: Nat]
    BY <1>1
  <2>2. socket \in {"none", "connecting", "open"} /\ socketConnected \in BOOLEAN
    BY <1>1
  <2>3. QED
    BY <1>1, <2>1, <2>2 DEF WireOK
<1>7. RestOK
  <2>1. folderExists \in BOOLEAN
    BY <1>1, StartsAreOwn
  <2>2. webSocketMode \in BOOLEAN
    BY <1>1, ChatBounds
  <2>3. askedIn \in [Keys -> Ids \cup {None}]
    BY <1>1
  <2>4. QED
    BY <1>1, <2>1, <2>2, <2>3 DEF RestOK
<1>8. QED
  BY <1>4, <1>5, <1>6, <1>7 DEF ChatInv

LEMMA StepsAreOwn ==
    ASSUME ChatInv, ChatNext
    PROVE  ChatInv'
<1>1. CASE Disturbance
  <2>1. ASSUME NEW c \in ToSet(conversations),
               \/ HandleSelectConversation(c) \/ HandleDeleteConversation(c)
               \/ \E inFolder \in BOOLEAN : DropIntoFolder(c, inFolder)
        PROVE  ChatInv'
    BY <2>1, SelectKeeps, DeleteKeeps, DropKeeps
  <2>2. ASSUME \E createInFolder \in BOOLEAN : HandleNewConversation(createInFolder)
        PROVE  ChatInv'
    BY <2>2, NewConversationKeeps
  <2>3. ASSUME Rename PROVE ChatInv'
    BY <2>3, OnScreen, UpdateKeeps DEF Rename
  <2>4. ASSUME \E withError \in BOOLEAN : SocketDrops(withError) PROVE ChatInv'
    BY <2>4, DropsKeep
  <2>5. QED
    BY <1>1, <2>1, <2>2, <2>3, <2>4, ClearKeeps, CreateFolderKeeps, DeleteFolderKeeps,
       ReloadKeeps, ImportKeeps, ToggleKeeps DEF Disturbance
<1>2. CASE ChatStep
  <2>1. uploadFlow \in Ids \cup {None}
    BY DEF ChatInv, RestOK
  <2>2. ASSUME NEW k \in Keys, Send(k) PROVE ChatInv'
    BY <2>1, <2>2, SendKeeps DEF Send
  <2>3. ASSUME NEW k \in Keys, UploadPrompt(k) PROVE ChatInv'
    BY <2>1, <2>3, SendKeeps DEF UploadPrompt
  <2>4. QED
    BY <1>2, <2>2, <2>3, RegenerateKeeps, EditKeeps, DeleteMessageKeeps, UploadDialogKeeps,
       StopKeeps DEF ChatStep
<1>3. CASE WireStep
  <2>1. ASSUME NEW r \in requests, HttpStep(r) PROVE ChatInv'
    BY <2>1, RequestFailsKeeps, ResponseKeeps, PieceKeeps, StreamEndsKeeps, RequestTimerKeeps
       DEF HttpStep
  <2>2. ASSUME NEW a \in answers, SocketStep(a) PROVE ChatInv'
    BY <2>2, AnswerPieceKeeps, AnswerCompleteKeeps DEF SocketStep
  <2>3. QED
    BY <1>3, <2>1, <2>2, ResetKeeps, CompletionTimerKeeps, OpensKeeps, ResendKeeps,
       ConnectionFailsKeeps DEF WireStep
<1>4. QED
  BY <1>1, <1>2, <1>3 DEF ChatNext

LEMMA StutteringIsOwn ==
    ASSUME ChatInv, UNCHANGED chatVars
    PROVE  ChatInv'
<1>1. UNCHANGED <<homeVars, wireVars, restVars, askedIn, folderExists, webSocketMode, uploadFlow,
                  stopped>>
  BY DEF chatVars, restVars, homeVars
<1>2. ScreenOK' /\ StoreOK'
  BY <1>1, UntouchedHome DEF ChatInv
<1>3. WireOK'
  BY <1>1, UntouchedWires DEF ChatInv
<1>4. RestOK'
  BY <1>1 DEF ChatInv, RestOK
<1>5. QED
  BY <1>2, <1>3, <1>4 DEF ChatInv

LEMMA AlwaysOwn == ChatSpec => []ChatInv
<1>1. ChatInit => ChatInv
  BY InitIsOwn
<1>2. ChatInv /\ [ChatNext]_chatVars => ChatInv'
  BY StepsAreOwn, StutteringIsOwn
<1>3. QED
  BY <1>1, <1>2, PTL DEF ChatSpec

\* The types hold for any number of conversations and questions, and no list ever
\* has two conversations of one id.
THEOREM ChatAlwaysTyped == ChatSpec => []ChatTypeOK
<1>1. ChatInv => ChatTypeOK
  <2> SUFFICES ASSUME ChatInv PROVE ChatTypeOK
    OBVIOUS
  <2>1. Distinct(conversations) /\ Distinct(conversationsRef) /\ Distinct(db.history)
    BY OnScreen DEF OwnLists
  <2>2. ASSUME NEW c \in ToSet(conversations) \cup ToSet(conversationsRef) \cup {selectedConversation}
        PROVE  c.id \in Ids
    <3>1. c \in OwnConversations(askedIn)
      BY OnScreen, MembersAreOwn
    <3>2. QED
      BY <3>1 DEF OwnConversations, Conversations
  <2>3. {messageIsStreaming, loading, folderExists, webSocketMode, socketConnected} \subseteq BOOLEAN
    BY OnScreen DEF ChatInv, WireOK, RestOK
  <2>4. /\ activeUserMessageId \in Keys \cup {None} /\ uploadFlow \in Ids \cup {None}
        /\ socket \in {"none", "connecting", "open"}
        /\ stopped \subseteq Keys /\ askedIn \in [Keys -> Ids \cup {None}]
    BY OnScreen DEF ChatInv, WireOK, RestOK
  <2>5. QED
    BY <2>1, <2>2, <2>3, <2>4 DEF ChatTypeOK
<1>2. QED
  BY <1>1, AlwaysOwn, PTL

\* However many answers arrive while the user goes on clicking, no piece of one is
\* ever in another conversation than its question's: not on the screen, not in the
\* refs, not in IndexedDB.
THEOREM AnswersAlwaysStay == ChatSpec => []AnswersStayInTheirConversation
<1>1. ChatInv => AnswersStayInTheirConversation
  <2> SUFFICES ASSUME ChatInv,
                      NEW c \in ToSet(conversations) \cup ToSet(conversationsRef)
                                \cup ToSet(db.history) \cup db.selected \cup {selectedConversation},
                      NEW i \in DOMAIN c.messages, NEW k \in ToSet(c.messages[i].text)
               PROVE  askedIn[k] = c.id
    BY DEF AnswersStayInTheirConversation
  <2> DEFINE own == {j \in Keys : askedIn[j] = c.id}
  <2>1. c \in OwnConversations(askedIn)
    BY OnScreen, MembersAreOwn
  <2>2. c.messages \in Seq(OwnMessages(askedIn, c.id))
    BY <2>1 DEF OwnConversations
  <2>3. c.messages[i] \in OwnMessages(askedIn, c.id)
    BY <2>2
  <2>4. c.messages[i].text \in Seq(own)
    BY <2>3 DEF OwnMessages
  <2> HIDE DEF own
  <2>5. k \in own
    BY <2>4 DEF ToSet
  <2>6. QED
    BY <2>5 DEF own
<1>2. QED
  BY <1>1, AlwaysOwn, PTL

-----------------------------------------------------------------------------
(* The history *)

\* Next to ChatInv: IndexedDB holds the list on the screen, and no conversation of
\* the list is missing from the ref the WebSocket handlers write it from.
HistoryInv == ReloadKeepsHistory /\ RefKeepsUp

\* What every step but a deletion does.
ListKept == IdsOf(conversations) \subseteq IdsOf(conversations') \/ requests # {}

LEMMA ShowTells ==
    ASSUME NEW cs, NEW sel, NEW streaming \in BOOLEAN, NEW load, Show(cs, sel, streaming, load)
    PROVE  /\ conversations' = cs /\ selectedConversation' = sel
           /\ conversationsRef' = conversations' \/ conversationsRef' = conversationsRef
           /\ ~streaming \/ Switches(sel) => conversationsRef' = conversations'
BY DEF Show, Render, Effects

LEMMA WriteThroughTells ==
    ASSUME NEW all, NEW c, NEW streaming, NEW load, NEW active,
           WriteThrough(all, c, streaming, load, active)
    PROVE  conversations' = all /\ conversationsRef' = all /\ db'.history = all
BY DEF WriteThrough, Render, Effects, Save

\* The ref is the list that was written, or it was not shorter and still is not.
LEMMA HistoryGoesOn ==
    ASSUME HistoryInv, db'.history = conversations',
           \/ conversationsRef' = conversations'
           \/ requests' # {}
           \/ /\ conversationsRef' = conversationsRef
              /\ IdsOf(conversations') \subseteq IdsOf(conversations)
              /\ requests' = {} => requests = {}
    PROVE  HistoryInv'
BY DEF HistoryInv, ReloadKeepsHistory, RefKeepsUp

\* A step that leaves the list and what is stored of it alone.
LEMMA SameList ==
    ASSUME HistoryInv, conversations' = conversations, db'.history = db.history,
           \/ conversationsRef' = conversations'
           \/ conversationsRef' = conversationsRef /\ (requests' = {} => requests = {})
           \/ requests' # {}
    PROVE  HistoryInv' /\ ListKept
<1>1. db'.history = conversations'
  BY DEF HistoryInv, ReloadKeepsHistory
<1>2. HistoryInv'
  BY <1>1, HistoryGoesOn
<1>3. ListKept
  BY DEF ListKept
<1>4. QED
  BY <1>2, <1>3

\* A write through the ref writes every conversation of the list.
LEMMA WriteKeepsList ==
    ASSUME HistoryInv, conversationsRef' = conversations', db'.history = conversations',
           IdsOf(conversationsRef) \subseteq IdsOf(conversations')
    PROVE  HistoryInv' /\ ListKept
<1>1. HistoryInv'
  BY HistoryGoesOn
<1>2. ListKept
  BY DEF HistoryInv, RefKeepsUp, ListKept
<1>3. QED
  BY <1>1, <1>2

LEMMA UpdateKeepsList ==
    ASSUME ChatInv, HistoryInv, NEW c \in OwnConversations(askedIn), HandleUpdateConversation(c)
    PROVE  HistoryInv' /\ ListKept
<1>1. /\ Show(Updated(conversations, c), c, messageIsStreaming, loading)
      /\ Save(conversations', c) /\ requests' = requests
  BY DEF HandleUpdateConversation, wireVars
<1>2. IdsOf(Updated(conversations, c)) = IdsOf(conversations)
  BY OnScreen, UpdatedIsOwn
<1>3. /\ conversations' = Updated(conversations, c)
      /\ conversationsRef' = conversations' \/ conversationsRef' = conversationsRef
  BY <1>1, OnScreen, ShowTells
<1>4. db'.history = conversations'
  BY <1>1 DEF Save
<1>5. HistoryInv'
  BY <1>1, <1>2, <1>3, <1>4, HistoryGoesOn
<1>6. ListKept
  BY <1>2, <1>3 DEF ListKept
<1>7. QED
  BY <1>5, <1>6

LEMMA NewKeepsList ==
    ASSUME ChatInv, HistoryInv, NEW createInFolder \in BOOLEAN,
           HandleNewConversation(createInFolder)
    PROVE  HistoryInv' /\ ListKept
<1>1. ~messageIsStreaming /\ Save(conversations', selectedConversation')
  BY DEF HandleNewConversation, IsQueryProcessing
<1>2. conversationsRef' = conversations' /\ IdsOf(conversations) \subseteq IdsOf(conversations')
  <2>1. CASE /\ ~createInFolder /\ selectedConversation.home
             /\ selectedConversation.messages = <<>>
    <3> DEFINE c == WithHome(selectedConversation, FALSE)
    <3>1. Show(Updated(conversations, c), c, messageIsStreaming, loading)
      BY <2>1 DEF HandleNewConversation, WithHome
    <3>2. c \in OwnConversations(askedIn)
      BY OnScreen, FlagsChange
    <3> HIDE DEF c
    <3>3. IdsOf(Updated(conversations, c)) = IdsOf(conversations)
      BY <3>2, OnScreen, UpdatedIsOwn
    <3>4. conversations' = Updated(conversations, c) /\ conversationsRef' = conversations'
      BY <1>1, <3>1, OnScreen, ShowTells
    <3>5. QED
      BY <3>3, <3>4
  <2>2. CASE ~(/\ ~createInFolder /\ selectedConversation.home
               /\ selectedConversation.messages = <<>>)
    <3>1. PICK id \in FreshIds :
              LET c == NewConversation(id, createInFolder, FALSE)
              IN  Show(Append(conversations, c), c, messageIsStreaming, FALSE)
      BY <2>2 DEF HandleNewConversation
    <3> DEFINE c == NewConversation(id, createInFolder, FALSE)
    <3>2. c \in OwnConversations(askedIn) /\ c.id \notin IdsOf(conversations)
      BY FreshIsUnused, NewConversationIsOwn
    <3>3. Show(Append(conversations, c), c, messageIsStreaming, FALSE)
      BY <3>1
    <3> HIDE DEF c
    <3>4. IdsOf(conversations) \subseteq IdsOf(Append(conversations, c))
      BY <3>2, OnScreen, AppendIsOwn
    <3>5. conversations' = Append(conversations, c) /\ conversationsRef' = conversations'
      BY <1>1, <3>3, OnScreen, ShowTells
    <3>6. QED
      BY <3>4, <3>5
  <2>3. QED
    BY <2>1, <2>2
<1>3. db'.history = conversations'
  BY <1>1 DEF Save
<1>4. QED
  BY <1>2, <1>3, HistoryGoesOn DEF ListKept

LEMMA DeleteKeepsHistory ==
    ASSUME ChatInv, HistoryInv, NEW c \in ToSet(conversations), HandleDeleteConversation(c)
    PROVE  HistoryInv'
<1> DEFINE rest == Filtered(conversations, {d \in ToSet(conversations) : d.id # c.id})
<1>1. IF rest # <<>>
      THEN Show(rest, Last(rest), messageIsStreaming, loading) /\ Save(rest, Last(rest))
      ELSE /\ \E id \in FreshIds :
                  Show(rest, NewConversation(id, FALSE, FALSE), messageIsStreaming, loading)
           /\ db' = [history |-> rest, selected |-> {}]
  BY DEF HandleDeleteConversation
<1>2. IdsOf(rest) \subseteq IdsOf(conversations)
  BY OnScreen, FilteredIsOwn
<1>3. requests' = requests
  BY DEF HandleDeleteConversation, wireVars
<1> HIDE DEF rest
<1>4. \E sel : Show(rest, sel, messageIsStreaming, loading)
  BY <1>1
<1>5. /\ conversations' = rest
      /\ conversationsRef' = conversations' \/ conversationsRef' = conversationsRef
  BY <1>4, OnScreen, ShowTells
<1>6. db'.history = rest
  <2>1. CASE rest # <<>>
    BY <1>1, <2>1 DEF Save
  <2>2. CASE rest = <<>>
    BY <1>1, <2>2
  <2>3. QED
    BY <2>1, <2>2
<1>7. QED
  BY <1>2, <1>3, <1>5, <1>6, HistoryGoesOn

LEMMA ClearKeepsHistory ==
    ASSUME ChatInv, HistoryInv, HandleClearConversations
    PROVE  HistoryInv'
<1>1. \E sel : Show(<<>>, sel, messageIsStreaming, loading)
  BY DEF HandleClearConversations
<1>2. ~messageIsStreaming /\ Save(<<>>, selectedConversation')
  BY DEF HandleClearConversations, IsQueryProcessing
<1>3. conversations' = <<>> /\ conversationsRef' = conversations'
  BY <1>1, <1>2, OnScreen, ShowTells
<1>4. db'.history = <<>>
  BY <1>2 DEF Save
<1>5. QED
  BY <1>3, <1>4, HistoryGoesOn

LEMMA DeleteFolderKeepsHistory ==
    ASSUME ChatInv, HistoryInv, HandleDeleteFolder
    PROVE  HistoryInv'
<1> DEFINE rest == Filtered(conversations, {d \in ToSet(conversations) : ~d.inFolder})
<1>1. IF ~selectedConversation.inFolder
      THEN /\ Show(rest, selectedConversation, messageIsStreaming, loading)
           /\ db' = [db EXCEPT !.history = rest]
      ELSE /\ IF rest # <<>>
              THEN Show(rest, Last(rest), messageIsStreaming, loading)
              ELSE \E id \in FreshIds :
                       LET c == NewConversation(id, FALSE, TRUE)
                       IN Show(<<c>>, c, messageIsStreaming, loading)
           /\ Save(conversations', selectedConversation')
  BY DEF HandleDeleteFolder
<1>2. IdsOf(rest) \subseteq IdsOf(conversations)
  BY OnScreen, FilteredIsOwn
<1>3. requests' = requests
  BY DEF HandleDeleteFolder, wireVars
<1> HIDE DEF rest
<1>4. CASE ~selectedConversation.inFolder
  <2>1. Show(rest, selectedConversation, messageIsStreaming, loading)
        /\ db' = [db EXCEPT !.history = rest]
    BY <1>1, <1>4
  <2>2. /\ conversations' = rest
        /\ conversationsRef' = conversations' \/ conversationsRef' = conversationsRef
    BY <2>1, OnScreen, ShowTells
  <2>3. db'.history = rest
    BY <2>1 DEF ChatInv, StoreOK
  <2>4. QED
    BY <1>2, <1>3, <2>2, <2>3, HistoryGoesOn
<1>5. CASE selectedConversation.inFolder /\ rest # <<>>
  <2>1. Show(rest, Last(rest), messageIsStreaming, loading)
        /\ Save(conversations', selectedConversation')
    BY <1>1, <1>5
  <2>2. /\ conversations' = rest
        /\ conversationsRef' = conversations' \/ conversationsRef' = conversationsRef
    BY <2>1, OnScreen, ShowTells
  <2>3. db'.history = conversations'
    BY <2>1 DEF Save
  <2>4. QED
    BY <1>2, <1>3, <2>2, <2>3, HistoryGoesOn
<1>6. CASE selectedConversation.inFolder /\ rest = <<>>
  <2>1. PICK id \in FreshIds :
            LET c == NewConversation(id, FALSE, TRUE)
            IN Show(<<c>>, c, messageIsStreaming, loading)
    BY <1>1, <1>6
  <2> DEFINE c == NewConversation(id, FALSE, TRUE)
  <2>2. Show(<<c>>, c, messageIsStreaming, loading)
    BY <2>1
  <2>3. Switches(c)
    BY FreshIsUnused, NewConversationIsOwn DEF Switches
  <2> HIDE DEF c
  <2>4. conversationsRef' = conversations'
    BY <2>2, <2>3, OnScreen, ShowTells
  <2>5. db'.history = conversations'
    BY <1>1, <1>6 DEF Save
  <2>6. QED
    BY <2>4, <2>5, HistoryGoesOn
<1>7. QED
  BY <1>4, <1>5, <1>6

\* A page load shows what was stored, and more.
LEMMA LoadedKeepsHistory ==
    ASSUME ChatInv, HistoryInv, NEW history \in OwnLists(askedIn), NEW selected,
           selected = {} => IdsOf(history) \subseteq IdsOf(db.history),
           Loaded(history, selected)
    PROVE  HistoryInv' /\ IdsOf(history) \subseteq IdsOf(conversations')
<1>1. conversationsRef' = conversations'
  BY DEF Loaded
<1>2. db'.history = conversations' /\ IdsOf(history) \subseteq IdsOf(conversations')
  <2>1. CASE selected # {}
    BY <2>1 DEF Loaded
  <2>2. CASE selected = {}
    <3>1. PICK id \in FreshIds :
              LET c == NewConversation(id, FALSE, TRUE)
              IN  /\ conversations' = Append(history, c)
                  /\ selectedConversation' = c
                  /\ Save(conversations', c)
      BY <2>2 DEF Loaded
    <3> DEFINE c == NewConversation(id, FALSE, TRUE)
    <3>2. c \in OwnConversations(askedIn) /\ c.id \notin IdsOf(history)
      BY <2>2, FreshIsUnused, NewConversationIsOwn
    <3>3. conversations' = Append(history, c) /\ Save(conversations', c)
      BY <3>1
    <3> HIDE DEF c
    <3>4. QED
      BY <3>2, <3>3, AppendIsOwn DEF Save
  <2>3. QED
    BY <2>1, <2>2
<1>3. QED
  BY <1>1, <1>2, HistoryGoesOn

\* Of what a page load does, only the end of the session takes conversations away.
LEMMA PageHidesKeepsHistory ==
    ASSUME ChatInv, HistoryInv, NEW history \in OwnLists(askedIn), NEW selected,
           selected = {} => IdsOf(history) \subseteq IdsOf(db.history),
           IdsOf(conversations) \subseteq IdsOf(history),
           PageHides(history, selected)
    PROVE  HistoryInv' /\ (ListKept \/ Loaded(<<>>, {}))
<1>1. CASE Loaded(history, selected)
  BY <1>1, LoadedKeepsHistory DEF ListKept
<1>2. CASE Loaded(<<>>, {})
  <2>1. <<>> \in OwnLists(askedIn) /\ IdsOf(<<>>) = {}
    BY NothingIsOwn DEF IdsOf
  <2>2. HistoryInv'
    BY <1>2, <2>1, LoadedKeepsHistory
  <2>3. QED
    BY <1>2, <2>2
<1>3. QED
  BY <1>1, <1>2 DEF PageHides

LEMMA ReloadKeepsList ==
    ASSUME ChatInv, HistoryInv, Reload
    PROVE  HistoryInv' /\ (ListKept \/ Loaded(<<>>, {}))
BY OnScreen, PageHidesKeepsHistory DEF Reload, HistoryInv, ReloadKeepsHistory

LEMMA ImportKeepsList ==
    ASSUME ChatInv, HistoryInv, HandleImportConversations
    PROVE  HistoryInv' /\ (ListKept \/ Loaded(<<>>, {}))
<1>1. PICK id \in FreshIds :
          LET history == Append(db.history, NewConversation(id, FALSE, FALSE))
          IN PageHides(history, {Last(history)})
  BY DEF HandleImportConversations
<1> DEFINE history == Append(db.history, NewConversation(id, FALSE, FALSE))
<1>2. /\ NewConversation(id, FALSE, FALSE) \in OwnConversations(askedIn)
      /\ NewConversation(id, FALSE, FALSE).id \notin IdsOf(db.history)
  BY FreshIsUnused, NewConversationIsOwn
<1>3. history \in OwnLists(askedIn) /\ IdsOf(db.history) \subseteq IdsOf(history)
  BY <1>2, OnScreen, AppendIsOwn
<1>4. PageHides(history, {Last(history)}) /\ {Last(history)} # {}
  BY <1>1
<1> HIDE DEF history
<1>5. IdsOf(conversations) \subseteq IdsOf(history)
  BY <1>3 DEF HistoryInv, ReloadKeepsHistory
<1>6. QED
  BY <1>3, <1>4, <1>5, PageHidesKeepsHistory

\* A send writes the whole list over the WebSocket, from the ref.
LEMMA SendKeepsList ==
    ASSUME ChatInv, HistoryInv, NEW k, NEW deleteCount \in Nat, NEW hidden,
           HandleSend(k, deleteCount, hidden)
    PROVE  HistoryInv' /\ ListKept
<1> DEFINE c == WithQuestion(selectedConversation, k, deleteCount)
           id == selectedConversation.id
<1>1. k \in NextKey /\ k \in Keys
  BY DEF HandleSend, NextKey
<1>2. selectedConversation \in OwnConversations(askedIn)
  BY OnScreen
<1>3. c.id = id
  BY <1>2 DEF WithQuestion, OwnConversations, Conversations
<1>4. askedIn' = [askedIn EXCEPT ![k] = id]
  BY <1>3 DEF HandleSend, Asked
<1>5. /\ askedIn'[k] = id
      /\ OwnConversations(askedIn) \subseteq OwnConversations(askedIn')
      /\ OwnLists(askedIn) \subseteq OwnLists(askedIn')
  BY <1>1, <1>4, AskingKeeps
<1>6. c \in OwnConversations(askedIn')
  BY <1>1, <1>2, <1>3, <1>5, QuestionIsOwn
<1>7. CASE webSocketMode /\ ~socketConnected
  <2>1. SendLater(k, c, selectedConversation)
    BY <1>7 DEF HandleSend
  <2> HIDE DEF c
  <2>2. /\ conversations' = conversations /\ db' = db /\ requests' = requests
        /\ conversationsRef' = conversations' \/ conversationsRef' = conversationsRef
    BY <2>1 DEF SendLater, Render, Effects
  <2>3. QED
    BY <2>2, SameList
<1>8. CASE ~(webSocketMode /\ ~socketConnected) /\ webSocketMode
  <2>1. SendSocket(k, c)
    BY <1>8 DEF HandleSend
  <2> HIDE DEF c
  <2> DEFINE all == IF c.id \in IdsOf(conversationsRef) THEN Updated(conversationsRef, c)
                    ELSE Append(conversationsRef, c)
  <2>2. WriteThrough(all, c, TRUE, TRUE, k)
    BY <2>1 DEF SendSocket
  <2>3. IdsOf(conversationsRef) \subseteq IdsOf(all)
    BY <1>5, <1>6, OnScreen, AddedIsOwn
  <2> HIDE DEF all
  <2>4. conversations' = all /\ conversationsRef' = all /\ db'.history = all
    BY <2>2, WriteThroughTells
  <2>5. QED
    BY <2>3, <2>4, WriteKeepsList
<1>9. CASE ~webSocketMode
  <2>1. SendHttp(k, c)
    BY <1>9 DEF HandleSend
  <2> HIDE DEF c
  <2>2. conversations' = conversations /\ db' = db /\ requests' # {}
    BY <2>1 DEF SendHttp, Render
  <2>3. QED
    BY <2>2, SameList
<1>10. QED
  BY <1>7, <1>8, <1>9

LEMMA RegenerateKeepsList ==
    ASSUME ChatInv, HistoryInv, NEW k, Regenerate(k)
    PROVE  HistoryInv' /\ ListKept
<1>1. PICK deleteCount \in {0, 1} : HandleSend(k, deleteCount, FALSE)
  BY DEF Regenerate
<1>2. QED
  BY <1>1, SendKeepsList

LEMMA EditKeepsList ==
    ASSUME ChatInv, HistoryInv, NEW k, NEW i \in DOMAIN selectedConversation.messages,
           HandleEditMessage(k, i)
    PROVE  HistoryInv' /\ ListKept
<1>1. selectedConversation.messages[i].role = "user" /\ HandleSend(k, rows[i] - i + 1, FALSE)
  BY DEF HandleEditMessage
<1>2. selectedConversation.messages \in Seq(OwnMessages(askedIn, selectedConversation.id))
  BY OnScreen DEF OwnConversations
<1>3. i \in Nat /\ i \in 1 .. Len(selectedConversation.messages)
  BY <1>2
<1>4. rows[i] \in Nat /\ rows[i] >= i
  BY <1>1, <1>3 DEF ChatInv, ScreenOK, RowsKnowTheirPlace
<1>5. rows[i] - i + 1 \in Nat
  BY <1>3, <1>4
<1>6. QED
  BY <1>1, <1>5, SendKeepsList

LEMMA DeleteMessageKeepsList ==
    ASSUME ChatInv, HistoryInv, NEW i \in DOMAIN selectedConversation.messages,
           HandleDeleteMessage(i)
    PROVE  HistoryInv' /\ ListKept
<1>1. PICK c : /\ c.id = selectedConversation.id
               /\ WriteThrough(Updated(conversationsRef, c), c, messageIsStreaming, loading,
                               activeUserMessageId)
  BY OnScreen DEF HandleDeleteMessage, OwnConversations, Conversations
<1> DEFINE all == Updated(conversationsRef, c)
<1>2. conversations' = all /\ conversationsRef' = all /\ db'.history = all
  BY <1>1, WriteThroughTells
<1>3. IdsOf(all) = IdsOf(conversationsRef)
  BY DEF Updated, IdsOf
<1>4. QED
  BY <1>2, <1>3, WriteKeepsList

LEMMA CompletesKeepsList ==
    ASSUME ChatInv, HistoryInv, NEW active, NEW load, NEW annotates \in BOOLEAN,
           Completes(active, load, annotates)
    PROVE  HistoryInv' /\ ListKept
<1> DEFINE all == IF annotates THEN Updated(conversationsRef, selectedConversation)
                  ELSE conversations
<1>1. /\ Render(all, selectedConversation, FALSE, load) /\ Effects(all, active)
      /\ IF annotates THEN Save(all, selectedConversation) ELSE UNCHANGED db
  BY DEF Completes
<1>2. conversations' = all /\ conversationsRef' = conversations'
  BY <1>1 DEF Render, Effects
<1>3. CASE annotates
  <2>1. IdsOf(all) = IdsOf(conversationsRef)
    BY <1>3, OnScreen, UpdatedIsOwn
  <2>2. db'.history = all
    BY <1>1, <1>3 DEF Save
  <2>3. QED
    BY <1>2, <2>1, <2>2, WriteKeepsList
<1>4. CASE ~annotates
  BY <1>1, <1>2, <1>4, SameList
<1>5. QED
  BY <1>3, <1>4

LEMMA HttpStepKeepsList ==
    ASSUME ChatInv, HistoryInv, NEW r \in requests, HttpStep(r)
    PROVE  HistoryInv' /\ ListKept
<1>1. ListKept
  BY DEF ListKept
<1>2. CASE RequestFails(r)
  <2>1. Show(conversations, selectedConversation, FALSE, FALSE)
    BY <1>2 DEF RequestFails
  <2>2. conversations' = conversations /\ conversationsRef' = conversations'
    BY <2>1, ShowTells
  <2>3. UNCHANGED db \/ db' = [db EXCEPT !.selected = {r.conv}]
    BY <1>2 DEF RequestFails
  <2>4. db'.history = db.history
    BY <2>3 DEF ChatInv, StoreOK
  <2>5. QED
    BY <2>2, <2>4, SameList
<1>3. CASE ResponseArrives(r)
  <2>1. /\ conversations' = conversations /\ db' = db /\ requests' # {}
    BY <1>3 DEF ResponseArrives, Show, Render, Becomes
  <2>2. QED
    BY <2>1, SameList
<1>4. CASE PieceArrives(r)
  <2>1. /\ conversations' = conversations /\ db' = db /\ requests' # {}
    BY <1>4 DEF PieceArrives, Show, Render, Becomes
  <2>2. QED
    BY <2>1, SameList
<1>5. CASE StreamEnds(r)
  <2>1. db'.history = conversations' /\ requests' # {}
    BY <1>5 DEF StreamEnds, Show, Render, Becomes, Save
  <2>2. QED
    BY <1>1, <2>1, HistoryGoesOn
<1>6. CASE RequestTimer(r)
  BY <1>6, CompletesKeepsList DEF RequestTimer
<1>7. QED
  BY <1>2, <1>3, <1>4, <1>5, <1>6 DEF HttpStep

LEMMA SocketStepKeepsList ==
    ASSUME ChatInv, HistoryInv, NEW a \in answers, SocketStep(a)
    PROVE  HistoryInv' /\ ListKept
<1>1. requests' = requests
  BY DEF SocketStep, AnswerPiece, AnswerComplete
<1>2. CASE AnswerPiece(a) /\ Accepted(a) /\ a.conv \in IdsOf(conversationsRef)
  <2>1. PICK c : WriteThrough(Updated(conversationsRef, c), c, messageIsStreaming, FALSE,
                              activeUserMessageId)
    BY <1>2 DEF AnswerPiece
  <2> DEFINE all == Updated(conversationsRef, c)
  <2>2. conversations' = all /\ conversationsRef' = all /\ db'.history = all
    BY <2>1, WriteThroughTells
  <2>3. IdsOf(all) = IdsOf(conversationsRef)
    BY DEF Updated, IdsOf
  <2>4. QED
    BY <2>2, <2>3, WriteKeepsList
<1>3. CASE \/ AnswerPiece(a) /\ Accepted(a) /\ a.conv \notin IdsOf(conversationsRef)
           \/ AnswerComplete(a) /\ Accepted(a)
  <2>1. Show(conversations, selectedConversation, messageIsStreaming, FALSE) /\ db' = db
    BY <1>3 DEF AnswerPiece, AnswerComplete
  <2>2. /\ conversations' = conversations
        /\ conversationsRef' = conversations' \/ conversationsRef' = conversationsRef
    BY <2>1, OnScreen, ShowTells
  <2>3. QED
    BY <1>1, <2>1, <2>2, SameList
<1>4. CASE ~Accepted(a)
  <2>1. conversations' = conversations /\ conversationsRef' = conversationsRef /\ db' = db
    BY <1>4 DEF SocketStep, AnswerPiece, AnswerComplete
  <2>2. QED
    BY <1>1, <2>1, SameList
<1>5. QED
  BY <1>2, <1>3, <1>4 DEF SocketStep

LEMMA ResendKeepsList ==
    ASSUME ChatInv, HistoryInv, NEW r \in resends, ResendAfterConnect(r)
    PROVE  HistoryInv' /\ ListKept
<1> DEFINE c == WithQuestion(r.conv, r.key, 1)
           all == IF c.id \in IdsOf(conversationsRef) THEN Updated(conversationsRef, c)
                  ELSE Append(conversationsRef, c)
<1>1. WriteThrough(all, c, TRUE, TRUE, r.key)
  BY DEF ResendAfterConnect
<1>2. /\ r.conv \in OwnConversations(askedIn) /\ r.key \in Keys
      /\ askedIn[r.key] = r.conv.id
  BY DEF ChatInv, WireOK, ResendsOf
<1>3. c \in OwnConversations(askedIn)
  BY <1>2, QuestionIsOwn
<1> HIDE DEF c
<1>4. IdsOf(conversationsRef) \subseteq IdsOf(all)
  BY <1>3, OnScreen, AddedIsOwn
<1> HIDE DEF all
<1>5. conversations' = all /\ conversationsRef' = all /\ db'.history = all
  BY <1>1, WriteThroughTells
<1>6. QED
  BY <1>4, <1>5, WriteKeepsList

\* The steps that change no list: only the flags, the wires or the dialog.
LEMMA QuietStepsKeepList ==
    ASSUME ChatInv, HistoryInv,
           \/ \E c \in ToSet(conversations) : HandleSelectConversation(c)
           \/ HandleCreateFolder \/ ToggleMode \/ (\E withError \in BOOLEAN : SocketDrops(withError))
           \/ OpenUpload \/ CloseUpload \/ HandleStopConversation
           \/ ResetController \/ SocketOpens \/ ConnectionFails
           \/ UNCHANGED chatVars
    PROVE  HistoryInv' /\ ListKept
<1>1. CASE \E c \in ToSet(conversations) : HandleSelectConversation(c)
  <2>1. PICK c \in ToSet(conversations) : HandleSelectConversation(c)
    BY <1>1
  <2>2. Show(conversations, c, FALSE, FALSE) /\ db' = [db EXCEPT !.selected = {c}]
    BY <2>1 DEF HandleSelectConversation
  <2>3. conversations' = conversations /\ conversationsRef' = conversations'
    BY <2>2, ShowTells
  <2>4. db'.history = db.history
    BY <2>2 DEF ChatInv, StoreOK
  <2>5. QED
    BY <2>3, <2>4, SameList
<1>2. ASSUME FlagsOff, db' = db PROVE HistoryInv' /\ ListKept
  <2>1. Show(conversations, selectedConversation, FALSE, FALSE)
    BY <1>2 DEF FlagsOff
  <2>2. conversations' = conversations /\ conversationsRef' = conversations'
    BY <2>1, ShowTells
  <2>3. QED
    BY <1>2, <2>2, SameList
<1>3. ASSUME conversations' = conversations, conversationsRef' = conversationsRef, db' = db,
             requests' = {} => requests = {}
      PROVE  HistoryInv' /\ ListKept
  BY <1>3, SameList
<1>4. CASE HandleCreateFolder
  BY <1>3, <1>4 DEF HandleCreateFolder, wireVars
<1>5. CASE ToggleMode
  BY <1>3, <1>5 DEF ToggleMode, homeVars
<1>6. CASE \E withError \in BOOLEAN : SocketDrops(withError)
  <2>1. PICK withError \in BOOLEAN : SocketDrops(withError)
    BY <1>6
  <2>2. CASE withError
    BY <1>2, <2>1, <2>2 DEF SocketDrops
  <2>3. CASE ~withError
    BY <1>3, <2>1, <2>3 DEF SocketDrops, homeVars
  <2>4. QED
    BY <2>2, <2>3
<1>7. CASE OpenUpload \/ CloseUpload
  BY <1>3, <1>7 DEF OpenUpload, CloseUpload, homeVars, wireVars
<1>8. CASE HandleStopConversation
  <2>1. CASE webSocketMode
    <3>1. conversations' = conversations /\ conversationsRef' = conversations' /\ db' = db
      BY <1>8, <2>1 DEF HandleStopConversation, Render, Effects
    <3>2. QED
      BY <3>1, SameList
  <2>2. CASE ~webSocketMode
    BY <1>3, <1>8, <2>2 DEF HandleStopConversation
  <2>3. QED
    BY <2>1, <2>2
<1>9. CASE ResetController
  BY <1>3, <1>9 DEF ResetController, homeVars
<1>10. CASE SocketOpens
  BY <1>3, <1>10 DEF SocketOpens, homeVars
<1>11. CASE ConnectionFails
  BY <1>2, <1>11 DEF ConnectionFails
<1>12. CASE UNCHANGED chatVars
  BY <1>3, <1>12 DEF chatVars, homeVars, wireVars
<1>13. QED
  BY <1>1, <1>4, <1>5, <1>6, <1>7, <1>8, <1>9, <1>10, <1>11, <1>12

\* The steps that may take a conversation off the list.
Excused ==
    \/ HandleClearConversations \/ HandleDeleteFolder \/ Loaded(<<>>, {})
    \/ \E c \in ToSet(conversations) : HandleDeleteConversation(c)

LEMMA StepsKeepHistory ==
    ASSUME ChatInv, HistoryInv, [ChatNext]_chatVars
    PROVE  HistoryInv' /\ (ListKept \/ Excused)
<1>1. CASE Disturbance
  <2>1. ASSUME NEW c \in ToSet(conversations), NEW inFolder \in BOOLEAN,
               DropIntoFolder(c, inFolder)
        PROVE  HistoryInv' /\ ListKept
    <3>1. WithFolder(c, inFolder) \in OwnConversations(askedIn)
      BY OnScreen, MembersAreOwn, FlagsChange
    <3>2. HandleUpdateConversation(WithFolder(c, inFolder))
      BY <2>1 DEF DropIntoFolder, WithFolder
    <3>3. QED
      BY <3>1, <3>2, UpdateKeepsList
  <2>2. ASSUME Rename PROVE HistoryInv' /\ ListKept
    BY <2>2, OnScreen, UpdateKeepsList DEF Rename
  <2>3. ASSUME HandleClearConversations PROVE HistoryInv' /\ Excused
    BY <2>3, ClearKeepsHistory DEF Excused
  <2>4. ASSUME HandleDeleteFolder PROVE HistoryInv' /\ Excused
    BY <2>4, DeleteFolderKeepsHistory DEF Excused
  <2>5. ASSUME NEW c \in ToSet(conversations), HandleDeleteConversation(c)
        PROVE  HistoryInv' /\ Excused
    BY <2>5, DeleteKeepsHistory DEF Excused
  <2>6. ASSUME Reload \/ HandleImportConversations PROVE HistoryInv' /\ (ListKept \/ Excused)
    BY <2>6, ReloadKeepsList, ImportKeepsList DEF Excused
  <2>7. ASSUME \E createInFolder \in BOOLEAN : HandleNewConversation(createInFolder)
        PROVE  HistoryInv' /\ ListKept
    BY <2>7, NewKeepsList
  <2>8. QED
    BY <1>1, <2>1, <2>2, <2>3, <2>4, <2>5, <2>6, <2>7, QuietStepsKeepList DEF Disturbance
<1>2. CASE ChatStep
  <2>1. ASSUME NEW k \in Keys, Send(k) \/ UploadPrompt(k) PROVE HistoryInv' /\ ListKept
    BY <2>1, SendKeepsList DEF Send, UploadPrompt
  <2>2. QED
    BY <1>2, <2>1, RegenerateKeepsList, EditKeepsList, DeleteMessageKeepsList,
       QuietStepsKeepList DEF ChatStep
<1>3. CASE WireStep
  <2>1. ASSUME CompletionTimer PROVE HistoryInv' /\ ListKept
    BY <2>1, CompletesKeepsList DEF CompletionTimer
  <2>2. QED
    BY <1>3, <2>1, HttpStepKeepsList, SocketStepKeepsList, ResendKeepsList, QuietStepsKeepList
       DEF WireStep
<1>4. CASE UNCHANGED chatVars
  BY <1>4, QuietStepsKeepList
<1>5. QED
  BY <1>1, <1>2, <1>3, <1>4 DEF ChatNext

\* For any number of conversations, questions and interruptions: every change of the
\* list is in IndexedDB when it is on the screen, and no answer that comes over the
\* WebSocket wipes a conversation off the list it writes.
THEOREM HistoryIsAlwaysKept == ChatSpec => HistoryIsKept
<1>1. ChatInit => ChatInv /\ HistoryInv
  <2> SUFFICES ASSUME ChatInit PROVE ChatInv /\ HistoryInv
    OBVIOUS
  <2>1. db.history = conversations /\ conversationsRef = conversations
    BY DEF ChatInit
  <2>2. QED
    BY <2>1, InitIsOwn DEF HistoryInv, ReloadKeepsHistory, RefKeepsUp
<1>2. ChatInv /\ HistoryInv /\ [ChatNext]_chatVars => ChatInv' /\ HistoryInv'
  BY StepsAreOwn, StutteringIsOwn, StepsKeepHistory
<1> DEFINE Kept == /\ ReloadKeepsHistory'
                   /\ \/ IdsOf(conversations) \subseteq IdsOf(conversations')
                      \/ requests # {}
                      \/ HandleClearConversations \/ HandleDeleteFolder \/ Loaded(<<>>, {})
                      \/ \E c \in ToSet(conversations) : HandleDeleteConversation(c)
<1>3. ChatInv /\ HistoryInv /\ [ChatNext]_chatVars => [Kept]_chatVars
  BY StepsKeepHistory DEF HistoryInv, ListKept, Excused
<1>4. QED
  BY <1>1, <1>2, <1>3, PTL DEF ChatSpec, HistoryIsKept
=============================================================================
