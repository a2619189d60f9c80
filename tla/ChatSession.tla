------------------------------ MODULE ChatSession ------------------------------
(* One instance of the browser chat: the conversations that home.tsx keeps in  *)
(* React state and in IndexedDB, the sidebar that changes them, and Chat.tsx,  *)
(* which asks the agent over HTTP or over one WebSocket and writes the answer  *)
(* into the state while the user goes on clicking.                             *)
(*                                                                             *)
(* A step is one task of the browser's event loop: what runs between two       *)
(* awaits, the render it causes and that render's effects.  What a handler     *)
(* captured when it was created (its closure) is a field of the request.       *)
(* A message's text is the sequence of the questions its pieces answer, so     *)
(* that a piece of a wrong answer shows.                                       *)
EXTENDS Naturals, Sequences, FiniteSets, SequencesExt

CONSTANTS
    MaxConversations,   \* bound: conversation ids ever made
    MaxSends,           \* bound: messages ever sent
    MaxChunks,          \* bound: pieces of one answer
    MaxDisturbances,    \* bound: uses of the sidebar or the mode switch, losses of the socket
    Modes               \* the modes a session may start in (TRUE: WebSocket)

ASSUME ChatBounds ==
    /\ {MaxConversations, MaxSends, MaxChunks} \subseteq Nat \ {0}
    /\ MaxConversations > 1    \* the one in a folder and the homepage
    /\ MaxDisturbances \in Nat
    /\ Modes \subseteq BOOLEAN

Ids == 1 .. MaxConversations
Keys == 1 .. MaxSends
None == 0

Messages == [role: {"user", "assistant"}, text: Seq(Keys)]
Conversations == [id: Ids, messages: Seq(Messages), inFolder: BOOLEAN, home: BOOLEAN]

VARIABLES
    conversations, selectedConversation, messageIsStreaming, loading, folderExists,
    webSocketMode,
    rows,           \* the totalMessageCount each row of the screen was last rendered with
    conversationsRef, activeUserMessageId, \* refs of Chat.tsx
    requests,       \* HTTP requests: what handleSend still has to do for each
    controller,     \* [aborted, resets]: controllerRef and its pending 100 ms timers
    socket,         \* "none", "connecting" or "open"
    socketConnected,\* webSocketConnectedRef
    resends,        \* handleSend calls that wait for a connection
    answers,        \* what the server still has to send over the socket
    completions,    \* 200 ms timers started by a complete message
    uploadFlow,     \* None, or the conversation an open upload dialog belongs to
    db,             \* IndexedDB: [history, selected]
    askedIn,        \* the conversation in which each question was asked
    stopped,        \* questions whose generation was stopped in WebSocket mode
    disturbances

homeVars == <<conversations, selectedConversation, rows, messageIsStreaming, loading,
              folderExists, conversationsRef, activeUserMessageId, db>>
wireVars == <<requests, controller, socket, socketConnected, resends, answers, completions>>
restVars == <<webSocketMode, uploadFlow, askedIn, stopped>>
chatVars == <<homeVars, wireVars, restVars, disturbances>>

-----------------------------------------------------------------------------
(* Conversations and what is done with them.                                 *)

NewConversation(id, inFolder, home) ==
    [id |-> id, messages |-> <<>>, inFolder |-> inFolder, home |-> home]
IdsOf(cs) == {cs[i].id : i \in DOMAIN cs}
Updated(cs, c) == [i \in DOMAIN cs |-> IF cs[i].id = c.id THEN c ELSE cs[i]]
Listed(cs, id) == CHOOSE c \in ToSet(cs) : c.id = id
\* Array.filter: those of cs that are kept, in their order.
Filtered(cs, kept) ==
    LET at == {i \in DOMAIN cs : cs[i] \in kept}
        nth(n) == CHOOSE i \in at : Cardinality({j \in at : j <= i}) = n
    IN  [n \in 1 .. Cardinality(at) |-> cs[nth(n)]]

\* uuidv4: an id nobody has used.
UsedIds == IdsOf(conversations) \cup {selectedConversation.id} \cup IdsOf(db.history)
    \cup {askedIn[k] : k \in Keys} \cup {r.conv.id : r \in resends} \cup {uploadFlow}
FreshIds == LET unused == Ids \ UsedIds
            IN {i \in unused : \A j \in unused : i <= j}

IsQueryProcessing == loading \/ messageIsStreaming
IsActiveConversationProcessing(id) == selectedConversation.id = id /\ IsQueryProcessing

-----------------------------------------------------------------------------
(* The render after a task and its effects: the state flags are reset when   *)
(* another conversation becomes the selected one, and conversationsRef       *)
(* follows the state unless an answer is streaming.                          *)

Switches(sel) == sel.id # selectedConversation.id

\* MemoizedChatMessage renders a row anew only if its message or index changed.
Rows(sel) ==
    LET old == selectedConversation.messages
        Stays(i) == i \in DOMAIN old /\ old[i] = sel.messages[i] /\ ~Switches(sel)
    IN  [i \in DOMAIN sel.messages |->
            IF sel.messages[i].role # "user" THEN 0
            ELSE IF Stays(i) THEN rows[i] ELSE Len(sel.messages)]
FreshRows(sel) ==
    [i \in DOMAIN sel.messages |->
        IF sel.messages[i].role # "user" THEN 0 ELSE Len(sel.messages)]

Render(cs, sel, streaming, load) ==
    /\ conversations' = cs
    /\ selectedConversation' = sel
    /\ rows' = Rows(sel)
    /\ messageIsStreaming' = (streaming /\ ~Switches(sel))
    /\ loading' = (load /\ ~Switches(sel))

Effects(ref, active) ==
    /\ conversationsRef' = IF messageIsStreaming' THEN ref ELSE conversations'
    /\ activeUserMessageId' = IF Switches(selectedConversation') THEN None ELSE active
Show(cs, sel, streaming, load) ==
    Render(cs, sel, streaming, load) /\ Effects(conversationsRef, activeUserMessageId)

Save(history, selected) == db' = [history |-> history, selected |-> {selected}]

\* The list goes to the ref before it is shown and saved.
WriteThrough(all, c, streaming, load, active) ==
    Render(all, c, streaming, load) /\ Effects(all, active) /\ Save(all, c)

\* The first visit, or one that finds a conversation in a folder in IndexedDB.
Starts ==
    LET first == NewConversation(1, FALSE, TRUE)
        earlier == NewConversation(2, TRUE, FALSE)
    IN  {[list |-> <<first>>, sel |-> first, folder |-> FALSE],
         [list |-> <<earlier, first>>, sel |-> earlier, folder |-> TRUE]}
ChatInit ==
    \E mode \in Modes, start \in Starts :
        /\ conversations = start.list /\ selectedConversation = start.sel
        /\ rows = <<>>
        /\ messageIsStreaming = FALSE /\ loading = FALSE
        /\ folderExists = start.folder
        /\ webSocketMode = mode
        /\ conversationsRef = start.list /\ activeUserMessageId = None
        /\ requests = {} /\ controller = [aborted |-> FALSE, resets |-> 0]
        /\ socket = (IF mode THEN "connecting" ELSE "none")
        /\ socketConnected = FALSE
        /\ resends = {} /\ answers = {} /\ completions = 0
        /\ uploadFlow = None
        /\ db = [history |-> start.list, selected |-> {start.sel}]
        /\ askedIn = [k \in Keys |-> None] /\ stopped = {}
        /\ disturbances = 0

-----------------------------------------------------------------------------
(* The sidebar.                                                              *)

\* A conversation in the sidebar is disabled only while an answer streams; the
\* empty homepage conversation is not shown.
HandleSelectConversation(c) ==
    /\ ~messageIsStreaming /\ ~c.home
    /\ Show(conversations, c, FALSE, FALSE)
    /\ db' = [db EXCEPT !.selected = {c}]
    /\ UNCHANGED <<folderExists, wireVars, restVars>>

\* The homepage conversation is reused by "New chat" outside a folder.
HandleNewConversation(createInFolder) ==
    /\ ~IsQueryProcessing /\ (createInFolder => folderExists)
    /\ IF /\ ~createInFolder /\ selectedConversation.home
          /\ selectedConversation.messages = <<>>
       THEN LET c == [selectedConversation EXCEPT !.home = FALSE]
            IN Show(Updated(conversations, c), c, messageIsStreaming, loading)
       ELSE \E id \in FreshIds :
                LET c == NewConversation(id, createInFolder, FALSE)
                IN Show(Append(conversations, c), c, messageIsStreaming, FALSE)
    /\ Save(conversations', selectedConversation')
    /\ UNCHANGED <<folderExists, wireVars, restVars>>

\* Renaming the selected conversation, or dropping any listed one into a folder:
\* neither is disabled while a query is processed.
HandleUpdateConversation(c) ==
    /\ Show(Updated(conversations, c), c, messageIsStreaming, loading)
    /\ Save(conversations', c)
    /\ UNCHANGED <<folderExists, wireVars, restVars>>
Rename ==
    /\ ~selectedConversation.home /\ selectedConversation.id \in IdsOf(conversations)
    /\ HandleUpdateConversation(selectedConversation)
DropIntoFolder(c, inFolder) ==
    /\ ~c.home /\ (inFolder => folderExists)
    /\ HandleUpdateConversation([c EXCEPT !.inFolder = inFolder])

\* Mutant: the list of the closure is saved.
DeleteWithoutSaving(c) ==
    LET rest == Filtered(conversations, {d \in ToSet(conversations) : d.id # c.id})
    IN  /\ c.id = selectedConversation.id /\ ~c.home /\ rest # <<>>
        /\ ~IsActiveConversationProcessing(c.id)
        /\ Show(rest, Last(rest), messageIsStreaming, loading)
        /\ Save(conversations, Last(rest))
        /\ UNCHANGED <<folderExists, wireVars, restVars>>

HandleDeleteConversation(c) ==
    LET rest == Filtered(conversations, {d \in ToSet(conversations) : d.id # c.id})
    IN  /\ c.id = selectedConversation.id /\ ~c.home
        /\ ~IsActiveConversationProcessing(c.id)
        /\ IF rest # <<>>
           THEN /\ Show(rest, Last(rest), messageIsStreaming, loading)
                /\ Save(rest, Last(rest))
           ELSE /\ \E id \in FreshIds :
                       Show(rest, NewConversation(id, FALSE, FALSE), messageIsStreaming, loading)
                /\ db' = [history |-> rest, selected |-> {}]
        /\ UNCHANGED <<folderExists, wireVars, restVars>>

HandleClearConversations ==
    /\ ~IsQueryProcessing
    /\ \E id \in FreshIds :
           Show(<<>>, NewConversation(id, FALSE, FALSE), messageIsStreaming, loading)
    /\ Save(<<>>, selectedConversation')
    /\ folderExists' = FALSE
    /\ UNCHANGED <<wireVars, restVars>>

HandleCreateFolder ==
    /\ ~folderExists
    /\ folderExists' = TRUE
    /\ UNCHANGED <<conversations, selectedConversation, rows, messageIsStreaming, loading,
                   conversationsRef, activeUserMessageId, db, wireVars, restVars>>

IsFolderDeleteBlocked ==
    \E c \in ToSet(conversations) : c.inFolder /\ IsActiveConversationProcessing(c.id)
HandleDeleteFolder ==
    LET rest == Filtered(conversations, {d \in ToSet(conversations) : ~d.inFolder})
    IN  /\ folderExists /\ ~IsFolderDeleteBlocked
        /\ folderExists' = FALSE
        /\ IF ~selectedConversation.inFolder
           THEN /\ Show(rest, selectedConversation, messageIsStreaming, loading)
                /\ db' = [db EXCEPT !.history = rest]
           ELSE /\ IF rest # <<>>
                   THEN Show(rest, Last(rest), messageIsStreaming, loading)
                   ELSE \E id \in FreshIds :
                            LET c == NewConversation(id, FALSE, TRUE)
                            IN Show(<<c>>, c, messageIsStreaming, loading)
                /\ Save(conversations', selectedConversation')
        /\ UNCHANGED <<wireVars, restVars>>

\* A page load: everything but IndexedDB, sessionStorage and the server starts anew.
Loaded(history, selected) ==
    /\ IF selected # {}
       THEN /\ conversations' = history
            /\ selectedConversation' \in selected
            /\ db' = [history |-> history, selected |-> selected]
       ELSE \E id \in FreshIds :
                LET c == NewConversation(id, FALSE, TRUE)
                IN  /\ conversations' = Append(history, c)
                    /\ selectedConversation' = c
                    /\ Save(conversations', c)
    /\ rows' = FreshRows(selectedConversation')
    /\ messageIsStreaming' = FALSE /\ loading' = FALSE
    /\ conversationsRef' = conversations' /\ activeUserMessageId' = None
    /\ requests' = {} /\ resends' = {} /\ answers' = {} /\ completions' = 0
    /\ controller' = [aborted |-> FALSE, resets |-> 0]
    /\ socket' = (IF webSocketMode THEN "connecting" ELSE "none")
    /\ socketConnected' = FALSE
    /\ uploadFlow' = None
    /\ UNCHANGED <<folderExists, webSocketMode, askedIn, stopped>>

\* The pagehide handler fires on a reload too, and may delete what is stored.
PageHides(history, selected) == Loaded(history, selected) \/ Loaded(<<>>, {})
Reload == PageHides(db.history, db.selected)

\* Import: the stored history wins over a conversation of the file with its id.
HandleImportConversations ==
    \E id \in FreshIds :
        LET history == Append(db.history, NewConversation(id, FALSE, FALSE))
        IN PageHides(history, {Last(history)})

-----------------------------------------------------------------------------
(* Sending a message.                                                        *)

Question(k) == [role |-> "user", text |-> <<k>>]
IsLastAssistant(messages) == messages # <<>> /\ Last(messages).role = "assistant"

\* Appends a piece of an answer to the last assistant message, or starts one.
WithPiece(messages, k) ==
    IF IsLastAssistant(messages)
    THEN [messages EXCEPT ![Len(messages)].text = Append(@, k)]
    ELSE Append(messages, [role |-> "assistant", text |-> <<k>>])

\* deleteCount messages make room for the new one; the homepage flag goes with
\* the first plain message.
WithQuestion(c, k, deleteCount) ==
    [c EXCEPT !.messages = Append(SubSeq(@, 1, IF deleteCount > Len(@) THEN 0 ELSE Len(@) - deleteCount),
                                  Question(k)),
              !.home = @ /\ deleteCount > 0]

\* An upload's hidden prompt goes only to the conversation of the upload.
ShouldAllowChatMessageSend(hidden) ==
    IF hidden THEN uploadFlow = selectedConversation.id ELSE uploadFlow = None

NextKey == {k \in Keys : askedIn[k] = None /\ \A j \in Keys : j < k => askedIn[j] # None}
Asked(k, c) == askedIn' = [askedIn EXCEPT ![k] = c.id]

\* HTTP: the request keeps the conversation and the list of its own render.
SendHttp(k, c) ==
    /\ Render(conversations, c, TRUE, TRUE)
    /\ Effects(conversationsRef, k)
    /\ requests' = requests \cup
           {[key |-> k, conv |-> c, base |-> conversations, phase |-> "fetch", pieces |-> 0,
             aborted |-> controller.aborted, current |-> TRUE]}
    /\ UNCHANGED <<db, answers>>

\* Mutant: the conversation is always added.
SendSocketAppends(k, c) ==
    LET all == Append(conversationsRef, c)
    IN  /\ WriteThrough(all, c, TRUE, TRUE, k)
        /\ UNCHANGED <<requests, answers>>

\* WebSocket: the list is taken from conversationsRef, and a conversation that
\* is not in it is added.  What is sent on a closed socket is lost.
SendSocket(k, c) ==
    LET all == IF c.id \in IdsOf(conversationsRef) THEN Updated(conversationsRef, c)
               ELSE Append(conversationsRef, c)
    IN  /\ WriteThrough(all, c, TRUE, TRUE, k)
        /\ answers' = IF socket = "open"
                      THEN answers \cup {[key |-> k, conv |-> c.id, left |-> MaxChunks]}
                      ELSE answers
        /\ UNCHANGED requests

\* A send without a connection shows the message and waits for one.
SendLater(k, shown, c) ==
    /\ Render(conversations, shown, TRUE, TRUE)
    /\ Effects(conversationsRef, k)
    /\ socket' = IF socket = "none" THEN "connecting" ELSE socket
    /\ resends' = resends \cup {[key |-> k, conv |-> c]}
    /\ UNCHANGED <<db, requests, answers>>

HandleSend(k, deleteCount, hidden) ==
    LET c == WithQuestion(selectedConversation, k, deleteCount)
    IN  /\ k \in NextKey
        /\ ShouldAllowChatMessageSend(hidden)
        /\ Asked(k, c)
        /\ IF webSocketMode /\ ~socketConnected
           THEN SendLater(k, c, selectedConversation)
           ELSE /\ IF webSocketMode THEN SendSocket(k, c) ELSE SendHttp(k, c)
                /\ UNCHANGED <<socket, resends>>
        /\ UNCHANGED <<folderExists, webSocketMode, controller, socketConnected, completions,
                       stopped>>

\* The input's send button and Enter.
Send(k) ==
    /\ ~messageIsStreaming
    /\ HandleSend(k, 0, FALSE) /\ UNCHANGED uploadFlow

\* "Regenerate response": the message before the last is sent again, or the last
\* question replaces the last message.
Regenerate(k) ==
    LET messages == selectedConversation.messages
        again == messages[Len(messages) - 1].role = "user"
    IN  /\ ~messageIsStreaming /\ Len(messages) > 1
        /\ again \/ \E i \in DOMAIN messages : messages[i].role = "user"
        /\ HandleSend(k, IF again THEN 0 ELSE 1, FALSE) /\ UNCHANGED uploadFlow

\* An edit sends the message anew and drops as many messages as its row knew of
\* from its own on; it is possible while an answer streams.
HandleEditMessage(k, i) ==
    /\ selectedConversation.messages[i].role = "user"
    /\ HandleSend(k, rows[i] - i + 1, FALSE) /\ UNCHANGED uploadFlow

\* A deletion takes the answer with the question.
HandleDeleteMessage(i) ==
    LET messages == selectedConversation.messages
        last == IF i < Len(messages) /\ messages[i + 1].role = "assistant" THEN i + 1 ELSE i
        c == [selectedConversation EXCEPT
                  !.messages = SubSeq(messages, 1, i - 1) \o SubSeq(messages, last + 1, Len(messages))]
        all == Updated(conversationsRef, c)
    IN  /\ messages[i].role = "user" /\ uploadFlow = None
        /\ WriteThrough(all, c, messageIsStreaming, loading, activeUserMessageId)
        /\ UNCHANGED <<folderExists, wireVars, restVars>>

\* An upload dialog blocks the chat, not the sidebar.  When the batch is done
\* its prompt is sent, if its conversation is still the selected one.
OpenUpload ==
    /\ uploadFlow = None /\ ~IsQueryProcessing
    /\ uploadFlow' = selectedConversation.id
    /\ UNCHANGED <<homeVars, wireVars, webSocketMode, askedIn, stopped>>
UploadPrompt(k) ==
    /\ uploadFlow # None
    /\ HandleSend(k, 0, TRUE)
    /\ uploadFlow' = None
CloseUpload ==
    /\ uploadFlow # None
    /\ uploadFlow' = None
    /\ UNCHANGED <<homeVars, wireVars, webSocketMode, askedIn, stopped>>

\* "Stop Generating".
HandleStopConversation ==
    /\ messageIsStreaming /\ uploadFlow = None
    /\ IF webSocketMode
       THEN /\ Render(conversations, selectedConversation, FALSE, FALSE)
            /\ Effects(conversationsRef, None)
            /\ stopped' = stopped \cup ({activeUserMessageId} \ {None})
            /\ UNCHANGED <<requests, controller>>
       ELSE /\ controller.resets < 2
            /\ requests' = {[r EXCEPT !.aborted = @ \/ r.current] : r \in requests}
            /\ controller' = [aborted |-> TRUE, resets |-> controller.resets + 1]
            /\ UNCHANGED <<conversations, selectedConversation, rows, messageIsStreaming, loading,
                           conversationsRef, activeUserMessageId, stopped>>
    /\ UNCHANGED <<folderExists, db, socket, socketConnected, resends, answers, completions,
                   webSocketMode, uploadFlow, askedIn>>

\* 100 ms after a stop a new controller replaces the old one, whose requests can
\* no longer be aborted.
ResetController ==
    /\ controller.resets > 0
    /\ controller' = [aborted |-> FALSE, resets |-> controller.resets - 1]
    /\ requests' = {[r EXCEPT !.current = FALSE] : r \in requests}
    /\ UNCHANGED <<homeVars, restVars, socket, socketConnected, resends, answers, completions>>

-----------------------------------------------------------------------------
(* The HTTP answer.                                                          *)

Becomes(r, next) == requests' = (requests \ {r}) \cup next
OtherWires == <<controller, socket, socketConnected, resends, answers, completions>>

\* Mutant: the flags stay after a failed request.
RequestFailsQuietly(r) ==
    /\ r.phase # "timer"
    /\ Becomes(r, {})
    /\ Show(conversations, selectedConversation, messageIsStreaming, loading)
    /\ UNCHANGED <<db, folderExists, OtherWires, restVars>>

\* Not ok, no body, a network error or an abort: the flags go; the catch block
\* also saves the request's conversation as the selected one.
RequestFails(r) ==
    /\ r.phase # "timer"
    /\ Becomes(r, {})
    /\ Show(conversations, selectedConversation, FALSE, FALSE)
    /\ \/ r.phase = "fetch" /\ ~r.aborted /\ UNCHANGED db
       \/ db' = [db EXCEPT !.selected = {r.conv}]
    /\ UNCHANGED <<folderExists, OtherWires, restVars>>

ResponseArrives(r) ==
    /\ r.phase = "fetch" /\ ~r.aborted
    /\ Becomes(r, {[r EXCEPT !.phase = "stream"]})
    /\ Show(conversations, selectedConversation, messageIsStreaming, FALSE)
    /\ UNCHANGED <<folderExists, db, OtherWires, restVars>>

\* Mutant: the piece goes to the conversation on the screen.
PieceGoesToScreen(r) ==
    LET c == [selectedConversation EXCEPT !.messages = WithPiece(@, r.key)]
    IN  /\ r.phase = "stream" /\ ~r.aborted /\ r.pieces < MaxChunks
        /\ Becomes(r, {[r EXCEPT !.pieces = @ + 1]})
        /\ Show(conversations, c, messageIsStreaming, FALSE)
        /\ UNCHANGED <<folderExists, db, OtherWires, restVars>>

\* Each piece makes the request's own copy the selected conversation.
PieceArrives(r) ==
    LET c == [r.conv EXCEPT !.messages = WithPiece(@, r.key)]
    IN  /\ r.phase = "stream" /\ ~r.aborted /\ r.pieces < MaxChunks
        /\ Becomes(r, {[r EXCEPT !.conv = c, !.pieces = @ + 1]})
        /\ Show(conversations, c, messageIsStreaming, FALSE)
        /\ UNCHANGED <<folderExists, db, OtherWires, restVars>>

\* The end of the stream writes the list of the render that sent the message.
StreamEnds(r) ==
    LET all == IF r.base = <<>> THEN <<r.conv>> ELSE Updated(r.base, r.conv)
    IN  /\ r.phase = "stream" /\ ~r.aborted
        /\ Becomes(r, {[r EXCEPT !.phase = "timer"]})
        /\ Show(all, selectedConversation, messageIsStreaming, loading)
        /\ Save(all, r.conv)
        /\ UNCHANGED <<folderExists, OtherWires, restVars>>

\* annotateLatestAssistantMessageWithCallerInfo: the embedder may have something
\* to add to the last answer; conversationsRef is then written over the list.
Completes(active, load, annotates) ==
    LET has == \E i \in DOMAIN selectedConversation.messages :
                   selectedConversation.messages[i].role = "assistant"
        all == IF annotates THEN Updated(conversationsRef, selectedConversation) ELSE conversations
    IN  /\ annotates => has
        /\ Render(all, selectedConversation, FALSE, load)
        /\ Effects(all, active)
        /\ IF annotates THEN Save(all, selectedConversation) ELSE UNCHANGED db

RequestTimer(r) ==
    /\ r.phase = "timer"
    /\ Becomes(r, {})
    /\ \E annotates \in BOOLEAN : Completes(activeUserMessageId, FALSE, annotates)
    /\ UNCHANGED <<folderExists, OtherWires, restVars>>

-----------------------------------------------------------------------------
(* The WebSocket.                                                            *)

FlagsOff == Show(conversations, selectedConversation, FALSE, FALSE)

\* A connection opens; a send that waited for it is made again, as a message
\* that replaces the last one of the conversation it had seen.
SocketOpens ==
    /\ socket = "connecting"
    /\ socket' = "open" /\ socketConnected' = TRUE
    /\ resends = {} /\ UNCHANGED <<homeVars, requests, resends, answers>>
    /\ UNCHANGED <<controller, completions, restVars>>
ResendAfterConnect(r) ==
    LET c == WithQuestion(r.conv, r.key, 1)
        all == IF c.id \in IdsOf(conversationsRef) THEN Updated(conversationsRef, c)
               ELSE Append(conversationsRef, c)
    IN  /\ socket # "none" /\ uploadFlow = None
        /\ socket' = "open" /\ socketConnected' = TRUE
        /\ resends' = resends \ {r}
        /\ WriteThrough(all, c, TRUE, TRUE, r.key)
        /\ answers' = answers \cup {[key |-> r.key, conv |-> c.id, left |-> MaxChunks]}
        /\ stopped' = stopped \ {r.key}    \* the message has a new id
        /\ UNCHANGED <<folderExists, requests, controller, completions, webSocketMode, uploadFlow,
                       askedIn>>

\* After three retries the connection is given up.
ConnectionFails ==
    /\ socket = "connecting"
    /\ socket' = "none" /\ socketConnected' = FALSE
    /\ resends' = {}
    /\ FlagsOff
    /\ UNCHANGED <<folderExists, db, requests, controller, answers, completions, restVars>>

\* The open socket is lost and reconnects by itself; only an error event clears
\* webSocketConnectedRef and the flags.
SocketDrops(withError) ==
    /\ socket = "open"
    /\ socket' = IF webSocketMode THEN "connecting" ELSE "none"
    /\ answers' = {}
    /\ IF withError
       THEN socketConnected' = FALSE /\ FlagsOff /\ UNCHANGED <<folderExists, db>>
       ELSE UNCHANGED <<socketConnected, homeVars>>
    /\ UNCHANGED <<requests, controller, resends, completions, webSocketMode, uploadFlow,
                   askedIn, stopped>>

\* The header's switch: the effect on webSocketMode closes the socket and, in
\* WebSocket mode, opens a new one.
ToggleMode ==
    /\ uploadFlow = None
    /\ webSocketMode' = ~webSocketMode
    /\ socketConnected' = FALSE /\ answers' = {}
    /\ socket' = IF webSocketMode THEN "none" ELSE "connecting"
    /\ UNCHANGED <<homeVars, requests, controller, resends, completions, uploadFlow, askedIn,
                   stopped>>

\* handleWebSocketMessage drops what is not for the selected conversation, or
\* comes while no question is active.  A piece is written into the list of
\* conversationsRef at once: nothing is ever pending when one arrives, so the
\* throttle of the code never delays it.
Accepted(a) == activeUserMessageId # None /\ a.conv = selectedConversation.id
NextAnswer(a, next) == answers' = (answers \ {a}) \cup next

AnswerPiece(a) ==
    /\ a.left > 0
    /\ NextAnswer(a, {[a EXCEPT !.left = @ - 1]})
    /\ IF Accepted(a)
       THEN IF a.conv \in IdsOf(conversationsRef)
            THEN LET old == Listed(conversationsRef, a.conv)
                     c == [old EXCEPT !.messages = WithPiece(@, a.key)]
                 IN  WriteThrough(Updated(conversationsRef, c), c, messageIsStreaming, FALSE,
                                  activeUserMessageId)
            ELSE Show(conversations, selectedConversation, messageIsStreaming, FALSE) /\ UNCHANGED db
       ELSE UNCHANGED <<conversations, selectedConversation, rows, messageIsStreaming, loading,
                        conversationsRef, activeUserMessageId, db>>
    /\ UNCHANGED <<folderExists, requests, controller, socket, socketConnected, resends,
                   completions, restVars>>

\* A complete message starts the 200 ms timer that ends the exchange.
AnswerComplete(a) ==
    /\ a.left = 0
    /\ NextAnswer(a, {})
    /\ IF Accepted(a)
       THEN /\ completions' = completions + 1
            /\ Show(conversations, selectedConversation, messageIsStreaming, FALSE)
       ELSE UNCHANGED <<completions, conversations, selectedConversation, rows, messageIsStreaming,
                        loading, conversationsRef, activeUserMessageId>>
    /\ UNCHANGED <<folderExists, db, requests, controller, socket, socketConnected, resends,
                   restVars>>

CompletionTimer ==
    /\ completions > 0
    /\ completions' = completions - 1
    /\ \E annotates \in BOOLEAN : Completes(None, loading, annotates)
    /\ UNCHANGED <<folderExists, requests, controller, socket, socketConnected, resends, answers,
                   restVars>>

-----------------------------------------------------------------------------
Disturbance ==
    /\ disturbances < MaxDisturbances /\ disturbances' = disturbances + 1
    /\ \/ \E c \in ToSet(conversations) :
              \/ HandleSelectConversation(c)
              \/ HandleDeleteConversation(c)
              \/ \E inFolder \in BOOLEAN : DropIntoFolder(c, inFolder)
       \/ \E createInFolder \in BOOLEAN : HandleNewConversation(createInFolder)
       \/ Rename
       \/ HandleClearConversations
       \/ HandleCreateFolder
       \/ HandleDeleteFolder
       \/ Reload
       \/ HandleImportConversations
       \/ ToggleMode
       \/ \E withError \in BOOLEAN : SocketDrops(withError)

ChatStep ==
    \/ \E k \in Keys : Send(k) \/ Regenerate(k) \/ UploadPrompt(k)
    \/ \E i \in DOMAIN selectedConversation.messages :
           HandleDeleteMessage(i) \/ \E k \in Keys : HandleEditMessage(k, i)
    \/ OpenUpload
    \/ CloseUpload
    \/ HandleStopConversation

HttpStep(r) ==
    \/ RequestFails(r)
    \/ ResponseArrives(r)
    \/ PieceArrives(r)
    \/ StreamEnds(r)
    \/ RequestTimer(r)
SocketStep(a) == AnswerPiece(a) \/ AnswerComplete(a)

WireStep ==
    \/ ResetController
    \/ \E r \in requests : HttpStep(r)
    \/ \E a \in answers : SocketStep(a)
    \/ CompletionTimer
    \/ SocketOpens
    \/ \E r \in resends : ResendAfterConnect(r)
    \/ ConnectionFails

ChatNext == Disturbance \/ ((ChatStep \/ WireStep) /\ UNCHANGED disturbances)
ChatSpec == ChatInit /\ [][ChatNext]_chatVars

\* The agent answers or the request fails; timers fire; a connection attempt ends.
Unclicked(A) == A /\ UNCHANGED disturbances
ChatFairness ==
    /\ WF_chatVars(Unclicked(\E r \in requests : HttpStep(r)))
    /\ WF_chatVars(Unclicked(\E a \in answers : SocketStep(a)))
    /\ WF_chatVars(Unclicked(CompletionTimer))
    /\ WF_chatVars(Unclicked(\/ SocketOpens \/ ConnectionFails
                            \/ \E r \in resends : ResendAfterConnect(r)))
FairChatSpec == ChatSpec /\ ChatFairness

-----------------------------------------------------------------------------
(* Properties.                                                               *)

\* Every variable keeps its shape, ids and keys are within the bounds, and no list
\* has two conversations of one id.
Distinct(cs) == \A i, j \in DOMAIN cs : cs[i].id = cs[j].id => i = j
ChatTypeOK ==
    /\ Distinct(conversations) /\ Distinct(conversationsRef) /\ Distinct(db.history)
    /\ \A c \in ToSet(conversations) \cup ToSet(conversationsRef) \cup {selectedConversation} :
           c.id \in Ids
    /\ {messageIsStreaming, loading, folderExists, webSocketMode, socketConnected} \subseteq BOOLEAN
    /\ activeUserMessageId \in Keys \cup {None} /\ uploadFlow \in Ids \cup {None}
    /\ socket \in {"none", "connecting", "open"}
    /\ stopped \subseteq Keys /\ askedIn \in [Keys -> Ids \cup {None}]

\* Whatever the user clicks while answers arrive, a piece of an answer stands only
\* in the conversation its question was asked in: in the state, in the refs and in
\* IndexedDB (handleSend, handleWebSocketMessage).
AnswersStayInTheirConversation ==
    \A c \in ToSet(conversations) \cup ToSet(conversationsRef) \cup ToSet(db.history)
             \cup db.selected \cup {selectedConversation} :
        \A i \in DOMAIN c.messages :
            \A k \in ToSet(c.messages[i].text) : askedIn[k] = c.id

\* A reload shows the list of conversations that was on the screen: every change of
\* the list has been written to IndexedDB by the handler that made it.
ReloadKeepsHistory == db.history = conversations

\* No step loses a conversation, neither by a reload nor from the list: while no
\* HTTP answer is in flight only a deletion, a clear, a folder's deletion or the end
\* of the tab's session takes one off, although the WebSocket answers write the
\* whole list again and again ("avoid stale closure that causes conversation
\* wiping", handleSend).
HistoryIsKept ==
    [][ /\ ReloadKeepsHistory'
        /\ \/ IdsOf(conversations) \subseteq IdsOf(conversations')
           \/ requests # {}
           \/ HandleClearConversations \/ HandleDeleteFolder \/ Loaded(<<>>, {})
           \/ \E c \in ToSet(conversations) : HandleDeleteConversation(c) ]_chatVars

\* The flags that block the input, "New chat" and deletions are dropped in the end
\* over HTTP, whether the agent answers, fails or is stopped.
HttpProcessingEnds ==
    (messageIsStreaming /\ requests # {} /\ answers = {} /\ resends = {})
        ~> (~messageIsStreaming \/ webSocketMode)
=============================================================================
