---------------------------- MODULE AnswerStream ----------------------------
(* The answer of the agent on its way to the screen: the lines of the agent's      *)
(* response, the proxy of the console that takes them apart (pages/api/chat.ts),   *)
(* the stream it writes, and the loop of Chat.tsx that puts text and steps         *)
(* together again. Every reader may see the bytes cut anywhere.                     *)
EXTENDS Naturals, Sequences, SequencesExt, FiniteSetsExt

CONSTANT MaxLines    \* bound: lines of one response

ASSUME StreamConstants == MaxLines \in Nat

VARIABLES
    endpoint, enabled,  \* the endpoint in chatCompletionURL, and enableIntermediateSteps
    sentLines, upstream,  \* the lines the agent sent, and whether it is "open", "ended" or "broken"
    got,                \* half lines the proxy has read
    proxy,              \* "asks", "reads", "closed" or "errored"
    queue, awaited,     \* pieces of the proxy's stream nobody has read, and a read that waits
    out,                \* bytes on their way to the browser
    client,             \* "reads", "ended" or "failed"
    partial,            \* partialIntermediateStep
    answerText, pendingSteps,  \* what the loop has taken from the chunks
    isFirst, hasPendingUpdate,
    message             \* the assistant's message on screen

upstreamVars == <<endpoint, enabled, sentLines, upstream>>
proxyVars == <<got, proxy, queue, awaited>>
clientVars == <<client, partial, answerText, pendingSteps, isFirst, hasPendingUpdate, message>>
streamVars == <<upstreamVars, proxyVars, out, clientVars>>

Endpoints == {"generate/stream", "chat/stream", "generate", "chat"}
Streaming == endpoint \in {"generate/stream", "chat/stream"}
\* A text frame, a step as data, a step with its tags, a bare JSON body, a line no
\* branch knows, and the end mark.
Kinds == {"text", "step", "tagged", "json", "junk", "done"}
OfKind(s, kind) == FlattenSeq([i \in DOMAIN s |-> IF s[i].kind = kind THEN <<s[i]>> ELSE <<>>])
Steps(s) == OfKind(s, "step")
Texts(s) == OfKind(s, "text")
Piece(kind, n) == [kind |-> kind, line |-> n]
Tokens == [kind : {"text", "open", "step"}, line : 0 .. MaxLines]

StreamTypeOK ==
    /\ endpoint \in Endpoints /\ enabled \in BOOLEAN
    /\ sentLines \in Seq(Kinds) /\ Len(sentLines) <= MaxLines
    /\ upstream \in {"open", "ended", "broken"} /\ got \in 0 .. 2 * Len(sentLines)
    /\ proxy \in {"asks", "reads", "closed", "errored"} /\ awaited \in BOOLEAN
    /\ \A s \in {queue, out, partial, answerText, pendingSteps, message.text, message.steps} : s \in Seq(Tokens)
    /\ client \in {"reads", "ended", "failed"}
    /\ isFirst \in BOOLEAN /\ hasPendingUpdate \in BOOLEAN

StreamInit ==
    /\ endpoint \in Endpoints /\ enabled \in BOOLEAN
    /\ sentLines = <<>> /\ upstream = "open" /\ got = 0
    /\ proxy = "asks" /\ queue = <<>> /\ awaited = FALSE /\ out = <<>>
    /\ client = "reads" /\ partial = <<>> /\ answerText = <<>> /\ pendingSteps = <<>>
    /\ isFirst = TRUE /\ hasPendingUpdate = FALSE
    /\ message = [text |-> <<>>, steps |-> <<>>]

-----------------------------------------------------------------------------
\* The agent's server.

UpstreamSends(kind) ==
    /\ proxy # "asks" /\ upstream = "open" /\ Len(sentLines) < MaxLines
    /\ "done" \notin ToSet(sentLines)
    /\ sentLines' = Append(sentLines, kind)
    /\ UNCHANGED <<endpoint, enabled, upstream, proxyVars, out, clientVars>>

UpstreamEnds(how) ==
    /\ proxy # "asks" /\ upstream = "open"
    /\ upstream' = how
    /\ UNCHANGED <<endpoint, enabled, sentLines, proxyVars, out, clientVars>>

-----------------------------------------------------------------------------
\* The proxy.

\* A request without a question, or an answer that is not ok, is an error response.
AskAgent(ok) ==
    /\ proxy = "asks"
    /\ proxy' = IF ok THEN "reads" ELSE "errored"
    /\ UNCHANGED <<upstreamVars, got, queue, awaited, out, clientVars>>

\* What the branches of the line loop send for a line.
PiecesOf(n) ==
    LET kind == sentLines[n]
    IN  CASE kind = "text" -> <<Piece("text", n)>>
          [] kind = "step" /\ (enabled \/ endpoint = "generate/stream") -> <<Piece("step", n)>>
          [] kind = "tagged" /\ enabled /\ endpoint = "generate/stream" -> <<Piece("step", n)>>
          [] OTHER -> <<>>

PiecesOfLines(from, to) == FlattenSeq([i \in 1 .. to - from + 1 |-> PiecesOf(from + i - 1)])

\* The bytes of a piece: a step can be cut after its opening tag.
Bytes(p) == IF p.kind = "step" THEN <<[p EXCEPT !.kind = "open"], p>> ELSE <<p>>
BytesOf(pieces) == FlattenSeq([i \in DOMAIN pieces |-> Bytes(pieces[i])])

\* enqueue hands the first piece to a read that waits.
Enqueue(pieces) ==
    IF awaited /\ pieces # <<>>
    THEN queue' = Tail(pieces) /\ out' = out \o Bytes(pieces[1]) /\ awaited' = FALSE
    ELSE queue' = queue \o pieces /\ UNCHANGED <<out, awaited>>

\* Closing twice, or a failed read after the close, errors the stream as soon as the
\* rejection reaches it: the wrapper may have taken any of its pieces by then, the
\* others are lost. A stream that was read to the end has simply ended.
CloseThenFail(pieces) ==
    LET all == queue \o pieces
    IN  \E k \in 0 .. Len(all) :
            /\ awaited /\ all # <<>> => k > 0
            /\ proxy' = IF k = Len(all) THEN "closed" ELSE "errored"
            /\ out' = out \o BytesOf(SubSeq(all, 1, k))
            /\ queue' = <<>> /\ awaited' = FALSE

\* Mutant: each chunk is split on its own, the rest of its last line is dropped.
ChunkLines(to) == {n \in 1 .. to \div 2 : 2 * n - 1 > got}

\* The lines a chunk completes, the rest of the buffer included.
LinesOf(to) == {n \in 1 .. to \div 2 : 2 * n > got}

\* One read of the response and every line it completes. The end mark closes the
\* stream and returns, and the finally closes it again.
ProxyReads(to) ==
    /\ proxy = "reads" /\ Streaming /\ to \in got + 1 .. 2 * Len(sentLines)
    /\ LET lines == LinesOf(to)
           done == {n \in lines : sentLines[n] = "done"}
           last == IF done = {} THEN to \div 2 ELSE Min(done) - 1
           pieces == IF lines = {} THEN <<>> ELSE PiecesOfLines(Min(lines), last)
       IN  IF done = {} THEN Enqueue(pieces) /\ UNCHANGED proxy ELSE CloseThenFail(pieces)
    /\ got' = to
    /\ UNCHANGED <<upstreamVars, clientVars>>

\* The finally of generate/stream: a response that was a single JSON body, which may
\* lack the newline, is sent as one text.
BodyPieces ==
    IF endpoint = "generate/stream" /\ sentLines = <<"json">> /\ (got = 2 \/ upstream = "ended")
    THEN <<Piece("text", 1)>> ELSE <<>>

ProxyFinishes ==
    /\ proxy = "reads" /\ Streaming /\ upstream # "open" /\ got \in {2 * Len(sentLines), 2 * Len(sentLines) - 1}
    /\ IF upstream = "broken" THEN CloseThenFail(BodyPieces)
       ELSE proxy' = "closed" /\ Enqueue(BodyPieces)
    /\ UNCHANGED <<upstreamVars, got, clientVars>>

\* The endpoints that do not stream: the whole body is one text, parsed or not.
ProxyTakesBody ==
    /\ proxy = "reads" /\ ~Streaming /\ upstream # "open"
    /\ got' = 2 * Len(sentLines)
    /\ IF upstream = "broken" THEN proxy' = "errored" /\ UNCHANGED <<queue, awaited, out>>
       ELSE proxy' = "closed" /\ Enqueue(<<Piece("text", 0)>>)
    /\ UNCHANGED <<upstreamVars, clientVars>>

\* createApiWrapper's loop: the next piece is written, or waited for.
WrapperReads ==
    /\ proxy \in {"reads", "closed"} /\ ~awaited
    /\ IF queue = <<>> THEN proxy = "reads" /\ awaited' = TRUE /\ UNCHANGED <<queue, out>>
       ELSE queue' = Tail(queue) /\ out' = out \o Bytes(queue[1]) /\ UNCHANGED awaited
    /\ UNCHANGED <<upstreamVars, got, proxy, clientVars>>

-----------------------------------------------------------------------------
\* The browser.

\* Where an opening tag without its closing tag starts, 0 when there is none.
OpenTag(s) == IF s # <<>> /\ s[Len(s)].kind = "open" THEN Len(s) ELSE 0

\* What a read yields: the text of the SSE frames or JSON lines in it, or else the
\* chunk as it is. Pieces of the proxy are neither.
Chunk(c) == SubSeq(out, 1, c)

Dispatched(all, steps) == [text |-> all, steps |-> message.steps \o steps]

\* Updates are dispatched at most every 32 ms, the first one at once.
ClientReads(c, dispatch) ==
    /\ client = "reads" /\ c \in 1 .. Len(out)
    /\ out' = SubSeq(out, c + 1, Len(out))
    /\ LET all == partial \o Chunk(c)
           tag == OpenTag(all)
           value == IF tag = 0 THEN all ELSE SubSeq(all, 1, tag - 1)
           steps == pendingSteps \o Steps(value)
       IN  /\ partial' = IF tag = 0 THEN <<>> ELSE SubSeq(all, tag, Len(all))
           /\ answerText' = answerText \o Texts(value)
           /\ IF isFirst \/ dispatch
              THEN /\ message' = Dispatched(answerText', steps)
                   /\ pendingSteps' = <<>> /\ hasPendingUpdate' = FALSE
              ELSE pendingSteps' = steps /\ hasPendingUpdate' = TRUE /\ UNCHANGED message
    /\ isFirst' = FALSE
    /\ UNCHANGED <<upstreamVars, proxyVars, client>>

FinalDispatch ==
    message' = IF hasPendingUpdate THEN Dispatched(answerText, pendingSteps) ELSE message

\* The end of the stream; an error leaves what was dispatched.
ClientFinishes ==
    /\ client = "reads" /\ out = <<>>
    /\ \/ proxy = "closed" /\ queue = <<>> /\ client' = "ended" /\ FinalDispatch
       \/ proxy = "errored" /\ client' = "failed" /\ UNCHANGED message
    /\ UNCHANGED <<upstreamVars, proxyVars, out, partial, answerText, pendingSteps, isFirst, hasPendingUpdate>>

StreamNext ==
    \/ \E kind \in Kinds : UpstreamSends(kind)
    \/ \E how \in {"ended", "broken"} : UpstreamEnds(how)
    \/ \E ok \in BOOLEAN : AskAgent(ok)
    \/ \E to \in 1 .. 2 * MaxLines : ProxyReads(to)
    \/ ProxyFinishes \/ ProxyTakesBody \/ WrapperReads
    \/ \E c \in 1 .. 2 * MaxLines, dispatch \in BOOLEAN : ClientReads(c, dispatch)
    \/ ClientFinishes

StreamSpec == StreamInit /\ [][StreamNext]_streamVars

-----------------------------------------------------------------------------

\* What the complete lines before the end mark amount to.
Answer ==
    LET upTo == got \div 2
        n == IF "done" \in ToSet(SubSeq(sentLines, 1, upTo)) THEN upTo - 1 ELSE upTo
    IN  IF ~Streaming THEN (IF proxy = "closed" THEN <<Piece("text", 0)>> ELSE <<>>)
        ELSE IF proxy = "closed" /\ BodyPieces # <<>> THEN BodyPieces ELSE PiecesOfLines(1, n)

\* However the bytes are cut on both ways and whatever is throttled, a message holds
\* a prefix of the agent's text and of its steps, in order and nothing twice; when
\* the stream ends it holds all of both.
AnswerIsWhole ==
    /\ IsPrefix(message.text, Texts(Answer)) /\ IsPrefix(message.steps, Steps(Answer))
    /\ client = "ended" => message = [text |-> Texts(Answer), steps |-> Steps(Answer)]

\* The tests of the proxy end their streams with the end mark and expect the text
\* before it: once the agent sent all of an answer and its end mark, and the browser
\* has read to the end, the message is the answer.
DoneAnswersAreWhole ==
    client # "reads" /\ upstream # "broken" /\ "done" \in ToSet(SubSeq(sentLines, 1, got \div 2))
        => message.text = Texts(Answer)
=============================================================================
