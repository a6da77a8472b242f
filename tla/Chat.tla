-------------------------------- MODULE Chat --------------------------------
(***************************************************************************)
(* The conversation calls of the client (src/chat.go, src/playground.go,   *)
(* src/transport.go:48-79, 267-306): the body is made from the caller's    *)
(* request, the answer is read as a document or as a stream, and the call  *)
(* returns a result, payloads and an error.  How the request gets to the   *)
(* server and back is Transport; here it arrives or the call fails.        *)
(***************************************************************************)
EXTENDS SSE, ChatRequest, Errors, SequencesExt

CONSTANTS ChatRequests      \* requests the callers make

ASSUME RequestsAssumption == ChatRequests \subseteq Requests

(* "Raw" stands for Messages, Responses and MessagesCountTokens, whose     *)
(* payload is the caller's own, "RawStream" for their streams.             *)
Streaming == {"ChatStream", "PlaygroundChatStream", "RawStream"}
Decoding == {"Chat", "CountTokens", "Models"}
Raw == {"PlaygroundChat", "Raw"}
Methods == Streaming \cup Decoding \cup Raw
Conversations == Methods \ {"CountTokens", "Models"}

ErrorStatuses == {400, 401, 403, 404, 429}

(* A body read as a document: nothing, a whole JSON text of the right      *)
(* shape, of another one, the first 32 MiB of a longer one, or a failure   *)
(* on the way; and what newAPIError sees in it.                            *)
Documents == {"empty", "whole", "odd", "cut", "lost"}
NoDocument == [kind |-> "empty", says |-> NotObject("empty")]

-----------------------------------------------------------------------------
VARIABLES request,      \* the caller's *ChatRequest, used again and again
          call,         \* the method called
          body,         \* the body it sent
          phase,        \* "idle", "sent", "document", "stream"
          status,       \* of the answer; 0 before it
          document,     \* the answer's body, where it is read as a whole
          result,       \* "nothing", "value", "zero" (value) or "raw"
          err           \* the error returned
callVars == <<request, call, body, phase, status, document, result, err>>
vars == <<sseVars, callVars>>

TypeOK ==
    /\ mode \in {"line", "event"}
    /\ pos \in 0..Len(stream.lines)
    /\ haveData \in BOOLEAN
    /\ clean \in BOOLEAN
    /\ buf \in Nat
    /\ DOMAIN memory = 0..buf
    /\ Len(given) <= pos
    /\ end \in {"none", "open", "ok", "refused", "broken"}
    /\ request \in ChatRequests
    /\ call \in Methods
    /\ phase \in {"idle", "sent", "document", "stream"}
    /\ end = "open" => phase = "stream"
    /\ status \in {0, 200} \cup ErrorStatuses
    /\ document.kind \in Documents
    /\ document.says \in Bodies
    /\ result \in {"nothing", "value", "zero", "raw"}

Init ==
    /\ SSEInit
    /\ request \in ChatRequests
    /\ call = "Chat"
    /\ body = <<>>
    /\ phase = "idle"
    /\ status = 0
    /\ document = NoDocument
    /\ result = "nothing"
    /\ err = Nil

-----------------------------------------------------------------------------
(* The bodies a method may send, given its caller's request.  The          *)
(* playground writes the flag itself, a GET has no body.                   *)
BodiesOf(m) ==
    CASE m = "Chat"                 -> {ChatBody(request, FALSE)}
      [] m = "ChatStream"           -> {ChatBody(request, TRUE)}
      [] m = "PlaygroundChat"       -> {[k \in {"stream"} |-> "false"]}
      [] m = "PlaygroundChatStream" -> {[k \in {"stream"} |-> "true"]}
      [] m = "CountTokens"          -> {MarshalJSON([request EXCEPT !.stream = FALSE])}
      [] m = "Models"               -> {<<>>}
      [] m \in {"Raw", "RawStream"} -> Payloads

Start(m) ==
    /\ phase = "idle"
    /\ \E b \in BodiesOf(m) : body' = b
    /\ call' = m
    /\ phase' = "sent"
    /\ status' = 0
    /\ document' = NoDocument
    /\ result' = "nothing"
    /\ err' = Nil
    /\ Close
    /\ UNCHANGED request

(* Chat and ChatStream turn nil away.                                      *)
StartNil(m) ==
    /\ phase = "idle"
    /\ m \in {"Chat", "ChatStream"}
    /\ call' = m
    /\ body' = <<>>
    /\ status' = 0
    /\ document' = NoDocument
    /\ result' = "nothing"
    /\ err' = Plain
    /\ Close
    /\ UNCHANGED <<request, phase>>

(* send returns an error: no credential, no connection, context done.      *)
Fail ==
    /\ phase = "sent"
    /\ phase' = "idle"
    /\ err' = Plain
    /\ UNCHANGED <<sseVars, request, call, body, status, document, result>>

(* External: the server streams when the body of a conversation says so.   *)
Streams200 == call \in Conversations /\ WantsStream(body)

(* External: the server's document, an error's or not.                     *)
Answer(s, doc) ==
    /\ phase = "sent"
    /\ status' = s
    /\ document' = doc
    /\ phase' = "document"
    /\ UNCHANGED <<sseVars, request, call, body, result, err>>

AnswerError ==
    \E s \in ErrorStatuses, k \in {"whole", "lost"}, b \in Bodies :
        Answer(s, [kind |-> k, says |-> b])

(* An event stream is no JSON.                                             *)
AnswerDocument ==
    /\ call \notin Streaming
    /\ \E k \in Documents :
          /\ Streams200 => k # "whole"
          /\ Answer(200, [kind |-> k, says |-> NotObject("text")])

(* DoStream goes on to streamSSE, whatever kind of body there is.          *)
AnswerStream ==
    /\ phase = "sent"
    /\ call \in Streaming
    /\ \E s \in (IF Streams200 THEN Streams ELSE {Document}) : Begin(s)
    /\ status' = 200
    /\ phase' = "stream"
    /\ UNCHANGED <<request, call, body, document, result, err>>

-----------------------------------------------------------------------------
Returns(r, e) ==
    /\ phase' = "idle"
    /\ result' = r
    /\ err' = e
    /\ UNCHANGED <<sseVars, request, call, body, status, document>>

(* doRawAccept: an escape hatch looks at no status.                        *)
ReturnRaw ==
    /\ phase = "document"
    /\ call \in Raw
    /\ IF document.kind = "lost" THEN Returns("nothing", Plain)
                                 ELSE Returns("raw", Nil)

(* Err, and DoStream, which does not mind a body it cannot read.           *)
ReturnError ==
    /\ phase = "document"
    /\ call \in Streaming \cup Decoding
    /\ status >= 400
    /\ IF document.kind = "lost" /\ call \in Decoding
       THEN Returns("nothing", Plain)
       ELSE Returns("nothing", newAPIError(status, document.says))

(* Variant: the error of Decode is dropped.                                *)
ReturnDecodedLoose ==
    /\ phase = "document"
    /\ call \in Decoding
    /\ status = 200
    /\ IF document.kind = "lost" THEN Returns("nothing", Plain) ELSE Returns("value", Nil)

(* Decode leaves the zero value when there is nothing to decode.           *)
ReturnDecoded ==
    /\ phase = "document"
    /\ call \in Decoding
    /\ status = 200
    /\ CASE document.kind = "whole" -> Returns("value", Nil)
         [] document.kind = "empty" -> Returns("zero", Nil)
         [] document.kind \in {"odd", "cut", "lost"} -> Returns("nothing", Plain)

ReadStream ==
    /\ phase = "stream"
    /\ Read
    /\ UNCHANGED callVars

(* Variant: the call returns while the stream is being read.               *)
ReturnStreamEarly ==
    /\ phase = "stream"
    /\ Returns("nothing", IF end = "refused" THEN Refused
                          ELSE IF end = "broken" THEN Plain ELSE Nil)

ReturnStream ==
    /\ phase = "stream"
    /\ end # "open"
    /\ Returns("nothing", CASE end = "ok" -> Nil
                            [] end = "refused" -> Refused
                            [] end = "broken" -> Plain)

Next ==
    \/ \E m \in Methods : Start(m) \/ StartNil(m)
    \/ Fail \/ AnswerError \/ AnswerDocument \/ AnswerStream
    \/ ReturnRaw \/ ReturnError \/ ReturnDecoded
    \/ ReadStream \/ ReturnStream

Spec == Init /\ [][Next]_vars

-----------------------------------------------------------------------------
(* The payloads of a stream s by the rules of the event stream format,     *)
(* without the parser's state.  Line by line, a data line is one; event by *)
(* event, a blank line, or the end of a stream that was not cut off,       *)
(* closes an event if there are data lines between it and the blank line   *)
(* before it.                                                              *)
Says(s, j, kinds) == s.lines[j].kind \in kinds

EventAt(s, e) ==
    {j \in 1..e - 1 :
        /\ Says(s, j, {"data", "bare"})
        /\ \A i \in j + 1..e - 1 : ~Says(s, i, {"blank"})}

Ends(how, s) ==
    LET n == Len(s.lines)
    IN IF how = "line" THEN {e \in 1..n : Says(s, e, {"data"})}
       ELSE {e \in 1..n + 1 :
                /\ IF e = n + 1 THEN s.ending = "eof" ELSE Says(s, e, {"blank"})
                /\ EventAt(s, e) # {}}

(* How many numbers of E there are up to n, and the k-th of them.          *)
Rank(E, n) == Cardinality({e \in E : e <= n})
Nth(E, k) == CHOOSE e \in E : Rank(E, e) = k

(* The data lines of the event, each behind a NewLine, among the others.   *)
Pieces(s, e) ==
    LET own == EventAt(s, e)
    IN [j \in 1..e - 1 |-> IF j \in own THEN <<NewLine>> \o s.lines[j].value ELSE <<>>]

TextAt(how, s, e) ==
    IF how = "line" THEN s.lines[e].value ELSE Tail(FlattenSeq(Pieces(s, e)))

PayloadsOf ==
    [how \in {"line", "event"} |-> [s \in Streams \cup {Document} |->
        LET E == Ends(how, s)
        IN [k \in 1..Cardinality(E) |-> TextAt(how, s, Nth(E, k))]]]

Promised == PayloadsOf[mode][stream]

Out == [k \in DOMAIN given |-> given[k].text]

D == INSTANCE Delivery WITH
        promised <- Promised, ended <- stream.ending = "eof",
        out <- Out, outcome <- end

-----------------------------------------------------------------------------
(* Properties                                                              *)

(* Line by line or event by event, the parser gives the callback what the  *)
(* stream says, no more, in order, and returns as promised: an empty data  *)
(* line counts, a comment in the middle of an event does not end it, the   *)
(* end of the stream closes the last event (src/sse.go:43-86,              *)
(* src/transport.go:82-100).                                               *)
ImplementsDelivery == D!DeliverySpec

Idle == phase = "idle" /\ status # 0

(* nil means that there is nothing more: a decoded value comes from a      *)
(* whole body, never from one cut at 32 MiB, and a streaming call has      *)
(* handed out every payload of a stream that was not cut off.  Only the    *)
(* methods that return the bytes may return a part, or an error's body     *)
(* (src/transport.go:267-306, src/chat.go:116-133).                        *)
NilMeansAll ==
    Idle /\ err = Nil /\ call \notin Raw =>
        /\ status = 200
        /\ call \in Streaming => stream.ending = "eof" /\ Out = Promised
        /\ call \in Decoding => document.kind = (IF result = "value" THEN "whole" ELSE "empty")

(* Whatever is in the caller's Extra, Chat and the playground's Chat never *)
(* meet an event stream and their streaming twins never a document, which  *)
(* they would take for a stream without payloads and return nil            *)
(* (src/chat.go:112-115, 142-144).                                         *)
AnswerFitsCall ==
    Idle /\ status = 200 =>
        /\ call \in {"ChatStream", "PlaygroundChatStream"} => Streams200
        /\ call \in {"Chat", "PlaygroundChat"} => ~Streams200

(* errors.Is tells the caller which of the four statuses the server gave,  *)
(* and claims none when the call failed otherwise: on the way, in the      *)
(* callback, in decoding; no payload comes before such an error; and it    *)
(* has something to say whenever the server's body had, also one of an     *)
(* unknown shape (src/errors.go:79-134, src/transport.go:73-77, 297-299).  *)
SentinelMeansStatus ==
    /\ phase = "idle" => \A n \in Sentinels :
          Is(err.type, n) =>
            /\ given = <<>>
            /\ status = CASE n = "ErrUnauthorized" -> 401 [] n = "ErrForbidden" -> 403
                          [] n = "ErrNotFound" -> 404 [] n = "ErrRateLimited" -> 429
    /\ Idle /\ status \in ErrorStatuses \ {400} /\ call \notin Raw =>
          \/ \E n \in Sentinels : Is(err.type, n)
          \/ document.kind = "lost" /\ call \in Decoding
    /\ Idle /\ err.status >= 400 /\ document.says.form \in {"text", "object"}
          => err.message # "none"
=============================================================================
