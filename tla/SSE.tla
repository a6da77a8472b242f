-------------------------------- MODULE SSE --------------------------------
(***************************************************************************)
(* The reading of an event stream (src/sse.go, src/transport.go:81-100),   *)
(* line by line or event by event (WithSSEEventMode).  A line is its kind  *)
(* and its value, a sequence of tokens; line ends, the optional space      *)
(* after the colon and the trailing \r are gone.  bufio.Scanner is         *)
(* external: it hands out the lines one by one, and what is left of a      *)
(* stream that fails as a last line, before it reports the failure; a line *)
(* above the limit it does not hand out at all.                            *)
(***************************************************************************)
EXTENDS Naturals, Sequences

CONSTANTS Tokens,           \* pieces of text
          Values,           \* values of data lines: sequences of tokens
          NewLine,          \* the token that joins the lines of an event
          MaxLines          \* bound: lines of a stream

ASSUME StreamAssumption ==
    /\ Values \subseteq Seq(Tokens)
    /\ NewLine \in Tokens
    /\ MaxLines \in Nat

(* "data: v", "data" without a colon, ": comment", another field, "".      *)
Kinds == {"data", "bare", "comment", "other", "blank"}

(* A line that is not whole is what arrived of it before the stream broke. *)
Line(k, v, w) == [kind |-> k, value |-> v, whole |-> w]
Lines ==
    {Line("data", v, TRUE) : v \in Values} \cup
    {Line(k, <<>>, TRUE) : k \in Kinds \ {"data"}}

(* A broken data line may stop anywhere: "dat", "data", "data: par".       *)
BrokenLines ==
    {Line("data", v, FALSE) : v \in Values} \cup
    {Line(k, <<>>, FALSE) : k \in {"bare", "comment", "other"}}

Ending == {"eof", "error", "toolong"}
LineSeqs == UNION {[1..n -> Lines] : n \in 0..MaxLines}
Streams ==
    [lines : LineSeqs, ending : Ending] \cup
    {[lines |-> Append(s, l), ending |-> "error"] :
        s \in {t \in LineSeqs : Len(t) < MaxLines}, l \in BrokenLines}

(* A document where a stream was expected: lines without any data field.   *)
Document == [lines |-> <<Line("other", <<>>, TRUE)>>, ending |-> "eof"]

-----------------------------------------------------------------------------
VARIABLES mode,         \* "line" or "event": c.sseEventMode
          stream,       \* the body of the answer
          pos,          \* lines scanned
          haveData,     \* parseSSEEvents: the event has a data line
          clean,        \* history: all its lines are whole
          buf,          \* the allocation that the next payload grows in
          memory,       \* contents of the scanner's buffer (0) and of the others
          given,        \* what the callback was given: where it is, what it was
          end           \* "open", or how the reading ended
sseVars == <<mode, stream, pos, haveData, clean, buf, memory, given, end>>

Payload(cell, text, whole) == [cell |-> cell, text |-> text, whole |-> whole]

SSEInit ==
    /\ mode \in {"line", "event"}
    /\ stream = Document
    /\ pos = 0
    /\ haveData = FALSE
    /\ clean = TRUE
    /\ buf = 1
    /\ memory = [c \in {0, 1} |-> <<>>]
    /\ given = <<>>
    /\ end = "none"

(* A new call: nothing of the last stream is left, and no stream yet; then *)
(* streamSSE is called on a body.                                          *)
Clear(s, state) ==
    /\ end # "open"
    /\ stream' = s
    /\ pos' = 0
    /\ haveData' = FALSE
    /\ clean' = TRUE
    /\ buf' = 1
    /\ memory' = [c \in {0, 1} |-> <<>>]
    /\ given' = <<>>
    /\ end' = state
    /\ UNCHANGED mode
Close == Clear(Document, "none")
Begin(s) == Clear(s, "open")

Scanned == stream.lines[pos + 1]
Scan(kinds) ==
    /\ end = "open"
    /\ pos < Len(stream.lines)
    /\ Scanned.kind \in kinds
    /\ pos' = pos + 1
    /\ UNCHANGED <<mode, stream>>

-----------------------------------------------------------------------------
(* Line mode                                                               *)

(* The payload is a slice of the scanner's buffer, which the next Scan     *)
(* may overwrite.                                                          *)
DeliverLine ==
    /\ mode = "line"
    /\ Scan({"data"})
    /\ memory' = [memory EXCEPT ![0] = Scanned.value]
    /\ given' = Append(given, Payload(0, Scanned.value, Scanned.whole))
    /\ end' \in {"open", "refused"}
    /\ UNCHANGED <<haveData, clean, buf>>

SkipLine ==
    /\ Scan(IF mode = "line" THEN Kinds \ {"data"} ELSE {"comment", "other"})
    /\ memory' = [memory EXCEPT ![0] = Scanned.value]
    /\ UNCHANGED <<haveData, clean, buf, given, end>>

-----------------------------------------------------------------------------
(* Event mode                                                              *)

(* Variant: a separator only after text, not after an empty line.          *)
GatherAfterText ==
    /\ mode = "event"
    /\ Scan({"data", "bare"})
    /\ memory' = [memory EXCEPT
         ![buf] = (IF @ # <<>> THEN Append(@, NewLine) ELSE @) \o Scanned.value]
    /\ haveData' = TRUE
    /\ clean' = (clean /\ Scanned.whole)
    /\ UNCHANGED <<buf, given, end>>

Gather ==
    /\ mode = "event"
    /\ Scan({"data", "bare"})
    /\ memory' = [memory EXCEPT
         ![buf] = (IF haveData THEN Append(@, NewLine) ELSE @) \o Scanned.value]
    /\ haveData' = TRUE
    /\ clean' = (clean /\ Scanned.whole)
    /\ UNCHANGED <<buf, given, end>>

(* Variant: the buffer is emptied and used again (buf = buf[:0]).          *)
FlushReuse(after) ==
    /\ haveData
    /\ given' = Append(given, Payload(buf, memory[buf], clean))
    /\ memory' = [memory EXCEPT ![buf] = <<>>]
    /\ haveData' = FALSE
    /\ clean' = TRUE
    /\ end' \in {after, "refused"}
    /\ UNCHANGED buf

(* buf = nil: what follows goes to an allocation of its own.               *)
Flush(after) ==
    /\ haveData
    /\ given' = Append(given, Payload(buf, memory[buf], clean))
    /\ buf' = buf + 1
    /\ memory' = [c \in 0..buf + 1 |-> IF c = buf + 1 THEN <<>> ELSE memory[c]]
    /\ haveData' = FALSE
    /\ clean' = TRUE
    /\ end' \in {after, "refused"}

Blank ==
    /\ mode = "event"
    /\ Scan({"blank"})
    /\ \/ Flush("open")
       \/ ~haveData /\ UNCHANGED <<haveData, clean, buf, memory, given, end>>

-----------------------------------------------------------------------------
AtEnd == end = "open" /\ pos = Len(stream.lines)

(* Variant: the event at hand is delivered though the stream broke.        *)
FlushLastAlways ==
    /\ AtEnd
    /\ mode = "event"
    /\ Flush(IF stream.ending = "eof" THEN "ok" ELSE "broken")
    /\ UNCHANGED <<mode, stream, pos>>

(* The end of the stream closes the last event.                            *)
FlushLast ==
    /\ AtEnd
    /\ stream.ending = "eof"
    /\ mode = "event"
    /\ Flush("ok")
    /\ UNCHANGED <<mode, stream, pos>>

(* sc.Scan() is false: an error of the scanner ends the call, and drops    *)
(* the event that was being read.                                          *)
Return ==
    /\ AtEnd
    /\ stream.ending = "eof" => ~haveData
    /\ end' = IF stream.ending = "eof" THEN "ok" ELSE "broken"
    /\ UNCHANGED <<mode, stream, pos, haveData, clean, buf, memory, given>>

Read == DeliverLine \/ SkipLine \/ Gather \/ Blank \/ FlushLast \/ Return

-----------------------------------------------------------------------------
(* Properties                                                              *)

(* In event mode a payload that a callback keeps is never overwritten by   *)
(* the events that follow (src/sse.go:51): no two payloads share their     *)
(* bytes, and the parser does not write to what it has given away.  (In    *)
(* line mode it is valid during the callback only, src/transport.go:64.)   *)
PayloadsSurvive ==
    mode = "event" =>
        \A k \in 1..Len(given) : memory[given[k].cell] = given[k].text

(* A callback is given a part of a payload only in line mode, as the last  *)
(* payload of a stream that broke, and the call then returns an error: the *)
(* scanner hands out what is left before it reports the failure            *)
(* (src/transport.go:86-98).  Event mode drops the event the failure cut   *)
(* in two (src/sse.go:82-85).                                              *)
PartOnlyBeforeError ==
    \A k \in 1..Len(given) : ~given[k].whole =>
        /\ mode = "line"
        /\ k = Len(given)
        /\ end \in {"open", "refused", "broken"}
        /\ stream.ending = "error"
=============================================================================
