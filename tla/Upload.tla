------------------------------- MODULE Upload -------------------------------
(***************************************************************************)
(* doMultipart (src/transport.go:318-389): the only place where the client *)
(* starts a goroutine.  The writer reads the caller's source and writes    *)
(* the multipart body into an io.Pipe; the HTTP transport reads the pipe   *)
(* and sends what it gets; the caller waits for the answer and closes the  *)
(* reading end of the pipe on every return, without waiting for the        *)
(* writer.                                                                 *)
(*                                                                         *)
(* External: the HTTP transport (it sends what it reads, marks the end of  *)
(* the body at io.EOF, aborts the request at any other error, and closes   *)
(* the body when it gives up), the source, and the server (it answers      *)
(* "ok" to a body that it has seen the end of, anything else at any time). *)
(***************************************************************************)
EXTENDS Naturals, Sequences

CONSTANT Items              \* what the writer goes through, in order

(* The fields, then for each part its header, its chunks and the end of    *)
(* its source (nothing to write), at last the closing boundary.            *)
ASSUME ItemsAssumption ==
    /\ Items \in Seq({"field", "head", "chunk", "eof", "close"})
    /\ Items # << >>
    /\ \A k \in DOMAIN Items :
          /\ Items[k] = "close" <=> k = Len(Items)
          /\ Items[k] = "field" => \A j \in 1..k : Items[j] = "field"
          /\ Items[k] \in {"chunk", "eof"} => k > 1 /\ Items[k - 1] \in {"head", "chunk"}

VARIABLES caller,           \* "build", "do", "body" or "returned"
          result,           \* what the call returned
          done,             \* the context of the call is done
          closed,           \* the reading end of the pipe is closed
          writer,           \* "ready", "source", "pipe" or "ended"
          next,             \* the item the writer is at
          failure,          \* CloseWithError was given an error
          wire,             \* the transport: "off", "reading", "sent", "aborted"
          taken,            \* the items the transport has read
          whole,            \* the server has seen the end of the body
          answer,           \* the server's answer
          late              \* history: reads of the source begun after the return

vars == <<caller, result, done, closed, writer, next, failure, wire, taken,
          whole, answer, late>>

Results == {"none", "ok", "bad", "error"}

UploadTypeOK ==
    /\ caller \in {"build", "do", "body", "returned"}
    /\ result \in Results
    /\ done \in BOOLEAN
    /\ closed \in BOOLEAN
    /\ writer \in {"ready", "source", "pipe", "ended"}
    /\ next \in 1..(Len(Items) + 1)
    /\ failure \in BOOLEAN
    /\ wire \in {"off", "reading", "sent", "aborted"}
    /\ taken \subseteq DOMAIN Items
    /\ whole \in BOOLEAN
    /\ answer \in {"none", "ok", "bad"}
    /\ late \in Nat

(* The writer runs from the start, before there is a request.              *)
Init ==
    /\ caller = "build"
    /\ result = "none"
    /\ done = FALSE
    /\ closed = FALSE
    /\ writer = "ready"
    /\ next = 1
    /\ failure = FALSE
    /\ wire = "off"
    /\ taken = {}
    /\ whole = FALSE
    /\ answer = "none"
    /\ late = 0

writerVars == <<writer, next, failure, late>>
callerVars == <<caller, result, done>>
wireVars == <<wire, taken, whole>>

-----------------------------------------------------------------------------
(* The writer goroutine                                                    *)

More == next \in DOMAIN Items

(* A field, a part's header, or the closing boundary.                      *)
WriteOwn ==
    /\ writer = "ready"
    /\ More
    /\ Items[next] \in {"field", "head", "close"}
    /\ writer' = "pipe"
    /\ UNCHANGED <<callerVars, closed, next, failure, late, wireVars, answer>>

(* io.Copy asks the source for more.                                       *)
ReadSource ==
    /\ writer = "ready"
    /\ More
    /\ Items[next] \in {"chunk", "eof"}
    /\ writer' = "source"
    /\ late' = late + IF caller = "returned" THEN 1 ELSE 0
    /\ UNCHANGED <<callerVars, closed, next, failure, wireVars, answer>>

(* External: the source gives a chunk, or its end.                         *)
SourceGives ==
    /\ writer = "source"
    /\ IF Items[next] = "chunk"
       THEN writer' = "pipe" /\ UNCHANGED next
       ELSE writer' = "ready" /\ next' = next + 1
    /\ UNCHANGED <<callerVars, closed, failure, late, wireVars, answer>>

(* Variant: the pipe is closed, but not with the error.                    *)
SourceFailsUnnoticed ==
    /\ writer = "source"
    /\ writer' = "ended"
    /\ UNCHANGED <<callerVars, closed, next, failure, late, wireVars, answer>>

(* External: the source fails; the error goes into the pipe.               *)
SourceFails ==
    /\ writer = "source"
    /\ writer' = "ended"
    /\ failure' = TRUE
    /\ UNCHANGED <<callerVars, closed, next, late, wireVars, answer>>

(* Variant: an error of the pipe does not end the writer.                  *)
PipeIgnored ==
    /\ writer = "pipe"
    /\ closed
    /\ writer' = "ready"
    /\ next' = next + 1
    /\ UNCHANGED <<callerVars, closed, failure, late, wireVars, answer>>

(* A write into a pipe whose reading end is closed: io.ErrClosedPipe.      *)
PipeClosed ==
    /\ writer = "pipe"
    /\ closed
    /\ writer' = "ended"
    /\ failure' = TRUE
    /\ UNCHANGED <<callerVars, closed, next, late, wireVars, answer>>

(* Everything written: the pipe is closed without an error.                *)
WriterDone ==
    /\ writer = "ready"
    /\ ~More
    /\ writer' = "ended"
    /\ UNCHANGED <<callerVars, closed, next, failure, late, wireVars, answer>>

Writer == WriteOwn \/ ReadSource \/ PipeClosed \/ WriterDone

-----------------------------------------------------------------------------
(* External: the HTTP transport and the server                             *)

Take ==
    /\ wire = "reading"
    /\ writer = "pipe"
    /\ ~closed
    /\ taken' = taken \cup {next}
    /\ writer' = "ready"
    /\ next' = next + 1
    /\ UNCHANGED <<callerVars, closed, failure, late, wire, whole, answer>>

SendEnd ==
    /\ wire = "reading"
    /\ writer = "ended" /\ ~failure
    /\ ~closed
    /\ wire' = "sent"
    /\ whole' = TRUE
    /\ closed' = TRUE
    /\ UNCHANGED <<callerVars, writerVars, taken, answer>>

(* The pipe says an error, the connection breaks, the context is done, or  *)
(* the answer makes the rest of the body useless.                          *)
Abort ==
    /\ wire = "reading"
    /\ wire' = "aborted"
    /\ closed' = TRUE
    /\ UNCHANGED <<callerVars, writerVars, taken, whole, answer>>

Answer ==
    /\ wire # "off"
    /\ answer = "none"
    /\ \/ whole /\ answer' = "ok"
       \/ answer' = "bad"
    /\ UNCHANGED <<callerVars, closed, writerVars, wireVars>>

-----------------------------------------------------------------------------
(* The caller in doMultipart                                               *)

(* Variant: no deferred pr.Close().                                        *)
ReturnOpen(r) ==
    /\ caller' = "returned"
    /\ result' = r
    /\ UNCHANGED closed

(* Variant: the return waits for the writer.                               *)
ReturnJoined(r) ==
    /\ writer = "ended"
    /\ caller' = "returned"
    /\ result' = r
    /\ closed' = TRUE

(* The deferred pr.Close() of every return.                                *)
Return(r) ==
    /\ caller' = "returned"
    /\ result' = r
    /\ closed' = TRUE

(* newRequest fails: no credential, or the login failed.                   *)
BuildFails ==
    /\ caller = "build"
    /\ Return("error")
    /\ UNCHANGED <<done, writerVars, wireVars, answer>>

Do ==
    /\ caller = "build"
    /\ caller' = "do"
    /\ wire' = "reading"
    /\ UNCHANGED <<result, done, closed, writerVars, taken, whole, answer>>

(* An answer ends Do, whether the body has been sent or not.               *)
DoAnswers ==
    /\ caller = "do"
    /\ answer # "none"
    /\ caller' = "body"
    /\ UNCHANGED <<result, done, closed, writerVars, wireVars, answer>>

DoFails ==
    /\ caller = "do"
    /\ done \/ wire = "aborted"
    /\ Return("error")
    /\ UNCHANGED <<done, writerVars, wireVars, answer>>

ReadBody ==
    /\ caller = "body"
    /\ Return(answer)
    /\ UNCHANGED <<done, writerVars, wireVars, answer>>

BodyFails ==
    /\ caller = "body"
    /\ Return("error")
    /\ UNCHANGED <<done, writerVars, wireVars, answer>>

Cancel ==
    /\ caller # "returned"
    /\ ~done
    /\ done' = TRUE
    /\ UNCHANGED <<caller, result, closed, writerVars, wireVars, answer>>

Caller == BuildFails \/ Do \/ DoAnswers \/ DoFails \/ ReadBody

Next ==
    \/ Writer \/ SourceGives \/ SourceFails
    \/ Take \/ SendEnd \/ Abort \/ Answer
    \/ Caller \/ BodyFails \/ Cancel

Spec == Init /\ [][Next]_vars

(* Goroutines run, and the context of the call ends at some time.  Nothing *)
(* is assumed of the source, the network and the server.                   *)
Fairness == WF_vars(Writer) /\ WF_vars(Caller) /\ WF_vars(Cancel)

FairSpec == Spec /\ Fairness

-----------------------------------------------------------------------------
(* Properties                                                              *)

ToWrite == {k \in DOMAIN Items : Items[k] # "eof"}

(* The server sees the end of a body only if it has all of it: a source    *)
(* that fails, or a call that returns, cuts the request off instead of     *)
(* ending it (pw.CloseWithError(err), src/transport.go:338-358).           *)
EndMeansWhole == whole => taken = ToWrite

(* Once the call has returned the writer begins at most one more read of   *)
(* the caller's source: the next write finds the pipe closed               *)
(* (src/transport.go:334-336).  It may begin that one: a caller that takes *)
(* its source back at once shares it with the writer.                      *)
AtMostOneLateRead == late <= 1

(* Every upload returns, even if the source blocks and the server is       *)
(* silent: nothing waits for the writer (src/transport.go:333-375).        *)
UploadReturns == <>(caller = "returned")

(* The writer ends whatever happened to the call, unless its source blocks *)
(* for ever: the pipe is closed on every return                            *)
(* ("否则写端会卡在 io.Copy 上泄漏一个 goroutine", src/transport.go:334).           *)
WriterEnds == <>(writer = "ended") \/ <>[](writer = "source")

(* The inductive invariant behind the safety properties.  The transport    *)
(* has what the writer has passed; the pipe ends without an error only     *)
(* after the last item; after a late read there is a write to make before  *)
(* the next read.                                                          *)
UploadInv ==
    /\ UploadTypeOK
    /\ taken = {k \in ToWrite : k < next}
    /\ writer = "pipe" => next \in ToWrite
    /\ writer = "source" => More /\ Items[next] \in {"chunk", "eof"}
    /\ writer = "ended" /\ ~failure => ~More
    /\ failure => writer = "ended"
    /\ whole => writer = "ended" /\ ~failure
    /\ caller = "returned" => closed
    /\ late > 0 => /\ caller = "returned"
                   /\ writer = "ready" => More /\ Items[next] \in {"head", "close"}
    /\ AtMostOneLateRead
=============================================================================
