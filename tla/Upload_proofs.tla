---------------------------- MODULE Upload_proofs ----------------------------
(***************************************************************************)
(* Proofs about Upload, for any fields and files.                          *)
(***************************************************************************)
EXTENDS TLAPS, Upload

(* What the steps need of the list of items.                               *)
LEMMA ItemsShape ==
    /\ Len(Items) \in Nat
    /\ DOMAIN Items = 1..Len(Items)
    /\ Len(Items) > 0
    /\ \A k \in DOMAIN Items :
         /\ Items[k] \in {"field", "head", "chunk", "eof", "close"}
         /\ Items[k] = "eof" => k + 1 \in DOMAIN Items /\ Items[k + 1] \in {"head", "close"}
<1>1. /\ Len(Items) \in Nat
      /\ DOMAIN Items = 1..Len(Items)
      /\ Len(Items) > 0
      /\ \A k \in DOMAIN Items : Items[k] \in {"field", "head", "chunk", "eof", "close"}
  BY ItemsAssumption
<1>2. ASSUME NEW k \in DOMAIN Items, Items[k] = "eof"
      PROVE  k + 1 \in DOMAIN Items /\ Items[k + 1] \in {"head", "close"}
  <2>1. k + 1 \in DOMAIN Items /\ (k + 1) - 1 = k
    BY <1>1, <1>2, ItemsAssumption
  <2>2. /\ Items[k + 1] = "field" => \A j \in 1..(k + 1) : Items[j] = "field"
        /\ Items[k + 1] \in {"chunk", "eof"} => Items[(k + 1) - 1] \in {"head", "chunk"}
    BY <2>1, ItemsAssumption
  <2>3. k \in 1..(k + 1)
    BY <1>1
  <2>4. Items[k + 1] \notin {"field", "chunk", "eof"}
    BY <1>2, <2>1, <2>2, <2>3
  <2> QED
    BY <1>1, <2>1, <2>4
<1> QED
  BY <1>1, <1>2

(* Nothing is taken before the writer has written.                         *)
LEMMA UploadInvInit == Init => UploadInv
<1> SUFFICES ASSUME Init PROVE UploadInv
  OBVIOUS
<1>1. next \in 1..(Len(Items) + 1) /\ {k \in ToWrite : k < next} = {}
  BY ItemsShape DEF Init, ToWrite
<1>2. UploadTypeOK
  BY <1>1 DEF Init, UploadTypeOK, Results
<1>3. /\ taken = {k \in ToWrite : k < next}
      /\ writer = "ready" /\ ~failure /\ ~whole /\ caller = "build" /\ late = 0
  BY <1>1 DEF Init
<1> QED
  BY <1>2, <1>3 DEF UploadInv, AtMostOneLateRead

(* Each step preserves the invariant.                                      *)
LEMMA UploadInvStep == UploadInv /\ [Next]_vars => UploadInv'
<1> SUFFICES ASSUME UploadInv, [Next]_vars PROVE UploadInv'
  OBVIOUS
<1> USE ItemsShape
    DEF UploadInv, UploadTypeOK, Results, ToWrite, More, AtMostOneLateRead
<1>1. CASE UNCHANGED vars
  BY <1>1 DEF vars
<1>2. CASE WriteOwn
  BY <1>2 DEF WriteOwn, callerVars, wireVars
<1>3. CASE ReadSource
  BY <1>3 DEF ReadSource, callerVars, wireVars
<1>4. CASE SourceGives
  <2>1. CASE Items[next] = "chunk"
    BY <1>4, <2>1 DEF SourceGives, callerVars, wireVars
  <2>2. CASE Items[next] = "eof"
    <3>1. /\ writer' = "ready" /\ next' = next + 1
          /\ UNCHANGED <<callerVars, closed, failure, late, wireVars, answer>>
      BY <1>4, <2>2 DEF SourceGives
    <3>2. next \in DOMAIN Items /\ next' \in DOMAIN Items /\ Items[next'] \in {"head", "close"}
      BY <1>4, <2>2, <3>1 DEF SourceGives
    <3>3. {k \in ToWrite : k < next'} = {k \in ToWrite : k < next}
      BY <2>2, <3>1, <3>2
    <3> QED
      BY <1>4, <3>1, <3>2, <3>3 DEF SourceGives, callerVars, wireVars
  <2> QED
    BY <1>4, <2>1, <2>2 DEF SourceGives
<1>5. CASE SourceFails
  BY <1>5 DEF SourceFails, callerVars, wireVars
<1>6. CASE PipeClosed
  BY <1>6 DEF PipeClosed, callerVars, wireVars
<1>7. CASE WriterDone
  BY <1>7 DEF WriterDone, callerVars, wireVars
<1>8. CASE Take
  <2>1. /\ writer = "pipe" /\ writer' = "ready" /\ next' = next + 1
        /\ taken' = taken \cup {next} /\ ~closed
        /\ UNCHANGED <<caller, result, done, closed, failure, late, wire, whole, answer>>
    BY <1>8 DEF Take, callerVars
  <2>2. next \in ToWrite /\ next \in Nat
    BY <2>1
  <2>3. {k \in ToWrite : k < next'} = {k \in ToWrite : k < next} \cup {next}
    BY <2>1, <2>2
  <2>4. next' \in 1..(Len(Items) + 1) /\ taken' \subseteq DOMAIN Items
    BY <2>1, <2>2
  <2>5. caller # "returned" /\ ~failure /\ ~whole /\ late = 0
    BY <2>1
  <2>6. taken' = {k \in ToWrite : k < next'}
    BY <2>1, <2>3
  <2>7. UploadTypeOK'
    BY <2>1, <2>4
  <2> QED
    BY <2>1, <2>5, <2>6, <2>7
<1>9. CASE SendEnd
  BY <1>9 DEF SendEnd, callerVars, writerVars
<1>10. CASE Abort
  BY <1>10 DEF Abort, callerVars, writerVars
<1>11. CASE Answer
  BY <1>11 DEF Answer, callerVars, writerVars, wireVars
<1>12. CASE BuildFails \/ DoFails \/ ReadBody \/ BodyFails
  <2>1. /\ caller # "returned" /\ caller' = "returned" /\ closed' = TRUE
        /\ result' \in {"error", answer}
        /\ UNCHANGED <<done, writer, next, failure, late, wire, taken, whole, answer>>
    BY <1>12 DEF BuildFails, DoFails, ReadBody, BodyFails, Return, writerVars, wireVars
  <2>2. late = 0
    BY <2>1
  <2>3. UploadTypeOK'
    BY <2>1
  <2> QED
    BY <2>1, <2>2, <2>3
<1>13. CASE Do
  BY <1>13 DEF Do, writerVars
<1>14. CASE DoAnswers
  BY <1>14 DEF DoAnswers, writerVars, wireVars
<1>15. CASE Cancel
  BY <1>15 DEF Cancel, writerVars, wireVars
<1> QED
  BY <1>1, <1>2, <1>3, <1>4, <1>5, <1>6, <1>7, <1>8, <1>9, <1>10, <1>11, <1>12,
     <1>13, <1>14, <1>15
     DEF Next, Writer, Caller

(* The invariant holds for any fields and files.                           *)
THEOREM UploadInvariant == Spec => []UploadInv
  BY UploadInvInit, UploadInvStep, PTL DEF Spec

(* A body that the server sees the end of is complete, whatever failed.    *)
THEOREM NoTruncatedUpload == Spec => []EndMeansWhole
<1>1. UploadInv => EndMeansWhole
  BY ItemsShape DEF UploadInv, UploadTypeOK, EndMeansWhole, ToWrite, More
<1> QED
  BY <1>1, UploadInvariant, PTL

(* After the return at most one read of the source begins.                 *)
THEOREM SourceReadOnceLate == Spec => []AtMostOneLateRead
<1>1. UploadInv => AtMostOneLateRead
  BY DEF UploadInv
<1> QED
  BY <1>1, UploadInvariant, PTL
=============================================================================
