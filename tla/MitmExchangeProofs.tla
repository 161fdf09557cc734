-------------------------- MODULE MitmExchangeProofs ------------------------
(* Proofs about MitmExchange, for bodies of any length.                      *)
EXTENDS MitmExchange, TLAPS

-----------------------------------------------------------------------------
(* The inductive invariant. *)

Before == {"filterReq", "dial", "roundtrip", "closeReq", "waitReq", "filterResp"}
Quiet(s) == up[s] \in {"off", "done"}

(* Which uploader can be running at which point of the handler. *)
Stages ==
  /\ h \in {"filterReq", "dial"} => w = "off"
  /\ h = "filterReq" => ~captured["req"]
  /\ h \in Before => ~captured["resp"]
  /\ h \notin Before \/ h = "filterResp" => Quiet("req")
  /\ h = "done" => Quiet("resp")

(* What a capture, its uploader and its pipe say of each other. *)
Captures ==
  \A s \in Sides :
    /\ captured[s] <=> up[s] # "off"
    /\ ~captured[s] => ~Putting(s) /\ ~wend[s] /\ ~capture[s].uploaded
    /\ rend[s] => up[s] = "done"
    /\ capture[s].err \in {"minio", "short"} => up[s] = "done"
    /\ capture[s].err = "closed" => wend[s] \/ rend[s]
    /\ capture[s].uploaded => up[s] = "done" /\ capture[s].size = got[s]

(* As long as no error is recorded, the uploader has everything that was     *)
(* read but the chunk being handed over.                                     *)
Counts ==
  /\ \A s \in Sides :
       /\ ~captured[s] => got[s] = 0
       /\ captured[s] /\ capture[s].err = "none"
            => readN[s] = got[s] + (IF Putting(s) THEN 1 ELSE 0)
  /\ h = "filterReq" => readN["req"] = 0
  /\ h \in Before => readN["resp"] = 0

(* What was sent, once it is sent. *)
Report ==
  exch.state # "none" =>
    /\ h = "done"
    /\ \A s \in Sides :
         /\ exch.capture[s].uploaded = capture[s].uploaded
         /\ exch.capture[s].size = capture[s].size

IInv == TypeOK /\ Stages /\ Captures /\ Counts /\ Report

-----------------------------------------------------------------------------

LEMMA InitIInv == Init => IInv
<1> SUFFICES ASSUME Init PROVE IInv
    OBVIOUS
<1> USE ChunkAssumption DEF Init
<1>1. 0 \in Count /\ NoBody \in Body /\ EmptyCapture \in BodyCapture
  BY DEF Count, NoBody, Body, EmptyCapture, BodyCapture
<1>2. TypeOK
  <2>1. body \in [Sides -> Body]
    BY <1>1
  <2>2. exch \in Exchange /\ capture \in [Sides -> BodyCapture]
    BY <1>1 DEF Exchange
  <2>3. QED
    BY <1>1, <2>1, <2>2 DEF TypeOK, Count
<1>3. Stages /\ Report
  BY DEF Stages, Before, Quiet, Report, Sides
<1>4. Captures /\ Counts
  BY DEF Captures, Counts, Putting, EmptyCapture, Sides, Before
<1>5. QED
  BY <1>2, <1>3, <1>4 DEF IInv

(* The handler.                                                              *)
LEMMA HandlerSteps == IInv /\ Handler => IInv'
<1> SUFFICES ASSUME IInv, Handler PROVE IInv'
    OBVIOUS
<1> USE ChunkAssumption DEF fixed, pipeVars, upVars
<1>1. CASE FilterRequest
  <2> USE <1>1 DEF FilterRequest, BuildBodyReader
  <2> PICK c \in BOOLEAN : /\ captured' = [captured EXCEPT !["req"] = c]
                         /\ up' = [up EXCEPT !["req"] = IF c THEN "read" ELSE "off"]
    OBVIOUS
  <2>1. TypeOK'
    BY DEF IInv, TypeOK, Sides, Count
  <2>2. Stages'
    BY DEF IInv, TypeOK, Stages, Captures, Before, Quiet, Sides
  <2>3. Captures'
    BY DEF IInv, TypeOK, Stages, Captures, Before, Putting, Sides, BodyCapture
  <2>4. Counts'
    BY DEF IInv, TypeOK, Stages, Captures, Counts, Before, Putting, Sides, BodyCapture, Count
  <2>5. Report'
    BY DEF IInv, TypeOK, Stages, Report, Before, Quiet, Sides, BodyCapture, Exchange
  <2>6. QED
    BY <2>1, <2>2, <2>3, <2>4, <2>5 DEF IInv
<1>2. CASE Dial
  BY <1>2 DEF Dial, IInv, TypeOK, Stages, Captures, Counts, Report, Before, Putting
<1>3. CASE RoundTrip
  BY <1>3 DEF RoundTrip, IInv, TypeOK, Stages, Captures, Counts, Report, Before,
     Putting, Quiet
<1>4. CASE CloseReq
  BY <1>4 DEF CloseReq, ClosePipe, IInv, TypeOK, Stages, Captures, Counts, Report,
     Before, Putting, Quiet, Sides
<1>5. CASE ReqClosed
  BY <1>5 DEF ReqClosed, Uploaded, IInv, TypeOK, Stages, Captures, Counts, Report,
     Before, Putting, Quiet, Sides
<1>6. CASE FilterResponse
  <2> USE <1>6 DEF FilterResponse, BuildBodyReader
  <2> PICK c \in BOOLEAN : /\ captured' = [captured EXCEPT !["resp"] = c]
                         /\ up' = [up EXCEPT !["resp"] = IF c THEN "read" ELSE "off"]
    OBVIOUS
  <2> PICK b \in Body : body' = [body EXCEPT !["resp"] = b]
    OBVIOUS
  <2>1. TypeOK'
    BY DEF IInv, TypeOK, Sides, Count
  <2>2. Stages'
    BY DEF IInv, TypeOK, Stages, Captures, Before, Quiet, Sides
  <2>3. Captures'
    BY DEF IInv, TypeOK, Stages, Captures, Before, Putting, Sides, BodyCapture
  <2>4. Counts'
    BY DEF IInv, TypeOK, Stages, Captures, Counts, Before, Putting, Sides, BodyCapture, Count
  <2>5. Report'
    BY DEF IInv, TypeOK, Stages, Report, Before, Quiet, Sides, BodyCapture, Exchange
  <2>6. QED
    BY <2>1, <2>2, <2>3, <2>4, <2>5 DEF IInv
<1>7. CASE Respond
  <2> USE <1>7 DEF Respond
  <2>1. TypeOK'
    BY DEF IInv, TypeOK, Sides, Count
  <2>2. Stages'
    BY DEF IInv, TypeOK, Stages, Captures, Before, Quiet, Sides
  <2>3. Captures'
    BY DEF IInv, TypeOK, Stages, Captures, Before, Putting, Sides, BodyCapture
  <2>4. Counts'
    BY DEF IInv, TypeOK, Stages, Captures, Counts, Before, Putting, Sides, BodyCapture, Count
  <2>5. Report'
    BY DEF IInv, TypeOK, Stages, Report, Before, Quiet, Sides, BodyCapture, Exchange
  <2>6. QED
    BY <2>1, <2>2, <2>3, <2>4, <2>5 DEF IInv
<1>8. CASE ReadResp
  BY <1>8 DEF ReadResp, IInv, TypeOK, Stages, Captures, Counts, Report, Before,
     Putting, Quiet, Sides, Count, Body
<1>9. CASE WriteResp
  BY <1>9 DEF WriteResp, IInv, TypeOK, Stages, Captures, Counts, Report, Before,
     Putting, Quiet
<1>10. CASE CloseResp
  BY <1>10 DEF CloseResp, ClosePipe, IInv, TypeOK, Stages, Captures, Counts, Report,
     Before, Putting, Quiet, Sides
<1>11. CASE SendExchange
  BY <1>11 DEF SendExchange, Send, Uploaded, IInv, TypeOK, Stages, Captures, Counts,
     Report, Before, Putting, Quiet, Sides, BodyCapture, Exchange
<1>12. QED
  BY <1>1, <1>2, <1>3, <1>4, <1>5, <1>6, <1>7, <1>8, <1>9, <1>10, <1>11 DEF Handler

(* The writer of the Transport.                                              *)
LEMMA WriterSteps == IInv /\ Writer => IInv'
<1> SUFFICES ASSUME IInv, Writer PROVE IInv'
    OBVIOUS
<1> USE ChunkAssumption DEF fixed, pipeVars, upVars
<1>1. CASE ReadReq
  BY <1>1 DEF ReadReq, IInv, TypeOK, Stages, Captures, Counts, Report, Before,
     Putting, Quiet, Sides, Count, Body
<1>2. CASE WriterClose
  BY <1>2 DEF WriterClose, ClosePipe, IInv, TypeOK, Stages, Captures, Counts, Report,
     Before, Putting, Quiet, Sides
<1>3. CASE WriterDone
  BY <1>3 DEF WriterDone, Uploaded, IInv, TypeOK, Stages, Captures, Counts, Report,
     Before, Putting, Quiet, Sides
<1>4. QED
  BY <1>1, <1>2, <1>3 DEF Writer

(* A chunk handed over, or refused.                                          *)
LEMMA PipeSteps == IInv /\ (\E s \in Sides : Pipe(s)) => IInv'
<1> SUFFICES ASSUME IInv, NEW s \in Sides, Pipe(s) PROVE IInv'
    OBVIOUS
<1> USE ChunkAssumption DEF fixed, pipeVars, upVars
<1>1. CASE Transfer(s)
  BY <1>1 DEF Transfer, PutReturns, IInv, TypeOK, Stages, Captures, Counts, Report,
     Before, Quiet, Putting, Sides, Count, Body, BodyCapture, Exchange
<1>2. CASE PutBroken(s)
  BY <1>2 DEF PutBroken, PutReturns, IInv, TypeOK, Stages, Captures, Counts, Report,
     Before, Quiet, Putting, Sides, Count, Body, BodyCapture, Exchange
<1>3. QED
  BY <1>1, <1>2 DEF Pipe

(* The uploaders.                                                            *)
LEMMA UploadSteps == IInv /\ (\E s \in Sides : Uploader(s)) => IInv'
<1> SUFFICES ASSUME IInv, NEW s \in Sides, Uploader(s) PROVE IInv'
    OBVIOUS
<1> USE ChunkAssumption DEF fixed, pipeVars, upVars
<1>1. CASE UploadPut(s)
  BY <1>1 DEF UploadPut, IInv, TypeOK, Stages, Captures, Counts, Report, Before,
     Putting, Quiet, Sides
<1>2. CASE UploadOk(s)
  <2> USE <1>2 DEF UploadOk, UploadDone
  <2>1. TypeOK'
    BY DEF IInv, TypeOK, Sides, Count, BodyCapture
  <2>2. Stages'
    BY DEF IInv, TypeOK, Stages, Captures, Before, Quiet, Sides
  <2>3. Captures'
    BY DEF IInv, TypeOK, Stages, Captures, Before, Putting, Sides, BodyCapture
  <2>4. Counts'
    BY DEF IInv, TypeOK, Stages, Captures, Counts, Before, Putting, Sides, BodyCapture, Count
  <2>5. Report'
    BY DEF IInv, TypeOK, Stages, Report, Before, Quiet, Sides, BodyCapture, Exchange
  <2>6. QED
    BY <2>1, <2>2, <2>3, <2>4, <2>5 DEF IInv
<1>3. CASE UploadShort(s)
  <2> USE <1>3 DEF UploadShort, UploadDone, Failed
  <2>1. TypeOK'
    BY DEF IInv, TypeOK, Sides, Count, BodyCapture
  <2>2. Stages'
    BY DEF IInv, TypeOK, Stages, Captures, Before, Quiet, Sides
  <2>3. Captures'
    BY DEF IInv, TypeOK, Stages, Captures, Before, Putting, Sides, BodyCapture
  <2>4. Counts'
    BY DEF IInv, TypeOK, Stages, Captures, Counts, Before, Putting, Sides, BodyCapture, Count
  <2>5. Report'
    BY DEF IInv, TypeOK, Stages, Report, Before, Quiet, Sides, BodyCapture, Exchange
  <2>6. QED
    BY <2>1, <2>2, <2>3, <2>4, <2>5 DEF IInv
<1>4. CASE UploadFails(s)
  <2> USE <1>4 DEF UploadFails, UploadDone, Failed
  <2>1. TypeOK'
    BY DEF IInv, TypeOK, Sides, Count, BodyCapture
  <2>2. Stages'
    BY DEF IInv, TypeOK, Stages, Captures, Before, Quiet, Sides
  <2>3. Captures'
    BY DEF IInv, TypeOK, Stages, Captures, Before, Putting, Sides, BodyCapture
  <2>4. Counts'
    BY DEF IInv, TypeOK, Stages, Captures, Counts, Before, Putting, Sides, BodyCapture, Count
  <2>5. Report'
    BY DEF IInv, TypeOK, Stages, Report, Before, Quiet, Sides, BodyCapture, Exchange
  <2>6. QED
    BY <2>1, <2>2, <2>3, <2>4, <2>5 DEF IInv
<1>5. QED
  BY <1>1, <1>2, <1>3, <1>4 DEF Uploader

(* The switch in the UI. *)
LEMMA ToggleStep == IInv /\ Toggle => IInv'
<1> SUFFICES ASSUME IInv, Toggle PROVE IInv'
    OBVIOUS
<1> USE DEF Toggle, pipeVars, upVars
<1>1. TypeOK'
  BY DEF IInv, TypeOK
<1>2. Stages' /\ Report'
  BY DEF IInv, Stages, Report, Quiet
<1>3. Captures' /\ Counts'
  BY DEF IInv, Captures, Counts, Putting
<1>4. QED
  BY <1>1, <1>2, <1>3 DEF IInv

LEMMA NextIInv == IInv /\ [Next]_vars => IInv'
<1> SUFFICES ASSUME IInv, [Next]_vars PROVE IInv'
    OBVIOUS
<1>1. CASE Next
  BY <1>1, HandlerSteps, WriterSteps, PipeSteps, UploadSteps, ToggleStep DEF Next
<1>2. CASE UNCHANGED vars
  BY <1>2 DEF vars, fixed, pipeVars, upVars, IInv, TypeOK, Stages, Captures, Counts, Report, Quiet, Putting
<1>3. QED
  BY <1>1, <1>2

-----------------------------------------------------------------------------
(* The theorems. *)

(* IInv is inductive, so it holds in every reachable state of any instance.  *)
THEOREM Inductive == Spec => []IInv
<1>1. QED
  BY InitIInv, NextIInv, PTL DEF Spec

(* Every variable keeps its type; in particular an uploader never takes more *)
(* chunks than were read.                                                    *)
THEOREM TypeCorrect == Spec => []TypeOK
<1>1. IInv => TypeOK
  BY DEF IInv
<1>2. QED
  BY <1>1, Inductive, PTL

(* No uploader outlives its request, on any way out of processRequest.       *)
THEOREM NoLeak == Spec => []NoUploadLeft
<1>1. IInv => NoUploadLeft
  BY DEF IInv, Stages, NoUploadLeft, Quiet, Sides, Before
<1>2. QED
  BY <1>1, Inductive, PTL

(* No upload changes its result after the exchange has been sent.            *)
THEOREM ReportIsFinal == Spec => []SentIsFinal
<1>1. IInv => SentIsFinal
  BY DEF IInv, Stages, Report, SentIsFinal, Quiet, Sides, Before
<1>2. QED
  BY <1>1, Inductive, PTL

(* A body reported as stored without an error is stored as far as it was     *)
(* read, for bodies of any length.                                           *)
THEOREM StoredIsRead == Spec => []CaptureHonest
<1>1. IInv => CaptureHonest
  BY DEF IInv, TypeOK, Captures, Counts, CaptureHonest, Count
<1>2. QED
  BY <1>1, Inductive, PTL

(* The handler is done with an answer only after SendExchange, and what its  *)
(* report depends on does not change after that.                             *)
LEMMA ReportedKept == ResponseReported /\ [Next]_vars => ResponseReported'
<1> SUFFICES ASSUME ResponseReported, [Next]_vars PROVE ResponseReported'
    OBVIOUS
<1> USE DEF fixed, pipeVars, upVars, ResponseReported
<1>1. CASE SendExchange
  BY <1>1 DEF SendExchange, Send
<1>2. CASE Handler /\ ~SendExchange
  <2>1. h' # "done" \/ rt' # "ok"
    BY <1>2 DEF Handler, FilterRequest, Dial, RoundTrip, CloseReq, ReqClosed, FilterResponse,
       Respond, ReadResp, WriteResp, CloseResp
  <2>2. QED
    BY <2>1
<1>3. CASE Writer \/ UNCHANGED vars
  BY <1>3 DEF Writer, ReadReq, WriterClose, WriterDone, vars
<1>4. ASSUME NEW s \in Sides, Pipe(s) \/ Uploader(s) PROVE ResponseReported'
  <2>1. UNCHANGED <<rt, mitm, steady, skip, exch>> /\ h' \in {h, "write"}
    BY <1>4 DEF Pipe, Transfer, PutBroken, PutReturns, Uploader, UploadPut, UploadDone, UploadOk,
       UploadShort, UploadFails
  <2>2. QED
    BY <2>1
<1>5. CASE Toggle
  BY <1>5 DEF Toggle
<1>6. QED
  BY <1>1, <1>2, <1>3, <1>4, <1>5 DEF Next

(* With MITM on throughout, every answer that is not a websocket upgrade is  *)
(* reported, whichever way the handler leaves, for bodies of any length.     *)
THEOREM EveryAnswerReported == Spec => []ResponseReported
<1>1. Init => ResponseReported
  BY DEF Init, ResponseReported
<1>2. QED
  BY <1>1, ReportedKept, PTL DEF Spec
=============================================================================
