---------------------------- MODULE MitmExchange ----------------------------
(***************************************************************************)
(* One request of a keep-alive handler (the engine or the MITM loop) with  *)
(* the capture of its bodies: bodyCaptReader hands every chunk it reads to *)
(* an uploader goroutine over an io.Pipe, Close waits for the uploader,    *)
(* and closing the response body at last sends the exchange to the UI.     *)
(*                                                                         *)
(* Three goroutines and two uploaders take part.  The handler reads and    *)
(* closes the response body; the writer of net/http's Transport reads and  *)
(* closes the request body, and the handler closes it a second time when   *)
(* RoundTrip has returned, which may be before the writer is through.      *)
(*                                                                         *)
(* Atomicity.  io.Pipe is a rendezvous: a chunk is handed over in one step *)
(* of both sides.  Capture is written by the uploader before doneCh is     *)
(* closed, and by a reader whose Write fails.                              *)
(***************************************************************************)
EXTENDS Integers

CONSTANT MaxChunks   \* bound on the chunks of a body

ASSUME ChunkAssumption == MaxChunks \in Nat

Sides == {"req", "resp"}
Count == 0 .. MaxChunks

VARIABLES
  mitm,      \* Config.MitmEnabled, which the UI may switch at any time
  steady,    \* it has not been switched during this request
  body,      \* of each side: is its length known, how long, is it sent on
  h,         \* where the handler is
  w,         \* where the Transport's writer is
  rt,        \* how RoundTrip returned
  skip,      \* exchangeCapture.skipSend
  captured,  \* the body of this side has a capture
  readN,     \* chunks read from the inner body
  wend, rend, \* which ends of each pipe are closed
  up,        \* where each uploader is
  got,       \* chunks each uploader took from its pipe
  capture,   \* the BodyCapture of each side
  exch       \* what SendExchange has sent

pipeVars == <<readN, wend, rend>>
upVars == <<up, got, capture>>
fixed == <<body, mitm, steady>>
vars == <<fixed, h, w, rt, skip, captured, pipeVars, upVars, exch>>

BodyCapture ==
  [uploaded : BOOLEAN, size : Count, err : {"none", "minio", "short", "closed"}]
EmptyCapture == [uploaded |-> FALSE, size |-> 0, err |-> "none"]

(* The chunks a body has, whether its length is known, and whether it is    *)
(* sent on: not for an answer to HEAD, or with status 1xx, 204 or 304.      *)
Body == [known : BOOLEAN, len : Count, sent : BOOLEAN]
NoBody == [known |-> TRUE, len |-> 0, sent |-> TRUE]

(* An HttpExchange, as far as the captures go. *)
Exchange == [state : {"none", "queued", "dropped"}, capture : [Sides -> BodyCapture]]

TypeOK ==
  /\ mitm \in BOOLEAN /\ steady \in BOOLEAN
  /\ body \in [Sides -> Body]
  /\ h \in {"filterReq", "dial", "roundtrip", "closeReq", "waitReq", "filterResp",
            "respond", "read", "put", "write", "closeResp", "waitResp", "done"}
  /\ w \in {"off", "read", "put", "close", "wait", "done"}
  /\ rt \in {"none", "ok", "err"}
  /\ skip \in BOOLEAN
  /\ captured \in [Sides -> BOOLEAN]
  /\ readN \in [Sides -> Count]
  /\ wend \in [Sides -> BOOLEAN] /\ rend \in [Sides -> BOOLEAN]
  /\ up \in [Sides -> {"off", "read", "put", "done"}]
  /\ got \in [Sides -> Count]
  /\ capture \in [Sides -> BodyCapture]
  /\ exch \in Exchange

Init ==
  /\ mitm \in BOOLEAN /\ steady = TRUE
  /\ body \in [Sides -> {b \in Body : b.sent}] /\ body["resp"] = NoBody
  /\ h = "filterReq" /\ w = "off" /\ rt = "none" /\ skip = FALSE
  /\ captured = [s \in Sides |-> FALSE]
  /\ readN = [s \in Sides |-> 0]
  /\ wend = [s \in Sides |-> FALSE] /\ rend = [s \in Sides |-> FALSE]
  /\ up = [s \in Sides |-> "off"] /\ got = [s \in Sides |-> 0]
  /\ capture = [s \in Sides |-> EmptyCapture]
  /\ exch = [state |-> "none", capture |-> [s \in Sides |-> EmptyCapture]]

-----------------------------------------------------------------------------
(* BuildBodyReader, called by a hook when MITM is on: with MinIO enabled    *)
(* and a content type that is not skipped, the body gets a capture and an   *)
(* uploader.                                                                *)
BuildBodyReader(s) ==
  \E c \in (IF mitm THEN BOOLEAN ELSE {FALSE}) :
    /\ captured' = [captured EXCEPT ![s] = c]
    /\ up' = [up EXCEPT ![s] = IF c THEN "read" ELSE "off"]

(* pipeWriter.Close, the first step of bodyCaptReader.Close. *)
ClosePipe(s) == wend' = [wend EXCEPT ![s] = captured[s]]

(* <-doneCh, the second. *)
Uploaded(s) == captured[s] => up[s] = "done"

FilterRequest ==
  /\ h = "filterReq" /\ h' = "dial"
  /\ BuildBodyReader("req")
  /\ UNCHANGED <<fixed, w, rt, skip, pipeVars, got, capture, exch>>

(* The Transport fails before it has a connection, or starts its writer. *)
Dial ==
  /\ h = "dial"
  /\ \/ rt' = "err" /\ h' = "closeReq" /\ UNCHANGED w
     \/ w' = "read" /\ h' = "roundtrip" /\ UNCHANGED rt
  /\ UNCHANGED <<fixed, skip, captured, pipeVars, upVars, exch>>

(* Slip: an error returns before the request body is closed. *)
RoundTripNoClose ==
  /\ h = "roundtrip"
  /\ \/ rt' = "ok" /\ h' = "closeReq"
     \/ rt' = "err" /\ h' = "done"
  /\ UNCHANGED <<fixed, w, skip, captured, pipeVars, upVars, exch>>

(* RoundTrip returns: an answer may come before the request is written. *)
RoundTrip ==
  /\ h = "roundtrip" /\ h' = "closeReq"
  /\ rt' \in {"ok", "err"}
  /\ UNCHANGED <<fixed, w, skip, captured, pipeVars, upVars, exch>>

(* The deferred req.Body.Close. *)
CloseReq ==
  /\ h = "closeReq" /\ h' = "waitReq"
  /\ ClosePipe("req")
  /\ UNCHANGED <<fixed, w, rt, skip, captured, readN, rend, upVars, exch>>

(* After an error processRequest returns false: nothing is sent to the UI. *)
ReqClosed ==
  /\ h = "waitReq" /\ Uploaded("req")
  /\ h' = IF rt = "ok" THEN "filterResp" ELSE "done"
  /\ UNCHANGED <<fixed, w, rt, skip, captured, pipeVars, upVars, exch>>

FilterResponse ==
  /\ h = "filterResp" /\ h' = "respond"
  /\ \E b \in Body : body' = [body EXCEPT !["resp"] = b]
  /\ BuildBodyReader("resp")
  /\ UNCHANGED <<mitm, steady, w, rt, skip, pipeVars, got, capture, exch>>

(* Slip: the return on a write error comes before the deferred close. *)
RespondNoClose ==
  /\ h = "respond"
  /\ \/ skip' = TRUE /\ h' = "closeResp"
     \/ h' = "done" /\ UNCHANGED skip
     \/ body["resp"].sent /\ h' = "read" /\ UNCHANGED skip
  /\ UNCHANGED <<fixed, w, rt, captured, pipeVars, upVars, exch>>

(* A websocket upgrade is not reported and relays the original body;        *)
(* writing the header may fail.                                             *)
Respond ==
  /\ h = "respond"
  /\ \/ skip' = TRUE /\ h' = "closeResp"
     \/ h' = "closeResp" /\ UNCHANGED skip
     \/ body["resp"].sent /\ h' = "read" /\ UNCHANGED skip
  /\ UNCHANGED <<fixed, w, rt, captured, pipeVars, upVars, exch>>

(* io.Copy from the response body: a chunk, the end, or an error. *)
ReadResp ==
  /\ h = "read"
  /\ \/ /\ readN["resp"] < body["resp"].len
        /\ readN' = [readN EXCEPT !["resp"] = @ + 1]
        /\ h' = IF captured["resp"] THEN "put" ELSE "write"
     \/ h' = "closeResp" /\ UNCHANGED readN
  /\ UNCHANGED <<fixed, w, rt, skip, captured, wend, rend, upVars, exch>>

WriteResp ==
  /\ h = "write" /\ h' \in {"read", "closeResp"}
  /\ UNCHANGED <<fixed, w, rt, skip, captured, pipeVars, upVars, exch>>

(* Slip: the pipe is left open. *)
CloseRespOpen ==
  /\ h = "closeResp" /\ h' = "waitResp"
  /\ UNCHANGED <<fixed, w, rt, skip, captured, pipeVars, upVars, exch>>

(* The deferred resp.Body.Close, on every way out of processRequest. *)
CloseResp ==
  /\ h = "closeResp" /\ h' = "waitResp"
  /\ ClosePipe("resp")
  /\ UNCHANGED <<fixed, w, rt, skip, captured, readN, rend, upVars, exch>>

(* The non-blocking send into GlobalExchangeChan, at most once. *)
Send ==
  IF mitm /\ ~skip /\ exch.state = "none"
  THEN \E st \in {"queued", "dropped"} : exch' = [state |-> st, capture |-> capture]
  ELSE UNCHANGED exch

(* Slip: the inner body is closed without waiting for the upload. *)
SendEarly ==
  /\ h = "waitResp" /\ h' = "done"
  /\ Send
  /\ UNCHANGED <<fixed, w, rt, skip, captured, pipeVars, upVars>>

(* inner.Close, and with it onClose and SendExchange. *)
SendExchange ==
  /\ h = "waitResp" /\ Uploaded("resp") /\ h' = "done"
  /\ Send
  /\ UNCHANGED <<fixed, w, rt, skip, captured, pipeVars, upVars>>

-----------------------------------------------------------------------------
(* The Transport's writer reads the request body until it ends or the       *)
(* connection breaks, and closes it.                                        *)

ReadReq ==
  /\ w = "read"
  /\ \/ /\ readN["req"] < body["req"].len
        /\ readN' = [readN EXCEPT !["req"] = @ + 1]
        /\ w' = IF captured["req"] THEN "put" ELSE "read"
     \/ w' = "close" /\ UNCHANGED readN
  /\ UNCHANGED <<fixed, h, rt, skip, captured, wend, rend, upVars, exch>>

WriterClose ==
  /\ w = "close" /\ w' = "wait"
  /\ ClosePipe("req")
  /\ UNCHANGED <<fixed, h, rt, skip, captured, readN, rend, upVars, exch>>

WriterDone ==
  /\ w = "wait" /\ Uploaded("req") /\ w' = "done"
  /\ UNCHANGED <<fixed, h, rt, skip, captured, pipeVars, upVars, exch>>

-----------------------------------------------------------------------------
(* pipeWriter.Write in bodyCaptReader.Read. *)

Putting(s) == IF s = "req" THEN w = "put" ELSE h = "put"

PutReturns(s) ==
  \/ s = "req" /\ w' = "read" /\ UNCHANGED h
  \/ s = "resp" /\ h' = "write" /\ UNCHANGED w

Transfer(s) ==
  /\ Putting(s) /\ up[s] = "read" /\ ~wend[s]
  /\ got' = [got EXCEPT ![s] = @ + 1]
  /\ PutReturns(s)
  /\ UNCHANGED <<fixed, rt, skip, captured, pipeVars, up, capture, exch>>

(* Slip: the failed write leaves no trace in the capture. *)
PutBrokenSilent(s) ==
  /\ Putting(s) /\ (wend[s] \/ rend[s])
  /\ PutReturns(s)
  /\ UNCHANGED <<fixed, rt, skip, captured, pipeVars, upVars, exch>>

(* An end of the pipe is closed: the error is recorded, the chunk goes on. *)
PutBroken(s) ==
  /\ Putting(s) /\ (wend[s] \/ rend[s])
  /\ capture' = [capture EXCEPT ![s].err = "closed"]
  /\ PutReturns(s)
  /\ UNCHANGED <<fixed, rt, skip, captured, pipeVars, up, got, exch>>

-----------------------------------------------------------------------------
(* uploadToMinIO. *)

(* All of a known length has been streamed, or the temporary file is whole  *)
(* and is now uploaded.                                                     *)
UploadPut(s) ==
  /\ up[s] = "read"
  /\ IF body[s].known THEN got[s] = body[s].len ELSE wend[s]
  /\ up' = [up EXCEPT ![s] = "put"]
  /\ UNCHANGED <<fixed, h, w, rt, skip, captured, pipeVars, got, capture, exch>>

UploadDone(s, result) ==
  /\ capture' = [capture EXCEPT ![s] = result]
  /\ up' = [up EXCEPT ![s] = "done"]
  /\ rend' = [rend EXCEPT ![s] = TRUE]
  /\ UNCHANGED <<fixed, h, w, rt, skip, captured, readN, wend, got, exch>>

(* Error is left as a failed write has set it. *)
UploadOk(s) ==
  /\ up[s] = "put"
  /\ UploadDone(s, [uploaded |-> TRUE, size |-> got[s], err |-> capture[s].err])

Failed(err) == [uploaded |-> FALSE, size |-> 0, err |-> err]

(* The body ends before the Content-Length given to PutObject. *)
UploadShort(s) ==
  /\ up[s] = "read" /\ wend[s]
  /\ body[s].known /\ got[s] < body[s].len
  /\ UploadDone(s, Failed("short"))

(* Slip: the read end of the pipe is left open. *)
UploadFailsOpen(s) ==
  /\ up[s] \in {"read", "put"}
  /\ capture' = [capture EXCEPT ![s] = Failed("minio")]
  /\ up' = [up EXCEPT ![s] = "done"]
  /\ UNCHANGED <<fixed, h, w, rt, skip, captured, pipeVars, got, exch>>

(* MinIO, the temporary file or the 30 minutes' timeout. *)
UploadFails(s) ==
  /\ up[s] \in {"read", "put"}
  /\ UploadDone(s, Failed("minio"))

(* The UI switches MITM on or off. *)
Toggle ==
  /\ h # "done"
  /\ mitm' = ~mitm /\ steady' = FALSE
  /\ UNCHANGED <<body, h, w, rt, skip, captured, pipeVars, upVars, exch>>

Handler ==
  \/ FilterRequest \/ Dial \/ RoundTrip \/ CloseReq \/ ReqClosed \/ FilterResponse
  \/ Respond \/ ReadResp \/ WriteResp \/ CloseResp \/ SendExchange
Writer == ReadReq \/ WriterClose \/ WriterDone
Pipe(s) == Transfer(s) \/ PutBroken(s)
Uploader(s) == UploadPut(s) \/ UploadOk(s) \/ UploadShort(s) \/ UploadFails(s)

Next == Handler \/ Writer \/ (\E s \in Sides : Pipe(s) \/ Uploader(s)) \/ Toggle

Spec == Init /\ [][Next]_vars

(* Reading or writing a socket and RoundTrip may take for ever.  What waits *)
(* for MinIO does not: every PutObject has its 30 minutes.                  *)
Fairness ==
  /\ WF_vars(Handler /\ h \notin {"dial", "roundtrip", "respond", "read", "write"})
  /\ WF_vars(WriterClose \/ WriterDone)
  /\ \A s \in Sides :
       /\ WF_vars(Pipe(s))
       /\ WF_vars(UploadPut(s) \/ UploadShort(s))
       /\ WF_vars(up[s] = "put" /\ Uploader(s))

FairSpec == Spec /\ Fairness

-----------------------------------------------------------------------------
(* Properties. *)

(* When the handler is done with a request, no uploader goroutine is left   *)
(* behind on any way out: the leak goroutine_test.go looks for.             *)
NoUploadLeft == h = "done" => \A s \in Sides : up[s] \in {"off", "done"}

(* The exchange the UI gets is final: no upload of either body is still     *)
(* running and none changes its result afterwards.                          *)
SentIsFinal ==
  exch.state # "none" =>
    \A s \in Sides :
      /\ up[s] \in {"off", "done"}
      /\ exch.capture[s].uploaded = capture[s].uploaded
      /\ exch.capture[s].size = capture[s].size

(* A body reported as uploaded without an error is stored with all that was *)
(* read of it, even when the reader was still running when it was closed.   *)
CaptureHonest ==
  \A s \in Sides :
    capture[s].uploaded /\ capture[s].err = "none" /\ ~Putting(s)
      => capture[s].size = readN[s]

(* With MITM on throughout, every answer is reported, whichever way the     *)
(* handler leaves, unless it is a websocket.                                *)
ResponseReported ==
  h = "done" /\ rt = "ok" /\ mitm /\ steady /\ ~skip => exch.state # "none"

(* "The error of the proxy core" has its place in the UI: with MITM on      *)
(* throughout, a failed RoundTrip is reported too.                          *)
ErrorReported ==
  h = "done" /\ rt = "err" /\ mitm /\ steady => exch.state # "none"

(* Close always returns: the handler never waits for ever for an uploader   *)
(* that waits for the handler.                                              *)
CloseReturns ==
  /\ (h \in {"closeReq", "waitReq"}) ~> (h \notin {"closeReq", "waitReq"})
  /\ (h \in {"closeResp", "waitResp"}) ~> (h = "done")
  /\ (w \in {"close", "wait"}) ~> (w = "done")

(* A failed or slow upload does not hold up the body it captures. *)
BodyMoves == \A s \in Sides : Putting(s) ~> ~Putting(s)
=============================================================================
