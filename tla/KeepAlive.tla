----------------------------- MODULE KeepAlive ------------------------------
(***************************************************************************)
(* One keep-alive connection, tunnelled (MyHttpsHandle) or plain           *)
(* (myHttpHandleWithEngine): RequestReader with the copy it keeps of what  *)
(* it reads, the Transport's writer that takes the request body from the   *)
(* same buffer, the close that drains what the writer left, and the answer *)
(* that is written back chunk by chunk.  PreventParseHeader is on.  The    *)
(* first request of a plain connection belongs to net/http: the stream     *)
(* here starts behind it, which supposes its body was read to the end.     *)
(*                                                                         *)
(* The client's stream is a sequence of pieces, each a line or the         *)
(* unterminated end of a body.  bufio.Reader has taken the first fetched   *)
(* of them off the socket, its users the first used; the TeeReader has     *)
(* copied all that was fetched to cloned, of which Next has dropped mark.  *)
(***************************************************************************)
EXTENDS Integers, FiniteSets, Sequences, SequencesExt, Subsequence

CONSTANTS
  Names,      \* header names as a client may spell them
  Canon,      \* textproto.CanonicalMIMEHeaderKey on them
  Shapes,     \* the requests a client may send
  Runs,       \* sequences of Shapes: what the connections carry
  BufSize,    \* of the bufio.Reader, in pieces
  MaxPieces   \* bound on the pieces of an answer's body

(* A line without colon, one with something else before its colon, an empty *)
(* line, a piece without line end; and the request line, which has a colon  *)
(* if it holds an absolute URL.                                             *)
BodyPieces == {"line", "colon", "empty", "text"} \cup Names
Request == [start : {"origin", "absolute"}, fields : Seq(Names),
            body : Seq(BodyPieces), closing : BOOLEAN]

ASSUME ShapeAssumption ==
  /\ Names \cap {"line", "colon", "empty", "text", "origin", "absolute"} = {}
  /\ Canon \in [Names -> Names] /\ \A n \in Names : Canon[Canon[n]] = Canon[n]
  /\ Shapes \subseteq Request /\ Runs \subseteq Seq(Shapes)
  /\ BufSize \in Nat \ {0} /\ MaxPieces \in Nat

HeadOf(r) == <<r.start>> \o r.fields \o <<"empty">>
Bytes(r) == HeadOf(r) \o r.body

VARIABLES
  reqs,     \* what the client sends on this connection
  eof,      \* it sends no more
  fetched, used, mark,
  pc,       \* where the handler is
  k,        \* requests read
  left,     \* what is left of the body of the last one
  writer,   \* the Transport's writer is reading it
  header,   \* req.Header: the positions of the values under each key
  resp,     \* the answer
  copied,   \* pieces of its body read so far
  out       \* what was written to the client of it

readVars == <<fetched, used, mark>>
respVars == <<resp, copied, out>>
vars == <<reqs, eof, readVars, pc, k, left, writer, header, respVars>>

Stream == FlattenSeq([i \in 1 .. Len(reqs) |-> Bytes(reqs[i])])
Start(i) == Len(FlattenSeq([j \in 1 .. i - 1 |-> Bytes(reqs[j])]))
Buffered == fetched - used

Response ==
  {r \in [bodyless : BOOLEAN, size : 0 .. MaxPieces, cut : BOOLEAN, close : BOOLEAN] :
     r.bodyless => r.size = 0 /\ ~r.cut}
NoResponse == [bodyless |-> TRUE, size |-> 0, cut |-> FALSE, close |-> FALSE]

TypeOK ==
  /\ reqs \in Runs /\ eof \in BOOLEAN
  /\ 0 <= mark /\ mark <= used /\ used <= fetched /\ fetched <= Len(Stream)
  /\ Buffered <= BufSize
  /\ pc \in {"peek", "head", "trip", "close", "drain", "respond", "done"}
  /\ k \in 0 .. Len(reqs)
  /\ left \in Nat /\ writer \in BOOLEAN
  /\ resp \in Response /\ copied \in 0 .. MaxPieces
  /\ out \in Seq({"head", "size", "data", "crlf", "zero"})

Init ==
  /\ reqs \in Runs /\ eof = FALSE
  /\ fetched = 0 /\ used = 0 /\ mark = 0
  /\ pc = "peek" /\ k = 0 /\ left = 0 /\ writer = FALSE /\ header = <<>>
  /\ resp = NoResponse /\ copied = 0 /\ out = <<>>

-----------------------------------------------------------------------------
(* The socket. *)

ClientCloses ==
  /\ ~eof /\ eof' = TRUE
  /\ UNCHANGED <<reqs, readVars, pc, k, left, writer, header, respVars>>

(* A read on an empty buffer takes what has arrived, as much as fits. *)
Fetch ==
  /\ Buffered = 0 /\ ~eof
  /\ pc \in {"peek", "head"} \/ (pc \in {"trip", "close", "drain"} /\ left > 0)
  /\ \E n \in 1 .. BufSize :
       fetched + n <= Len(Stream) /\ fetched' = fetched + n
  /\ UNCHANGED <<reqs, eof, used, mark, pc, k, left, writer, header, respVars>>

-----------------------------------------------------------------------------
(* RequestReader. *)

IsEOF ==
  /\ pc = "peek"
  /\ \/ Buffered > 0 /\ pc' = "head"
     \/ Buffered = 0 /\ eof /\ pc' = "done"
  /\ UNCHANGED <<reqs, eof, readVars, k, left, writer, header, respVars>>

(* http.ReadRequest makes every key canonical. *)
Parsed(r) ==
  [key \in {Canon[r.fields[i]] : i \in 1 .. Len(r.fields)} |->
     {i \in 1 .. Len(r.fields) : Canon[r.fields[i]] = key}]

(* Http1ExtractHeaders: the first line is skipped; lines follow up to an    *)
(* empty one, and a line without colon spoils them all.                     *)
Http1ExtractHeaders(data) ==
  LET lines == Sift(data, ToSet(data) \ {"text"})
      stops == {i \in 2 .. Len(lines) : lines[i] \in {"empty", "line", "origin"}}
      first == CHOOSE i \in stops : \A j \in stops : i <= j
  IN  IF stops = {} \/ lines[first] # "empty" THEN <<>>
      ELSE Sift(SubSeq(lines, 2, first - 1), Names)

(* Slip: the old key is not deleted. *)
RewriteTwice(h, n) ==
  IF Canon[n] # n /\ Canon[n] \in DOMAIN h
  THEN [key \in DOMAIN h \cup {n} |-> IF key = n THEN h[Canon[n]] ELSE h[key]]
  ELSE h

(* The values move to the key as the client spelled it. *)
Rewrite(h, n) ==
  IF Canon[n] # n /\ Canon[n] \in DOMAIN h
  THEN [key \in (DOMAIN h \ {Canon[n]}) \cup {n} |->
          IF key = n THEN h[Canon[n]] ELSE h[key]]
  ELSE h

(* The loop over the names that were extracted, in their order. *)
Respelling(h, names) ==
  LET after[n \in 0 .. Len(names)] ==
        IF n = 0 THEN h ELSE Rewrite(after[n - 1], names[n])
  IN  after

Respelled(h, names) == Respelling(h, names)[Len(names)]

(* getRequestReader: what has been read of cloned and not given out yet,    *)
(* the body of the request before included.                                 *)
Cloned == SubSeq(Stream, mark + 1, fetched)
Consumed(end) == SubSeq(Cloned, 1, Len(Cloned) - (fetched - end))

(* Slip: the copy is read without being consumed. *)
NextNothing(end) == mark' = mark

Drop(end) == mark' = end

(* One more line; after the last one the handler has the request and calls  *)
(* RoundTrip, whose writer starts on the body.  Anything but a request      *)
(* there is a parse error and ends the loop, and so does a cut-off head.    *)
ReadRequest ==
  /\ pc = "head"
  /\ IF Buffered = 0 \/ k = Len(reqs) \/ used < Start(k + 1)
     THEN /\ Buffered > 0 \/ eof
          /\ pc' = "done"
          /\ UNCHANGED <<used, mark, k, left, writer, header>>
     ELSE LET r == reqs[k + 1]
              end == Start(k + 1) + Len(HeadOf(r))
          IN  /\ used' = used + 1
              /\ IF used + 1 < end
                 THEN UNCHANGED <<mark, pc, k, left, writer, header>>
                 ELSE /\ \E data \in {Consumed(end)} :
                        \E names \in {Http1ExtractHeaders(data)} :
                          header' = Respelled(Parsed(r), names)
                      /\ Drop(end)
                      /\ k' = k + 1 /\ pc' = "trip"
                      /\ left' = Len(r.body) /\ writer' = TRUE
  /\ UNCHANGED <<reqs, eof, fetched, respVars>>

-----------------------------------------------------------------------------
(* RoundTrip. *)

(* The writer reads some of the body. *)
ReadBody ==
  /\ writer /\ left > 0 /\ Buffered > 0
  /\ used' = used + 1 /\ left' = left - 1
  /\ UNCHANGED <<reqs, eof, fetched, mark, pc, k, writer, header, respVars>>

(* It has all, meets the end of the stream, or stops on an early answer. *)
WriterDone ==
  /\ writer /\ writer' = FALSE
  /\ left = 0 \/ (eof /\ Buffered = 0) \/ pc # "trip"
  /\ UNCHANGED <<reqs, eof, readVars, pc, k, left, header, respVars>>

(* An answer, perhaps before the body was read; or an error, which ends the *)
(* loop.  The deferred Close of the request's body comes first.             *)
Answer ==
  /\ pc = "trip"
  /\ \/ resp' \in Response /\ pc' = "close"
     \/ UNCHANGED resp /\ pc' = "drain"
  /\ copied' = 0 /\ out' = <<>>
  /\ UNCHANGED <<reqs, eof, readVars, k, left, writer, header>>

Closing == pc \in {"close", "drain"}
Closed == pc' = (IF pc = "close" THEN "respond" ELSE "done") /\ writer' = FALSE

(* Slip: req.Body.Close is left to the Transport. *)
CloseNothing ==
  /\ Closing /\ Closed
  /\ UNCHANGED <<used, left>>
  /\ UNCHANGED <<reqs, eof, fetched, mark, k, header, respVars>>

(* Slip: the end of the stream does not end the close. *)
CloseWaiting ==
  /\ Closing
  /\ IF left > 0 /\ ~reqs[k].closing
     THEN /\ Buffered > 0
          /\ used' = used + 1 /\ left' = left - 1
          /\ UNCHANGED <<pc, writer>>
     ELSE Closed /\ UNCHANGED <<used, left>>
  /\ UNCHANGED <<reqs, eof, fetched, mark, k, header, respVars>>

(* The deferred req.Body.Close reads what is left of the body, unless the   *)
(* client asked to close the connection.                                    *)
CloseBody ==
  /\ Closing
  /\ IF left > 0 /\ ~reqs[k].closing /\ ~(eof /\ Buffered = 0)
     THEN /\ Buffered > 0
          /\ used' = used + 1 /\ left' = left - 1
          /\ UNCHANGED <<pc, writer>>
     ELSE Closed /\ UNCHANGED <<used, left>>
  /\ UNCHANGED <<reqs, eof, fetched, mark, k, header, respVars>>

-----------------------------------------------------------------------------
(* Writing the answer back.  The traffic hook wraps every body, so it is    *)
(* chunked whatever its length was.                                         *)

readSide == <<reqs, eof, readVars, k, left, writer, header>>

Write(piece) == out' = Append(out, piece)

WriteHead ==
  /\ pc = "respond" /\ out = <<>> /\ Write("head")
  /\ UNCHANGED <<readSide, pc, resp, copied>>

(* io.Copy has a piece of the body: chunkedWriter.Write. *)
WriteChunk ==
  /\ pc = "respond" /\ out # <<>> /\ ~resp.bodyless
  /\ \/ Last(out) \in {"head", "crlf"} /\ copied < resp.size /\ Write("size")
        /\ UNCHANGED copied
     \/ Last(out) = "size" /\ Write("data") /\ copied' = copied + 1
     \/ Last(out) = "data" /\ Write("crlf") /\ UNCHANGED copied
  /\ UNCHANGED <<readSide, pc, resp>>

AllCopied == copied = resp.size /\ Last(out) \in {"head", "crlf"}

(* Slip: the last chunk is sent on every way out. *)
OriginFailsClosed ==
  /\ pc = "respond" /\ out # <<>> /\ ~resp.bodyless /\ resp.cut /\ AllCopied
  /\ out' = out \o <<"zero", "crlf">> /\ pc' = "done"
  /\ UNCHANGED <<readSide, resp, copied>>

(* The body breaks off: io.Copy returns an error and the handler gives up   *)
(* the connection.                                                          *)
OriginFails ==
  /\ pc = "respond" /\ out # <<>> /\ ~resp.bodyless /\ resp.cut /\ AllCopied
  /\ pc' = "done"
  /\ UNCHANGED <<readSide, respVars>>

(* A write to the client fails. *)
WriteFails ==
  /\ pc = "respond" /\ pc' = "done"
  /\ UNCHANGED <<readSide, respVars>>

(* Slip: chunkedWriter.Close is taken to send the whole end. *)
CloseChunkedShort ==
  /\ pc = "respond" /\ out # <<>> /\ ~resp.bodyless /\ ~resp.cut
  /\ \/ AllCopied /\ Write("zero") /\ pc' = IF resp.close THEN "done" ELSE "peek"
     \/ Last(out) = "zero" /\ Write("crlf") /\ UNCHANGED pc
  /\ UNCHANGED <<readSide, resp, copied>>

(* chunked.Close sends the last chunk, the handler the line that ends it.   *)
CloseChunked ==
  /\ pc = "respond" /\ out # <<>> /\ ~resp.bodyless /\ ~resp.cut
  /\ \/ AllCopied /\ Write("zero") /\ UNCHANGED pc
     \/ Last(out) = "zero" /\ Write("crlf") /\ pc' = IF resp.close THEN "done" ELSE "peek"
  /\ UNCHANGED <<readSide, resp, copied>>

(* HEAD, 1xx, 204 and 304: no body. *)
Bodyless ==
  /\ pc = "respond" /\ out # <<>> /\ resp.bodyless
  /\ pc' = IF resp.close THEN "done" ELSE "peek"
  /\ UNCHANGED <<readSide, respVars>>

-----------------------------------------------------------------------------
Loop == IsEOF \/ ReadRequest \/ CloseBody
Respond == WriteHead \/ WriteChunk \/ OriginFails \/ CloseChunked \/ Bodyless

Next == Loop \/ Respond \/ Fetch \/ ReadBody \/ WriterDone \/ Answer \/ WriteFails \/ ClientCloses

Spec == Init /\ [][Next]_vars

(* The handler is scheduled where it depends on nobody, or on the client's  *)
(* stream alone.  RoundTrip, and the copy of the answer's body from target  *)
(* to client, have no deadline and no cancellation when the client leaves:  *)
(* they may last for ever.                                                  *)
FairSpec == Spec /\ WF_vars(Loop)
-----------------------------------------------------------------------------
(* The body of a request is never taken for the next one: when the loop     *)
(* turns to the connection again, all of it is read, early answers and a    *)
(* writer that stopped halfway included, unless the client has gone or      *)
(* asked to close.                                                          *)
Aligned ==
  pc = "peek" /\ k > 0 =>
    used = Start(k + 1) \/ reqs[k].closing \/ (eof /\ Buffered = 0)

SpelledAsSent == DOMAIN header \subseteq ToSet(reqs[k].fields)

(* "Extract the head exactly, and do not read body for it": every request   *)
(* goes on with its header names as the client spelled them.                *)
NamesKept == pc = "trip" => SpelledAsSent

AfterPlainBody == k = 1 \/ ToSet(reqs[k - 1].body) \subseteq {"text"}

FieldsKept ==
  \A i \in 1 .. Len(reqs[k].fields) :
    /\ \E key \in DOMAIN header :
         i \in header[key] /\ Canon[key] = Canon[reqs[k].fields[i]]
    /\ Cardinality({key \in DOMAIN header : i \in header[key]}) = 1

(* For the first request, and after a body without a line end, they are.    *)
(* And whatever was taken for a header name, and however a name was         *)
(* repeated in several spellings, every value goes on under one key of its  *)
(* own field.                                                               *)
HeadersKept == pc = "trip" => FieldsKept /\ (AfterPlainBody => SpelledAsSent)

(* The copy holds one body and one head at most: it does not grow with the  *)
(* requests of the connection; and the three places in the stream are in    *)
(* order.                                                                   *)
BuffersBounded ==
  /\ TypeOK
  /\ used - mark <= (IF k > 0 THEN Len(reqs[k].body) ELSE 0)
                    + (IF k < Len(reqs) THEN Len(HeadOf(reqs[k + 1])) ELSE 0)

(* A body that broke off on the target's side never looks complete to the   *)
(* client.                                                                  *)
TruncationVisible ==
  "zero" \in ToSet(out) => copied = resp.size /\ ~resp.cut

Chunks == FlattenSeq([i \in 1 .. resp.size |-> <<"size", "data", "crlf">>])

(* The loop goes on to the next request only after a whole answer: the      *)
(* client finds the next one where this one ends.                           *)
AnswerWhole ==
  [][pc = "respond" /\ pc' = "peek" =>
       out' = IF resp.bodyless THEN <<"head">>
              ELSE <<"head">> \o Chunks \o <<"zero", "crlf">>]_vars

(* When the client is gone the loop ends, however little of a head has      *)
(* arrived and however much of a body is missing, unless the target keeps   *)
(* it waiting: for an answer, or for the rest of one it is copying.         *)
LoopEnds == eof ~> [](pc \in {"done", "trip", "respond"})
=============================================================================
