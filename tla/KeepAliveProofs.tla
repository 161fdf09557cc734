-------------------------- MODULE KeepAliveProofs ---------------------------
(* Proofs about KeepAlive, for any requests, any buffer and answers of any   *)
(* length.                                                                   *)
EXTENDS KeepAlive, SeqFacts, FiniteSetTheorems

Wire == {"head", "size", "data", "crlf", "zero"}

Zero(s) == \E i \in 1 .. Len(s) : s[i] = "zero"

(* The last chunk is written behind a whole body only, and while the answer  *)
(* is being written nothing but the line that ends it can follow.            *)
LastChunk ==
  /\ out \in Seq(Wire)
  /\ pc \in {"close", "drain"} => out = <<>>
  /\ Zero(out) => /\ copied = resp.size /\ ~resp.cut
                  /\ pc = "respond" => out[Len(out)] = "zero"

LEMMA Appended ==
  ASSUME NEW s \in Seq(Wire), NEW piece \in Wire
  PROVE  /\ Append(s, piece) \in Seq(Wire) /\ Append(s, piece) # <<>>
         /\ Append(s, piece)[Len(Append(s, piece))] = piece
         /\ Zero(Append(s, piece)) => Zero(s) \/ piece = "zero"
BY DEF Zero

LEMMA InitLastChunk == Init => LastChunk
BY DEF Init, LastChunk, Zero

LEMMA WriteStep ==
  ASSUME LastChunk, WriteHead \/ WriteChunk \/ OriginFails \/ CloseChunked \/ Bodyless \/ WriteFails
  PROVE  LastChunk'
<1> USE DEF readSide, respVars
<1>1. CASE WriteHead
  <2>1. out' = Append(<<>>, "head") /\ pc' = "respond" /\ ~Zero(<<>>)
    BY <1>1 DEF WriteHead, Write, Zero
  <2>2. <<>> \in Seq(Wire) /\ "head" \in Wire
    BY DEF Wire
  <2>3. out' \in Seq(Wire) /\ ~Zero(out')
    BY <2>1, <2>2, Appended
  <2>4. QED
    BY <2>1, <2>3 DEF LastChunk, Zero
<1>2. CASE WriteChunk
  <2>1. PICK piece \in {"size", "data", "crlf"} : out' = Append(out, piece)
    BY <1>2 DEF WriteChunk, Write
  <2>2. ~Zero(out) /\ pc' = "respond"
    BY <1>2 DEF WriteChunk, LastChunk, Last
  <2>3. QED
    BY <2>1, <2>2, Appended DEF LastChunk, Wire
<1>3. CASE CloseChunked /\ Last(out) # "zero"
  <2>1. out' = Append(out, "zero") /\ UNCHANGED <<resp, copied>> /\ ~resp.cut
        /\ copied = resp.size /\ pc' = "respond"
    BY <1>3 DEF CloseChunked, Write, AllCopied
  <2>2. QED
    BY <2>1, Appended DEF LastChunk, Wire
<1>4. CASE CloseChunked /\ Last(out) = "zero"
  <2>1. out' = Append(out, "crlf") /\ UNCHANGED <<resp, copied>> /\ pc' \in {"done", "peek"}
    BY <1>4 DEF CloseChunked, Write, AllCopied
  <2>2. QED
    BY <2>1, Appended DEF LastChunk, Wire
<1>5. CASE OriginFails \/ Bodyless \/ WriteFails
  BY <1>5 DEF OriginFails, Bodyless, WriteFails, LastChunk
<1>6. QED
  BY <1>1, <1>2, <1>3, <1>4, <1>5

LEMMA ReadStep ==
  ASSUME LastChunk, IsEOF \/ ReadRequest \/ CloseBody \/ Answer
  PROVE  LastChunk'
<1> USE DEF respVars, Closing
<1>1. CASE IsEOF
  BY <1>1 DEF IsEOF, LastChunk
<1>2. CASE ReadRequest
  <2>1. UNCHANGED respVars /\ pc' \in {"head", "done", "trip"}
    BY <1>2 DEF ReadRequest
  <2>2. QED
    BY <2>1 DEF LastChunk
<1>3. CASE CloseBody
  <2>1. UNCHANGED respVars /\ out = <<>>
    BY <1>3 DEF CloseBody, LastChunk
  <2>2. QED
    BY <2>1 DEF LastChunk, Zero
<1>4. CASE Answer
  BY <1>4 DEF Answer, LastChunk, Zero
<1>5. QED
  BY <1>1, <1>2, <1>3, <1>4

LEMMA NextLastChunk == LastChunk /\ [Next]_vars => LastChunk'
<1> SUFFICES ASSUME LastChunk, [Next]_vars PROVE LastChunk'
    OBVIOUS
<1> USE DEF respVars, Closing
<1>1. CASE Loop \/ Respond \/ Answer \/ WriteFails
  BY <1>1, WriteStep, ReadStep DEF Loop, Respond
<1>2. CASE Fetch \/ ReadBody \/ WriterDone \/ ClientCloses \/ UNCHANGED vars
  <2>1. UNCHANGED <<pc, resp, copied, out>>
    BY <1>2 DEF Fetch, ReadBody, WriterDone, ClientCloses, vars
  <2>2. QED
    BY <2>1 DEF LastChunk
<1>3. QED
  BY <1>1, <1>2 DEF Next

-----------------------------------------------------------------------------
(* The client's stream. *)

Pieces == {"origin", "absolute"} \cup BodyPieces

LEMMA RequestFacts ==
  ASSUME NEW r \in Request
  PROVE  /\ r.start \in {"origin", "absolute"} /\ r.fields \in Seq(Names)
         /\ HeadOf(r) \in Seq(Pieces) /\ r.body \in Seq(Pieces) /\ Bytes(r) \in Seq(Pieces)
         /\ Len(HeadOf(r)) = Len(r.fields) + 2
         /\ Len(HeadOf(r)) \in Nat /\ Len(r.body) \in Nat /\ Len(HeadOf(r)) >= 2
         /\ Len(Bytes(r)) = Len(HeadOf(r)) + Len(r.body)
<1>1. /\ r.start \in {"origin", "absolute"} /\ r.fields \in Seq(Names)
      /\ r.body \in Seq(BodyPieces)
  BY DEF Request
<1>2. Names \subseteq Pieces /\ BodyPieces \subseteq Pieces
  BY DEF Pieces, BodyPieces
<1>3. r.fields \in Seq(Pieces) /\ r.body \in Seq(Pieces)
  BY <1>1, <1>2, SeqMonotonic
<1>4. <<r.start>> \in Seq(Pieces) /\ <<"empty">> \in Seq(Pieces)
  BY <1>1 DEF Pieces, BodyPieces
<1>5. HeadOf(r) \in Seq(Pieces) /\ Len(HeadOf(r)) = Len(r.fields) + 2
  BY <1>3, <1>4 DEF HeadOf
<1>6. Bytes(r) \in Seq(Pieces) /\ Len(Bytes(r)) = Len(HeadOf(r)) + Len(r.body)
  BY <1>3, <1>5, ConcatProperties DEF Bytes
<1>7. Len(r.fields) \in Nat /\ Len(r.body) \in Nat
  BY <1>3
<1>8. QED
  BY <1>1, <1>3, <1>5, <1>6, <1>7

(* The requests, one behind the other. *)
Messages == [i \in 1 .. Len(reqs) |-> Bytes(reqs[i])]

LEMMA RunFacts ==
  ASSUME reqs \in Runs
  PROVE  /\ Len(reqs) \in Nat /\ \A i \in 1 .. Len(reqs) : reqs[i] \in Request
         /\ Messages \in [1 .. Len(reqs) -> Seq(Pieces)]
<1>1. reqs \in Seq(Shapes) /\ Shapes \subseteq Request
  BY ShapeAssumption
<1>2. Len(reqs) \in Nat /\ \A i \in 1 .. Len(reqs) : reqs[i] \in Request
  BY <1>1
<1>3. \A i \in 1 .. Len(reqs) : Bytes(reqs[i]) \in Seq(Pieces)
  BY <1>2, RequestFacts
<1>4. QED
  BY <1>2, <1>3 DEF Messages

LEMMA StreamFacts ==
  ASSUME reqs \in Runs
  PROVE  /\ Stream = Flat(Messages, Len(reqs))
         /\ \A i \in 1 .. Len(reqs) + 1 : Start(i) = Len(Flat(Messages, i - 1))
<1>1. Stream = Flat(Messages, Len(reqs))
  <2>1. [i \in 1 .. Len(reqs) |-> Messages[i]] = [i \in 1 .. Len(reqs) |-> Bytes(reqs[i])]
    BY DEF Messages
  <2>2. QED
    BY <2>1 DEF Stream, Flat
<1>2. ASSUME NEW i \in 1 .. Len(reqs) + 1
      PROVE  Start(i) = Len(Flat(Messages, i - 1))
  <2>1. \A j \in 1 .. i - 1 : Messages[j] = Bytes(reqs[j])
    BY RunFacts DEF Messages
  <2>2. [j \in 1 .. i - 1 |-> Messages[j]] = [j \in 1 .. i - 1 |-> Bytes(reqs[j])]
    BY <2>1
  <2>3. QED
    BY <2>2 DEF Start, Flat
<1>3. QED
  BY <1>1, <1>2

LEMMA Geometry ==
  ASSUME reqs \in Runs
  PROVE  /\ Start(1) = 0
         /\ \A i \in 1 .. Len(reqs) + 1 : Start(i) \in Nat
         /\ \A i \in 1 .. Len(reqs) :
              Start(i + 1) = Start(i) + Len(HeadOf(reqs[i])) + Len(reqs[i].body)
         /\ Stream \in Seq(Pieces) /\ Len(Stream) = Start(Len(reqs) + 1)
<1> DEFINE N == Len(reqs)
<1>1. N \in Nat /\ Messages \in [1 .. N -> Seq(Pieces)] /\ \A i \in 1 .. N : reqs[i] \in Request
  BY RunFacts
<1>2. \A n \in 0 .. N : Flat(Messages, n) \in Seq(Pieces)
  <2> HIDE DEF N
  <2>1. QED
    BY <1>1, FlatType
<1>3. Start(1) = 0
  <2>1. Flat(Messages, 0) = <<>>
    BY FlatEmpty
  <2>2. 1 \in 1 .. N + 1 /\ 1 - 1 = 0
    BY <1>1
  <2>3. QED
    BY <2>1, <2>2, StreamFacts
<1>4. ASSUME NEW i \in 1 .. N + 1 PROVE Start(i) \in Nat
  <2>1. i - 1 \in 0 .. N
    BY <1>1
  <2>2. Flat(Messages, i - 1) \in Seq(Pieces)
    BY <1>2, <2>1
  <2>3. QED
    BY <2>2, StreamFacts
<1>5. ASSUME NEW i \in 1 .. N
      PROVE  Start(i + 1) = Start(i) + Len(HeadOf(reqs[i])) + Len(reqs[i].body)
  <2>1. i - 1 \in 0 .. N - 1 /\ i - 1 \in 0 .. N /\ (i - 1) + 1 = i /\ (i + 1) - 1 = i
        /\ i + 1 \in 1 .. N + 1 /\ i \in 1 .. N + 1
    BY <1>1
  <2>2. Flat(Messages, (i - 1) + 1) = Flat(Messages, i - 1) \o Messages[(i - 1) + 1]
    <3> HIDE DEF N
    <3>1. QED
      BY <1>1, <2>1, FlatNext
  <2>3. Messages[i] = Bytes(reqs[i]) /\ Messages[i] \in Seq(Pieces)
    BY <1>1 DEF Messages
  <2>4. Len(Flat(Messages, i)) = Len(Flat(Messages, i - 1)) + Len(Bytes(reqs[i]))
    <3>1. Flat(Messages, i) = Flat(Messages, i - 1) \o Bytes(reqs[i])
      BY <2>1, <2>2, <2>3
    <3>2. Flat(Messages, i - 1) \in Seq(Pieces) /\ Bytes(reqs[i]) \in Seq(Pieces)
      BY <1>2, <2>1, <2>3
    <3>3. QED
      BY <3>1, <3>2
  <2>5. Start(i + 1) = Len(Flat(Messages, i)) /\ Start(i) = Len(Flat(Messages, i - 1))
    BY <2>1, StreamFacts
  <2>6. Start(i) \in Nat
    BY <1>4, <2>1
  <2>7. /\ Len(HeadOf(reqs[i])) \in Nat /\ Len(reqs[i].body) \in Nat
        /\ Len(Bytes(reqs[i])) = Len(HeadOf(reqs[i])) + Len(reqs[i].body)
    <3>1. reqs[i] \in Request
      BY <1>1
    <3>2. QED
      BY <3>1, RequestFacts
  <2>8. Start(i + 1) = Start(i) + Len(Bytes(reqs[i]))
    BY <2>4, <2>5
  <2>9. \A x, y, z \in Nat : x + (y + z) = x + y + z
    OBVIOUS
  <2>10. Start(i) + (Len(HeadOf(reqs[i])) + Len(reqs[i].body))
          = Start(i) + Len(HeadOf(reqs[i])) + Len(reqs[i].body)
    BY <2>6, <2>7, <2>9, Zenon
  <2>11. QED
    BY <2>7, <2>8, <2>10, Zenon
<1>6. Stream \in Seq(Pieces) /\ Len(Stream) = Start(N + 1)
  <2>1. N \in 0 .. N /\ N + 1 \in 1 .. N + 1 /\ (N + 1) - 1 = N
    BY <1>1
  <2>2. QED
    BY <1>2, <2>1, StreamFacts
<1>7. QED
  BY <1>3, <1>4, <1>5, <1>6

(* Where each request begins, and where its body does. *)
Starts == [i \in 1 .. Len(reqs) + 1 |-> Start(i)]
Bodies == [i \in 1 .. Len(reqs) |-> Start(i) + Len(HeadOf(reqs[i]))]

LEMMA Places ==
  ASSUME reqs \in Runs
  PROVE  /\ Len(reqs) \in Nat /\ Starts[1] = 0
         /\ \A i \in 1 .. Len(reqs) :
              /\ Starts[i] \in Nat /\ Bodies[i] \in Nat /\ Starts[i + 1] \in Nat
              /\ Starts[i] < Bodies[i] /\ Bodies[i] <= Starts[i + 1]
              /\ Len(reqs[i].body) \in Nat /\ Len(HeadOf(reqs[i])) \in Nat
              /\ Start(i) = Starts[i] /\ Start(i + 1) = Starts[i + 1]
              /\ Bodies[i] = Starts[i] + Len(HeadOf(reqs[i]))
              /\ Starts[i + 1] = Bodies[i] + Len(reqs[i].body)
         /\ Len(Stream) = Starts[Len(reqs) + 1] /\ Starts[Len(reqs) + 1] \in Nat
<1> DEFINE N == Len(reqs)
<1>1. N \in Nat
  BY RunFacts
<1> HIDE DEF N
<1>2. \A i \in 1 .. N + 1 : Starts[i] = Start(i) /\ Start(i) \in Nat
  BY Geometry DEF Starts, N
<1>3. Starts[1] = 0
  <2>1. 1 \in 1 .. N + 1
    BY <1>1
  <2>2. QED
    BY <1>2, <2>1, Geometry
<1>4. ASSUME NEW i \in 1 .. N
      PROVE  /\ Starts[i] \in Nat /\ Bodies[i] \in Nat /\ Starts[i + 1] \in Nat
             /\ Starts[i] < Bodies[i] /\ Bodies[i] <= Starts[i + 1]
             /\ Len(reqs[i].body) \in Nat /\ Len(HeadOf(reqs[i])) \in Nat
             /\ Start(i) = Starts[i] /\ Start(i + 1) = Starts[i + 1]
             /\ Bodies[i] = Starts[i] + Len(HeadOf(reqs[i]))
             /\ Starts[i + 1] = Bodies[i] + Len(reqs[i].body)
  <2>1. i \in 1 .. N + 1 /\ i + 1 \in 1 .. N + 1
    BY <1>1
  <2>2. PICK a \in Nat, b \in Nat : a = Start(i) /\ b = Start(i + 1)
    BY <1>2, <2>1
  <2>3. reqs[i] \in Request
    BY RunFacts DEF N
  <2>4. PICK x \in Nat, y \in Nat : x = Len(HeadOf(reqs[i])) /\ y = Len(reqs[i].body) /\ x >= 2
    BY <2>3, RequestFacts
  <2>5. b = a + x + y
    BY <2>2, <2>4, Geometry, Zenon DEF N
  <2>6. Bodies[i] = a + x
    BY <2>2, <2>4 DEF Bodies, N
  <2>7. Starts[i] = a /\ Starts[i + 1] = b
    BY <1>2, <2>1, <2>2
  <2>8. a < a + x /\ a + x <= b /\ a + x \in Nat
    <3>1. \A m, n, l \in Nat : n >= 2 => m < m + n /\ m + n <= m + n + l /\ m + n \in Nat
      OBVIOUS
    <3>2. x >= 2
      BY <2>4
    <3>3. QED
      BY <2>5, <3>1, <3>2, Zenon
  <2>9. QED
    BY <2>2, <2>4, <2>5, <2>6, <2>7, <2>8, Zenon
<1>5. Len(Stream) = Starts[N + 1] /\ Starts[N + 1] \in Nat
  <2>1. N + 1 \in 1 .. N + 1
    BY <1>1
  <2>2. Starts[N + 1] = Start(N + 1) /\ Start(N + 1) \in Nat
    BY <1>2, <2>1
  <2>3. QED
    BY <2>2, Geometry DEF N
<1>6. QED
  BY <1>1, <1>3, <1>4, <1>5 DEF N

LEMMA SamePlaces == reqs' = reqs => Starts' = Starts /\ Bodies' = Bodies
BY DEF Starts, Bodies, Start

-----------------------------------------------------------------------------
(* Reading requests. *)

(* The copy begins behind the last head.  Reading goes on at most to the end *)
(* of the next head; until then a request is not parsed, and a body that is  *)
(* being read ends where the next request starts.  Once the body is closed   *)
(* nobody reads it, and what was left of it is gone, unless there was an end *)
(* of the stream, or one asked for.                                          *)
ReadTypes ==
  /\ reqs \in Runs /\ eof \in BOOLEAN /\ writer \in BOOLEAN
  /\ pc \in {"peek", "head", "trip", "close", "drain", "respond", "done"}
  /\ k \in 0 .. Len(reqs) /\ left \in Nat
  /\ mark \in Nat /\ used \in Nat /\ fetched \in Nat

Window ==
  /\ mark = IF k = 0 THEN 0 ELSE Bodies[k]
  /\ mark <= used /\ used <= fetched
  /\ fetched <= Starts[Len(reqs) + 1] /\ fetched - used <= BufSize

NextHead ==
  k < Len(reqs) => used <= Bodies[k + 1] /\ (pc \in {"peek", "head"} => used < Bodies[k + 1])

BodyLeft ==
  /\ pc \in {"trip", "close", "drain", "respond"} \/ writer => k > 0 /\ used + left = Starts[k + 1]
  /\ writer => pc \in {"trip", "close", "drain"}

BodyClosed ==
  pc \in {"respond", "peek"} /\ k > 0 =>
    used = Starts[k + 1] \/ reqs[k].closing \/ (eof /\ fetched = used)

Reading == ReadTypes /\ Window /\ NextHead /\ BodyLeft /\ BodyClosed

LEMMA InitReading == Init => Reading
<1> SUFFICES ASSUME Init PROVE Reading
    OBVIOUS
<1>1. /\ reqs \in Runs /\ Len(reqs) \in Nat /\ Starts[1] = 0 /\ Starts[Len(reqs) + 1] \in Nat
  BY Places DEF Init
<1>2. /\ k = 0 /\ left = 0 /\ fetched = 0 /\ used = 0 /\ mark = 0 /\ pc = "peek"
      /\ writer = FALSE /\ eof = FALSE
  BY DEF Init
<1>3. k \in 0 .. Len(reqs) /\ fetched <= Starts[Len(reqs) + 1] /\ fetched - used <= BufSize
  BY <1>1, <1>2, ShapeAssumption
<1>4. k < Len(reqs) => used <= Bodies[k + 1] /\ used < Bodies[k + 1]
  <2>1. ASSUME Len(reqs) > 0 PROVE Bodies[1] \in Nat /\ 0 < Bodies[1]
    <3>1. 1 \in 1 .. Len(reqs)
      BY <1>1, <2>1
    <3>2. Bodies[1] \in Nat /\ Starts[1] < Bodies[1]
      BY <1>1, <3>1, Places
    <3>3. QED
      BY <1>1, <3>2
  <2>2. QED
    BY <1>1, <1>2, <2>1
<1>5. ReadTypes /\ Window
  <2>1. ReadTypes
    BY <1>1, <1>2, <1>3 DEF ReadTypes
  <2>2. Window
    BY <1>2, <1>3 DEF Window
  <2>3. QED
    BY <2>1, <2>2
<1>6. NextHead /\ BodyLeft /\ BodyClosed
  BY <1>2, <1>4 DEF NextHead, BodyLeft, BodyClosed
<1>7. QED
  BY <1>5, <1>6 DEF Reading

(* What the step of every action needs of the places. *)
LEMMA ReadingPlaces ==
  ASSUME ReadTypes
  PROVE  /\ Len(reqs) \in Nat /\ k \in Nat /\ k <= Len(reqs)
         /\ k > 0 => Bodies[k] \in Nat /\ Starts[k + 1] \in Nat /\ Bodies[k] <= Starts[k + 1]
         /\ k = 0 => Starts[k + 1] = 0
         /\ k < Len(reqs) => /\ Bodies[k + 1] \in Nat /\ Starts[k + 1] < Bodies[k + 1]
                             /\ Starts[k + 1] \in Nat /\ Starts[k + 2] \in Nat
                             /\ Bodies[k + 1] <= Starts[k + 2]
                             /\ Start(k + 1) = Starts[k + 1]
                             /\ Start(k + 1) + Len(HeadOf(reqs[k + 1])) = Bodies[k + 1]
                             /\ Len(reqs[k + 1].body) \in Nat
                             /\ Starts[k + 2] = Bodies[k + 1] + Len(reqs[k + 1].body)
         /\ Starts[Len(reqs) + 1] \in Nat
<1>1. reqs \in Runs /\ k \in 0 .. Len(reqs)
  BY DEF ReadTypes
<1>2. Len(reqs) \in Nat /\ Starts[1] = 0 /\ Starts[Len(reqs) + 1] \in Nat
  BY <1>1, Places
<1>3. k > 0 => k \in 1 .. Len(reqs)
  BY <1>1, <1>2
<1>4. k < Len(reqs) => k + 1 \in 1 .. Len(reqs) /\ (k + 1) + 1 = k + 2
  BY <1>1, <1>2
<1>5. k > 0 => Bodies[k] \in Nat /\ Starts[k + 1] \in Nat /\ Bodies[k] <= Starts[k + 1]
  BY <1>1, <1>3, Places
<1>6. ASSUME k < Len(reqs)
      PROVE  /\ Bodies[k + 1] \in Nat /\ Starts[k + 1] < Bodies[k + 1]
             /\ Starts[k + 1] \in Nat /\ Starts[k + 2] \in Nat
             /\ Bodies[k + 1] <= Starts[k + 2]
             /\ Start(k + 1) = Starts[k + 1]
             /\ Start(k + 1) + Len(HeadOf(reqs[k + 1])) = Bodies[k + 1]
             /\ Len(reqs[k + 1].body) \in Nat
             /\ Starts[k + 2] = Bodies[k + 1] + Len(reqs[k + 1].body)
  <2>1. PICK i \in 1 .. Len(reqs) : i = k + 1 /\ i + 1 = k + 2
    BY <1>4, <1>6
  <2>2. QED
    BY <1>1, <2>1, Places, Zenon
<1>7. QED
  BY <1>1, <1>2, <1>5, <1>6

LEMMA FetchReading == ASSUME Reading, Fetch PROVE Reading'
<1>1. ReadTypes /\ Window /\ NextHead /\ BodyLeft /\ BodyClosed
  BY DEF Reading
<1>2. /\ UNCHANGED <<reqs, eof, used, mark, pc, k, left, writer>> /\ ~eof
      /\ fetched = used \/ Buffered = 0
      /\ pc \in {"peek", "head", "trip", "close", "drain"}
  BY DEF Fetch
<1>3. Starts' = Starts /\ Bodies' = Bodies
  BY <1>2, SamePlaces
<1>4. PICK n \in 1 .. BufSize : fetched + n <= Starts[Len(reqs) + 1] /\ fetched' = fetched + n
  <2>1. Len(Stream) = Starts[Len(reqs) + 1]
    BY <1>1, Places DEF ReadTypes
  <2>2. QED
    BY <2>1 DEF Fetch
<1>5. fetched \in Nat /\ used \in Nat /\ fetched = used /\ BufSize \in Nat
  BY <1>1, <1>2, ShapeAssumption DEF ReadTypes, Buffered
<1>6. fetched' \in Nat /\ used <= fetched' /\ fetched' - used <= BufSize
  BY <1>4, <1>5
<1>7. ReadTypes'
  BY <1>1, <1>2, <1>6 DEF ReadTypes
<1>8. Window'
  BY <1>1, <1>2, <1>3, <1>4, <1>6 DEF Window
<1>9. NextHead' /\ BodyLeft'
  BY <1>1, <1>2, <1>3 DEF NextHead, BodyLeft
<1>10. BodyClosed'
  <2>1. pc' \in {"respond", "peek"} /\ k' > 0 => used = Starts[k + 1] \/ reqs[k].closing
    BY <1>1, <1>2 DEF BodyClosed
  <2>2. QED
    BY <1>2, <1>3, <2>1 DEF BodyClosed
<1>11. QED
  BY <1>7, <1>8, <1>9, <1>10 DEF Reading

LEMMA ReadRequestReading == ASSUME Reading, ReadRequest PROVE Reading'
<1>0. ReadTypes /\ Window /\ NextHead /\ BodyLeft /\ BodyClosed
  BY DEF Reading
<1>1. pc = "head" /\ UNCHANGED <<reqs, eof, fetched>>
  BY DEF ReadRequest
<1>2. Starts' = Starts /\ Bodies' = Bodies
  BY <1>1, SamePlaces
<1>3. ASSUME Buffered = 0 \/ k = Len(reqs) \/ used < Start(k + 1)
      PROVE  Reading'
  <2>1. pc' = "done" /\ UNCHANGED <<used, mark, k, left, writer>>
    BY <1>3 DEF ReadRequest
  <2>2. ReadTypes' /\ Window' /\ NextHead'
    BY <1>0, <1>1, <1>2, <2>1 DEF ReadTypes, Window, NextHead
  <2>3. BodyLeft' /\ BodyClosed'
    BY <1>0, <1>1, <1>2, <2>1 DEF BodyLeft, BodyClosed
  <2>4. QED
    BY <2>2, <2>3 DEF Reading
<1>4. ASSUME ~(Buffered = 0 \/ k = Len(reqs) \/ used < Start(k + 1))
      PROVE  Reading'
  <2>0. /\ used \in Nat /\ fetched \in Nat /\ k \in Nat /\ Len(reqs) \in Nat /\ k < Len(reqs)
        /\ mark <= used /\ used <= fetched /\ fetched - used <= BufSize /\ BufSize \in Nat
        /\ mark \in Nat
    BY <1>0, <1>4, ReadingPlaces, ShapeAssumption DEF ReadTypes, Window
  <2>1. /\ Bodies[k + 1] \in Nat /\ Start(k + 1) = Starts[k + 1] /\ Starts[k + 1] \in Nat
        /\ Start(k + 1) + Len(HeadOf(reqs[k + 1])) = Bodies[k + 1]
        /\ Starts[k + 2] = Bodies[k + 1] + Len(reqs[k + 1].body)
        /\ Len(reqs[k + 1].body) \in Nat
    BY <1>0, <2>0, ReadingPlaces
  <2>2. used < fetched /\ Starts[k + 1] <= used /\ used < Bodies[k + 1] /\ used' = used + 1
    <3>1. used' = used + 1
      BY <1>4 DEF ReadRequest
    <3>2. used < Bodies[k + 1]
      BY <1>0, <1>1, <2>0 DEF NextHead
    <3>3. used < fetched /\ Starts[k + 1] <= used
      BY <1>4, <2>0, <2>1 DEF Buffered
    <3>4. QED
      BY <3>1, <3>2, <3>3
  <2>3. used' \in Nat /\ mark <= used' /\ used' <= fetched /\ fetched - used' <= BufSize
        /\ used' <= Bodies[k + 1]
    BY <2>0, <2>1, <2>2
  <2>4. CASE used + 1 < Bodies[k + 1]
    <3>1. UNCHANGED <<mark, pc, k, left, writer>>
      BY <1>4, <2>1, <2>4 DEF ReadRequest
    <3>2. ReadTypes' /\ Window' /\ NextHead'
      BY <1>0, <1>1, <1>2, <2>2, <2>3, <2>4, <3>1 DEF ReadTypes, Window, NextHead
    <3>3. BodyLeft'
      <4>1. ~writer
        BY <1>0, <1>1 DEF BodyLeft
      <4>2. QED
        BY <1>1, <3>1, <4>1 DEF BodyLeft
    <3>4. BodyClosed'
      BY <1>1, <3>1 DEF BodyClosed
    <3>5. QED
      BY <3>2, <3>3, <3>4 DEF Reading
  <2>5. CASE ~(used + 1 < Bodies[k + 1])
    <3>1. /\ mark' = Bodies[k + 1] /\ k' = k + 1 /\ pc' = "trip"
          /\ left' = Len(reqs[k + 1].body) /\ writer' = TRUE
      BY <1>4, <2>1, <2>5 DEF ReadRequest, Drop
    <3>2. used' = Bodies[k + 1]
      BY <2>0, <2>1, <2>2, <2>3, <2>5
    <3>3. k' + 1 = k + 2 /\ k' \in 0 .. Len(reqs) /\ k' > 0 /\ k' # 0
      BY <2>0, <3>1
    <3>4. ReadTypes'
      BY <1>0, <1>1, <2>1, <2>3, <3>1, <3>3 DEF ReadTypes
    <3>5. Window'
      BY <1>0, <1>1, <1>2, <2>1, <2>3, <3>1, <3>2, <3>3 DEF Window
    <3>6. NextHead'
      <4>1. ASSUME k' < Len(reqs) PROVE used' <= Bodies[k' + 1]
        <5>1. k' + 1 \in 1 .. Len(reqs) /\ reqs \in Runs
          BY <1>0, <2>0, <3>1, <4>1 DEF ReadTypes
        <5>2. /\ Starts[k' + 1] \in Nat /\ Bodies[k' + 1] \in Nat
              /\ Starts[k' + 1] < Bodies[k' + 1]
          BY <5>1, Places
        <5>3. Starts[k' + 1] = used' + Len(reqs[k + 1].body) /\ used' \in Nat
          BY <2>1, <3>2, <3>3
        <5>4. used' <= Starts[k' + 1]
          BY <2>1, <5>3
        <5>5. QED
          BY <5>2, <5>3, <5>4
      <4>2. QED
        BY <1>1, <1>2, <3>1, <4>1 DEF NextHead
    <3>7. used' + left' = Starts[k' + 1]
      BY <2>1, <3>1, <3>2, <3>3
    <3>8. BodyLeft' /\ BodyClosed'
      BY <1>2, <3>1, <3>3, <3>7 DEF BodyLeft, BodyClosed
    <3>9. QED
      BY <3>4, <3>5, <3>6, <3>8 DEF Reading
  <2>6. QED
    BY <2>4, <2>5
<1>5. QED
  BY <1>3, <1>4

LEMMA BodyReading == ASSUME Reading, ReadBody \/ CloseBody PROVE Reading'
<1>0. ReadTypes /\ Window /\ NextHead /\ BodyLeft /\ BodyClosed
  BY DEF Reading
<1>1. UNCHANGED <<reqs, eof, fetched, mark, k>>
  BY DEF ReadBody, CloseBody
<1>2. Starts' = Starts /\ Bodies' = Bodies
  BY <1>1, SamePlaces
<1>3. ASSUME left > 0, Buffered > 0, used' = used + 1, left' = left - 1, UNCHANGED <<pc, writer>>,
             Closing \/ writer
      PROVE  Reading'
  <2>1. /\ used \in Nat /\ fetched \in Nat /\ left \in Nat /\ k \in Nat /\ mark \in Nat
        /\ mark <= used /\ used <= fetched /\ fetched - used <= BufSize /\ BufSize \in Nat
    BY <1>0, ReadingPlaces, ShapeAssumption DEF ReadTypes, Window
  <2>2. k > 0 /\ used + left = Starts[k + 1] /\ pc \in {"trip", "close", "drain"}
    BY <1>0, <1>3 DEF BodyLeft, Closing
  <2>3. /\ used' \in Nat /\ left' \in Nat /\ used' + left' = Starts[k + 1]
        /\ mark <= used' /\ used' <= fetched /\ fetched - used' <= BufSize
    BY <1>3, <2>1, <2>2 DEF Buffered
  <2>4. ReadTypes' /\ Window'
    BY <1>0, <1>1, <1>2, <1>3, <2>3 DEF ReadTypes, Window
  <2>5. k < Len(reqs) => used' <= Bodies[k + 1]
    <3>1. ASSUME k < Len(reqs) PROVE used' <= Bodies[k + 1]
      <4>1. Starts[k + 1] \in Nat /\ Bodies[k + 1] \in Nat /\ Starts[k + 1] < Bodies[k + 1]
        BY <1>0, <3>1, ReadingPlaces
      <4>2. QED
        BY <2>3, <4>1
    <3>2. QED
      BY <3>1
  <2>6. NextHead'
    BY <1>1, <1>2, <1>3, <2>2, <2>5 DEF NextHead
  <2>7. BodyLeft' /\ BodyClosed'
    BY <1>1, <1>2, <1>3, <2>2, <2>3 DEF BodyLeft, BodyClosed
  <2>8. QED
    BY <2>4, <2>6, <2>7 DEF Reading
<1>4. CASE ReadBody
  BY <1>3, <1>4 DEF ReadBody
<1>5. CASE CloseBody
  <2>1. Closing
    BY <1>5 DEF CloseBody
  <2>2. CASE left > 0 /\ ~reqs[k].closing /\ ~(eof /\ Buffered = 0)
    BY <1>3, <1>5, <2>1, <2>2 DEF CloseBody
  <2>3. CASE ~(left > 0 /\ ~reqs[k].closing /\ ~(eof /\ Buffered = 0))
    <3>1. pc' \in {"respond", "done"} /\ writer' = FALSE /\ UNCHANGED <<used, left>>
      BY <1>5, <2>3 DEF CloseBody, Closed
    <3>2. ReadTypes' /\ Window' /\ NextHead'
      BY <1>0, <1>1, <1>2, <3>1 DEF ReadTypes, Window, NextHead
    <3>3. k > 0 /\ used + left = Starts[k + 1]
      BY <1>0, <2>1 DEF BodyLeft, Closing
    <3>4. BodyLeft'
      BY <1>1, <1>2, <3>1, <3>3 DEF BodyLeft
    <3>5. left = 0 => used = Starts[k + 1]
      BY <1>0, <3>3 DEF ReadTypes
    <3>6. left = 0 \/ reqs[k].closing \/ (eof /\ Buffered = 0)
      BY <1>0, <2>3 DEF ReadTypes
    <3>7. Buffered = 0 => fetched = used
      BY <1>0 DEF ReadTypes, Buffered
    <3>8. BodyClosed'
      <4>1. used = Starts[k + 1] \/ reqs[k].closing \/ (eof /\ fetched = used)
        BY <3>5, <3>6, <3>7
      <4>2. QED
        BY <1>1, <1>2, <3>1, <4>1 DEF BodyClosed
    <3>9. QED
      BY <3>2, <3>4, <3>8 DEF Reading
  <2>4. QED
    BY <2>2, <2>3
<1>6. QED
  BY <1>4, <1>5

(* All other steps leave the stream alone. *)
LEMMA OtherReading ==
  ASSUME Reading,
         IsEOF \/ WriterDone \/ Answer \/ ClientCloses \/ WriteHead \/ WriteChunk \/ OriginFails
         \/ WriteFails \/ CloseChunked \/ Bodyless \/ UNCHANGED vars
  PROVE  Reading'
<1>0. ReadTypes /\ Window /\ NextHead /\ BodyLeft /\ BodyClosed
  BY DEF Reading
<1>1. UNCHANGED <<reqs, fetched, used, mark, k, left>>
  BY DEF IsEOF, WriterDone, Answer, ClientCloses, WriteHead, WriteChunk, OriginFails,
       WriteFails, CloseChunked, Bodyless, vars, readVars, readSide
<1>2. Starts' = Starts /\ Bodies' = Bodies
  BY <1>1, SamePlaces
<1>3. Window'
  BY <1>0, <1>1, <1>2 DEF Window
<1>4. CASE ClientCloses
  <2>1. eof' = TRUE /\ UNCHANGED <<pc, writer>>
    BY <1>4 DEF ClientCloses
  <2>2. ReadTypes' /\ NextHead'
    BY <1>0, <1>1, <1>2, <2>1 DEF ReadTypes, NextHead
  <2>3. BodyLeft' /\ BodyClosed'
    BY <1>0, <1>1, <1>2, <2>1 DEF BodyLeft, BodyClosed
  <2>4. QED
    BY <1>3, <2>2, <2>3 DEF Reading
<1>5. CASE WriterDone
  <2>1. writer' = FALSE /\ UNCHANGED <<eof, pc>>
    BY <1>5 DEF WriterDone
  <2>2. ReadTypes' /\ NextHead'
    BY <1>0, <1>1, <1>2, <2>1 DEF ReadTypes, NextHead
  <2>3. BodyLeft' /\ BodyClosed'
    BY <1>0, <1>1, <1>2, <2>1 DEF BodyLeft, BodyClosed
  <2>4. QED
    BY <1>3, <2>2, <2>3 DEF Reading
<1>6. CASE ~ClientCloses /\ ~WriterDone
  <2>1. /\ UNCHANGED <<eof, writer>>
        /\ \/ pc' = pc
           \/ pc = "peek" /\ pc' \in {"head", "done"}
           \/ pc = "trip" /\ pc' \in {"close", "drain"}
           \/ pc = "respond" /\ pc' \in {"peek", "done"}
    BY <1>6 DEF IsEOF, Answer, WriteHead, WriteChunk, OriginFails,
         WriteFails, CloseChunked, Bodyless, vars, readVars, readSide
  <2>2. ReadTypes'
    BY <1>0, <1>1, <2>1 DEF ReadTypes
  <2>3. NextHead'
    <3>1. CASE pc' \in {"close", "drain", "done"}
      BY <1>0, <1>1, <1>2, <3>1 DEF NextHead
    <3>2. CASE pc' = pc \/ pc = "peek"
      BY <1>0, <1>1, <1>2, <2>1, <3>2 DEF NextHead
    <3>3. CASE pc = "respond" /\ pc' = "peek"
      <4>1. used + left = Starts[k + 1] /\ used \in Nat /\ left \in Nat
        BY <1>0, <3>3 DEF BodyLeft, ReadTypes
      <4>2. k < Len(reqs) =>
              Starts[k + 1] \in Nat /\ Bodies[k + 1] \in Nat /\ Starts[k + 1] < Bodies[k + 1]
        BY <1>0, ReadingPlaces
      <4>3. k < Len(reqs) => used < Bodies[k + 1] /\ used <= Bodies[k + 1]
        BY <4>1, <4>2
      <4>4. QED
        BY <1>1, <1>2, <4>3 DEF NextHead
    <3>4. QED
      BY <2>1, <3>1, <3>2, <3>3
  <2>4. BodyLeft'
    BY <1>0, <1>1, <1>2, <2>1 DEF BodyLeft
  <2>5. BodyClosed'
    BY <1>0, <1>1, <1>2, <2>1 DEF BodyClosed
  <2>6. QED
    BY <1>3, <2>2, <2>3, <2>4, <2>5 DEF Reading
<1>7. QED
  BY <1>4, <1>5, <1>6

LEMMA NextReading == Reading /\ [Next]_vars => Reading'
BY FetchReading, ReadRequestReading, BodyReading, OtherReading
   DEF Next, Loop, Respond

-----------------------------------------------------------------------------
(* Writing the answer. *)

Chunk == <<"size", "data", "crlf">>

(* What the client has of an answer after n whole chunks. *)
Sent(n) == <<"head">> \o FlattenSeq([i \in 1 .. n |-> Chunk])

LEMMA SentFacts ==
  /\ Sent(0) = <<"head">>
  /\ \A n \in Nat : /\ Sent(n) \in Seq(Wire) /\ Sent(n) # <<>>
                    /\ Last(Sent(n)) \in {"head", "crlf"}
                    /\ Sent(n + 1) = Append(Append(Append(Sent(n), "size"), "data"), "crlf")
<1>1. Chunk \in Seq(Wire) /\ <<"head">> \in Seq(Wire)
  BY DEF Chunk, Wire
<1> DEFINE B(N) == [i \in 1 .. N |-> Chunk]
<1>2. ASSUME NEW n \in Nat, NEW N \in Nat, n <= N
      PROVE  Sent(n) = <<"head">> \o Flat(B(N), n)
  <2>1. [i \in 1 .. n |-> B(N)[i]] = [i \in 1 .. n |-> Chunk]
    BY <1>2
  <2>2. QED
    BY <2>1 DEF Sent, Flat
<1>3. \A N \in Nat : B(N) \in [1 .. N -> Seq(Wire)]
  BY <1>1
<1> HIDE DEF B
<1>4. Sent(0) = <<"head">>
  <2>1. Sent(0) = <<"head">> \o Flat(B(0), 0)
    <3>1. 0 \in Nat /\ 0 <= 0
      OBVIOUS
    <3>2. QED
      BY <1>2, <3>1, Zenon
  <2>2. Flat(B(0), 0) = <<>>
    BY FlatEmpty
  <2>3. QED
    BY <1>1, <2>1, <2>2, ConcatEmptySeq
<1>5. ASSUME NEW n \in Nat
      PROVE  /\ Sent(n) \in Seq(Wire) /\ Sent(n) # <<>>
             /\ Sent(n + 1) = Append(Append(Append(Sent(n), "size"), "data"), "crlf")
  <2> DEFINE N == n + 1
             f == Flat(B(N), n)
  <2>1. N \in Nat /\ n \in 0 .. N - 1 /\ n \in 0 .. N /\ B(N) \in [1 .. N -> Seq(Wire)]
    BY <1>3
  <2>2. f \in Seq(Wire)
    <3> HIDE DEF N
    <3>1. QED
      BY <2>1, FlatType
  <2>3. Flat(B(N), n + 1) = f \o Chunk
    <3>1. Flat(B(N), n + 1) = f \o B(N)[n + 1]
      <4> HIDE DEF N
      <4>1. QED
        BY <2>1, FlatNext
    <3>2. B(N)[n + 1] = Chunk
      BY <2>1 DEF B
    <3>3. QED
      BY <3>1, <3>2
  <2>4. Sent(n) = <<"head">> \o f /\ Sent(n + 1) = <<"head">> \o Flat(B(N), n + 1)
    <3>1. n \in Nat /\ n + 1 \in Nat /\ n <= N /\ n + 1 <= N
      OBVIOUS
    <3> HIDE DEF N
    <3>2. QED
      BY <1>2, <2>1, <3>1, Zenon
  <2> HIDE DEF f, N
  <2>5. Sent(n + 1) = Sent(n) \o Chunk
    <3>1. Associates(Wire)
      BY ConcatAssociates
    <3>2. (<<"head">> \o f) \o Chunk = <<"head">> \o (f \o Chunk)
      BY <1>1, <2>2, <3>1 DEF Associates
    <3>3. QED
      BY <2>3, <2>4, <3>2
  <2>6. Sent(n) \in Seq(Wire) /\ Sent(n) # <<>>
    BY <1>1, <2>2, <2>4
  <2>7. \A s \in Seq(Wire) : s \o Chunk = Append(Append(Append(s, "size"), "data"), "crlf")
    <3>1. "size" \in Wire /\ "data" \in Wire /\ "crlf" \in Wire
      BY DEF Wire
    <3> SUFFICES ASSUME NEW s \in Seq(Wire)
                 PROVE  s \o Chunk = Append(Append(Append(s, "size"), "data"), "crlf")
      OBVIOUS
    <3>2. Chunk = Append(Append(Append(<<>>, "size"), "data"), "crlf")
      BY DEF Chunk
    <3>3. <<>> \in Seq(Wire) /\ Append(<<>>, "size") \in Seq(Wire)
          /\ Append(Append(<<>>, "size"), "data") \in Seq(Wire)
      BY <3>1
    <3>4. AppendsBehind(Wire)
      BY AppendConcat
    <3>5. s \o <<>> = s
      BY ConcatEmptySeq
    <3>6. s \o Append(<<>>, "size") = Append(s, "size")
      BY <3>1, <3>3, <3>4, <3>5 DEF AppendsBehind
    <3>7. s \o Append(Append(<<>>, "size"), "data") = Append(Append(s, "size"), "data")
      BY <3>1, <3>3, <3>4, <3>6 DEF AppendsBehind
    <3>8. QED
      BY <3>1, <3>2, <3>3, <3>4, <3>7 DEF AppendsBehind
  <2>8. QED
    BY <2>5, <2>6, <2>7
<1>6. ASSUME NEW n \in Nat PROVE Last(Sent(n)) \in {"head", "crlf"}
  <2>1. CASE n = 0
    BY <1>4, <2>1 DEF Last
  <2>2. CASE n # 0
    <3>1. n - 1 \in Nat /\ (n - 1) + 1 = n
      BY <2>2
    <3>2. PICK m \in Nat : m + 1 = n
      BY <3>1
    <3> DEFINE s == Append(Append(Sent(m), "size"), "data")
    <3>3. Sent(m) \in Seq(Wire) /\ Sent(n) = Append(s, "crlf")
      BY <1>5, <3>2
    <3>5. s \in Seq(Wire)
      BY <3>3 DEF Wire
    <3> HIDE DEF s
    <3>4. QED
      BY <3>3, <3>5 DEF Last
  <2>3. QED
    BY <2>1, <2>2
<1>7. QED
  BY <1>4, <1>5, <1>6

Half(n) == Append(Append(Sent(n), "size"), "data")

(* What may be on its way to the client, o, with c pieces of the body read.  *)
Written(o, c, r) ==
  \/ o = <<>> /\ c = 0
  \/ r.bodyless /\ o = <<"head">>
  \/ ~r.bodyless /\ \E n \in Nat :
       \/ c = n /\ n <= r.size /\ o = Sent(n)
       \/ c = n /\ n < r.size /\ o = Append(Sent(n), "size")
       \/ c = n + 1 /\ n < r.size /\ o = Half(n)
       \/ c = n /\ n = r.size /\ o = Append(Sent(n), "zero")

Answering ==
  /\ resp \in Response /\ copied \in 0 .. MaxPieces
  /\ pc \in {"close", "drain"} => out = <<>> /\ copied = 0
  /\ pc = "respond" => Written(out, copied, resp)

LEMMA SentLast ==
  ASSUME NEW n \in Nat
  PROVE  /\ Sent(n) # <<>> /\ Append(Sent(n), "size") # <<>> /\ Half(n) # <<>>
         /\ Append(Sent(n), "zero") # <<>>
         /\ Last(Sent(n)) \in {"head", "crlf"}
         /\ Last(Append(Sent(n), "size")) = "size" /\ Last(Half(n)) = "data"
         /\ Last(Append(Sent(n), "zero")) = "zero"
         /\ Sent(n + 1) = Append(Half(n), "crlf")
<1>1. /\ Sent(n) \in Seq(Wire) /\ Sent(n) # <<>> /\ Last(Sent(n)) \in {"head", "crlf"}
      /\ Sent(n + 1) = Append(Half(n), "crlf")
  BY SentFacts DEF Half
<1>2. Append(Sent(n), "size") \in Seq(Wire)
  BY <1>1 DEF Wire
<1>3. Append(Sent(n), "size") # <<>> /\ Last(Append(Sent(n), "size")) = "size"
      /\ Append(Sent(n), "zero") # <<>> /\ Last(Append(Sent(n), "zero")) = "zero"
  BY <1>1 DEF Wire, Last
<1>4. Half(n) # <<>> /\ Last(Half(n)) = "data"
  BY <1>2 DEF Half, Last, Wire
<1>5. QED
  BY <1>1, <1>3, <1>4

LEMMA WriteHeadAnswering == ASSUME Answering, WriteHead PROVE Answering'
<1>1. resp \in Response /\ copied \in 0 .. MaxPieces /\ Written(out, copied, resp)
  BY DEF Answering, WriteHead
<1>2. out = <<>> /\ out' = Append(<<>>, "head") /\ pc' = "respond"
      /\ UNCHANGED <<resp, copied>>
  BY DEF WriteHead, Write
<1>3. out' = <<"head">> /\ Sent(0) = <<"head">>
  BY <1>2, SentFacts
<1>4. copied = 0
  <2>1. <<"head">> # <<>>
    OBVIOUS
  <2>2. QED
    BY <1>1, <1>2, <2>1, SentLast DEF Written
<1>5. 0 \in Nat /\ 0 <= resp.size
  BY <1>1, ShapeAssumption DEF Response
<1>6. Written(out', copied', resp')
  BY <1>2, <1>3, <1>4, <1>5 DEF Written
<1>7. QED
  BY <1>1, <1>2, <1>6 DEF Answering

LEMMA WriteChunkAnswering == ASSUME Answering, WriteChunk PROVE Answering'
<1>1. /\ resp \in Response /\ copied \in 0 .. MaxPieces /\ Written(out, copied, resp)
      /\ out # <<>> /\ ~resp.bodyless /\ UNCHANGED <<pc, resp>> /\ pc = "respond"
  BY DEF Answering, WriteChunk
<1>2. resp.size \in 0 .. MaxPieces /\ MaxPieces \in Nat
  BY <1>1, ShapeAssumption DEF Response
<1>3. PICK n \in Nat :
       \/ copied = n /\ n <= resp.size /\ out = Sent(n)
       \/ copied = n /\ n < resp.size /\ out = Append(Sent(n), "size")
       \/ copied = n + 1 /\ n < resp.size /\ out = Half(n)
       \/ copied = n /\ n = resp.size /\ out = Append(Sent(n), "zero")
  BY <1>1 DEF Written
<1>4. CASE Last(out) \in {"head", "crlf"} /\ copied < resp.size /\ Write("size") /\ UNCHANGED copied
  <2>1. out = Sent(n) /\ copied = n /\ n < resp.size
    BY <1>3, <1>4, SentLast
  <2>2. out' = Append(Sent(n), "size")
    BY <1>4, <2>1 DEF Write
  <2>3. Written(out', copied', resp')
    BY <1>1, <1>4, <2>1, <2>2 DEF Written
  <2>4. QED
    BY <1>1, <1>4, <2>3 DEF Answering
<1>5. CASE Last(out) = "size" /\ Write("data") /\ copied' = copied + 1
  <2>1. out = Append(Sent(n), "size") /\ copied = n /\ n < resp.size
    BY <1>3, <1>5, SentLast
  <2>2. out' = Half(n) /\ copied' = n + 1
    BY <1>5, <2>1 DEF Write, Half
  <2>3. Written(out', copied', resp')
    BY <1>1, <2>1, <2>2 DEF Written
  <2>4. copied' \in 0 .. MaxPieces
    BY <1>2, <2>1, <2>2
  <2>5. QED
    BY <1>1, <2>3, <2>4 DEF Answering
<1>6. CASE Last(out) = "data" /\ Write("crlf") /\ UNCHANGED copied
  <2>1. out = Half(n) /\ copied = n + 1 /\ n < resp.size
    BY <1>3, <1>6, SentLast
  <2>2. out' = Sent(n + 1) /\ n + 1 \in Nat /\ n + 1 <= resp.size
    <3>1. out' = Append(Half(n), "crlf")
      BY <1>6, <2>1 DEF Write
    <3>2. Sent(n + 1) = Append(Half(n), "crlf")
      BY SentLast
    <3>3. n + 1 \in Nat /\ n + 1 <= resp.size
      BY <1>2, <2>1
    <3>4. QED
      BY <3>1, <3>2, <3>3
  <2>3. Written(out', copied', resp')
    BY <1>1, <1>6, <2>1, <2>2 DEF Written
  <2>4. QED
    BY <1>1, <1>6, <2>3 DEF Answering
<1>7. QED
  BY <1>4, <1>5, <1>6 DEF WriteChunk

LEMMA CloseChunkedAnswering == ASSUME Answering, CloseChunked PROVE Answering'
<1>1. /\ resp \in Response /\ copied \in 0 .. MaxPieces /\ Written(out, copied, resp)
      /\ out # <<>> /\ ~resp.bodyless /\ UNCHANGED <<copied, resp>> /\ pc = "respond"
  BY DEF Answering, CloseChunked
<1>2. CASE Last(out) = "zero" /\ Write("crlf") /\ pc' = IF resp.close THEN "done" ELSE "peek"
  BY <1>1, <1>2 DEF Answering
<1>3. CASE AllCopied /\ Write("zero") /\ UNCHANGED pc
  <2>1. resp.size \in Nat
    BY <1>1, ShapeAssumption DEF Response
  <2>2. PICK n \in Nat :
         \/ copied = n /\ n <= resp.size /\ out = Sent(n)
         \/ copied = n /\ n < resp.size /\ out = Append(Sent(n), "size")
         \/ copied = n + 1 /\ n < resp.size /\ out = Half(n)
         \/ copied = n /\ n = resp.size /\ out = Append(Sent(n), "zero")
    BY <1>1 DEF Written
  <2>3. out = Sent(n) /\ copied = n /\ n = resp.size
    BY <1>3, <2>2, SentLast DEF AllCopied
  <2>4. Written(out', copied', resp')
    BY <1>1, <1>3, <2>3 DEF Written, Write
  <2>5. QED
    BY <1>1, <1>3, <2>4 DEF Answering
<1>4. QED
  BY <1>2, <1>3 DEF CloseChunked

LEMMA NextAnswering == Answering /\ [Next]_vars => Answering'
<1> SUFFICES ASSUME Answering, [Next]_vars PROVE Answering'
    OBVIOUS
<1>1. CASE ReadRequest
  <2>1. UNCHANGED respVars /\ pc' \in {"head", "done", "trip"}
    BY <1>1 DEF ReadRequest
  <2>2. QED
    BY <2>1 DEF Answering, respVars
<1>2. CASE CloseBody
  <2>1. UNCHANGED respVars /\ Closing /\ (UNCHANGED pc \/ pc' \in {"respond", "done"})
    BY <1>2 DEF CloseBody, Closed
  <2>2. QED
    BY <2>1 DEF Closing, Answering, respVars, Written
<1>3. CASE Answer
  <2>1. resp' \in Response /\ copied' = 0 /\ out' = <<>> /\ pc' \in {"close", "drain"}
    BY <1>3 DEF Answer, Answering
  <2>2. QED
    BY <2>1, ShapeAssumption DEF Answering
<1>4. CASE IsEOF \/ Fetch \/ ReadBody \/ WriterDone \/ ClientCloses \/ UNCHANGED vars
  <2>1. UNCHANGED respVars /\ (UNCHANGED pc \/ pc' \in {"head", "done"})
    BY <1>4 DEF IsEOF, Fetch, ReadBody, WriterDone, ClientCloses, vars
  <2>2. QED
    BY <2>1 DEF Answering, respVars
<1>5. CASE OriginFails \/ Bodyless \/ WriteFails
  BY <1>5 DEF OriginFails, Bodyless, WriteFails, Answering, respVars
<1>6. QED
  BY <1>1, <1>2, <1>3, <1>4, <1>5, WriteHeadAnswering, WriteChunkAnswering,
     CloseChunkedAnswering DEF Next, Loop, Respond

LEMMA InitAnswering == Init => Answering
BY ShapeAssumption DEF Init, Answering, NoResponse, Response

(* When the loop goes on, all of the answer has been written. *)
LEMMA WholeStep ==
  Answering /\ [Next]_vars =>
    (pc = "respond" /\ pc' = "peek" =>
       out' = IF resp.bodyless THEN <<"head">>
              ELSE <<"head">> \o Chunks \o <<"zero", "crlf">>)
<1> SUFFICES ASSUME Answering, Next, pc = "respond", pc' = "peek"
             PROVE  out' = IF resp.bodyless THEN <<"head">>
                           ELSE <<"head">> \o Chunks \o <<"zero", "crlf">>
    BY DEF vars
<1>1. CloseChunked \/ Bodyless
  BY DEF Next, Loop, Respond, IsEOF, ReadRequest, CloseBody, Closing, Closed, WriteHead, WriteChunk, OriginFails,
     Fetch, ReadBody, WriterDone, Answer, WriteFails, ClientCloses
<1>2. Written(out, copied, resp) /\ resp \in Response
  BY DEF Answering
<1>3. CASE Bodyless
  <2>1. out # <<>> /\ resp.bodyless /\ out' = out
    BY <1>3 DEF Bodyless, respVars
  <2>2. QED
    BY <1>2, <2>1 DEF Written
<1>4. CASE CloseChunked
  <2>1. Last(out) = "zero" /\ out' = Append(out, "crlf") /\ ~resp.bodyless /\ out # <<>>
    BY <1>4 DEF CloseChunked, Write
  <2>2. PICK n \in Nat :
         \/ copied = n /\ n <= resp.size /\ out = Sent(n)
         \/ copied = n /\ n < resp.size /\ out = Append(Sent(n), "size")
         \/ copied = n + 1 /\ n < resp.size /\ out = Half(n)
         \/ copied = n /\ n = resp.size /\ out = Append(Sent(n), "zero")
    BY <1>2, <2>1 DEF Written
  <2>3. n = resp.size /\ out = Append(Sent(n), "zero")
    BY <2>1, <2>2, SentLast
  <2>4. Sent(n) = <<"head">> \o Chunks
    BY <2>3 DEF Sent, Chunks, Chunk
  <2>5. Sent(n) \in Seq(Wire)
    BY SentFacts
  <2>6. \A s \in Seq(Wire) : Append(Append(s, "zero"), "crlf") = s \o <<"zero", "crlf">>
    <3>1. "zero" \in Wire /\ "crlf" \in Wire /\ <<>> \in Seq(Wire)
      BY DEF Wire
    <3> SUFFICES ASSUME NEW s \in Seq(Wire)
                 PROVE  Append(Append(s, "zero"), "crlf") = s \o <<"zero", "crlf">>
      OBVIOUS
    <3>2. <<"zero", "crlf">> = Append(Append(<<>>, "zero"), "crlf")
      OBVIOUS
    <3>3. AppendsBehind(Wire)
      BY AppendConcat
    <3>4. s \o <<>> = s
      BY ConcatEmptySeq
    <3>5. s \o Append(<<>>, "zero") = Append(s, "zero")
      BY <3>1, <3>3, <3>4 DEF AppendsBehind
    <3>6. Append(<<>>, "zero") \in Seq(Wire)
      BY <3>1
    <3>7. s \o Append(Append(<<>>, "zero"), "crlf") = Append(Append(s, "zero"), "crlf")
      BY <3>1, <3>3, <3>5, <3>6 DEF AppendsBehind
    <3>8. QED
      BY <3>2, <3>7
  <2>7. out' = Sent(n) \o <<"zero", "crlf">>
    BY <2>1, <2>3, <2>5, <2>6
  <2>8. QED
    BY <2>1, <2>4, <2>7
<1>5. QED
  BY <1>1, <1>3, <1>4

-----------------------------------------------------------------------------
(* The header names. *)

Headers == UNION {[keys -> SUBSET Nat] : keys \in SUBSET Names}

LEMMA RewriteType ==
  ASSUME NEW h \in Headers, NEW n \in Names
  PROVE  Rewrite(h, n) \in Headers
<1>1. PICK keys \in SUBSET Names : h \in [keys -> SUBSET Nat]
  BY DEF Headers
<1>2. CASE Canon[n] # n /\ Canon[n] \in DOMAIN h
  <2> DEFINE more == (keys \ {Canon[n]}) \cup {n}
             g == [key \in more |-> IF key = n THEN h[Canon[n]] ELSE h[key]]
  <2>1. Rewrite(h, n) = g
    BY <1>1, <1>2 DEF Rewrite
  <2>2. more \in SUBSET Names /\ g \in [more -> SUBSET Nat]
    BY <1>1, <1>2
  <2> HIDE DEF more, g
  <2>3. QED
    BY <2>1, <2>2 DEF Headers
<1>3. QED
  BY <1>2 DEF Rewrite

LEMMA RespellingDef ==
  ASSUME NEW h \in Headers, NEW names \in Seq(Names)
  PROVE  /\ Respelling(h, names) \in [0 .. Len(names) -> Headers]
         /\ Respelling(h, names)[0] = h
         /\ \A n \in 1 .. Len(names) :
              Respelling(h, names)[n] = Rewrite(Respelling(h, names)[n - 1], names[n])
<1> DEFINE Is(g) == g = [n \in 0 .. Len(names) |->
                           IF n = 0 THEN h ELSE Rewrite(g[n - 1], names[n])]
           F == [n \in 1 .. Len(names) |-> [g \in Headers |-> Rewrite(g, names[n])]]
<1>1. Len(names) \in Nat /\ \A n \in 1 .. Len(names) : names[n] \in Names
  OBVIOUS
<1>2. F \in [1 .. Len(names) -> [Headers -> Headers]]
  BY <1>1, RewriteType
<1>3. PICK g \in [0 .. Len(names) -> Headers] :
        g[0] = h /\ \A i \in 1 .. Len(names) : g[i] = F[i][g[i - 1]]
  <2> HIDE DEF F
  <2>1. Unrolls(Headers, Len(names), h, F)
    BY <1>1, <1>2, RecursiveFunction
  <2>2. QED
    BY <2>1 DEF Unrolls
<1>4. ASSUME NEW i \in 1 .. Len(names) PROVE g[i] = Rewrite(g[i - 1], names[i])
  <2>1. g[i - 1] \in Headers
    BY <1>3
  <2>2. QED
    BY <1>3, <2>1
<1>5. Is(g)
  <2>1. \A n \in 0 .. Len(names) : g[n] = IF n = 0 THEN h ELSE Rewrite(g[n - 1], names[n])
    BY <1>1, <1>3, <1>4
  <2>2. QED
    BY <2>1, <1>3
<1>6. Is(Respelling(h, names))
  <2>1. Respelling(h, names) = CHOOSE f : Is(f)
    BY DEF Respelling
  <2>2. QED
    BY <1>5, <2>1
<1> DEFINE f == Respelling(h, names)
<1>7. /\ f = [n \in 0 .. Len(names) |-> f[n]] /\ f[0] = h
      /\ \A n \in 1 .. Len(names) : f[n] = Rewrite(f[n - 1], names[n])
  <2>1. Is(f)
    BY <1>6
  <2> HIDE DEF f
  <2>2. \A n \in 0 .. Len(names) : f[n] = IF n = 0 THEN h ELSE Rewrite(f[n - 1], names[n])
    BY <2>1
  <2>3. DOMAIN f = 0 .. Len(names)
    BY <2>1
  <2>4. QED
    BY <1>1, <2>1, <2>2, <2>3
<1>8. \A n \in 0 .. Len(names) : f[n] \in Headers
  <2> HIDE DEF f
  <2> DEFINE P == {n \in Nat : n <= Len(names) => f[n] \in Headers}
  <2>1. 0 \in P
    BY <1>7
  <2>2. ASSUME NEW n \in Nat, n \in P PROVE n + 1 \in P
    <3> SUFFICES ASSUME n + 1 <= Len(names) PROVE f[n + 1] \in Headers
        OBVIOUS
    <3>1. f[n] \in Headers /\ n + 1 \in 1 .. Len(names) /\ (n + 1) - 1 = n /\ names[n + 1] \in Names
      BY <2>2, <1>1
    <3>2. f[n + 1] = Rewrite(f[n], names[n + 1])
      BY <3>1, <1>7
    <3>3. QED
      BY <3>1, <3>2, RewriteType
  <2>3. QED
    <3> HIDE DEF P
    <3>1. \A n \in Nat : n \in P
      BY <2>1, <2>2, SetInduction
    <3>2. QED
      BY <3>1, <1>1 DEF P
<1>9. QED
  BY <1>7, <1>8

(* The values of each field are under one key, one that is spelled like it.  *)
Keeps(h, fields) ==
  /\ \A key \in DOMAIN h :
       h[key] = {i \in 1 .. Len(fields) : Canon[fields[i]] = Canon[key]}
  /\ \A a, b \in DOMAIN h : Canon[a] = Canon[b] => a = b
  /\ \A i \in 1 .. Len(fields) : \E key \in DOMAIN h : Canon[key] = Canon[fields[i]]
  /\ \A key \in DOMAIN h : \E i \in 1 .. Len(fields) : Canon[key] = Canon[fields[i]]

LEMMA RewriteKeeps ==
  ASSUME NEW h \in Headers, NEW n \in Names, NEW fields \in Seq(Names), Keeps(h, fields)
  PROVE  Keeps(Rewrite(h, n), fields)
<1>1. CASE Canon[n] # n /\ Canon[n] \in DOMAIN h
  <2> DEFINE c == Canon[n]
             g == Rewrite(h, n)
  <2>1. /\ DOMAIN g = (DOMAIN h \ {c}) \cup {n}
        /\ g[n] = h[c]
        /\ \A key \in DOMAIN h \ {c, n} : g[key] = h[key]
    BY <1>1 DEF Rewrite
  <2>2. Canon[c] = c /\ c \in DOMAIN h
    BY <1>1, ShapeAssumption
  <2>3. n \notin DOMAIN h
    BY <1>1, <2>2 DEF Keeps
  <2> HIDE DEF g
  <2>4. ASSUME NEW key \in DOMAIN g
        PROVE  g[key] = {i \in 1 .. Len(fields) : Canon[fields[i]] = Canon[key]}
    BY <2>1, <2>2, <2>3 DEF Keeps
  <2>5. ASSUME NEW a \in DOMAIN g, NEW b \in DOMAIN g, Canon[a] = Canon[b]
        PROVE  a = b
    BY <2>1, <2>2, <2>5 DEF Keeps
  <2>6. ASSUME NEW i \in 1 .. Len(fields)
        PROVE  \E key \in DOMAIN g : Canon[key] = Canon[fields[i]]
    <3>1. PICK key \in DOMAIN h : Canon[key] = Canon[fields[i]]
      BY DEF Keeps
    <3>2. QED
      BY <2>1, <2>2, <3>1
  <2>7. ASSUME NEW key \in DOMAIN g
        PROVE  \E i \in 1 .. Len(fields) : Canon[key] = Canon[fields[i]]
    <3>1. CASE key \in DOMAIN h
      BY <3>1 DEF Keeps
    <3>2. CASE key = n
      BY <2>2, <3>2 DEF Keeps
    <3>3. QED
      BY <2>1, <3>1, <3>2
  <2>8. QED
    BY <2>4, <2>5, <2>6, <2>7 DEF Keeps, g
<1>2. QED
  BY <1>1 DEF Rewrite

LEMMA ParsedKeeps ==
  ASSUME NEW r \in Request
  PROVE  Parsed(r) \in Headers /\ Keeps(Parsed(r), r.fields)
<1> DEFINE fields == r.fields
           keys == {Canon[fields[i]] : i \in 1 .. Len(fields)}
           h == Parsed(r)
<1>1. fields \in Seq(Names) /\ Len(fields) \in Nat /\ \A i \in 1 .. Len(fields) : fields[i] \in Names
  BY RequestFacts
<1>2. keys \in SUBSET Names /\ \A key \in keys : Canon[key] = key
  BY <1>1, ShapeAssumption
<1>3. h = [key \in keys |-> {i \in 1 .. Len(fields) : Canon[fields[i]] = key}]
  BY DEF Parsed
<1>4. h \in [keys -> SUBSET Nat]
  BY <1>3
<1>5. h \in Headers
  <2> HIDE DEF h, keys
  <2>1. QED
    BY <1>2, <1>4 DEF Headers
<1>6. \A i \in 1 .. Len(fields) : Canon[fields[i]] \in keys
  OBVIOUS
<1>7. \A key \in keys : \E i \in 1 .. Len(fields) : Canon[fields[i]] = key
  OBVIOUS
<1> HIDE DEF h, keys, fields
<1>8. Keeps(h, fields)
  <2>1. DOMAIN h = keys
    BY <1>3
  <2>2. \A key \in DOMAIN h : h[key] = {i \in 1 .. Len(fields) : Canon[fields[i]] = Canon[key]}
    BY <1>2, <1>3
  <2>3. \A a, b \in DOMAIN h : Canon[a] = Canon[b] => a = b
    BY <1>2, <2>1
  <2>4. \A i \in 1 .. Len(fields) : \E key \in DOMAIN h : Canon[key] = Canon[fields[i]]
    BY <1>2, <1>6, <2>1
  <2>5. \A key \in DOMAIN h : \E i \in 1 .. Len(fields) : Canon[key] = Canon[fields[i]]
    BY <1>2, <1>7, <2>1
  <2>6. QED
    BY <2>2, <2>3, <2>4, <2>5 DEF Keeps
<1>9. QED
  BY <1>5, <1>8 DEF h, fields

(* Whatever the names are. *)
LEMMA RespelledKeeps ==
  ASSUME NEW r \in Request, NEW names \in Seq(Names)
  PROVE  Keeps(Respelled(Parsed(r), names), r.fields)
<1> DEFINE f == Respelling(Parsed(r), names)
           P == {n \in Nat : n <= Len(names) => Keeps(f[n], r.fields)}
<1>1. Parsed(r) \in Headers /\ Keeps(Parsed(r), r.fields) /\ r.fields \in Seq(Names)
  BY ParsedKeeps, RequestFacts
<1>2. /\ f \in [0 .. Len(names) -> Headers] /\ f[0] = Parsed(r)
      /\ \A n \in 1 .. Len(names) : f[n] = Rewrite(f[n - 1], names[n])
  BY <1>1, RespellingDef
<1> HIDE DEF f
<1>3. 0 \in P
  BY <1>1, <1>2
<1>4. ASSUME NEW n \in Nat, n \in P PROVE n + 1 \in P
  <2> SUFFICES ASSUME n + 1 <= Len(names) PROVE Keeps(f[n + 1], r.fields)
      OBVIOUS
  <2>1. n + 1 \in 1 .. Len(names) /\ (n + 1) - 1 = n /\ n <= Len(names) /\ n \in 0 .. Len(names)
    OBVIOUS
  <2>2. f[n] \in Headers /\ Keeps(f[n], r.fields) /\ names[n + 1] \in Names
    BY <1>2, <1>4, <2>1
  <2>3. f[n + 1] = Rewrite(f[n], names[n + 1])
    BY <1>2, <2>1
  <2>4. QED
    BY <1>1, <2>2, <2>3, RewriteKeeps
<1>5. QED
  <2> HIDE DEF P
  <2>1. \A n \in Nat : n \in P
    BY <1>3, <1>4, SetInduction
  <2>2. Len(names) \in Nat /\ Len(names) <= Len(names)
    OBVIOUS
  <2>3. QED
    BY <2>1, <2>2 DEF P, Respelled, f

(* When the names are those of the request itself, each key becomes one of   *)
(* them: a key that is not has no field left to take a spelling from.        *)
LEMMA OwnNames ==
  ASSUME NEW r \in Request
  PROVE  DOMAIN Respelled(Parsed(r), r.fields) \subseteq ToSet(r.fields)
<1> DEFINE names == r.fields
           f == Respelling(Parsed(r), names)
           Done(h, n) == \A key \in DOMAIN h :
             \/ key \in ToSet(names)
             \/ Canon[key] = key /\ \A i \in 1 .. n : Canon[names[i]] = key => names[i] = key
           P == {n \in Nat : n <= Len(names) => Done(f[n], n)}
<1>1. /\ Parsed(r) \in Headers /\ names \in Seq(Names) /\ Len(names) \in Nat
      /\ \A i \in 1 .. Len(names) : names[i] \in Names /\ names[i] \in ToSet(names)
  BY ParsedKeeps, RequestFacts DEF ToSet
<1>2. /\ f \in [0 .. Len(names) -> Headers] /\ f[0] = Parsed(r)
      /\ \A n \in 1 .. Len(names) : f[n] = Rewrite(f[n - 1], names[n])
  BY <1>1, RespellingDef
<1>3. 0 \in P
  <2>1. \A key \in DOMAIN Parsed(r) : Canon[key] = key
    BY <1>1, ShapeAssumption DEF Parsed
  <2>2. QED
    BY <1>2, <2>1
<1> HIDE DEF f
<1>4. ASSUME NEW n \in Nat, n \in P PROVE n + 1 \in P
  <2> SUFFICES ASSUME n + 1 <= Len(names) PROVE Done(f[n + 1], n + 1)
      OBVIOUS
  <2>1. n + 1 \in 1 .. Len(names) /\ (n + 1) - 1 = n /\ n <= Len(names) /\ n \in 0 .. Len(names)
    BY <1>1
  <2> DEFINE x == names[n + 1]
             h == f[n]
             g == f[n + 1]
  <2>2. Done(h, n) /\ x \in Names /\ x \in ToSet(names)
    BY <1>1, <1>4, <2>1
  <2>3. g = Rewrite(h, x)
    BY <1>2, <2>1
  <2>4. \A i \in 1 .. n + 1 : i \in 1 .. n \/ i = n + 1
    OBVIOUS
  <2> HIDE DEF x, h, g
  <2>5. ASSUME NEW key \in DOMAIN g, key \notin ToSet(names)
        PROVE  key \in DOMAIN h /\ (Canon[x] = key => x = key)
    BY <2>2, <2>3, <2>5 DEF Rewrite
  <2>6. ASSUME NEW key \in DOMAIN g, key \notin ToSet(names)
        PROVE  Canon[key] = key /\ \A i \in 1 .. n + 1 : Canon[names[i]] = key => names[i] = key
    BY <2>2, <2>4, <2>5, <2>6 DEF x
  <2>7. QED
    BY <2>6 DEF g
<1>5. Done(f[Len(names)], Len(names))
  <2> HIDE DEF P, Done
  <2>1. \A n \in Nat : n \in P
    BY <1>3, <1>4, SetInduction
  <2>2. Len(names) \in Nat /\ Len(names) <= Len(names)
    BY <1>1
  <2>3. QED
    BY <2>1, <2>2 DEF P
<1>6. Keeps(f[Len(names)], names)
  BY <1>1, RespelledKeeps DEF f, Respelled
<1>7. ASSUME NEW key \in DOMAIN f[Len(names)] PROVE key \in ToSet(names)
  <2>1. PICK i \in 1 .. Len(names) : Canon[key] = Canon[names[i]]
    BY <1>6 DEF Keeps
  <2>2. QED
    BY <1>1, <1>5, <2>1
<1>8. QED
  BY <1>7 DEF f, Respelled

LEMMA NamesType ==
  ASSUME NEW X, NEW data \in Seq(X)
  PROVE  Http1ExtractHeaders(data) \in Seq(Names)
<1> DEFINE lines == Sift(data, ToSet(data) \ {"text"})
           stops == {i \in 2 .. Len(lines) : lines[i] \in {"empty", "line", "origin"}}
           first == CHOOSE i \in stops : \A j \in stops : i <= j
<1>1. lines \in Seq(X)
  BY SiftElements
<1> HIDE DEF lines
<1>2. Len(lines) \in Nat /\ \A i \in 1 .. Len(lines) : lines[i] \in X
  BY <1>1
<1>3. CASE stops = {} \/ lines[first] # "empty"
  <2> HIDE DEF stops, first
  <2>1. Http1ExtractHeaders(data) = <<>>
    BY <1>3 DEF Http1ExtractHeaders, lines, stops, first
  <2>2. QED
    BY <2>1
<1>4. CASE stops # {} /\ lines[first] = "empty"
  <2>1. PICK m \in stops : \A j \in stops : m <= j
    <3>1. stops \subseteq Nat
      BY <1>2
    <3> HIDE DEF stops
    <3>2. QED
      BY <1>4, <3>1, LeastNatural
  <2>2. first \in stops
    BY <2>1
  <2>3. first \in 2 .. Len(lines)
    BY <2>2
  <2> HIDE DEF first, stops
  <2>4. SubSeq(lines, 2, first - 1) \in Seq(X)
    <3>1. 2 \in Int /\ first - 1 \in Int /\ \A i \in 2 .. first - 1 : lines[i] \in X
      BY <1>2, <2>3
    <3>2. QED
      BY <3>1, SubSeqProperties
  <2>5. Sift(SubSeq(lines, 2, first - 1), Names) \in Seq(Names)
    BY <2>4, SiftInto
  <2>6. Http1ExtractHeaders(data) = Sift(SubSeq(lines, 2, first - 1), Names)
    BY <1>4 DEF Http1ExtractHeaders, lines, first, stops
  <2>7. QED
    BY <2>5, <2>6
<1>5. QED
  BY <1>3, <1>4

(* Behind text without a line end the head is found as it is.                *)
LEMMA NamesOfHead ==
  ASSUME NEW r \in Request, NEW pre \in Seq(Pieces), ToSet(pre) \subseteq {"text"}
  PROVE  Http1ExtractHeaders(pre \o HeadOf(r)) = r.fields
<1> DEFINE head == HeadOf(r)
           data == pre \o head
           T == ToSet(data) \ {"text"}
           N == Len(r.fields)
<1>1. /\ r.fields \in Seq(Names) /\ head \in Seq(Pieces) /\ Len(head) = N + 2 /\ N \in Nat
      /\ r.start \in {"origin", "absolute"}
  BY RequestFacts
<1>2. /\ head[1] = r.start /\ head[N + 2] = "empty"
      /\ \A i \in 2 .. N + 1 : head[i] = r.fields[i - 1] /\ head[i] \in Names
  <2>1. <<r.start>> \o r.fields \in Seq(Pieces \cup Names)
        /\ Len(<<r.start>> \o r.fields) = N + 1
        /\ (<<r.start>> \o r.fields)[1] = r.start
        /\ \A i \in 2 .. N + 1 : (<<r.start>> \o r.fields)[i] = r.fields[i - 1]
    <3>1. <<r.start>> \in Seq(Pieces \cup Names) /\ Len(<<r.start>>) = 1 /\ <<r.start>>[1] = r.start
      BY <1>1 DEF Pieces
    <3>2. r.fields \in Seq(Pieces \cup Names)
      BY <1>1
    <3>3. QED
      BY <1>1, <3>1, <3>2
  <2>2. QED
    BY <1>1, <2>1 DEF HeadOf
<1>3. ToSet(data) = ToSet(pre) \cup ToSet(head)
  BY <1>1, ToSetConcat
<1> HIDE DEF head, N
<1>4. "text" \notin Names /\ "empty" \notin Names /\ "line" \notin Names /\ "origin" \notin Names
  BY ShapeAssumption
<1>5. ToSet(head) \subseteq T
  <2>1. \A i \in 1 .. N + 2 : head[i] # "text"
    <3>1. \A i \in 1 .. N + 2 : i = 1 \/ i \in 2 .. N + 1 \/ i = N + 2
      BY <1>1
    <3>2. QED
      BY <1>1, <1>2, <1>4, <3>1
  <2>2. "text" \notin ToSet(head)
    BY <1>1, <2>1 DEF ToSet
  <2>3. QED
    BY <1>3, <2>2
<1>6. ToSet(pre) \cap T = {}
  OBVIOUS
<1> HIDE DEF T
<1>7. Sift(data, T) = head
  <2>1. Sift(data, T) = Sift(pre, T) \o Sift(head, T)
    BY <1>1, SiftConcat
  <2>2. Sift(pre, T) = <<>>
    BY <1>6, SiftNone
  <2>3. Sift(head, T) = head
    BY <1>1, <1>5, SiftAll
  <2>4. <<>> \o head = head
    BY <1>1, ConcatEmptySeq
  <2>5. QED
    BY <2>1, <2>2, <2>3, <2>4
<1> DEFINE stops == {i \in 2 .. Len(head) : head[i] \in {"empty", "line", "origin"}}
           first == CHOOSE i \in stops : \A j \in stops : i <= j
<1>8. stops = {N + 2}
  <2>1. \A i \in 2 .. N + 2 : i \in 2 .. N + 1 \/ i = N + 2
    BY <1>1
  <2>2. N + 2 \in 2 .. N + 2
    BY <1>1
  <2>3. QED
    BY <1>1, <1>2, <1>4, <2>1, <2>2
<1>9. first = N + 2
  BY <1>1, <1>8
<1> HIDE DEF stops, first
<1>10. SubSeq(head, 2, first - 1) = r.fields
  <2> DEFINE s == SubSeq(head, 2, N + 1)
  <2>1. first - 1 = N + 1 /\ 2 \in Int /\ N + 1 \in Int /\ (N + 1) - 2 + 1 = N
    BY <1>1, <1>9
  <2>2. \A i \in 2 .. N + 1 : head[i] \in Names
    BY <1>2
  <2>3. /\ s \in Seq(Names) /\ Len(s) = IF 2 <= N + 1 THEN (N + 1) - 2 + 1 ELSE 0
        /\ \A i \in 1 .. (N + 1) - 2 + 1 : s[i] = head[2 + i - 1]
    BY <2>1, <2>2, SubSeqProperties
  <2> HIDE DEF s
  <2>4. Len(s) = N /\ \A i \in 1 .. N : s[i] = head[i + 1]
    <3>1. Len(s) = N
      BY <1>1, <2>3
    <3>2. \A i \in 1 .. N : 2 + i - 1 = i + 1
      BY <1>1
    <3>3. QED
      BY <2>1, <2>3, <3>1, <3>2
  <2>5. \A i \in 1 .. N : s[i] = r.fields[i]
    <3>1. \A i \in 1 .. N : i + 1 \in 2 .. N + 1 /\ (i + 1) - 1 = i
      BY <1>1
    <3>2. QED
      BY <1>2, <2>4, <3>1
  <2>6. s = r.fields
    <3>1. Len(r.fields) = N /\ r.fields \in Seq(Names) /\ s \in Seq(Names)
      BY <1>1, <2>3 DEF N
    <3>2. QED
      BY <2>4, <2>5, <3>1
  <2>7. QED
    BY <2>1, <2>6 DEF s
<1>11. Sift(r.fields, Names) = r.fields
  <2>1. ToSet(r.fields) \subseteq Names
    BY <1>1 DEF ToSet
  <2>2. QED
    BY <1>1, <2>1, SiftAll
<1>12. stops # {} /\ head[first] = "empty"
  BY <1>2, <1>8, <1>9
<1>13. Http1ExtractHeaders(data) = Sift(SubSeq(head, 2, first - 1), Names)
  BY <1>7, <1>12 DEF Http1ExtractHeaders, T, stops, first
<1>14. QED
  BY <1>10, <1>11, <1>13 DEF head

(* What getRequestReader has not given out when a head is complete: the body *)
(* before and the head.                                                      *)
LEMMA ConsumedIs ==
  ASSUME Reading, k < Len(reqs), Bodies[k + 1] <= fetched
  PROVE  LET pre == IF k = 0 THEN <<>> ELSE reqs[k].body
         IN  pre \in Seq(Pieces) /\ Consumed(Bodies[k + 1]) = pre \o HeadOf(reqs[k + 1])
<1> DEFINE end == Bodies[k + 1]
           pre == IF k = 0 THEN <<>> ELSE reqs[k].body
           head == HeadOf(reqs[k + 1])
<1>0. ReadTypes /\ Window
  BY DEF Reading
<1>1. /\ reqs \in Runs /\ k \in Nat /\ Len(reqs) \in Nat /\ k + 1 \in 1 .. Len(reqs)
      /\ mark \in Nat /\ fetched \in Nat /\ mark <= fetched /\ fetched <= Len(Stream)
      /\ mark = IF k = 0 THEN 0 ELSE Bodies[k]
      /\ k > 0 => k \in 1 .. Len(reqs)
  <2>1. Len(Stream) = Starts[Len(reqs) + 1] /\ Len(reqs) \in Nat
    BY <1>0, Places DEF ReadTypes
  <2>2. QED
    BY <1>0, <2>1 DEF ReadTypes, Window
<1>2. /\ Messages \in [1 .. Len(reqs) -> Seq(Pieces)]
      /\ Messages[k + 1] = head \o reqs[k + 1].body
      /\ k > 0 => Messages[k] = HeadOf(reqs[k]) \o pre
  <2>1. Messages \in [1 .. Len(reqs) -> Seq(Pieces)]
    BY <1>1, RunFacts
  <2>2. \A i \in 1 .. Len(reqs) : Messages[i] = HeadOf(reqs[i]) \o reqs[i].body
    BY DEF Messages, Bytes
  <2>3. k > 0 => pre = reqs[k].body
    BY <1>1
  <2>4. QED
    BY <1>1, <2>1, <2>2, <2>3
<1>3. /\ pre \in Seq(Pieces) /\ head \in Seq(Pieces) /\ reqs[k + 1].body \in Seq(Pieces)
      /\ k > 0 => HeadOf(reqs[k]) \in Seq(Pieces)
  <2>1. reqs[k + 1] \in Request /\ (k > 0 => reqs[k] \in Request)
    BY <1>1, RunFacts
  <2>2. QED
    BY <1>1, <2>1, RequestFacts
<1>4. Stream \in Seq(Pieces) /\ Stream = Flat(Messages, Len(reqs))
  BY <1>1, Geometry, StreamFacts
<1>5. \A j \in 1 .. Len(head) : Stream[Starts[k + 1] + j] = head[j]
  <2>1. Len(Flat(Messages, k)) = Starts[k + 1]
    BY <1>1, StreamFacts, Places
  <2>2. ASSUME NEW j \in 1 .. Len(head) PROVE Stream[Starts[k + 1] + j] = head[j]
    <3> DEFINE body == reqs[k + 1].body
    <3> HIDE DEF body, head
    <3>1. j \in 1 .. Len(Messages[k + 1]) /\ Messages[k + 1][j] = head[j]
      <4>1. head \in Seq(Pieces) /\ body \in Seq(Pieces) /\ Messages[k + 1] = head \o body
        BY <1>2, <1>3 DEF body, head
      <4>2. QED
        BY <4>1
    <3>2. Len(reqs) \in k + 1 .. Len(reqs) /\ (k + 1) - 1 = k
      BY <1>1
    <3>3. PICK i \in 1 .. Len(reqs), n \in k + 1 .. Len(reqs) : i = k + 1 /\ n = Len(reqs)
      BY <1>1, <3>2
    <3>4. Flat(Messages, n)[Len(Flat(Messages, i - 1)) + j] = Messages[i][j]
      <4>1. n \in i .. Len(reqs) /\ j \in 1 .. Len(Messages[i])
        BY <3>1, <3>3
      <4>2. Placed(Messages, Len(reqs))
        BY <1>1, <1>2, FlatAt
      <4>3. QED
        BY <4>1, <4>2 DEF Placed
    <3>5. QED
      BY <1>4, <2>1, <3>1, <3>2, <3>3, <3>4
  <2>3. QED
    BY <2>2
<1>6. mark + Len(pre) = Starts[k + 1] /\ end = Starts[k + 1] + Len(head)
      /\ Starts[k + 1] \in Nat /\ Len(pre) \in Nat /\ Len(head) \in Nat
  <2>1. end = Starts[k + 1] + Len(head) /\ Starts[k + 1] \in Nat /\ Len(head) \in Nat
    BY <1>1, Places
  <2>2. CASE k = 0
    BY <1>1, <2>1, <2>2, Places
  <2>3. CASE k > 0
    BY <1>1, <2>1, <2>3, Places
  <2>4. QED
    BY <1>1, <2>1, <2>2, <2>3
<1>7. \A j \in 1 .. Len(pre) : Stream[mark + j] = pre[j]
  <2> SUFFICES ASSUME NEW j \in 1 .. Len(pre) PROVE Stream[mark + j] = pre[j]
      OBVIOUS
  <2>1. k > 0
    BY <1>1
  <2>2. PICK i \in 1 .. Len(reqs), n \in k .. Len(reqs) : i = k /\ n = Len(reqs)
    BY <1>1, <2>1
  <2> DEFINE h == HeadOf(reqs[k])
             x == Len(h) + j
  <2> HIDE DEF pre, h
  <2>3. Len(h) \in Nat /\ x \in 1 .. Len(Messages[i]) /\ Messages[i][x] = pre[j]
    <3>1. h \in Seq(Pieces) /\ pre \in Seq(Pieces) /\ Messages[i] = h \o pre
      BY <1>2, <1>3, <2>1, <2>2 DEF h
    <3>2. QED
      BY <3>1
  <2>4. Len(Flat(Messages, i - 1)) = Starts[k] /\ Starts[k] \in Nat
        /\ mark = Starts[k] + Len(h)
    <3>1. i \in 1 .. Len(reqs) + 1 /\ k \in 1 .. Len(reqs)
      BY <1>1, <2>1
    <3>2. Len(Flat(Messages, i - 1)) = Start(i)
      BY <1>1, <3>1, StreamFacts
    <3>3. Start(k) = Starts[k] /\ Starts[k] \in Nat /\ Bodies[k] = Starts[k] + Len(h)
      BY <1>1, <3>1, Places DEF h
    <3>4. QED
      BY <1>1, <2>1, <2>2, <3>2, <3>3
  <2>5. Len(Flat(Messages, i - 1)) + x = mark + j
    <3>1. \A a, b, c \in Nat : a + (b + c) = a + b + c
      OBVIOUS
    <3>2. j \in Nat
      OBVIOUS
    <3>3. PICK a \in Nat, b \in Nat : a = Starts[k] /\ b = Len(h)
      BY <2>3, <2>4
    <3>4. a + (b + j) = a + b + j
      BY <3>1, <3>2
    <3>5. Len(Flat(Messages, i - 1)) = a /\ mark = a + b
      BY <2>4, <3>3
    <3>6. QED
      BY <3>3, <3>4, <3>5, Zenon
  <2> HIDE DEF x
  <2>6. Flat(Messages, n)[Len(Flat(Messages, i - 1)) + x] = Messages[i][x]
    <3>1. n \in i .. Len(reqs) /\ x \in 1 .. Len(Messages[i])
      BY <2>2, <2>3
    <3>2. Placed(Messages, Len(reqs))
      BY <1>1, <1>2, FlatAt
    <3>3. QED
      BY <2>2, <3>1, <3>2 DEF Placed
  <2>7. QED
    BY <1>4, <2>2, <2>3, <2>5, <2>6
<1> DEFINE c == SubSeq(Stream, mark + 1, fetched)
           L == Len(pre) + Len(head)
           d == SubSeq(c, 1, L)
<1> HIDE DEF pre, head, end
<1>8. /\ c \in Seq(Pieces) /\ Len(c) = fetched - mark
      /\ \A i \in 1 .. fetched - mark : c[i] = Stream[mark + i]
  <2>1. mark + 1 \in Int /\ fetched \in Int
        /\ \A i \in mark + 1 .. fetched : Stream[i] \in Pieces
    BY <1>1, <1>4
  <2>2. /\ c \in Seq(Pieces) /\ Len(c) = IF mark + 1 <= fetched THEN fetched - (mark + 1) + 1 ELSE 0
        /\ \A i \in 1 .. fetched - (mark + 1) + 1 : c[i] = Stream[(mark + 1) + i - 1]
    BY <2>1, SubSeqProperties
  <2> HIDE DEF c
  <2>3. Len(c) = fetched - mark /\ fetched - (mark + 1) + 1 = fetched - mark
    BY <1>1, <2>2
  <2>4. \A i \in 1 .. fetched - mark : (mark + 1) + i - 1 = mark + i
    BY <1>1
  <2>5. QED
    BY <2>2, <2>3, <2>4
<1> HIDE DEF c
<1>9. L \in Nat /\ L <= fetched - mark /\ L = Len(c) - (fetched - end)
  <2>1. end \in Nat /\ end <= fetched /\ mark + L = end /\ L \in Nat
    <3>1. \A x, y, z \in Nat : x + (y + z) = x + y + z
      OBVIOUS
    <3>2. mark + L = Starts[k + 1] + Len(head)
      BY <1>1, <1>6, <3>1
    <3>3. end \in Nat /\ L \in Nat
      BY <1>6
    <3>4. end <= fetched
      BY DEF end
    <3>5. QED
      BY <1>6, <3>2, <3>3, <3>4
  <2> HIDE DEF L
  <2>2. Len(c) = fetched - mark
    BY <1>8
  <2>3. \A a, b, e, f \in Nat : a + b = e /\ e <= f => b <= f - a /\ b = (f - a) - (f - e)
    OBVIOUS
  <2>4. L <= fetched - mark /\ L = (fetched - mark) - (fetched - end)
    <3>1. PICK a \in Nat, b \in Nat, e \in Nat, f \in Nat :
            a = mark /\ b = L /\ e = end /\ f = fetched
      BY <1>1, <2>1
    <3>2. a + b = e /\ e <= f
      BY <2>1, <3>1, Zenon
    <3>3. b <= f - a /\ b = (f - a) - (f - e)
      BY <3>2
    <3>4. QED
      BY <3>1, <3>3, Zenon
  <2>5. QED
    BY <2>1, <2>2, <2>4, Zenon
<1>10. /\ d \in Seq(Pieces) /\ Len(d) = L /\ \A i \in 1 .. L : d[i] = Stream[mark + i]
  <2>1. 1 \in Int /\ L \in Int /\ \A i \in 1 .. L : c[i] \in Pieces
    BY <1>8, <1>9
  <2>2. /\ d \in Seq(Pieces) /\ Len(d) = IF 1 <= L THEN L - 1 + 1 ELSE 0
        /\ \A i \in 1 .. L - 1 + 1 : d[i] = c[1 + i - 1]
    <3> HIDE DEF L
    <3>1. QED
      BY <2>1, SubSeqProperties
  <2> HIDE DEF d, L
  <2>3. Len(d) = L /\ L - 1 + 1 = L /\ \A i \in 1 .. L : 1 + i - 1 = i
    BY <1>9, <2>2
  <2>4. d \in Seq(Pieces) /\ \A i \in 1 .. L : d[i] = c[i]
    BY <2>2, <2>3
  <2>5. \A i \in 1 .. L : i \in 1 .. fetched - mark
    BY <1>1, <1>9
  <2>6. QED
    BY <1>8, <2>3, <2>4, <2>5
<1>11. d = pre \o head
  <2>1. /\ pre \o head \in Seq(Pieces) /\ Len(pre \o head) = L
        /\ \A i \in 1 .. Len(pre) : (pre \o head)[i] = pre[i]
        /\ \A i \in 1 .. Len(head) : (pre \o head)[Len(pre) + i] = head[i]
    <3>1. pre \in Seq(Pieces) /\ head \in Seq(Pieces)
      BY <1>3 DEF pre, head
    <3>2. QED
      BY <3>1
  <2>2. ASSUME NEW i \in 1 .. L PROVE d[i] = (pre \o head)[i]
    <3>1. CASE i <= Len(pre)
      <4>1. i \in 1 .. Len(pre)
        BY <1>6, <3>1
      <4>2. QED
        BY <1>7, <1>10, <2>1, <4>1
    <3>2. CASE i > Len(pre)
      <4>1. i - Len(pre) \in 1 .. Len(head) /\ Len(pre) + (i - Len(pre)) = i
        BY <1>6, <3>2
      <4>2. PICK j \in 1 .. Len(head) : Len(pre) + j = i
        BY <4>1
      <4>3. mark + i = Starts[k + 1] + j
        <5>1. \A x, y, z \in Nat : x + (y + z) = x + y + z
          OBVIOUS
        <5>2. j \in Nat
          OBVIOUS
        <5>3. PICK a \in Nat, b \in Nat : a = mark /\ b = Len(pre)
          BY <1>1, <1>6
        <5>4. a + (b + j) = a + b + j
          BY <5>1, <5>2
        <5>5. i = b + j /\ a + b = Starts[k + 1]
          BY <1>6, <4>2, <5>3
        <5>6. QED
          BY <5>3, <5>4, <5>5, Zenon
      <4>4. QED
        BY <1>5, <1>10, <2>1, <4>2, <4>3
    <3>3. QED
      BY <1>6, <3>1, <3>2
  <2> HIDE DEF d, L
  <2>3. QED
    BY <1>10, <2>1, <2>2
<1>12. Consumed(end) = d
  BY <1>9 DEF Consumed, Cloned, c, d
<1>13. QED
  BY <1>3, <1>11, <1>12 DEF pre, head, end

(* What the header is when the request goes on. *)
LEMMA HeaderRead ==
  ASSUME Reading, ReadRequest, pc' = "trip"
  PROVE  HeadersKept'
<1> DEFINE r == reqs[k + 1]
           names == Http1ExtractHeaders(Consumed(Bodies[k + 1]))
<1>0. ReadTypes /\ Window
  BY DEF Reading
<1>1. /\ pc = "head" /\ reqs' = reqs
      /\ ~(Buffered = 0 \/ k = Len(reqs) \/ used < Start(k + 1))
  BY DEF ReadRequest
<1>2. /\ k \in Nat /\ Len(reqs) \in Nat /\ k < Len(reqs) /\ k + 1 \in 1 .. Len(reqs)
      /\ reqs \in Runs /\ r \in Request /\ used \in Nat /\ fetched \in Nat /\ used < fetched
      /\ Start(k + 1) + Len(HeadOf(r)) = Bodies[k + 1] /\ Bodies[k + 1] \in Nat
  <2>1. reqs \in Runs /\ k \in 0 .. Len(reqs) /\ Len(reqs) \in Nat
    BY <1>0, RunFacts DEF ReadTypes
  <2>2. k < Len(reqs) /\ k + 1 \in 1 .. Len(reqs) /\ k \in Nat
    BY <1>1, <2>1
  <2>3. r \in Request
    BY <2>1, <2>2, RunFacts
  <2>4. used \in Nat /\ fetched \in Nat /\ used < fetched
    BY <1>0, <1>1 DEF ReadTypes, Window, Buffered
  <2>5. Start(k + 1) + Len(HeadOf(r)) = Bodies[k + 1] /\ Bodies[k + 1] \in Nat
    BY <1>0, <2>2, ReadingPlaces
  <2>6. QED
    BY <2>1, <2>2, <2>3, <2>4, <2>5
<1>3. /\ ~(used + 1 < Start(k + 1) + Len(HeadOf(r))) /\ k' = k + 1
      /\ header' = Respelled(Parsed(r), Http1ExtractHeaders(Consumed(Start(k + 1) + Len(HeadOf(r)))))
  BY <1>1 DEF ReadRequest
<1>4. header' = Respelled(Parsed(r), names) /\ Bodies[k + 1] <= fetched /\ reqs'[k'] = r
  BY <1>1, <1>2, <1>3
<1> DEFINE pre == IF k = 0 THEN <<>> ELSE reqs[k].body
<1>5. pre \in Seq(Pieces) /\ Consumed(Bodies[k + 1]) = pre \o HeadOf(r)
  BY <1>2, <1>4, ConsumedIs
<1>6. r.fields \in Seq(Names) /\ Len(r.fields) \in Nat /\ HeadOf(r) \in Seq(Pieces)
  BY <1>2, RequestFacts
<1>7. names \in Seq(Names)
  <2>1. Consumed(Bodies[k + 1]) \in Seq(Pieces)
    BY <1>5, <1>6
  <2>2. QED
    BY <2>1, NamesType
<1>8. Keeps(header', r.fields)
  BY <1>2, <1>4, <1>7, RespelledKeeps
<1>9. AfterPlainBody' => names = r.fields
  <2> SUFFICES ASSUME AfterPlainBody' PROVE names = r.fields
      OBVIOUS
  <2>1. ToSet(pre) \subseteq {"text"}
    <3>1. CASE k = 0
      BY <3>1 DEF ToSet
    <3>2. CASE k # 0
      <4>1. k + 1 # 1 /\ (k + 1) - 1 = k
        BY <1>2, <3>2
      <4>2. QED
        BY <1>1, <1>3, <3>2, <4>1 DEF AfterPlainBody
    <3>3. QED
      BY <3>1, <3>2
  <2> HIDE DEF pre, r
  <2>2. Http1ExtractHeaders(pre \o HeadOf(r)) = r.fields
    BY <1>2, <1>5, <2>1, NamesOfHead
  <2>3. QED
    BY <1>5, <2>2
<1>10. AfterPlainBody' => SpelledAsSent'
  <2> SUFFICES ASSUME AfterPlainBody' PROVE DOMAIN header' \subseteq ToSet(r.fields)
      BY <1>4 DEF SpelledAsSent
  <2>1. header' = Respelled(Parsed(r), r.fields)
    BY <1>4, <1>9
  <2> HIDE DEF r
  <2>2. QED
    BY <1>2, <2>1, OwnNames
<1>11. FieldsKept'
  <2> DEFINE h == header'
             fields == r.fields
  <2>1. Keeps(h, fields) /\ Len(fields) \in Nat
    BY <1>6, <1>8
  <2> HIDE DEF h, fields
  <2>2. ASSUME NEW i \in 1 .. Len(fields)
        PROVE  /\ \E key \in DOMAIN h : i \in h[key] /\ Canon[key] = Canon[fields[i]]
               /\ Cardinality({key \in DOMAIN h : i \in h[key]}) = 1
    <3>1. PICK key \in DOMAIN h : Canon[key] = Canon[fields[i]]
      BY <2>1 DEF Keeps
    <3>2. i \in h[key]
      BY <2>1, <3>1 DEF Keeps
    <3>3. \A other \in DOMAIN h : i \in h[other] => other = key
      BY <2>1, <3>1 DEF Keeps
    <3>4. {x \in DOMAIN h : i \in h[x]} = {key}
      BY <3>2, <3>3
    <3>5. Cardinality({key}) = 1
      BY FS_Singleton
    <3>6. QED
      BY <3>1, <3>2, <3>4, <3>5
  <2>3. QED
    BY <1>4, <2>2 DEF FieldsKept, h, fields
<1>12. QED
  BY <1>10, <1>11 DEF HeadersKept

LEMMA NextHeader == Reading /\ HeadersKept /\ [Next]_vars => HeadersKept'
<1> SUFFICES ASSUME Reading, HeadersKept, [Next]_vars, pc' = "trip" PROVE HeadersKept'
    BY DEF HeadersKept
<1>1. CASE ReadRequest
  BY <1>1, HeaderRead
<1>2. CASE ~ReadRequest
  <2>1. UNCHANGED <<reqs, k, header, pc>>
    BY <1>2 DEF Next, Loop, Respond, IsEOF, CloseBody, Closed, WriteHead, WriteChunk, OriginFails, Fetch,
         ReadBody, WriterDone, Answer, WriteFails, CloseChunked, Bodyless, ClientCloses,
         vars, readSide
  <2>2. FieldsKept' = FieldsKept /\ AfterPlainBody' = AfterPlainBody
        /\ SpelledAsSent' = SpelledAsSent
    BY <2>1 DEF FieldsKept, AfterPlainBody, SpelledAsSent
  <2>3. QED
    BY <2>1, <2>2 DEF HeadersKept
<1>3. QED
  BY <1>1, <1>2

-----------------------------------------------------------------------------
(* The theorems. *)

(* For any requests, any buffer and any fragmentation: the places in the     *)
(* stream keep their order, and the copy of what was read never holds more   *)
(* than one body and one head.                                               *)
THEOREM TypeCorrect == Spec => []BuffersBounded
<1>1. Reading /\ Answering /\ LastChunk => BuffersBounded
  <2> SUFFICES ASSUME Reading, Answering, LastChunk PROVE BuffersBounded
      OBVIOUS
  <2>1. ReadTypes /\ Window /\ NextHead /\ BodyLeft /\ BodyClosed
    BY DEF Reading
  <2>2. Len(Stream) = Starts[Len(reqs) + 1]
    BY <2>1, Places DEF ReadTypes
  <2>3. TypeOK
    BY <2>1, <2>2 DEF TypeOK, ReadTypes, Window, Answering, LastChunk, Wire, Buffered
  <2>4. used - mark <= (IF k > 0 THEN Len(reqs[k].body) ELSE 0)
                    + (IF k < Len(reqs) THEN Len(HeadOf(reqs[k + 1])) ELSE 0)
    <3>1. /\ reqs \in Runs /\ k \in 0 .. Len(reqs) /\ Len(reqs) \in Nat /\ Starts[1] = 0
          /\ used \in Nat /\ mark \in Nat /\ fetched \in Nat /\ used <= fetched
          /\ fetched <= Starts[Len(reqs) + 1] /\ Starts[Len(reqs) + 1] \in Nat
          /\ mark = IF k = 0 THEN 0 ELSE Bodies[k]
      BY <2>1, Places DEF ReadTypes, Window
    <3>2. PICK b \in Nat : /\ b = IF k > 0 THEN Len(reqs[k].body) ELSE 0
                           /\ Starts[k + 1] = mark + b
      <4>1. CASE k = 0
        BY <3>1, <4>1
      <4>2. CASE k > 0
        <5>1. k \in 1 .. Len(reqs)
          BY <3>1, <4>2
        <5>2. Starts[k + 1] = Bodies[k] + Len(reqs[k].body) /\ Len(reqs[k].body) \in Nat
          BY <3>1, <5>1, Places
        <5>3. QED
          BY <3>1, <4>2, <5>2
      <4>3. QED
        BY <3>1, <4>1, <4>2
    <3>3. CASE k < Len(reqs)
      <4>1. PICK i \in 1 .. Len(reqs) : i = k + 1
        BY <3>1, <3>3
      <4>2. Bodies[i] = Starts[i] + Len(HeadOf(reqs[i])) /\ Len(HeadOf(reqs[i])) \in Nat
        BY <3>1, Places
      <4>3. used <= Bodies[i]
        BY <2>1, <3>3, <4>1 DEF NextHead
      <4> DEFINE h == Len(HeadOf(reqs[i]))
      <4>4. used <= mark + b + h /\ h \in Nat
        BY <3>2, <4>1, <4>2, <4>3
      <4>5. used - mark <= b + h
        <5> HIDE DEF h
        <5>1. QED
          BY <3>1, <4>4
      <4>6. QED
        BY <3>2, <3>3, <4>1, <4>5
    <3>4. CASE k = Len(reqs)
      <4>1. used <= mark + b
        BY <3>1, <3>2, <3>4
      <4>2. used - mark <= b + 0 /\ ~(k < Len(reqs))
        BY <3>1, <3>2, <3>4, <4>1
      <4>3. QED
        BY <3>2, <4>2
    <3>5. k < Len(reqs) \/ k = Len(reqs)
      BY <3>1
    <3>6. QED
      BY <3>3, <3>4, <3>5
  <2>5. QED
    BY <2>3, <2>4 DEF BuffersBounded
<1>2. QED
  BY <1>1, InitReading, NextReading, InitAnswering, NextAnswering, InitLastChunk,
     NextLastChunk, PTL DEF Spec

(* When the loop turns to the connection again, all of the body before was   *)
(* read, unless the client has gone or asked to close.                       *)
THEOREM RequestsAligned == Spec => []Aligned
<1>1. Reading => Aligned
  <2> SUFFICES ASSUME Reading, pc = "peek", k > 0
               PROVE  used = Start(k + 1) \/ reqs[k].closing \/ (eof /\ Buffered = 0)
      BY DEF Aligned
  <2>1. ReadTypes /\ BodyClosed
    BY DEF Reading
  <2>2. Start(k + 1) = Starts[k + 1]
    BY <2>1, RunFacts DEF ReadTypes, Starts
  <2>3. eof /\ fetched = used => Buffered = 0
    BY <2>1 DEF ReadTypes, Buffered
  <2>4. QED
    BY <2>1, <2>2, <2>3 DEF BodyClosed
<1>2. QED
  BY <1>1, InitReading, NextReading, PTL DEF Spec

(* Whatever was taken for a header name, every value goes on under one key,  *)
(* one of its own field; and for the first request and behind a plain body   *)
(* every key is spelled as the client spelled it.                            *)
THEOREM HeadersGoOn == Spec => []HeadersKept
<1>1. Init => HeadersKept
  BY DEF Init, HeadersKept
<1>2. QED
  BY <1>1, InitReading, NextReading, NextHeader, PTL DEF Spec

(* The client finds the next answer where this one ends: the loop never goes *)
(* on behind an answer with a part missing.                                  *)
THEOREM AnswersWhole == Spec => AnswerWhole
<1>1. Answering /\ [Next]_vars =>
        [pc = "respond" /\ pc' = "peek" =>
           out' = IF resp.bodyless THEN <<"head">>
                  ELSE <<"head">> \o Chunks \o <<"zero", "crlf">>]_vars
  BY WholeStep
<1>2. QED
  BY <1>1, InitAnswering, NextAnswering, PTL DEF Spec, AnswerWhole

(* For bodies of any length and failures at any point, the last chunk        *)
(* reaches the client only behind a body that is whole.                      *)
THEOREM NoFalseEnd == Spec => []TruncationVisible
<1>1. LastChunk => TruncationVisible
  BY DEF LastChunk, TruncationVisible, ToSet, Zero
<1>2. QED
  BY <1>1, InitLastChunk, NextLastChunk, PTL DEF Spec
=============================================================================
