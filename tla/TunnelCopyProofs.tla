-------------------------- MODULE TunnelCopyProofs --------------------------
(* Proofs about TunnelCopy, for streams of any length and any window.        *)
EXTENDS TunnelCopy, TLAPS

-----------------------------------------------------------------------------
(* The inductive invariant. *)

(* What has been written is what has been read, but for the chunk in hand;   *)
(* the streams of a copy that ended in an unbroken relay are complete.       *)
Streams ==
  \A p \in Peers :
    /\ copy[p] = "read" => put[p] = read[p]
    /\ copy[p] \notin {"read", "write"} /\ ~BrokenStream(p)
         => fin[p] /\ put[p] = sent[p]

(* The steps a copy takes after io.Copy, and what it tells the other side.   *)
Stages ==
  \A p \in Peers :
    /\ kind = "tunnel" => copy[p] # "signal"
    /\ kind = "upgrade" => copy[p] \notin {"shut", "drain"}
    /\ shut[Other(p)] => copy[p] \in {"drain", "done"}

(* Nobody but a command closes a socket before a copy has ended; in a        *)
(* tunnel, before both have.                                                 *)
Ends ==
  /\ main # "wait" \/ signals > 0 \/ (~cmd /\ \E p \in Peers : closed[p])
       => \E p \in Peers : copy[p] = "done"
  /\ kind = "tunnel" /\ (main # "wait" \/ (~cmd /\ \E p \in Peers : closed[p]))
       => \A p \in Peers : copy[p] = "done"
  /\ left # {} => main = "close"
  /\ closed["target"] => main # "wait"

(* The counters of a tunnel, and what was reported of them.                  *)
Counters ==
  kind = "tunnel" =>
    /\ count.up = read["client"]
    /\ count.down <= put["target"]
    /\ copy["target"] # "write" => count.down = put["target"]
Report ==
  report # NoReport =>
    /\ kind = "tunnel" /\ \A p \in Peers : copy[p] = "done"
    /\ report.up = read["client"] /\ report.down = put["target"]

IInv == TypeOK /\ Streams /\ Stages /\ Ends /\ Counters /\ Report

-----------------------------------------------------------------------------

LEMMA TwoPeers ==
  ASSUME NEW p \in Peers
  PROVE  Other(p) \in Peers /\ Other(p) # p /\ Other(Other(p)) = p /\ Peers = {p, Other(p)}
BY DEF Peers, Other

LEMMA InitIInv == Init => IInv
<1> SUFFICES ASSUME Init PROVE IInv
    OBVIOUS
<1> USE BoundAssumption DEF Init
<1>1. TypeOK
  <2>1. 0 \in Bytes /\ count \in Count
    BY DEF Bytes, Count
  <2>2. kind \in {"tunnel", "upgrade"} /\ main \in {"wait", "close", "done"} /\ cmd \in BOOLEAN
    OBVIOUS
  <2>3. fin \in [Peers -> BOOLEAN] /\ dead \in [Peers -> BOOLEAN]
        /\ shut \in [Peers -> BOOLEAN] /\ closed \in [Peers -> BOOLEAN]
    OBVIOUS
  <2>4. sent \in [Peers -> Bytes] /\ got \in [Peers -> Bytes]
        /\ read \in [Peers -> Bytes] /\ put \in [Peers -> Bytes]
    BY <2>1
  <2>5. \A p \in Peers : got[p] <= put[p] /\ put[p] <= read[p] /\ read[p] <= sent[p]
    OBVIOUS
  <2>6. signals \in 0 .. 2 /\ left \in SUBSET Peers /\ report \in Count \cup {NoReport}
    OBVIOUS
  <2>7. copy \in [Peers -> {"read", "write", "shut", "drain", "signal", "done"}]
    OBVIOUS
  <2>8. QED
    BY <2>1, <2>2, <2>3, <2>4, <2>5, <2>6, <2>7 DEF TypeOK
<1>2. Streams /\ Stages /\ Ends
  BY TwoPeers DEF Streams, Stages, Ends, Peers
<1>3. Counters /\ Report
  BY DEF Counters, Report, Peers
<1>4. QED
  BY <1>1, <1>2, <1>3 DEF IInv

(* A peer sends, ends, breaks off or reads.                                  *)
LEMMA PeerSteps ==
  ASSUME NEW p \in Peers, IInv, Peer(p)
  PROVE  IInv'
<1> USE BoundAssumption DEF sockVars, copyVars, mainVars
<1>1. CASE PeerSend(p)
  <2> USE <1>1 DEF PeerSend
  <2>1. TypeOK'
    BY TwoPeers DEF IInv, TypeOK, Bytes, Count
  <2>2. Streams'
    BY TwoPeers DEF IInv, TypeOK, Streams, BrokenStream, Bytes
  <2>3. Stages'
    BY TwoPeers DEF IInv, TypeOK, Stages
  <2>4. Ends'
    BY TwoPeers DEF IInv, TypeOK, Ends
  <2>5. Counters'
    BY TwoPeers DEF IInv, TypeOK, Counters, Bytes, Count
  <2>6. Report'
    BY TwoPeers DEF IInv, TypeOK, Report, NoReport, Bytes, Count
  <2>7. QED
    BY <2>1, <2>2, <2>3, <2>4, <2>5, <2>6 DEF IInv
<1>2. CASE PeerFinish(p)
  <2> USE <1>2 DEF PeerFinish
  <2>1. TypeOK'
    BY TwoPeers DEF IInv, TypeOK, Bytes, Count
  <2>2. Streams'
    BY TwoPeers DEF IInv, TypeOK, Streams, BrokenStream, Bytes
  <2>3. Stages'
    BY TwoPeers DEF IInv, TypeOK, Stages
  <2>4. Ends'
    BY TwoPeers DEF IInv, TypeOK, Ends
  <2>5. Counters'
    BY TwoPeers DEF IInv, TypeOK, Counters, Bytes, Count
  <2>6. Report'
    BY TwoPeers DEF IInv, TypeOK, Report, NoReport, Bytes, Count
  <2>7. QED
    BY <2>1, <2>2, <2>3, <2>4, <2>5, <2>6 DEF IInv
<1>3. CASE PeerReset(p)
  <2> USE <1>3 DEF PeerReset
  <2>1. TypeOK'
    BY TwoPeers DEF IInv, TypeOK, Bytes, Count
  <2>2. Streams'
    BY TwoPeers DEF IInv, TypeOK, Streams, BrokenStream, Bytes
  <2>3. Stages'
    BY TwoPeers DEF IInv, TypeOK, Stages
  <2>4. Ends'
    BY TwoPeers DEF IInv, TypeOK, Ends
  <2>5. Counters'
    BY TwoPeers DEF IInv, TypeOK, Counters, Bytes, Count
  <2>6. Report'
    BY TwoPeers DEF IInv, TypeOK, Report, NoReport, Bytes, Count
  <2>7. QED
    BY <2>1, <2>2, <2>3, <2>4, <2>5, <2>6 DEF IInv
<1>4. CASE PeerRead(p)
  <2> USE <1>4 DEF PeerRead
  <2>1. TypeOK'
    BY TwoPeers DEF IInv, TypeOK, Bytes, Count
  <2>2. Streams'
    BY TwoPeers DEF IInv, TypeOK, Streams, BrokenStream, Bytes
  <2>3. Stages'
    BY TwoPeers DEF IInv, TypeOK, Stages
  <2>4. Ends'
    BY TwoPeers DEF IInv, TypeOK, Ends
  <2>5. Counters'
    BY TwoPeers DEF IInv, TypeOK, Counters, Bytes, Count
  <2>6. Report'
    BY TwoPeers DEF IInv, TypeOK, Report, NoReport, Bytes, Count
  <2>7. QED
    BY <2>1, <2>2, <2>3, <2>4, <2>5, <2>6 DEF IInv
<1>5. QED
  BY <1>1, <1>2, <1>3, <1>4 DEF Peer

(* A copy takes a step.                                                      *)
LEMMA CopySteps ==
  ASSUME NEW p \in Peers, IInv, Copying(p)
  PROVE  IInv'
<1> USE BoundAssumption DEF peerVars, sockVars, mainVars
<1>1. CASE ReadSome(p)
  <2> USE <1>1 DEF ReadSome, CountRead
  <2>1. TypeOK'
    <3>1. PICK n \in 1 .. (sent[p] - read[p]) :
            read' = [read EXCEPT ![p] = @ + n] /\ count' = CountRead(p, n)
      OBVIOUS
    <3>2. read[p] \in Nat /\ sent[p] \in Nat /\ n \in Nat /\ sent[p] <= MaxBytes
          /\ read[p] + n <= sent[p]
      BY DEF IInv, TypeOK, Bytes
    <3>3. read' \in [Peers -> Bytes]
      BY <3>1, <3>2 DEF IInv, TypeOK, Bytes
    <3>4. count' \in Count
      <4>1. CASE kind = "tunnel" /\ p = "client"
        BY <3>1, <3>2, <4>1 DEF IInv, TypeOK, Counters, Bytes, Count
      <4>2. CASE ~(kind = "tunnel" /\ p = "client")
        BY <3>1, <4>2 DEF IInv, TypeOK
      <4>3. QED
        BY <4>1, <4>2
    <3>5. \A q \in Peers : got'[q] <= put'[q] /\ put'[q] <= read'[q] /\ read'[q] <= sent'[q]
      BY <3>1, <3>2 DEF IInv, TypeOK, Bytes
    <3>6. QED
      BY <3>3, <3>4, <3>5 DEF IInv, TypeOK
  <2>2. Streams'
    BY TwoPeers DEF IInv, TypeOK, Streams, BrokenStream, Bytes
  <2>3. Stages'
    BY TwoPeers DEF IInv, TypeOK, Stages
  <2>4. Ends'
    BY TwoPeers DEF IInv, TypeOK, Ends
  <2>5. Counters'
    BY TwoPeers DEF IInv, TypeOK, Counters, Bytes, Count
  <2>6. Report'
    BY TwoPeers DEF IInv, TypeOK, Report, NoReport, Bytes, Count
  <2>7. QED
    BY <2>1, <2>2, <2>3, <2>4, <2>5, <2>6 DEF IInv
<1>2. CASE ReadEnds(p)
  <2> USE <1>2 DEF ReadEnds, CopyOver
  <2>1. TypeOK'
    BY TwoPeers DEF IInv, TypeOK, Bytes, Count
  <2>2. Streams'
    <3>1. \A q \in Peers : BrokenStream(q) => BrokenStream(q)'
      BY TwoPeers DEF IInv, TypeOK, BrokenStream
    <3>2. ASSUME copy'[p] \notin {"read", "write"}, ~BrokenStream(p)
          PROVE  fin[p] /\ put[p] = sent[p]
      <4>1. ~dead[p] /\ ~cmd
        BY <3>2 DEF BrokenStream, Peers
      <4>2. ~closed[p]
        <5>1. copy[Other(p)] # "done" \/ kind = "tunnel"
          BY <3>2 DEF BrokenStream, IInv, TypeOK
        <5>2. copy[p] # "done"
          OBVIOUS
        <5>3. (\A q \in Peers : ~closed[q]) \/ (\E q \in Peers : copy[q] = "done" /\ kind # "tunnel")
          BY <4>1, <5>2 DEF IInv, Ends
        <5>4. QED
          BY <5>1, <5>2, <5>3, TwoPeers
      <4>3. QED
        BY <4>1, <4>2 DEF IInv, Streams
    <3>3. \A q \in Peers : q # p => copy'[q] = copy[q]
      BY DEF IInv, TypeOK
    <3>4. QED
      BY <3>1, <3>2, <3>3, TwoPeers DEF IInv, TypeOK, Streams
  <2>3. Stages'
    BY TwoPeers DEF IInv, TypeOK, Stages
  <2>4. Ends'
    BY TwoPeers DEF IInv, TypeOK, Ends
  <2>5. Counters'
    BY TwoPeers DEF IInv, TypeOK, Counters, Bytes, Count
  <2>6. Report'
    BY TwoPeers DEF IInv, TypeOK, Report, NoReport, Bytes, Count
  <2>7. QED
    BY <2>1, <2>2, <2>3, <2>4, <2>5, <2>6 DEF IInv
<1>3. CASE WriteSome(p)
  <2> USE <1>3 DEF WriteSome
  <2>1. TypeOK'
    BY TwoPeers DEF IInv, TypeOK, Bytes, Count
  <2>2. Streams'
    BY TwoPeers DEF IInv, TypeOK, Streams, BrokenStream, Bytes
  <2>3. Stages'
    BY TwoPeers DEF IInv, TypeOK, Stages
  <2>4. Ends'
    BY TwoPeers DEF IInv, TypeOK, Ends
  <2>5. Counters'
    BY TwoPeers DEF IInv, TypeOK, Counters, Bytes, Count
  <2>6. Report'
    BY TwoPeers DEF IInv, TypeOK, Report, NoReport, Bytes, Count
  <2>7. QED
    BY <2>1, <2>2, <2>3, <2>4, <2>5, <2>6 DEF IInv
<1>4. CASE WriteReturns(p)
  <2> USE <1>4 DEF WriteReturns, CopyOver, CountWrite, Broken
  <2>1. TypeOK'
    BY TwoPeers DEF IInv, TypeOK, Bytes, Count
  <2>2. Streams'
    <3>1. \A q \in Peers : BrokenStream(q) => BrokenStream(q)'
      BY TwoPeers DEF IInv, TypeOK, BrokenStream
    <3>2. ASSUME copy'[p] \notin {"read", "write"}, ~BrokenStream(p)
          PROVE  FALSE
      <4>1. ~dead[Other(p)] /\ ~cmd
        BY <3>2, TwoPeers DEF BrokenStream, Peers
      <4>2. ~closed[Other(p)]
        <5>1. copy[Other(p)] # "done" \/ kind = "tunnel"
          BY <3>2 DEF BrokenStream, IInv, TypeOK
        <5>2. copy[p] # "done"
          OBVIOUS
        <5>3. (\A q \in Peers : ~closed[q]) \/ (\E q \in Peers : copy[q] = "done" /\ kind # "tunnel")
          BY <4>1, <5>2 DEF IInv, Ends
        <5>4. QED
          BY <5>1, <5>2, <5>3, TwoPeers
      <4>3. copy' = [copy EXCEPT ![p] = "read"]
        BY <4>1, <4>2
      <4>4. QED
        BY <3>2, <4>3 DEF IInv, TypeOK
    <3>3. \A q \in Peers : q # p => copy'[q] = copy[q]
      BY DEF IInv, TypeOK
    <3>4. QED
      BY <3>1, <3>2, <3>3, TwoPeers DEF IInv, TypeOK, Streams
  <2>3. Stages'
    BY TwoPeers DEF IInv, TypeOK, Stages
  <2>4. Ends'
    BY TwoPeers DEF IInv, TypeOK, Ends
  <2>5. Counters'
    <3>1. CASE kind = "tunnel" /\ p = "target"
      BY <3>1 DEF IInv, TypeOK, Counters, Bytes, Count
    <3>2. CASE kind = "tunnel" /\ p = "client"
      BY <3>2 DEF IInv, TypeOK, Counters, Bytes, Count, Peers
    <3>3. QED
      BY <3>1, <3>2 DEF Counters, Peers
  <2>6. Report'
    BY TwoPeers DEF IInv, TypeOK, Report, NoReport, Bytes, Count
  <2>7. QED
    BY <2>1, <2>2, <2>3, <2>4, <2>5, <2>6 DEF IInv
<1>5. CASE CloseWrite(p)
  <2> USE <1>5 DEF CloseWrite
  <2>1. TypeOK'
    BY TwoPeers DEF IInv, TypeOK, Bytes, Count
  <2>2. Streams'
    BY TwoPeers DEF IInv, TypeOK, Streams, BrokenStream, Bytes
  <2>3. Stages'
    BY TwoPeers DEF IInv, TypeOK, Stages
  <2>4. Ends'
    BY TwoPeers DEF IInv, TypeOK, Ends
  <2>5. Counters'
    BY TwoPeers DEF IInv, TypeOK, Counters, Bytes, Count
  <2>6. Report'
    BY TwoPeers DEF IInv, TypeOK, Report, NoReport, Bytes, Count
  <2>7. QED
    BY <2>1, <2>2, <2>3, <2>4, <2>5, <2>6 DEF IInv
<1>6. CASE CloseRead(p)
  <2> USE <1>6 DEF CloseRead
  <2>1. TypeOK'
    BY TwoPeers DEF IInv, TypeOK, Bytes, Count
  <2>2. Streams'
    BY TwoPeers DEF IInv, TypeOK, Streams, BrokenStream, Bytes
  <2>3. Stages'
    BY TwoPeers DEF IInv, TypeOK, Stages
  <2>4. Ends'
    BY TwoPeers DEF IInv, TypeOK, Ends
  <2>5. Counters'
    BY TwoPeers DEF IInv, TypeOK, Counters, Bytes, Count
  <2>6. Report'
    BY TwoPeers DEF IInv, TypeOK, Report, NoReport, Bytes, Count
  <2>7. QED
    BY <2>1, <2>2, <2>3, <2>4, <2>5, <2>6 DEF IInv
<1>7. CASE Signal(p)
  <2> USE <1>7 DEF Signal
  <2>1. TypeOK'
    BY TwoPeers DEF IInv, TypeOK, Bytes, Count
  <2>2. Streams'
    BY TwoPeers DEF IInv, TypeOK, Streams, BrokenStream, Bytes
  <2>3. Stages'
    BY TwoPeers DEF IInv, TypeOK, Stages
  <2>4. Ends'
    BY TwoPeers DEF IInv, TypeOK, Ends
  <2>5. Counters'
    BY TwoPeers DEF IInv, TypeOK, Counters, Bytes, Count
  <2>6. Report'
    BY TwoPeers DEF IInv, TypeOK, Report, NoReport, Bytes, Count
  <2>7. QED
    BY <2>1, <2>2, <2>3, <2>4, <2>5, <2>6 DEF IInv
<1>8. QED
  BY <1>1, <1>2, <1>3, <1>4, <1>5, <1>6, <1>7 DEF Copying

(* The waiting goroutine or a close command takes a step.                    *)
LEMMA WaitSteps ==
  ASSUME IInv, Waiting \/ CloseCommand
  PROVE  IInv'
<1> USE BoundAssumption DEF peerVars, sockVars, copyVars, mainVars
<1>1. CASE TunnelOver
  <2> USE <1>1 DEF TunnelOver
  <2>1. TypeOK'
    BY TwoPeers DEF IInv, TypeOK, Bytes, Count, Peers
  <2>2. Streams'
    BY TwoPeers DEF IInv, TypeOK, Streams, BrokenStream, Bytes
  <2>3. Stages'
    BY TwoPeers DEF IInv, TypeOK, Stages
  <2>4. Ends'
    BY TwoPeers DEF IInv, TypeOK, Ends, Peers
  <2>5. Counters'
    BY TwoPeers DEF IInv, TypeOK, Counters, Bytes, Count
  <2>6. Report'
    BY TwoPeers DEF IInv, TypeOK, Counters, Report, Peers, NoReport, Bytes, Count
  <2>7. QED
    BY <2>1, <2>2, <2>3, <2>4, <2>5, <2>6 DEF IInv
<1>2. CASE UpgradeOver
  <2> USE <1>2 DEF UpgradeOver
  <2>1. TypeOK'
    BY TwoPeers DEF IInv, TypeOK, Bytes, Count
  <2>2. Streams'
    BY TwoPeers DEF IInv, TypeOK, Streams, BrokenStream, Bytes
  <2>3. Stages'
    BY TwoPeers DEF IInv, TypeOK, Stages
  <2>4. Ends'
    BY TwoPeers DEF IInv, TypeOK, Ends
  <2>5. Counters'
    BY TwoPeers DEF IInv, TypeOK, Counters, Bytes, Count
  <2>6. Report'
    BY TwoPeers DEF IInv, TypeOK, Report, NoReport, Bytes, Count
  <2>7. QED
    BY <2>1, <2>2, <2>3, <2>4, <2>5, <2>6 DEF IInv
<1>3. CASE CloseCommand
  <2> USE <1>3 DEF CloseCommand
  <2>1. TypeOK'
    BY TwoPeers DEF IInv, TypeOK, Bytes, Count
  <2>2. Streams'
    BY TwoPeers DEF IInv, TypeOK, Streams, BrokenStream, Bytes
  <2>3. Stages'
    BY TwoPeers DEF IInv, TypeOK, Stages
  <2>4. Ends'
    BY TwoPeers DEF IInv, TypeOK, Ends
  <2>5. Counters'
    BY TwoPeers DEF IInv, TypeOK, Counters, Bytes, Count
  <2>6. Report'
    BY TwoPeers DEF IInv, TypeOK, Report, NoReport, Bytes, Count
  <2>7. QED
    BY <2>1, <2>2, <2>3, <2>4, <2>5, <2>6 DEF IInv
<1>4. ASSUME NEW p \in Peers, CloseSocket(p) PROVE IInv'
  <2> USE <1>4 DEF CloseSocket
  <2>1. TypeOK'
    BY TwoPeers DEF IInv, TypeOK, Bytes, Count
  <2>2. Streams'
    BY TwoPeers DEF IInv, TypeOK, Streams, BrokenStream, Bytes
  <2>3. Stages'
    BY TwoPeers DEF IInv, TypeOK, Stages
  <2>4. Ends'
    BY TwoPeers DEF IInv, TypeOK, Ends
  <2>5. Counters'
    BY TwoPeers DEF IInv, TypeOK, Counters, Bytes, Count
  <2>6. Report'
    BY TwoPeers DEF IInv, TypeOK, Report, NoReport, Bytes, Count
  <2>7. QED
    BY <2>1, <2>2, <2>3, <2>4, <2>5, <2>6 DEF IInv
<1>5. QED
  BY <1>1, <1>2, <1>3, <1>4 DEF Waiting

LEMMA NextIInv == IInv /\ [Next]_vars => IInv'
<1> SUFFICES ASSUME IInv, [Next]_vars PROVE IInv'
    OBVIOUS
<1>1. CASE Next
  BY <1>1, PeerSteps, CopySteps, WaitSteps DEF Next
<1>2. CASE UNCHANGED vars
  BY <1>2 DEF vars, peerVars, sockVars, copyVars, mainVars, IInv, TypeOK, Streams,
     Stages, Ends, Counters, Report, BrokenStream
<1>3. QED
  BY <1>1, <1>2

-----------------------------------------------------------------------------
(* Each direction implements ByteStream. *)

Eof(q) == shut[Other(q)] \/ closed[Other(q)]
SameStream(q) == sent'[q] = sent[q] /\ fin'[q] = fin[q] /\ put'[q] = put[q]

(* A stream that broke stays broken.                                         *)
LEMMA BrokenStays ==
  ASSUME NEW q \in Peers, IInv, [Next]_vars
  PROVE  BrokenStream(q) => BrokenStream(q)'
<1> USE DEF peerVars, sockVars, copyVars, mainVars
<1>1. ASSUME NEW p \in Peers, Peer(p) PROVE BrokenStream(q) => BrokenStream(q)'
  BY <1>1 DEF Peer, PeerSend, PeerFinish, PeerReset, PeerRead, BrokenStream, IInv, TypeOK, Peers
<1>2. ASSUME NEW p \in Peers, Copying(p) PROVE BrokenStream(q) => BrokenStream(q)'
  <2>1. UNCHANGED <<kind, cmd, dead>>
    BY <1>2 DEF Copying, ReadSome, ReadEnds, WriteSome, WriteReturns, CloseWrite, CloseRead, Signal
  <2>2. copy[Other(q)] \notin {"read", "write"} => copy'[Other(q)] \notin {"read", "write"}
    BY <1>2, TwoPeers DEF Copying, ReadSome, ReadEnds, WriteSome, WriteReturns, CloseWrite,
       CloseRead, Signal, CopyOver, IInv, TypeOK
  <2>3. QED
    BY <2>1, <2>2 DEF BrokenStream
<1>3. CASE Waiting \/ CloseCommand \/ UNCHANGED vars
  BY <1>3 DEF Waiting, TunnelOver, UpgradeOver, CloseSocket, CloseCommand, vars, BrokenStream
<1>4. QED
  BY <1>1, <1>2, <1>3 DEF Next

(* A step that does not show in direction q, except that it may break it.    *)
LEMMA Unseen ==
  ASSUME NEW q \in Peers, SameStream(q), Eof(q)' = Eof(q), BrokenStream(q) => BrokenStream(q)'
  PROVE  [Stream(q)!Next]_(Stream(q)!vars)
BY DEF Stream!Next, Stream!vars, Stream!Break, Eof, BrokenStream, SameStream

(* A step that tells the destination of the end, of a complete stream or of  *)
(* a broken one.                                                             *)
LEMMA Ending ==
  ASSUME NEW q \in Peers, SameStream(q), Eof(q)', BrokenStream(q) => BrokenStream(q)',
         (fin[q] /\ put[q] = sent[q]) \/ BrokenStream(q)'
  PROVE  [Stream(q)!Next]_(Stream(q)!vars)
BY DEF Stream!Next, Stream!End, Eof, BrokenStream, SameStream

LEMMA PeerStream ==
  ASSUME NEW p \in Peers, NEW q \in Peers, IInv, Peer(p)
  PROVE  [Stream(q)!Next]_(Stream(q)!vars)
<1> USE DEF sockVars, copyVars, mainVars, Eof, SameStream
<1>1. BrokenStream(q) => BrokenStream(q)'
  BY BrokenStays DEF Next
<1>2. CASE PeerSend(p) /\ p = q
  <2>1. Stream(q)!Send
    BY <1>2 DEF PeerSend, Stream!Send, BrokenStream, IInv, TypeOK
  <2>2. QED
    BY <2>1 DEF Stream!Next
<1>3. CASE PeerFinish(p) /\ p = q
  <2>1. Stream(q)!Finish
    BY <1>3 DEF PeerFinish, Stream!Finish, BrokenStream, IInv, TypeOK
  <2>2. QED
    BY <2>1 DEF Stream!Next
<1>4. CASE PeerReset(p) \/ PeerRead(p) \/ ((PeerSend(p) \/ PeerFinish(p)) /\ p # q)
  <2>1. SameStream(q) /\ Eof(q)' = Eof(q)
    BY <1>4 DEF PeerReset, PeerRead, PeerSend, PeerFinish, IInv, TypeOK
  <2>2. QED
    BY <1>1, <2>1, Unseen
<1>5. QED
  BY <1>2, <1>3, <1>4 DEF Peer

LEMMA CopyStream ==
  ASSUME NEW p \in Peers, NEW q \in Peers, IInv, Copying(p)
  PROVE  [Stream(q)!Next]_(Stream(q)!vars)
<1> USE DEF peerVars, sockVars, mainVars
<1>1. BrokenStream(q) => BrokenStream(q)'
  BY BrokenStays DEF Next
<1>2. CASE WriteSome(p) /\ p = q
  <2>1. ~shut[Other(q)] /\ ~closed[Other(q)]
    BY <1>2, TwoPeers DEF WriteSome, Broken, IInv, Stages
  <2>2. put'[q] \in Nat /\ put[q] < put'[q] /\ put'[q] <= sent[q]
    BY <1>2, BoundAssumption DEF WriteSome, IInv, TypeOK, Bytes
  <2>3. Stream(q)!Deliver
    BY <1>2, <2>1, <2>2 DEF WriteSome, Stream!Deliver, BrokenStream
  <2>4. QED
    BY <2>3 DEF Stream!Next
<1>3. CASE CloseWrite(p) /\ p = q
  <2>1. SameStream(q) /\ Eof(q)'
    BY <1>3, TwoPeers DEF CloseWrite, SameStream, Eof, IInv, TypeOK
  <2>2. (fin[q] /\ put[q] = sent[q]) \/ BrokenStream(q)
    BY <1>3 DEF CloseWrite, IInv, Streams
  <2>3. QED
    BY <1>1, <2>1, <2>2, Ending
<1>4. CASE \/ (WriteSome(p) \/ CloseWrite(p)) /\ p # q
           \/ ReadSome(p) \/ ReadEnds(p) \/ WriteReturns(p) \/ CloseRead(p) \/ Signal(p)
  <2>1. SameStream(q) /\ Eof(q)' = Eof(q)
    BY <1>4, TwoPeers DEF WriteSome, CloseWrite, ReadSome, ReadEnds, WriteReturns, CloseRead,
       Signal, SameStream, Eof, IInv, TypeOK
  <2>2. QED
    BY <1>1, <2>1, Unseen
<1>5. QED
  BY <1>2, <1>3, <1>4 DEF Copying

(* Closing a socket ends a stream that is complete or broken.                *)
LEMMA CloseEnds ==
  ASSUME NEW q \in Peers, NEW p \in Peers, IInv, main # "wait" \/ \A r \in Peers : copy[r] = "done"
  PROVE  (fin[q] /\ put[q] = sent[q]) \/ BrokenStream(q)
<1>1. copy[q] \notin {"read", "write"} \/ (kind = "upgrade" /\ copy[Other(q)] = "done")
  BY TwoPeers DEF IInv, TypeOK, Ends
<1>2. QED
  BY <1>1 DEF IInv, Streams, BrokenStream

LEMMA WaitStream ==
  ASSUME NEW q \in Peers, IInv, Waiting \/ CloseCommand \/ UNCHANGED vars
  PROVE  [Stream(q)!Next]_(Stream(q)!vars)
<1> USE DEF peerVars, sockVars, copyVars, mainVars
<1>1. BrokenStream(q) => BrokenStream(q)'
  BY BrokenStays DEF Next
<1>2. SameStream(q)
  BY DEF Waiting, TunnelOver, UpgradeOver, CloseSocket, CloseCommand, vars, SameStream
<1>3. CASE TunnelOver \/ \E p \in Peers : CloseSocket(p)
  <2>1. (fin[q] /\ put[q] = sent[q]) \/ BrokenStream(q)
    BY <1>3, CloseEnds DEF TunnelOver, CloseSocket
  <2>2. Eof(q) => Eof(q)'
    BY <1>3, TwoPeers DEF TunnelOver, CloseSocket, Eof, IInv, TypeOK
  <2>3. QED
    BY <1>1, <1>2, <2>1, <2>2, Ending, Unseen DEF Eof
<1>4. CASE CloseCommand
  <2>1. BrokenStream(q)'
    BY <1>4 DEF CloseCommand, BrokenStream
  <2>2. Eof(q) => Eof(q)'
    BY <1>4, TwoPeers DEF CloseCommand, Eof, IInv, TypeOK
  <2>3. QED
    BY <1>1, <1>2, <2>1, <2>2, Ending, Unseen DEF Eof
<1>5. CASE UpgradeOver \/ UNCHANGED vars
  <2>1. Eof(q)' = Eof(q)
    BY <1>5 DEF UpgradeOver, vars, Eof
  <2>2. QED
    BY <1>1, <1>2, <2>1, Unseen
<1>6. QED
  BY <1>3, <1>4, <1>5 DEF Waiting

-----------------------------------------------------------------------------
(* The theorems. *)

(* IInv is inductive, so it holds in every reachable state of any instance.  *)
THEOREM Inductive == Spec => []IInv
<1>1. QED
  BY InitIInv, NextIInv, PTL DEF Spec

(* Every variable keeps its type; in particular nothing is written that was  *)
(* not read, and nothing is read that was not sent.                          *)
THEOREM TypeCorrect == Spec => []TypeOK
<1>1. IInv => TypeOK
  BY DEF IInv
<1>2. QED
  BY <1>1, Inductive, PTL

(* In a tunnel nobody broke, a half-close cuts nothing in either direction.  *)
THEOREM NothingCut == Spec => []HalfCloseKeeps
<1>1. IInv => HalfCloseKeeps
  BY DEF IInv, Streams, HalfCloseKeeps, BrokenStream, Calm, Ended, Peers
<1>2. QED
  BY <1>1, Inductive, PTL

(* The traffic that is reported when a tunnel ends is final and complete.    *)
THEOREM ReportedTrafficIsFinal == Spec => []ReportFinal
<1>1. IInv => ReportFinal
  BY DEF IInv, TypeOK, Report, ReportFinal, Count, NoReport
<1>2. QED
  BY <1>1, Inductive, PTL
(* Either direction, of a tunnel or an upgraded exchange, hands on a prefix  *)
(* of what was sent and tells of the end after the last byte.                *)
THEOREM RelayImplementsStreams == Spec => StreamSpec
<1>1. Init => \A p \in Peers : Stream(p)!Init
  <2>1. SUFFICES ASSUME Init, NEW p \in Peers PROVE Stream(p)!Init
    OBVIOUS
  <2>2. sent[p] = 0 /\ put[p] = 0 /\ fin[p] = FALSE
    BY <2>1 DEF Init
  <2>3. ~BrokenStream(p)
    BY <2>1, TwoPeers DEF Init, BrokenStream, Peers
  <2>4. ~shut[Other(p)] /\ ~closed[Other(p)]
    BY <2>1, TwoPeers DEF Init
  <2>5. QED
    BY <2>2, <2>3, <2>4 DEF Stream!Init, BrokenStream
<1>2. IInv /\ [Next]_vars => \A p \in Peers : [Stream(p)!Next]_(Stream(p)!vars)
  BY PeerStream, CopyStream, WaitStream DEF Next
<1>3. QED
  BY <1>1, <1>2, Inductive, PTL DEF Spec, StreamSpec
=============================================================================
