----------------------------- MODULE TunnelCopy -----------------------------
(***************************************************************************)
(* A relay between a client and a target: the two copyAndClose of a        *)
(* CONNECT tunnel, or the two copyOrWarn of an upgraded (websocket)        *)
(* exchange, and the goroutine that waits for them and closes the sockets. *)
(* A close command of the UI may close the client's socket at any time.    *)
(*                                                                         *)
(* A direction is named by the peer it comes from.  io.Copy never reorders *)
(* or skips, so a stream is counted in bytes:                              *)
(*      got[p] <= put[p] <= read[p] <= sent[p].                            *)
(* Of a socket the model keeps what the proxy's calls can tell apart: the  *)
(* peer sent FIN, the peer reset it, the proxy sent FIN, the proxy closed  *)
(* it.  A write blocks while Window bytes are unread at the other side.    *)
(***************************************************************************)
EXTENDS Integers

CONSTANTS
  MaxBytes,   \* bound on the bytes a peer sends
  Window      \* bytes the kernels hold between the proxy and a peer

ASSUME BoundAssumption == MaxBytes \in Nat /\ Window \in Nat \ {0}

Peers == {"client", "target"}
Other(p) == IF p = "client" THEN "target" ELSE "client"
Bytes == 0 .. MaxBytes

VARIABLES
  kind,    \* "tunnel" or "upgrade"
  sent,    \* bytes each peer has sent
  fin,     \* the peer has shut down its sending side
  dead,    \* the peer has reset the connection
  got,     \* bytes of this peer that the other one has read
  shut,    \* the proxy has sent FIN to this peer
  closed,  \* the proxy has closed its socket to this peer
  read,    \* bytes the copy has read from this peer
  put,     \* bytes of this peer the copy has written to the other
  copy,    \* where the copy that reads from this peer is
  count,   \* tunnelTrafficClient: nread, nwrite
  signals, \* what is in waitChan
  main,    \* where the goroutine that waits is
  left,    \* sockets it still has to close
  report,  \* what onClose logged
  cmd      \* a command has closed the client's socket

peerVars == <<sent, fin, dead, got>>
sockVars == <<shut, closed>>
copyVars == <<read, put, copy, count>>
mainVars == <<signals, main, left, report>>
vars == <<kind, peerVars, sockVars, copyVars, mainVars, cmd>>

NoReport == [up |-> -1, down |-> -1]
Count == [up : Bytes, down : Bytes]

TypeOK ==
  /\ kind \in {"tunnel", "upgrade"}
  /\ sent \in [Peers -> Bytes] /\ fin \in [Peers -> BOOLEAN]
  /\ dead \in [Peers -> BOOLEAN] /\ got \in [Peers -> Bytes]
  /\ shut \in [Peers -> BOOLEAN] /\ closed \in [Peers -> BOOLEAN]
  /\ read \in [Peers -> Bytes] /\ put \in [Peers -> Bytes]
  /\ copy \in [Peers -> {"read", "write", "shut", "drain", "signal", "done"}]
  /\ count \in Count
  /\ signals \in 0 .. 2
  /\ main \in {"wait", "close", "done"}
  /\ left \in SUBSET Peers
  /\ report \in Count \cup {NoReport}
  /\ cmd \in BOOLEAN
  /\ \A p \in Peers : got[p] <= put[p] /\ put[p] <= read[p] /\ read[p] <= sent[p]

Init ==
  /\ kind \in {"tunnel", "upgrade"}
  /\ sent = [p \in Peers |-> 0] /\ fin = [p \in Peers |-> FALSE]
  /\ dead = [p \in Peers |-> FALSE] /\ got = [p \in Peers |-> 0]
  /\ shut = [p \in Peers |-> FALSE] /\ closed = [p \in Peers |-> FALSE]
  /\ read = [p \in Peers |-> 0] /\ put = [p \in Peers |-> 0]
  /\ copy = [p \in Peers |-> "read"]
  /\ count = [up |-> 0, down |-> 0]
  /\ signals = 0 /\ main = "wait" /\ left = {} /\ report = NoReport
  /\ cmd = FALSE

-----------------------------------------------------------------------------
(* The peers.  What a peer sends after the proxy closed its socket is lost  *)
(* and not counted.                                                         *)

PeerSend(p) ==
  /\ ~fin[p] /\ ~dead[p] /\ ~closed[p] /\ sent[p] < MaxBytes
  /\ sent' = [sent EXCEPT ![p] = @ + 1]
  /\ UNCHANGED <<kind, fin, dead, got, sockVars, copyVars, mainVars, cmd>>

PeerFinish(p) ==
  /\ ~fin[p] /\ ~dead[p]
  /\ fin' = [fin EXCEPT ![p] = TRUE]
  /\ UNCHANGED <<kind, sent, dead, got, sockVars, copyVars, mainVars, cmd>>

PeerReset(p) ==
  /\ ~dead[p]
  /\ dead' = [dead EXCEPT ![p] = TRUE]
  /\ UNCHANGED <<kind, sent, fin, got, sockVars, copyVars, mainVars, cmd>>

(* Peer Other(p) reads what has arrived. *)
PeerRead(p) ==
  /\ ~dead[Other(p)] /\ got[p] < put[p]
  /\ got' = [got EXCEPT ![p] = put[p]]
  /\ UNCHANGED <<kind, sent, fin, dead, sockVars, copyVars, mainVars, cmd>>

(* closeConnection or closeAllConnections: OnClose closes the client's      *)
(* socket under the relay.                                                  *)
CloseCommand ==
  /\ ~cmd
  /\ cmd' = TRUE
  /\ closed' = [closed EXCEPT !["client"] = TRUE]
  /\ UNCHANGED <<kind, peerVars, shut, copyVars, mainVars>>

-----------------------------------------------------------------------------
(* The two copies.  tunnelTrafficClient counts what its Read and Write      *)
(* return, also together with an error.                                     *)

CountRead(p, n) ==
  IF kind = "tunnel" /\ p = "client" THEN [count EXCEPT !.up = @ + n] ELSE count

CountWrite(p, total) ==
  IF kind = "tunnel" /\ p = "target" THEN [count EXCEPT !.down = total] ELSE count

CopyOver == IF kind = "tunnel" THEN "shut" ELSE "signal"

ReadSome(p) ==
  /\ copy[p] = "read" /\ ~closed[p] /\ ~dead[p]
  /\ \E n \in 1 .. (sent[p] - read[p]) :
       /\ read' = [read EXCEPT ![p] = @ + n]
       /\ count' = CountRead(p, n)
  /\ copy' = [copy EXCEPT ![p] = "write"]
  /\ UNCHANGED <<kind, peerVars, sockVars, put, mainVars, cmd>>

(* EOF, net.ErrClosed or a reset: io.Copy returns. *)
ReadEnds(p) ==
  /\ copy[p] = "read"
  /\ closed[p] \/ dead[p] \/ (fin[p] /\ read[p] = sent[p])
  /\ copy' = [copy EXCEPT ![p] = CopyOver]
  /\ UNCHANGED <<kind, peerVars, sockVars, read, put, count, mainVars, cmd>>

Broken(p) == closed[p] \/ dead[p]

(* The kernel takes as much as fits. *)
WriteSome(p) ==
  /\ copy[p] = "write" /\ ~Broken(Other(p)) /\ put[p] < read[p]
  /\ put[p] - got[p] < Window
  /\ put' = [put EXCEPT ![p] = IF read[p] <= got[p] + Window THEN read[p] ELSE got[p] + Window]
  /\ UNCHANGED <<kind, peerVars, sockVars, read, copy, count, mainVars, cmd>>

(* Write returns, with everything written or with an error. *)
WriteReturns(p) ==
  /\ copy[p] = "write"
  /\ \/ put[p] = read[p] /\ copy' = [copy EXCEPT ![p] = "read"]
     \/ Broken(Other(p)) /\ put[p] < read[p] /\ copy' = [copy EXCEPT ![p] = CopyOver]
  /\ count' = CountWrite(p, put[p])
  /\ UNCHANGED <<kind, peerVars, sockVars, read, put, mainVars, cmd>>

(* Slip: the whole destination is closed, as the comment on copyOrWarn warns. *)
CloseWriteBoth(p) ==
  /\ copy[p] = "shut"
  /\ closed' = [closed EXCEPT ![Other(p)] = TRUE]
  /\ copy' = [copy EXCEPT ![p] = "drain"]
  /\ UNCHANGED <<kind, peerVars, shut, read, put, count, mainVars, cmd>>

(* Slip: no FIN for the destination. *)
CloseWriteNever(p) ==
  /\ copy[p] = "shut"
  /\ copy' = [copy EXCEPT ![p] = "drain"]
  /\ UNCHANGED <<kind, peerVars, sockVars, read, put, count, mainVars, cmd>>

(* dst.CloseWrite: FIN to the destination, which may still send. *)
CloseWrite(p) ==
  /\ copy[p] = "shut"
  /\ shut' = [shut EXCEPT ![Other(p)] = TRUE]
  /\ copy' = [copy EXCEPT ![p] = "drain"]
  /\ UNCHANGED <<kind, peerVars, closed, read, put, count, mainVars, cmd>>

(* src.CloseRead and wg.Done. *)
CloseRead(p) ==
  /\ copy[p] = "drain"
  /\ copy' = [copy EXCEPT ![p] = "done"]
  /\ UNCHANGED <<kind, peerVars, sockVars, read, put, count, mainVars, cmd>>

(* waitChan <- struct{}{}: the channel has room for both. *)
Signal(p) ==
  /\ copy[p] = "signal" /\ signals < 2
  /\ signals' = signals + 1
  /\ copy' = [copy EXCEPT ![p] = "done"]
  /\ UNCHANGED <<kind, peerVars, sockVars, read, put, count, main, left, report, cmd>>

-----------------------------------------------------------------------------
(* The waiting goroutine. *)

(* Slip: the first copy that ends closes the tunnel. *)
TunnelOverEarly ==
  /\ kind = "tunnel" /\ main = "wait"
  /\ \E p \in Peers : copy[p] = "done"
  /\ report' = count
  /\ main' = "close" /\ left' = {"target"}
  /\ closed' = [closed EXCEPT !["client"] = TRUE]
  /\ UNCHANGED <<kind, peerVars, shut, copyVars, signals, cmd>>

(* wg.Wait returns; proxyClientTCP.Close runs onClose, which logs the       *)
(* counters and marks the record, and closes the client's socket.           *)
TunnelOver ==
  /\ kind = "tunnel" /\ main = "wait"
  /\ \A p \in Peers : copy[p] = "done"
  /\ report' = count
  /\ main' = "close" /\ left' = {"target"}
  /\ closed' = [closed EXCEPT !["client"] = TRUE]
  /\ UNCHANGED <<kind, peerVars, shut, copyVars, signals, cmd>>

(* <-waitChan: the first copy that ends lets proxyWebsocket return. *)
UpgradeOver ==
  /\ kind = "upgrade" /\ main = "wait" /\ signals > 0
  /\ signals' = signals - 1
  /\ main' = "close" /\ left' = Peers
  /\ UNCHANGED <<kind, peerVars, sockVars, copyVars, report, cmd>>

(* Slip: the goroutine is through after the first close. *)
CloseSocketOnce(p) ==
  /\ main = "close" /\ p \in left
  /\ closed' = [closed EXCEPT ![p] = TRUE]
  /\ left' = {} /\ main' = "done"
  /\ UNCHANGED <<kind, peerVars, shut, copyVars, signals, report, cmd>>

(* targetTCP.Close, or the deferred closes of the handler, whose order      *)
(* differs between plain HTTP and the keep-alive loops.                     *)
CloseSocket(p) ==
  /\ main = "close" /\ p \in left
  /\ closed' = [closed EXCEPT ![p] = TRUE]
  /\ left' = left \ {p}
  /\ main' = IF left' = {} THEN "done" ELSE "close"
  /\ UNCHANGED <<kind, peerVars, shut, copyVars, signals, report, cmd>>

-----------------------------------------------------------------------------
Copying(p) ==
  ReadSome(p) \/ ReadEnds(p) \/ WriteSome(p) \/ WriteReturns(p)
  \/ CloseWrite(p) \/ CloseRead(p) \/ Signal(p)

Waiting == TunnelOver \/ UpgradeOver \/ \E p \in Peers : CloseSocket(p)

Peer(p) == PeerSend(p) \/ PeerFinish(p) \/ PeerReset(p) \/ PeerRead(p)

Next == Waiting \/ CloseCommand \/ \E p \in Peers : Copying(p) \/ Peer(p)

Spec == Init /\ [][Next]_vars

(* The runtime schedules every goroutine that can run; that a peer reads    *)
(* what has arrived is the one thing assumed of the network.                *)
FairSpec ==
  /\ Spec
  /\ WF_vars(Waiting)
  /\ \A p \in Peers : WF_vars(Copying(p)) /\ WF_vars(PeerRead(p))

-----------------------------------------------------------------------------
Calm == ~cmd /\ \A p \in Peers : ~dead[p]

Ended(p) == copy[p] \in {"drain", "done"}

(* A half-close of one peer cuts nothing of what the other one still sends: *)
(* in a tunnel nobody broke, a copy ends only after all its source sent has *)
(* been written (copyAndClose shuts down one side of each socket, and only  *)
(* wg.Wait closes them).                                                    *)
HalfCloseKeeps ==
  kind = "tunnel" /\ Calm =>
    \A p \in Peers : Ended(p) => fin[p] /\ put[p] = sent[p]

(* The traffic onClose logs is final and counts every byte: no copy reads   *)
(* or writes after it.                                                      *)
ReportFinal ==
  report # NoReport => report = [up |-> read["client"], down |-> put["target"]]

(* Each direction is a ByteStream; in an upgraded exchange the end of one   *)
(* direction breaks the other.                                              *)
BrokenStream(p) ==
  \/ cmd \/ dead["client"] \/ dead["target"]
  \/ kind = "upgrade" /\ copy[Other(p)] \notin {"read", "write"}

Stream(p) == INSTANCE ByteStream WITH
  sent <- sent[p], fin <- fin[p], put <- put[p],
  eof <- shut[Other(p)] \/ closed[Other(p)], broken <- BrokenStream(p)

StreamSpec ==
  /\ \A p \in Peers : Stream(p)!Init
  /\ [][\A p \in Peers : [Stream(p)!Next]_(Stream(p)!vars)]_vars

Gone(p) == fin[p] \/ dead[p] \/ closed[p]
Told(p) == shut[p] \/ closed[p] \/ dead[p]

(* The end of one side always reaches the other: a FIN, a reset or a close  *)
(* command becomes a FIN for the other peer.                                *)
EndForwarded == \A p \in Peers : Gone(p) ~> Told(Other(p))

(* A relay whose peers are both gone ends, both sockets closed and no       *)
(* goroutine left; an upgraded exchange as soon as one direction has ended, *)
(* even if the other peer neither reads, sends nor closes.                  *)
RelayEnds ==
  \/ \A p \in Peers : Gone(p)
  \/ kind = "upgrade" /\ \E p \in Peers : copy[p] = "done"
  ~> main = "done" /\ \A p \in Peers : copy[p] = "done" /\ closed[p]
=============================================================================
