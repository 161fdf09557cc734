---------------------------- MODULE ConnRegistry ----------------------------
(***************************************************************************)
(* The connection registry of the proxy (CoreHttpServer.Connections) and   *)
(* everything that writes it: the handlers that open and close sessions    *)
(* (plain HTTP, keep-alive engine, CONNECT tunnel, CONNECT with MITM), the *)
(* garbage collector in the 500 ms connection pusher, and the two manual   *)
(* close commands of the control websocket.                                *)
(*                                                                         *)
(* Atomicity.  sync.Map operations and the session counter are atomic.     *)
(* MarkConnectionClosed is a Load and two plain writes to the record that  *)
(* was loaded, stored or not by then, so it is three steps of whichever    *)
(* goroutine runs it; so are the read of a record, the test and the Delete *)
(* of the garbage collector.  OnClose and the mark (or the Delete) that    *)
(* follows it in the control commands are separate steps too.  A goroutine *)
(* between two such steps owes the next one (variable owe).                *)
(***************************************************************************)
EXTENDS Integers, FiniteSets

CONSTANTS
  Handlers,     \* accepted client connections, one handler goroutine each
  Controllers,  \* control websocket clients, each read by one goroutine
  Pusher,       \* the goroutine of StartConnectionPusher
  Kinds,        \* the ways a connection may be served in this instance
  MaxSess,      \* bound on the session counter
  MaxTime,      \* bound on the clock
  MaxCmds,      \* bound on the close commands of the control clients
  Retention     \* tombstoneRetention, in ticks of the clock

AllKinds == {"plain", "engine", "mitm", "tunnel", "reject"}

ASSUME ConstAssumption ==
  /\ Kinds \subseteq AllKinds
  /\ MaxSess \in Nat /\ MaxTime \in Nat /\ MaxCmds \in Nat /\ Retention \in Nat
  /\ Pusher \notin Handlers \cup Controllers
  /\ Handlers \cap Controllers = {}

Session == 1 .. MaxSess
Threads == Handlers \cup Controllers \cup {Pusher}

(* The zero time.Time: older than any retention period. *)
ZeroTime == -(Retention + 1)

VARIABLES
  sess,       \* proxy.sess: last session number handed out
  now,        \* the wall clock
  table,      \* Connections: which record of a session is stored, 0 if none
  heap,       \* the ConnectionInfo records; a session allocates at most two
  pc,         \* where each handler is
  kind,       \* how each connection is served
  tun,        \* the session of the connection's own (top) record
  cur,        \* the session of the request being served, 0 if none
  again,      \* what processRequest / requestOk will return
  sock,       \* the hijacked client socket
  remote,     \* the dialled target socket is open
  cancelled,  \* sessions whose request context has been cancelled
  owe,        \* the next step of a non-atomic operation
  tickAt,     \* the time the pusher read at the start of its current tick
  scan,       \* the Range a control command has in progress
  cmds        \* close commands issued so far

regVars == <<table, heap, owe>>
connVars == <<pc, kind, tun, cur, again, sock, remote>>
ctrlVars == <<tickAt, scan, cmds>>
vars == <<sess, now, cancelled, ctrlVars, regVars, connVars>>

Absent == [status |-> "none", end |-> ZeroTime, parent |-> 0,
           onClose |-> "none", owner |-> Pusher, back |-> FALSE]

Record ==
  [status : {"none", "Active", "Closed"}, end : {ZeroTime} \cup 0 .. MaxTime,
   parent : 0 .. MaxSess, onClose : {"none", "cancel", "close"},
   owner : Handlers \cup {Pusher}, back : BOOLEAN]

NoDebt == [op |-> "none", s |-> 0, g |-> 0]
Debt == {NoDebt} \cup [op : {"mark", "end", "test"}, s : Session, g : 1 .. 2]
                 \cup [op : {"del"}, s : Session, g : {0}]

NoScan == [op |-> "none", id |-> 0, must |-> {}, seen |-> {}, cur |-> 0]
Scan == [op : {"none", "all"}, id : {0},
         must : SUBSET Session, seen : SUBSET Session, cur : 0 .. MaxSess]
        \cup [op : {"one"}, id : Session,
               must : SUBSET Session, seen : SUBSET Session, cur : {0}]

PCs == {"idle", "store", "request", "childStore", "roundtrip", "respond",
        "childMark", "read", "strategy", "handshake", "dial", "write200",
        "storeRelay", "relay", "markFirst", "closeLast", "closeFirst",
        "markLast", "done"}

TypeOK ==
  /\ sess \in 0 .. MaxSess /\ now \in 0 .. MaxTime
  /\ table \in [Session -> 0 .. 2]
  /\ heap \in [Session \X (1 .. 2) -> Record]
  /\ pc \in [Handlers -> PCs]
  /\ kind \in [Handlers -> AllKinds \cup {"none", "connect"}]
  /\ tun \in [Handlers -> 0 .. MaxSess] /\ cur \in [Handlers -> 0 .. MaxSess]
  /\ again \in [Handlers -> BOOLEAN]
  /\ sock \in [Handlers -> {"none", "open", "closed"}]
  /\ remote \in [Handlers -> BOOLEAN]
  /\ cancelled \in SUBSET Session
  /\ owe \in [Threads -> Debt]
  /\ tickAt \in 0 .. MaxTime /\ cmds \in 0 .. MaxCmds
  /\ scan \in [Controllers -> Scan]

Init ==
  /\ sess = 0 /\ now = 0 /\ cancelled = {}
  /\ table = [s \in Session |-> 0]
  /\ heap = [p \in Session \X (1 .. 2) |-> Absent]
  /\ pc = [h \in Handlers |-> "idle"] /\ kind = [h \in Handlers |-> "none"]
  /\ tun = [h \in Handlers |-> 0] /\ cur = [h \in Handlers |-> 0]
  /\ again = [h \in Handlers |-> FALSE]
  /\ sock = [h \in Handlers |-> "none"] /\ remote = [h \in Handlers |-> FALSE]
  /\ owe = [t \in Threads |-> NoDebt]
  /\ tickAt = 0 /\ cmds = 0
  /\ scan = [c \in Controllers |-> NoScan]

-----------------------------------------------------------------------------
(* The record operations of connections.go. *)

Present(s) == table[s] # 0
Rec(s) == heap[<<s, table[s]>>]
Active(s) == Present(s) /\ Rec(s).status = "Active"
Closed(s) == Present(s) /\ Rec(s).status = "Closed"

(* Goroutine t has loaded record g of session s and is about to mark it. *)
Marking(t, s, g) == owe[t] = [op |-> "mark", s |-> s, g |-> g]

(* Connections.Store(s, &ConnectionInfo{...}) of a new Active record.  The  *)
(* field back is history: this second Store overtook a close.  The first    *)
(* record was no longer Active, or was about to be marked.                  *)
Store(h, s, g, parent, onClose) ==
  /\ heap' = [heap EXCEPT ![<<s, g>>] =
                [status |-> "Active", end |-> ZeroTime, parent |-> parent,
                 onClose |-> onClose, owner |-> h,
                 back |-> g = 2 /\ (~Active(s) \/ \E t \in Threads : Marking(t, s, 1))]]
  /\ table' = [table EXCEPT ![s] = g]
  /\ UNCHANGED owe

(* MarkConnectionClosed: load the record; MarkClosed is still owed. *)
MarkConnectionClosed(t, s) ==
  /\ UNCHANGED <<table, heap>>
  /\ owe' = IF Present(s)
            THEN [owe EXCEPT ![t] = [op |-> "mark", s |-> s, g |-> table[s]]]
            ELSE owe

(* MarkClosed, first write: c.Status = "Closed", whether c is still stored  *)
(* or not.                                                                  *)
MarkStatus(t) ==
  /\ owe[t].op = "mark"
  /\ heap' = [heap EXCEPT ![<<owe[t].s, owe[t].g>>].status = "Closed"]
  /\ owe' = [owe EXCEPT ![t].op = "end"]
  /\ UNCHANGED <<sess, now, cancelled, ctrlVars, table, connVars>>

(* Slip: the marked record is stored back under its session. *)
MarkEndStoreBack(t) ==
  /\ owe[t].op = "end"
  /\ heap' = [heap EXCEPT ![<<owe[t].s, owe[t].g>>].end = now]
  /\ table' = [table EXCEPT ![owe[t].s] = owe[t].g]
  /\ owe' = [owe EXCEPT ![t] = NoDebt]
  /\ UNCHANGED <<sess, now, cancelled, ctrlVars, connVars>>

(* MarkClosed, second write: c.EndTime = time.Now(). *)
MarkEnd(t) ==
  /\ owe[t].op = "end"
  /\ heap' = [heap EXCEPT ![<<owe[t].s, owe[t].g>>].end = now]
  /\ owe' = [owe EXCEPT ![t] = NoDebt]
  /\ UNCHANGED <<sess, now, cancelled, ctrlVars, table, connVars>>

(* Connections.Delete(s), after the decision to delete was taken. *)
DeleteOwed(t) ==
  /\ owe[t].op = "del"
  /\ table' = [table EXCEPT ![owe[t].s] = 0]
  /\ owe' = [owe EXCEPT ![t] = NoDebt]
  /\ UNCHANGED <<sess, now, cancelled, ctrlVars, heap, connVars>>

(* info.OnClose() of record r of session s: cancels the request context, or *)
(* closes the client socket.                                               *)
OnClose(r, s) ==
  IF r.onClose = "cancel"
  THEN cancelled' = cancelled \cup {s} /\ UNCHANGED sock
  ELSE sock' = [sock EXCEPT ![r.owner] = "closed"] /\ UNCHANGED cancelled

-----------------------------------------------------------------------------
(* Handlers.  At(h, l): h is at l and owes nothing. *)

At(h, l) == pc[h] = l /\ owe[h] = NoDebt
Goto(h, l) == pc' = [pc EXCEPT ![h] = l]

(* atomic.AddInt64(&proxy.sess, 1), capped by MaxSess. *)
NextSession == sess < MaxSess /\ sess' = sess + 1

(* Accepting a connection: the session number is taken first, the record is *)
(* stored in a later step.                                                  *)
Begin(h, k, socket) ==
  /\ At(h, "idle")
  /\ kind' = [kind EXCEPT ![h] = k]
  /\ NextSession
  /\ tun' = [tun EXCEPT ![h] = sess'] /\ cur' = [cur EXCEPT ![h] = sess']
  /\ sock' = [sock EXCEPT ![h] = socket]
  /\ Goto(h, "store")
  /\ UNCHANGED <<now, cancelled, ctrlVars, regVars, again, remote>>

MyHttpHandle(h) == "plain" \in Kinds /\ Begin(h, "plain", "none")

MyHttpHandleWithEngine(h) == "engine" \in Kinds /\ Begin(h, "engine", "open")

MyHttpsHandle(h) ==
  /\ Kinds \cap {"mitm", "tunnel", "reject"} # {}
  /\ Begin(h, "connect", "open")

(* DirectHandler answers a non-proxy request, or Hijack fails: no record.   *)
(* MyHttpsHandle has already taken a session number when it hijacks.        *)
TurnAway(h) ==
  /\ At(h, "idle")
  /\ \/ Kinds \cap {"plain", "engine"} # {} /\ UNCHANGED sess
     \/ Kinds \cap {"mitm", "tunnel", "reject"} # {} /\ NextSession
  /\ Goto(h, "done")
  /\ UNCHANGED <<now, cancelled, ctrlVars, regVars, kind, tun, cur, again,
                 sock, remote>>

(* The first Connections.Store of the connection's own record. *)
StoreTop(h) ==
  /\ At(h, "store")
  /\ Store(h, tun[h], 1, 0, IF kind[h] = "plain" THEN "cancel" ELSE "close")
  /\ \/ kind[h] = "plain" /\ Goto(h, "roundtrip")
     \/ kind[h] = "engine" /\ Goto(h, "request")
     \/ kind[h] = "connect" /\ Goto(h, "strategy")
  /\ UNCHANGED <<sess, now, cancelled, ctrlVars, kind, tun, cur, again, sock,
                 remote>>

(* MitmEnabled (or a CONNECT hook) picks the strategy. *)
Strategy(h) ==
  /\ At(h, "strategy")
  /\ \E k \in Kinds \cap {"mitm", "tunnel", "reject"} :
       /\ kind' = [kind EXCEPT ![h] = k]
       /\ \/ k = "mitm" /\ Goto(h, "handshake")
          \/ k = "tunnel" /\ Goto(h, "dial")
          \/ k = "reject" /\ Goto(h, "closeFirst")
  /\ UNCHANGED <<sess, now, cancelled, ctrlVars, regVars, tun, cur, again,
                 sock, remote>>

(* Peek and TLS handshake of the MITM branch. *)
Handshake(h) ==
  /\ At(h, "handshake")
  /\ \/ sock[h] = "open" /\ Goto(h, "read")
     \/ Goto(h, "closeFirst")
  /\ UNCHANGED <<sess, now, cancelled, ctrlVars, regVars, kind, tun, cur,
                 again, sock, remote>>

(* connectDial of the tunnel branch. *)
Dial(h) ==
  /\ At(h, "dial")
  /\ \/ Goto(h, "write200") /\ remote' = [remote EXCEPT ![h] = TRUE]
     \/ Goto(h, "closeFirst") /\ UNCHANGED remote
  /\ UNCHANGED <<sess, now, cancelled, ctrlVars, regVars, kind, tun, cur,
                 again, sock>>

(* Slip: the error return does not mark the record. *)
Write200Unmarked(h) ==
  /\ At(h, "write200")
  /\ \/ sock[h] = "open" /\ Goto(h, "storeRelay")
     \/ Goto(h, "done")
  /\ UNCHANGED <<sess, now, cancelled, ctrlVars, regVars, kind, tun, cur,
                 again, sock, remote>>

(* "200 Connection established": on a write error the handler marks the    *)
(* record and returns; it closes neither socket.                           *)
Write200(h) ==
  /\ At(h, "write200")
  /\ \/ sock[h] = "open" /\ Goto(h, "storeRelay")
     \/ Goto(h, "markLast")
  /\ UNCHANGED <<sess, now, cancelled, ctrlVars, regVars, kind, tun, cur,
                 again, sock, remote>>

(* The second Store under the same session, its own session as parent. *)
StoreRelay(h) ==
  /\ At(h, "storeRelay")
  /\ Store(h, tun[h], 2, tun[h], "close")
  /\ Goto(h, "relay")
  /\ UNCHANGED <<sess, now, cancelled, ctrlVars, kind, tun, cur, again, sock,
                 remote>>

(* Both copy goroutines have finished. *)
RelayEnd(h) ==
  /\ At(h, "relay")
  /\ Goto(h, "markFirst")
  /\ UNCHANGED <<sess, now, cancelled, ctrlVars, regVars, kind, tun, cur,
                 again, sock, remote>>

(* Where a connection goes when its request loop is over. *)
LoopExit(h) == IF kind[h] = "engine" THEN "markFirst" ELSE "closeFirst"

(* ReadRequest returns a request: from the socket, or from what the client *)
(* pipelined and the reader had buffered before the socket was closed.     *)
ReadRequest(h) ==
  /\ At(h, "read")
  /\ IF kind[h] = "engine"
     THEN Goto(h, "request") /\ UNCHANGED <<sess, cur>>
     ELSE /\ NextSession
          /\ cur' = [cur EXCEPT ![h] = sess']
          /\ Goto(h, "childStore")
  /\ UNCHANGED <<now, cancelled, ctrlVars, regVars, kind, tun, again, sock,
                 remote>>

(* Slip: a read error on a closed connection is taken for a retry. *)
ReadRetries(h) ==
  /\ At(h, "read") /\ sock[h] = "open"
  /\ Goto(h, LoopExit(h))
  /\ UNCHANGED <<sess, now, cancelled, ctrlVars, regVars, kind, tun, cur,
                 again, sock, remote>>

(* End of the stream, or a request that cannot be read; the MITM loop takes *)
(* a session number before it looks at the error.                           *)
ReadFails(h) ==
  /\ At(h, "read")
  /\ \/ UNCHANGED <<sess, cur>>
     \/ kind[h] = "mitm" /\ NextSession /\ cur' = [cur EXCEPT ![h] = sess']
  /\ Goto(h, LoopExit(h))
  /\ UNCHANGED <<now, cancelled, ctrlVars, regVars, kind, tun, again, sock,
                 remote>>

(* processRequest of the engine up to its session number. *)
ProcessRequest(h) ==
  /\ At(h, "request")
  /\ \/ /\ NextSession
        /\ cur' = [cur EXCEPT ![h] = sess']
        /\ Goto(h, "childStore")
     \/ Goto(h, "markFirst") /\ UNCHANGED <<sess, cur>>   \* URL parse error
  /\ UNCHANGED <<now, cancelled, ctrlVars, regVars, kind, tun, again, sock,
                 remote>>

StoreChild(h) ==
  /\ At(h, "childStore")
  /\ Store(h, cur[h], 1, tun[h], "cancel")
  /\ Goto(h, "roundtrip")
  /\ UNCHANGED <<sess, now, cancelled, ctrlVars, kind, tun, cur, again, sock,
                 remote>>

(* Slip: the error return skips the deferred mark of the child. *)
RoundTripNoDefer(h) ==
  /\ At(h, "roundtrip")
  /\ \/ cur[h] \notin cancelled /\ Goto(h, "respond") /\ UNCHANGED again
     \/ /\ Goto(h, IF kind[h] = "plain" THEN "markLast" ELSE LoopExit(h))
        /\ again' = [again EXCEPT ![h] = FALSE]
  /\ UNCHANGED <<sess, now, cancelled, ctrlVars, regVars, kind, tun, cur, sock,
                 remote>>

(* ctxt.RoundTrip.  An error ends a child with false; in MyHttpHandle the   *)
(* response hook then panics on the nil response and only the defers run.   *)
RoundTrip(h) ==
  /\ At(h, "roundtrip")
  /\ \/ cur[h] \notin cancelled /\ Goto(h, "respond") /\ UNCHANGED again
     \/ /\ Goto(h, IF kind[h] = "plain" THEN "markLast" ELSE "childMark")
        /\ again' = [again EXCEPT ![h] = FALSE]
  /\ UNCHANGED <<sess, now, cancelled, ctrlVars, regVars, kind, tun, cur, sock,
                 remote>>

(* MyHttpHandle writes its response, or relays a websocket, and returns. *)
RespondPlain(h) ==
  /\ At(h, "respond") /\ kind[h] = "plain"
  /\ Goto(h, "markLast")
  /\ UNCHANGED <<sess, now, cancelled, ctrlVars, regVars, kind, tun, cur,
                 again, sock, remote>>

(* A keep-alive handler writes the response back.  The loop goes on only if *)
(* all of it was written and neither side asked for Connection: close.      *)
Respond(h) ==
  /\ At(h, "respond") /\ kind[h] # "plain"
  /\ Goto(h, "childMark")
  /\ \E ok \in BOOLEAN :
       /\ ok => sock[h] = "open" /\ cur[h] \notin cancelled
       /\ again' = [again EXCEPT ![h] = ok]
  /\ UNCHANGED <<sess, now, cancelled, ctrlVars, regVars, kind, tun, cur, sock,
                 remote>>

(* A websocket upgrade in the MITM loop marks the child when the copy ends; *)
(* the deferred call marks it a second time.                                *)
RespondUpgrade(h) ==
  /\ At(h, "respond") /\ kind[h] = "mitm"
  /\ MarkConnectionClosed(h, cur[h])
  /\ again' = [again EXCEPT ![h] = FALSE]
  /\ Goto(h, "childMark")
  /\ UNCHANGED <<sess, now, cancelled, ctrlVars, kind, tun, cur, sock, remote>>

(* The deferred MarkConnectionClosed of a child. *)
ChildMark(h) ==
  /\ At(h, "childMark")
  /\ MarkConnectionClosed(h, cur[h])
  /\ Goto(h, IF again[h] THEN "read" ELSE LoopExit(h))
  /\ again' = [again EXCEPT ![h] = FALSE]
  /\ UNCHANGED <<sess, now, cancelled, ctrlVars, kind, tun, cur, sock, remote>>

(* Exit orders.  Engine and relay: mark the tunnel, then close the sockets. *)
MarkFirst(h) ==
  /\ At(h, "markFirst")
  /\ MarkConnectionClosed(h, tun[h])
  /\ Goto(h, "closeLast")
  /\ UNCHANGED <<sess, now, cancelled, ctrlVars, kind, tun, cur, again, sock,
                 remote>>

CloseLast(h) ==
  /\ At(h, "closeLast")
  /\ sock' = [sock EXCEPT ![h] = "closed"]
  /\ remote' = [remote EXCEPT ![h] = FALSE]
  /\ Goto(h, "done")
  /\ UNCHANGED <<sess, now, cancelled, ctrlVars, regVars, kind, tun, cur,
                 again>>

(* MITM, a failed dial, a rejected CONNECT: close the client, then mark. *)
CloseFirst(h) ==
  /\ At(h, "closeFirst")
  /\ sock' = [sock EXCEPT ![h] = "closed"]
  /\ Goto(h, "markLast")
  /\ UNCHANGED <<sess, now, cancelled, ctrlVars, regVars, kind, tun, cur,
                 again, remote>>

MarkLast(h) ==
  /\ At(h, "markLast")
  /\ MarkConnectionClosed(h, tun[h])
  /\ Goto(h, "done")
  /\ UNCHANGED <<sess, now, cancelled, ctrlVars, kind, tun, cur, again, sock,
                 remote>>

HandlerStep(h) ==
  \/ StoreTop(h) \/ Strategy(h) \/ Handshake(h) \/ Dial(h) \/ Write200(h)
  \/ StoreRelay(h) \/ RelayEnd(h) \/ ReadRequest(h) \/ ReadFails(h)
  \/ ProcessRequest(h) \/ StoreChild(h) \/ RoundTrip(h) \/ RespondPlain(h)
  \/ Respond(h) \/ RespondUpgrade(h) \/ ChildMark(h) \/ MarkFirst(h) \/ CloseLast(h)
  \/ CloseFirst(h) \/ MarkLast(h)
  \/ MarkStatus(h) \/ MarkEnd(h)

Arrive(h) ==
  MyHttpHandle(h) \/ MyHttpHandleWithEngine(h) \/ MyHttpsHandle(h) \/ TurnAway(h)

-----------------------------------------------------------------------------
(* The pusher's tick.  time.Now is read once, before the Range.  The Range  *)
(* reads a record, then the pusher tests it, then it deletes the key under  *)
(* which it read the record, whatever is stored there by then.              *)

(* Slips: the status is not tested; the operands of Sub are swapped. *)
ExpiredByAge(r, t) == t - r.end > Retention
ExpiredSwapped(r, t) == r.status = "Closed" /\ r.end - t > Retention

Expired(r, t) == r.status = "Closed" /\ t - r.end > Retention

PusherTick ==
  /\ owe[Pusher] = NoDebt
  /\ tickAt' = now
  /\ UNCHANGED <<sess, now, cancelled, scan, cmds, regVars, connVars>>

PusherVisit(s) ==
  /\ owe[Pusher] = NoDebt /\ Present(s)
  /\ owe' = [owe EXCEPT ![Pusher] = [op |-> "test", s |-> s, g |-> table[s]]]
  /\ UNCHANGED <<sess, now, cancelled, ctrlVars, table, heap, connVars>>

PusherTest ==
  /\ owe[Pusher].op = "test"
  /\ owe' = [owe EXCEPT ![Pusher] =
               IF Expired(heap[<<@.s, @.g>>], tickAt)
               THEN [op |-> "del", s |-> @.s, g |-> 0] ELSE NoDebt]
  /\ UNCHANGED <<sess, now, cancelled, ctrlVars, table, heap, connVars>>

PusherStep ==
  \/ PusherTick \/ PusherTest \/ DeleteOwed(Pusher)
  \/ \E s \in Session : PusherVisit(s)

-----------------------------------------------------------------------------
(* Control commands walk the registry with Connections.Range: a key is      *)
(* visited at most once, a key present from beginning to end is visited, a  *)
(* key stored meanwhile may be.                                             *)

RangeBegin(c, op, id) ==
  /\ scan[c] = NoScan /\ owe[c] = NoDebt
  /\ cmds < MaxCmds /\ cmds' = cmds + 1
  /\ scan' = [scan EXCEPT ![c] =
                [op |-> op, id |-> id, must |-> {s \in Session : Present(s)},
                 seen |-> {}, cur |-> 0]]
  /\ UNCHANGED <<sess, now, cancelled, tickAt, regVars, connVars>>

RangeVisits(c, op, s) ==
  /\ scan[c].op = op /\ scan[c].cur = 0 /\ owe[c] = NoDebt
  /\ Present(s) /\ s \notin scan[c].seen

RangeOver(c, op) ==
  /\ scan[c].op = op /\ scan[c].cur = 0 /\ owe[c] = NoDebt
  /\ \A s \in scan[c].must : Present(s) => s \in scan[c].seen
  /\ scan' = [scan EXCEPT ![c] = NoScan]

(* closeAllConnections: OnClose, then MarkConnectionClosed(key).  The read   *)
(* of a record and the call of its OnClose are one step: both records of a  *)
(* tunnel close the same socket, so it does not matter which one was read.  *)
CloseAllBegin(c) == RangeBegin(c, "all", 0)

CloseAllVisit(c, s) ==
  /\ RangeVisits(c, "all", s)
  /\ scan' = [scan EXCEPT ![c] =
                [op |-> "all", id |-> 0, must |-> @.must,
                 seen |-> @.seen \cup {s}, cur |-> s]]
  /\ OnClose(Rec(s), s)
  /\ UNCHANGED <<sess, now, tickAt, cmds, regVars, pc, kind, tun, cur, again,
                 remote>>

(* Slip: OnClose without the mark. *)
CloseAllForget(c) ==
  /\ scan[c].op = "all" /\ scan[c].cur # 0 /\ owe[c] = NoDebt
  /\ scan' = [scan EXCEPT ![c].cur = 0]
  /\ UNCHANGED <<sess, now, cancelled, tickAt, cmds, regVars, connVars>>

CloseAllMark(c) ==
  /\ scan[c].op = "all" /\ scan[c].cur # 0 /\ owe[c] = NoDebt
  /\ MarkConnectionClosed(c, scan[c].cur)
  /\ scan' = [scan EXCEPT ![c].cur = 0]
  /\ UNCHANGED <<sess, now, cancelled, tickAt, cmds, connVars>>

CloseAllOver(c) ==
  /\ RangeOver(c, "all")
  /\ UNCHANGED <<sess, now, cancelled, tickAt, cmds, regVars, connVars>>

(* CloseAndRemoveConnection: OnClose; the Delete is owed. *)
CloseAndRemove(c, s) ==
  /\ OnClose(Rec(s), s)
  /\ owe' = [owe EXCEPT ![c] = [op |-> "del", s |-> s, g |-> 0]]

(* closeConnection(id): the children first, then id itself. *)
CloseOneBegin(c, id) == RangeBegin(c, "one", id)

(* Slip: the child is closed but not removed. *)
CloseOneVisitKeep(c, s) ==
  /\ RangeVisits(c, "one", s)
  /\ scan' = [scan EXCEPT ![c].seen = @ \cup {s}]
  /\ IF Rec(s).parent = scan[c].id THEN OnClose(Rec(s), s) ELSE UNCHANGED <<cancelled, sock>>
  /\ UNCHANGED <<sess, now, tickAt, cmds, regVars, pc, kind, tun, cur, again,
                 remote>>

CloseOneVisit(c, s) ==
  /\ RangeVisits(c, "one", s)
  /\ scan' = [scan EXCEPT ![c].seen = @ \cup {s}]
  /\ IF Rec(s).parent = scan[c].id
     THEN CloseAndRemove(c, s)
     ELSE UNCHANGED <<cancelled, sock, owe>>
  /\ UNCHANGED <<sess, now, tickAt, cmds, table, heap, pc, kind, tun, cur,
                 again, remote>>

CloseOneSelf(c) ==
  /\ RangeOver(c, "one")
  /\ IF Present(scan[c].id)
     THEN CloseAndRemove(c, scan[c].id)
     ELSE UNCHANGED <<cancelled, sock, owe>>
  /\ UNCHANGED <<sess, now, tickAt, cmds, table, heap, pc, kind, tun, cur,
                 again, remote>>

ControllerStep(c) ==
  \/ CloseAllMark(c) \/ CloseAllOver(c) \/ CloseOneSelf(c)
  \/ MarkStatus(c) \/ MarkEnd(c) \/ DeleteOwed(c)
  \/ \E s \in Session : CloseAllVisit(c, s) \/ CloseOneVisit(c, s)

(* A control client closes all, or an id that has been pushed to it. *)
Command(c) ==
  \/ CloseAllBegin(c)
  \/ \E id \in {s \in Session : heap[<<s, 1>>].status # "none"} : CloseOneBegin(c, id)

Tick ==
  /\ now < MaxTime /\ now' = now + 1
  /\ UNCHANGED <<sess, cancelled, ctrlVars, regVars, connVars>>

Next ==
  \/ \E h \in Handlers : Arrive(h) \/ HandlerStep(h)
  \/ \E c \in Controllers : Command(c) \/ ControllerStep(c)
  \/ PusherStep
  \/ Tick

Spec == Init /\ [][Next]_vars

-----------------------------------------------------------------------------
(* Fairness.  A step that waits for a peer is not fair until what it waits  *)
(* on has been closed or cancelled by the proxy: RoundTrip and a body copy  *)
(* have no timeout, a relay waits for both peers, a dial through an         *)
(* upstream proxy reads its answer without a deadline.  Everything else is  *)
(* a goroutine that the Go scheduler eventually runs.  The pusher's ticker  *)
(* fires again and again, and each time it reads the clock and visits every *)
(* session that stays registered.                                           *)

Waits(h) ==
  \/ pc[h] = "roundtrip" /\ cur[h] \notin cancelled
  \/ pc[h] = "respond" /\ (cur[h] \notin cancelled \/ sock[h] # "closed")
  \/ pc[h] \in {"read", "handshake"} /\ sock[h] = "open"
  \/ pc[h] \in {"relay", "dial"}

Fairness ==
  /\ \A h \in Handlers : WF_vars(HandlerStep(h) /\ ~Waits(h))
  /\ \A c \in Controllers : WF_vars(ControllerStep(c))
  /\ WF_vars(PusherTest \/ DeleteOwed(Pusher)) /\ SF_vars(PusherTick)
  /\ \A s \in Session : SF_vars(PusherVisit(s))
  /\ WF_vars(Tick)

FairSpec == Spec /\ Fairness

-----------------------------------------------------------------------------
(* Properties. *)

TopServed == {"request", "childStore", "roundtrip", "respond", "childMark",
              "read", "strategy", "handshake", "dial", "write200",
              "storeRelay", "relay", "markFirst", "closeFirst", "markLast"}
ChildServed == {"roundtrip", "respond", "childMark"}

(* Handler h still has to mark session s before it can finish. *)
Serving(h, s) ==
  \/ tun[h] = s /\ pc[h] \in TopServed
  \/ cur[h] = s /\ pc[h] \in ChildServed
  \/ Marking(h, s, table[s])

(* Every record that is shown as Active belongs to a handler that is still  *)
(* serving that session and will mark it on every way out: the deferred     *)
(* marks of http.go and https.go, the relay's onClose and the early returns *)
(* of the CONNECT branch, whatever the control commands, the second Store   *)
(* and the garbage collector do in between.  No connection stays Active in  *)
(* the UI after its handler has gone.                                       *)
ActiveIsServed ==
  \A s \in Session : Active(s) => Rec(s).owner \in Handlers /\ Serving(Rec(s).owner, s)

(* A keep-alive connection serves its requests one after another            *)
(* (processRequest / requestOk is called in a loop): two Active child       *)
(* records of one connection would mean a child was left unmarked.          *)
OneActiveChild ==
  \A s1, s2 \in Session :
    /\ Active(s1) /\ Active(s2)
    /\ Rec(s1).owner = Rec(s2).owner
    /\ Rec(s1).onClose = "cancel" /\ Rec(s2).onClose = "cancel"
    => s1 = s2

(* What a reader of the registry sees of a session, over its whole life. *)
Phase == [s \in Session |->
            IF Present(s) THEN Rec(s).status
            ELSE IF heap[<<s, 1>>].status = "none" THEN "unborn" ELSE "gone"]

(* Whether the session is a tunnel's, and has had its second Store. *)
Relayed == [s \in Session |->
              IF heap[<<s, 2>>].status # "none" THEN "done"
              ELSE IF \E h \in Handlers : kind[h] = "tunnel" /\ tun[h] = s
              THEN "due" ELSE "no"]

Lifecycle == INSTANCE ConnLifecycle WITH phase <- Phase, relay <- Relayed

(* Every session number lives the life of ConnLifecycle: the Stores, the    *)
(* deferred marks, the manual close commands and the collector never bring  *)
(* a closed or removed session back, but for the second Store of a CONNECT  *)
(* tunnel, and that once.                                                   *)
LifecycleSpec == Lifecycle!Spec

(* The second Store of a CONNECT tunnel has brought the session back: while *)
(* its target was dialled a close command had closed it, removed it, or     *)
(* loaded the record that the Store replaces.                               *)
Back(s) == Present(s) /\ Rec(s).back

(* The garbage collector never takes an Active record out of the registry,  *)
(* although it reads a record, tests it and deletes whatever is stored then *)
(* in three steps, but for that of a session that came back in between.     *)
NoActiveEvicted ==
  [][\A s \in Session :
       DeleteOwed(Pusher) /\ Active(s) /\ ~Back(s) => Present(s)']_vars

(* What closeAllConnections has visited and marked is not Active again      *)
(* while the command is still walking the registry, unless it came back.    *)
CloseAllSticks ==
  \A c \in Controllers : scan[c].op = "all" =>
    \A s \in scan[c].seen \ {scan[c].cur} :
      Active(s) => Back(s) \/ Marking(c, s, table[s])

(* Without a manual close, a child's tunnel record is in the registry for   *)
(* as long as the child is Active: the UI groups children by parentId.      *)
ParentPresent ==
  \A s \in Session : Active(s) /\ Rec(s).parent # 0 => Present(Rec(s).parent)

(* CloseAndRemoveConnection closes and removes a session at once: a session *)
(* that was removed does not come back.                                     *)
RemovedStaysRemoved ==
  [][\A s \in Session :
       ~Present(s) /\ (\E g \in 1 .. 2 : heap[<<s, g>>].status # "none") => ~Present(s)']_vars

(* closeConnection closes the children first: when its walk is over, no     *)
(* child that was registered when it began is left Active, whatever the     *)
(* handlers stored and marked meanwhile.  (One registered during the walk   *)
(* may be missed and stay Active under a tunnel that is gone.)  A tunnel's  *)
(* second record names itself as parent: it is removed last.                *)
ChildrenReached ==
  [][\A c \in Controllers : scan[c].op = "one" /\ scan'[c] = NoScan =>
       \A k \in scan[c].must \ {scan[c].id} :
         Active(k) => Rec(k).parent # scan[c].id]_vars

(* A record that is Closed at time e is collected, unless it is marked      *)
(* again, at the latest when the clock has passed the retention period.     *)
ClosedIsCollected ==
  \A s \in Session, e \in 0 .. MaxTime - Retention - 1 :
    (Closed(s) /\ Rec(s).end = e) ~> ~(Closed(s) /\ Rec(s).end = e)

(* A tunnel whose client socket a control command has closed winds down to  *)
(* its end, except through a request whose context nobody cancelled.        *)
ClosedTunnelEnds ==
  \A h \in Handlers :
    (sock[h] = "closed" /\ kind[h] \in {"engine", "mitm"})
      ~> (pc[h] = "done" \/ (pc[h] \in {"roundtrip", "respond"} /\ cur[h] \notin cancelled))
=============================================================================
