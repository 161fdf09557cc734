------------------------- MODULE ConnRegistryProofs -------------------------
(* Proofs about ConnRegistry, for any number of handlers, control clients    *)
(* and sessions, any clock bound and any retention period.                   *)
EXTENDS ConnRegistry, TLAPS

-----------------------------------------------------------------------------
(* The inductive invariant. *)

(* A handler that is about to store or mark a record has a session number.  *)
SessionsKnown ==
  \A h \in Handlers :
    /\ pc[h] \in TopServed \cup {"store"} => tun[h] \in Session
    /\ pc[h] \in ChildServed \cup {"childStore"} => cur[h] \in Session

(* MyHttpHandle serves its one request under the connection's own session.  *)
PlainIsOneSession ==
  \A h \in Handlers : kind[h] = "plain" =>
    /\ cur[h] = tun[h]
    /\ pc[h] \in {"store", "roundtrip", "respond", "markLast", "done"}

(* An Active record is the one its owner is serving: a request record        *)
(* (OnClose cancels) as the current session, a connection record as tun.     *)
ServedAs(h, s, onClose) ==
  IF onClose = "cancel"
  THEN cur[h] = s /\ (pc[h] \in ChildServed \/ (kind[h] = "plain" /\ pc[h] = "markLast"))
  ELSE tun[h] = s /\ pc[h] \in TopServed

(* ... or has loaded to mark it.                                             *)
OwnedBy(h, s) == ServedAs(h, s, Rec(s).onClose) \/ Marking(h, s, table[s])

ActiveOwned ==
  \A s \in Session : Active(s) => Rec(s).owner \in Handlers /\ OwnedBy(Rec(s).owner, s)

(* What a handler is about to mark is the request it has served, or, on its  *)
(* way out, its own session.                                                 *)
MarksOwn ==
  \A h \in Handlers : owe[h].op = "mark" =>
    \/ pc[h] \in {"childMark", "read", "markFirst", "closeFirst"} /\ owe[h].s = cur[h]
    \/ pc[h] \in {"closeLast", "done"} /\ owe[h].s = tun[h]

IInv == TypeOK /\ SessionsKnown /\ PlainIsOneSession /\ MarksOwn /\ ActiveOwned

-----------------------------------------------------------------------------
(* What the record operations do to the types. *)

LEMMA InitTypeOK == Init => TypeOK
<1> SUFFICES ASSUME Init PROVE TypeOK
    OBVIOUS
<1> USE ConstAssumption DEF Init
<1>1. heap \in [Session \X (1 .. 2) -> Record]
  BY DEF Absent, Record, ZeroTime
<1>2. owe \in [Threads -> Debt]
  BY DEF Debt, NoDebt
<1>3. scan \in [Controllers -> Scan]
  BY DEF Scan, NoScan
<1>4. QED
  BY <1>1, <1>2, <1>3 DEF TypeOK, PCs

LEMMA StoreType ==
  ASSUME TypeOK, NEW h \in Handlers, NEW s \in Session, NEW g \in 1 .. 2,
         NEW parent \in 0 .. MaxSess, NEW onClose \in {"cancel", "close"},
         Store(h, s, g, parent, onClose)
  PROVE  /\ table' \in [Session -> 0 .. 2]
         /\ heap' \in [Session \X (1 .. 2) -> Record]
         /\ owe' = owe
<1> USE ConstAssumption DEF TypeOK, Store
<1>1. [status |-> "Active", end |-> ZeroTime, parent |-> parent, onClose |-> onClose,
       owner |-> h,
       back |-> g = 2 /\ (~Active(s) \/ \E t \in Threads : Marking(t, s, 1))] \in Record
  BY DEF Record
<1>2. QED
  BY <1>1

LEMMA LoadType ==
  ASSUME TypeOK, NEW t \in Threads, NEW s \in Session, MarkConnectionClosed(t, s)
  PROVE  UNCHANGED <<table, heap>> /\ owe' \in [Threads -> Debt]
<1>1. Present(s) => [op |-> "mark", s |-> s, g |-> table[s]] \in Debt
  BY DEF TypeOK, Present, Debt
<1>2. QED
  BY <1>1 DEF TypeOK, MarkConnectionClosed

LEMMA MarkStatusType ==
  ASSUME TypeOK, NEW t \in Threads, MarkStatus(t)
  PROVE  TypeOK'
<1> USE DEF TypeOK, MarkStatus
<1>1. owe[t].s \in Session /\ owe[t].g \in 1 .. 2
  BY DEF Debt, NoDebt
<1>2. [heap[<<owe[t].s, owe[t].g>>] EXCEPT !.status = "Closed"] \in Record
  <2>1. heap[<<owe[t].s, owe[t].g>>] \in Record
    BY <1>1
  <2>2. QED
    BY <2>1 DEF Record
<1>3. heap' \in [Session \X (1 .. 2) -> Record]
  BY <1>1, <1>2
<1>4. owe' \in [Threads -> Debt]
  <2>1. [owe[t] EXCEPT !.op = "end"] \in Debt
    BY DEF Debt, NoDebt
  <2>2. QED
    BY <2>1
<1>5. QED
  BY <1>3, <1>4 DEF connVars, ctrlVars

LEMMA MarkEndType ==
  ASSUME TypeOK, NEW t \in Threads, MarkEnd(t)
  PROVE  TypeOK'
<1> USE ConstAssumption DEF TypeOK, MarkEnd
<1>1. owe[t].s \in Session /\ owe[t].g \in 1 .. 2
  BY DEF Debt, NoDebt
<1>2. heap[<<owe[t].s, owe[t].g>>] \in Record
  BY <1>1
<1>3. [heap[<<owe[t].s, owe[t].g>>] EXCEPT !.end = now] \in Record
  BY <1>2 DEF Record
<1>4. heap' \in [Session \X (1 .. 2) -> Record]
  BY <1>1, <1>3
<1>5. owe' \in [Threads -> Debt]
  BY DEF Debt
<1>6. QED
  BY <1>4, <1>5 DEF connVars, ctrlVars

(* A step of a handler keeps the types. *)
LEMMA HandlerTypeOK ==
  ASSUME TypeOK, SessionsKnown, NEW h \in Handlers, Arrive(h) \/ HandlerStep(h)
  PROVE  TypeOK'
<1> USE ConstAssumption
<1>a. h \in Threads
  BY DEF Threads
<1>1. CASE Arrive(h)
  <2>1. ASSUME NEW k \in AllKinds \cup {"connect"}, NEW socket \in {"none", "open"},
               Begin(h, k, socket)
        PROVE  TypeOK'
    <3>1. sess' \in 0 .. MaxSess
      BY <2>1 DEF Begin, NextSession, TypeOK
    <3>2. QED
      BY <2>1, <3>1 DEF TypeOK, Begin, Goto, PCs, regVars, ctrlVars
  <2>2. CASE MyHttpHandle(h)
    BY <2>1, <2>2 DEF MyHttpHandle, AllKinds
  <2>3. CASE MyHttpHandleWithEngine(h)
    BY <2>1, <2>3 DEF MyHttpHandleWithEngine, AllKinds
  <2>4. CASE MyHttpsHandle(h)
    BY <2>1, <2>4 DEF MyHttpsHandle, AllKinds
  <2>5. CASE TurnAway(h)
    <3>1. sess' \in 0 .. MaxSess
      BY <2>5 DEF TurnAway, NextSession, TypeOK
    <3>2. QED
      BY <2>5, <3>1 DEF TypeOK, TurnAway, Goto, PCs, regVars, ctrlVars
  <2>6. QED
    BY <1>1, <2>2, <2>3, <2>4, <2>5 DEF Arrive
<1>2. CASE StoreTop(h)
  <2>1. tun[h] \in Session
    BY <1>2 DEF SessionsKnown, TopServed, At, StoreTop
  <2>2. /\ table' \in [Session -> 0 .. 2]
        /\ heap' \in [Session \X (1 .. 2) -> Record]
        /\ owe' = owe
    <3>1. /\ 1 \in 1 .. 2 /\ 0 \in 0 .. MaxSess
          /\ (IF kind[h] = "plain" THEN "cancel" ELSE "close") \in {"cancel", "close"}
      OBVIOUS
    <3>2. Store(h, tun[h], 1, 0, IF kind[h] = "plain" THEN "cancel" ELSE "close")
      BY <1>2 DEF StoreTop
    <3>3. QED
      BY <2>1, <3>1, <3>2, StoreType
  <2>3. QED
    BY <1>2, <2>2 DEF TypeOK, StoreTop, Goto, PCs, ctrlVars
<1>3. CASE StoreRelay(h)
  <2>1. tun[h] \in Session
    BY <1>3 DEF SessionsKnown, TopServed, At, StoreRelay
  <2>2. /\ table' \in [Session -> 0 .. 2]
        /\ heap' \in [Session \X (1 .. 2) -> Record]
        /\ owe' = owe
    BY <1>3, <2>1, StoreType DEF StoreRelay, TypeOK
  <2>3. QED
    BY <1>3, <2>2 DEF TypeOK, StoreRelay, Goto, PCs, ctrlVars
<1>4. CASE StoreChild(h)
  <2>1. cur[h] \in Session
    BY <1>4 DEF SessionsKnown, ChildServed, At, StoreChild
  <2>2. /\ table' \in [Session -> 0 .. 2]
        /\ heap' \in [Session \X (1 .. 2) -> Record]
        /\ owe' = owe
    BY <1>4, <2>1, StoreType DEF StoreChild, TypeOK
  <2>3. QED
    BY <1>4, <2>2 DEF TypeOK, StoreChild, Goto, PCs, ctrlVars
<1>5. CASE RespondUpgrade(h) \/ ChildMark(h)
  <2>1. cur[h] \in Session
    BY <1>5 DEF SessionsKnown, ChildServed, At, RespondUpgrade, ChildMark
  <2>2. UNCHANGED <<table, heap>> /\ owe' \in [Threads -> Debt]
    BY <1>5, <1>a, <2>1, LoadType DEF RespondUpgrade, ChildMark
  <2>3. QED
    BY <1>5, <2>2 DEF TypeOK, RespondUpgrade, ChildMark, LoopExit, Goto, PCs, ctrlVars
<1>6. CASE MarkFirst(h) \/ MarkLast(h)
  <2>1. tun[h] \in Session
    BY <1>6 DEF SessionsKnown, TopServed, At, MarkFirst, MarkLast
  <2>2. UNCHANGED <<table, heap>> /\ owe' \in [Threads -> Debt]
    BY <1>6, <1>a, <2>1, LoadType DEF MarkFirst, MarkLast
  <2>3. QED
    BY <1>6, <2>2 DEF TypeOK, MarkFirst, MarkLast, Goto, PCs, ctrlVars
<1>7. CASE MarkStatus(h) \/ MarkEnd(h)
  BY <1>7, <1>a, MarkStatusType, MarkEndType
<1>8. CASE Strategy(h) \/ Handshake(h) \/ Dial(h) \/ Write200(h) \/ RelayEnd(h)
  <2>1. CASE Strategy(h)
    BY <2>1 DEF TypeOK, Strategy, Goto, PCs, AllKinds, regVars, ctrlVars
  <2>2. CASE Handshake(h) \/ Write200(h) \/ RelayEnd(h)
    BY <2>2 DEF TypeOK, Handshake, Write200, RelayEnd, Goto, PCs, regVars, ctrlVars
  <2>3. CASE Dial(h)
    BY <2>3 DEF TypeOK, Dial, Goto, PCs, regVars, ctrlVars
  <2>4. QED
    BY <1>8, <2>1, <2>2, <2>3
<1>9. CASE ReadRequest(h) \/ ReadFails(h) \/ ProcessRequest(h)
  <2>1. /\ sess' \in 0 .. MaxSess
        /\ cur' \in [Handlers -> 0 .. MaxSess]
    <3>1. NextSession => sess' \in 0 .. MaxSess
      BY DEF TypeOK, NextSession
    <3>2. CASE UNCHANGED <<sess, cur>>
      BY <3>2 DEF TypeOK
    <3>3. CASE NextSession /\ cur' = [cur EXCEPT ![h] = sess']
      BY <3>1, <3>3 DEF TypeOK
    <3>4. QED
      BY <1>9, <3>2, <3>3 DEF ReadRequest, ReadFails, ProcessRequest
  <2>2. pc' \in [Handlers -> PCs]
    BY <1>9 DEF TypeOK, ReadRequest, ReadFails, ProcessRequest, LoopExit, Goto, PCs
  <2>3. QED
    BY <1>9, <2>1, <2>2 DEF TypeOK, ReadRequest, ReadFails, ProcessRequest,
       regVars, ctrlVars
<1>10. CASE RoundTrip(h) \/ RespondPlain(h) \/ Respond(h)
  BY <1>10 DEF TypeOK, RoundTrip, RespondPlain, Respond, Goto, PCs, regVars, ctrlVars
<1>11. CASE CloseFirst(h) \/ CloseLast(h)
  BY <1>11 DEF TypeOK, CloseFirst, CloseLast, Goto, PCs, regVars, ctrlVars
<1>12. QED
  BY <1>1, <1>2, <1>3, <1>4, <1>5, <1>6, <1>7, <1>8, <1>9, <1>10, <1>11
     DEF HandlerStep

LEMMA OnCloseType ==
  ASSUME TypeOK, NEW s \in Session, NEW r, OnClose(r, s)
  PROVE  cancelled' \in SUBSET Session /\ sock' \in [Handlers -> {"none", "open", "closed"}]
<1>1. CASE r.onClose = "cancel"
  BY <1>1 DEF TypeOK, OnClose
<1>2. CASE r.onClose # "cancel"
  <2>1. sock' = [sock EXCEPT ![r.owner] = "closed"] /\ cancelled' = cancelled
    BY <1>2 DEF OnClose
  <2>2. ASSUME NEW h \in Handlers PROVE sock'[h] \in {"none", "open", "closed"}
    BY <2>1 DEF TypeOK
  <2>3. QED
    BY <2>1, <2>2 DEF TypeOK
<1>3. QED
  BY <1>1, <1>2

LEMMA DeleteOwedType ==
  ASSUME TypeOK, NEW t \in Threads, DeleteOwed(t)
  PROVE  TypeOK'
<1>1. owe[t].s \in Session
  BY DEF TypeOK, DeleteOwed, Debt, NoDebt
<1>2. table' \in [Session -> 0 .. 2]
  BY <1>1 DEF TypeOK, DeleteOwed
<1>3. owe' \in [Threads -> Debt]
  BY DEF TypeOK, DeleteOwed, Debt
<1>4. QED
  BY <1>2, <1>3 DEF TypeOK, DeleteOwed, connVars, ctrlVars

LEMMA PusherTypeOK ==
  ASSUME TypeOK, PusherStep
  PROVE  TypeOK'
<1>1. Pusher \in Threads
  BY DEF Threads
<1>2. CASE PusherTick
  BY <1>2 DEF TypeOK, PusherTick, regVars, connVars
<1>3. CASE DeleteOwed(Pusher)
  BY <1>1, <1>3, DeleteOwedType
<1>4. ASSUME NEW s \in Session, PusherVisit(s)
      PROVE  TypeOK'
  <2>1. [op |-> "test", s |-> s, g |-> table[s]] \in Debt
    BY <1>4 DEF TypeOK, PusherVisit, Present, Debt
  <2>2. QED
    BY <1>1, <1>4, <2>1 DEF TypeOK, PusherVisit, connVars, ctrlVars
<1>5. CASE PusherTest
  <2>1. [op |-> "del", s |-> owe[Pusher].s, g |-> 0] \in Debt /\ NoDebt \in Debt
    BY <1>1, <1>5 DEF TypeOK, PusherTest, Debt, NoDebt
  <2>2. QED
    BY <1>1, <1>5, <2>1 DEF TypeOK, PusherTest, connVars, ctrlVars
<1>6. QED
  BY <1>2, <1>3, <1>4, <1>5 DEF PusherStep

LEMMA CommandTypeOK ==
  ASSUME TypeOK, NEW c \in Controllers, Command(c)
  PROVE  TypeOK'
<1>1. ASSUME NEW op \in {"all", "one"}, NEW id \in 0 .. MaxSess, RangeBegin(c, op, id),
             (op = "all" /\ id = 0) \/ (op = "one" /\ id \in Session)
      PROVE  TypeOK'
  <2> DEFINE keys == {s \in Session : Present(s)}
  <2>1. [op |-> op, id |-> id, must |-> keys, seen |-> {}, cur |-> 0] \in Scan
    BY <1>1, ConstAssumption DEF Scan
  <2>2. scan' \in [Controllers -> Scan]
    BY <1>1, <2>1 DEF RangeBegin, TypeOK
  <2>3. cmds' \in 0 .. MaxCmds
    BY <1>1, ConstAssumption DEF RangeBegin, TypeOK
  <2>4. QED
    BY <1>1, <2>2, <2>3 DEF RangeBegin, TypeOK, regVars, connVars
<1>2. CASE CloseAllBegin(c)
  BY <1>1, <1>2, ConstAssumption DEF CloseAllBegin
<1>3. ASSUME NEW id \in Session, CloseOneBegin(c, id)
      PROVE  TypeOK'
  BY <1>1, <1>3, ConstAssumption DEF CloseOneBegin, Session
<1>4. QED
  BY <1>2, <1>3 DEF Command

LEMMA ControllerTypeOK ==
  ASSUME TypeOK, NEW c \in Controllers, ControllerStep(c)
  PROVE  TypeOK'
<1> USE ConstAssumption
<1>a. c \in Threads
  BY DEF Threads
<1>b. scan[c] \in Scan
  BY DEF TypeOK
<1>c. NoScan \in Scan
  BY DEF NoScan, Scan
<1>d. \A s \in Session : [op |-> "del", s |-> s, g |-> 0] \in Debt
  BY DEF Debt
<1>1. CASE MarkStatus(c) \/ MarkEnd(c)
  BY <1>1, <1>a, MarkStatusType, MarkEndType
<1>2. CASE DeleteOwed(c)
  BY <1>2, <1>a, DeleteOwedType
<1>3. CASE CloseAllOver(c)
  BY <1>3, <1>c DEF TypeOK, CloseAllOver, RangeOver, regVars, connVars
<1>4. CASE CloseAllMark(c)
  <2>1. scan[c].cur \in Session
    BY <1>4, <1>b DEF CloseAllMark, Scan, Session
  <2>2. UNCHANGED <<table, heap>> /\ owe' \in [Threads -> Debt]
    BY <1>4, <1>a, <2>1, LoadType DEF CloseAllMark
  <2>3. [scan[c] EXCEPT !.cur = 0] \in Scan
    BY <1>b DEF Scan
  <2>4. QED
    BY <1>4, <2>2, <2>3 DEF TypeOK, CloseAllMark, connVars
<1>5. CASE CloseOneSelf(c)
  <2>1. scan[c].id \in Session
    BY <1>5, <1>b DEF CloseOneSelf, RangeOver, Scan
  <2>2. /\ cancelled' \in SUBSET Session
        /\ sock' \in [Handlers -> {"none", "open", "closed"}]
        /\ owe' \in [Threads -> Debt]
    <3>1. CASE CloseAndRemove(c, scan[c].id)
      BY <3>1, <1>a, <1>d, <2>1, OnCloseType DEF CloseAndRemove, TypeOK
    <3>2. CASE UNCHANGED <<cancelled, sock, owe>>
      BY <3>2 DEF TypeOK
    <3>3. QED
      BY <1>5, <3>1, <3>2 DEF CloseOneSelf
  <2>3. scan' \in [Controllers -> Scan]
    BY <1>5, <1>c DEF CloseOneSelf, RangeOver, TypeOK
  <2>4. QED
    BY <1>5, <2>2, <2>3 DEF TypeOK, CloseOneSelf
<1>6. ASSUME NEW s \in Session, CloseAllVisit(c, s)
      PROVE  TypeOK'
  <2>1. [op |-> "all", id |-> 0, must |-> scan[c].must,
         seen |-> scan[c].seen \cup {s}, cur |-> s] \in Scan
    BY <1>6, <1>b DEF Scan, Session
  <2>2. cancelled' \in SUBSET Session /\ sock' \in [Handlers -> {"none", "open", "closed"}]
    BY <1>6, OnCloseType DEF CloseAllVisit
  <2>3. QED
    BY <1>6, <2>1, <2>2 DEF TypeOK, CloseAllVisit, regVars
<1>7. ASSUME NEW s \in Session, CloseOneVisit(c, s)
      PROVE  TypeOK'
  <2>1. [scan[c] EXCEPT !.seen = @ \cup {s}] \in Scan
    BY <1>7, <1>b DEF CloseOneVisit, RangeVisits, Scan
  <2>2. /\ cancelled' \in SUBSET Session
        /\ sock' \in [Handlers -> {"none", "open", "closed"}]
        /\ owe' \in [Threads -> Debt]
    <3>1. CASE CloseAndRemove(c, s)
      BY <3>1, <1>a, <1>d, OnCloseType DEF CloseAndRemove, TypeOK
    <3>2. CASE UNCHANGED <<cancelled, sock, owe>>
      BY <3>2 DEF TypeOK
    <3>3. QED
      BY <1>7, <3>1, <3>2 DEF CloseOneVisit
  <2>3. QED
    BY <1>7, <2>1, <2>2 DEF TypeOK, CloseOneVisit
<1>8. QED
  BY <1>1, <1>2, <1>3, <1>4, <1>5, <1>6, <1>7 DEF ControllerStep

LEMMA NextTypeOK == TypeOK /\ SessionsKnown /\ [Next]_vars => TypeOK'
<1> SUFFICES ASSUME TypeOK, SessionsKnown, [Next]_vars PROVE TypeOK'
    OBVIOUS
<1>1. CASE Tick
  BY <1>1, ConstAssumption DEF TypeOK, Tick, regVars, ctrlVars, connVars
<1>2. CASE UNCHANGED vars
  BY <1>2 DEF TypeOK, vars, regVars, ctrlVars, connVars
<1>3. QED
  BY <1>1, <1>2, HandlerTypeOK, PusherTypeOK, CommandTypeOK, ControllerTypeOK DEF Next

-----------------------------------------------------------------------------
(* Session numbers and program counters.  Both parts concern one handler's  *)
(* own variables, which only its own steps change.                          *)

LEMMA HandlerSessionsKnown ==
  ASSUME TypeOK, SessionsKnown, PlainIsOneSession, NEW h \in Handlers,
         Arrive(h) \/ HandlerStep(h)
  PROVE  SessionsKnown' /\ PlainIsOneSession'
<1> USE ConstAssumption
<1> DEFINE Known(i) ==
      /\ pc[i] \in TopServed \cup {"store"} => tun[i] \in Session
      /\ pc[i] \in ChildServed \cup {"childStore"} => cur[i] \in Session
      /\ kind[i] = "plain" => /\ cur[i] = tun[i]
                              /\ pc[i] \in {"store", "roundtrip", "respond", "markLast", "done"}
<1>a. Known(h)
  BY DEF SessionsKnown, PlainIsOneSession
<1>b. NextSession => sess' \in Session
  BY DEF TypeOK, NextSession, Session
<1>c. SUFFICES /\ Known(h)'
               /\ \A i \in Handlers \ {h} : /\ pc'[i] = pc[i] /\ tun'[i] = tun[i]
                                            /\ cur'[i] = cur[i] /\ kind'[i] = kind[i]
  BY DEF SessionsKnown, PlainIsOneSession
<1> USE DEF TypeOK, Goto
<1>1. CASE Arrive(h)
  <2>1. ASSUME NEW k \in AllKinds \cup {"connect"}, NEW socket, Begin(h, k, socket)
        PROVE  Known(h)' /\ \A i \in Handlers \ {h} : /\ pc'[i] = pc[i] /\ tun'[i] = tun[i]
                                            /\ cur'[i] = cur[i] /\ kind'[i] = kind[i]
    BY <1>b, <2>1 DEF Begin, TopServed, ChildServed
  <2>2. CASE TurnAway(h)
    BY <1>a, <2>2 DEF TurnAway, At, TopServed, ChildServed
  <2>3. QED
    BY <1>1, <2>1, <2>2 DEF Arrive, MyHttpHandle, MyHttpHandleWithEngine, MyHttpsHandle, AllKinds
<1>2. CASE StoreTop(h) \/ Strategy(h) \/ Handshake(h) \/ Dial(h)
  BY <1>a, <1>2 DEF StoreTop, Strategy, Handshake, Dial, At, TopServed, ChildServed
<1>3. CASE Write200(h) \/ StoreRelay(h) \/ RelayEnd(h) \/ StoreChild(h)
  BY <1>a, <1>3 DEF Write200, StoreRelay, RelayEnd, StoreChild, At, TopServed, ChildServed
<1>4. CASE ReadRequest(h)
  BY <1>a, <1>b, <1>4 DEF ReadRequest, At, TopServed, ChildServed
<1>5. CASE ReadFails(h)
  BY <1>a, <1>b, <1>5 DEF ReadFails, LoopExit, At, TopServed, ChildServed
<1>6. CASE ProcessRequest(h)
  BY <1>a, <1>b, <1>6 DEF ProcessRequest, At, TopServed, ChildServed
<1>7. CASE RoundTrip(h) \/ RespondPlain(h) \/ Respond(h) \/ RespondUpgrade(h)
  BY <1>a, <1>7 DEF RoundTrip, RespondPlain, Respond, RespondUpgrade, At, TopServed, ChildServed
<1>8. CASE ChildMark(h)
  BY <1>a, <1>8 DEF ChildMark, LoopExit, At, TopServed, ChildServed
<1>9. CASE MarkFirst(h) \/ CloseLast(h) \/ CloseFirst(h) \/ MarkLast(h)
  BY <1>a, <1>9 DEF MarkFirst, CloseLast, CloseFirst, MarkLast, At, TopServed, ChildServed
<1>10. CASE MarkStatus(h) \/ MarkEnd(h)
  BY <1>a, <1>10 DEF MarkStatus, MarkEnd, connVars
<1>11. QED
  BY <1>1, <1>2, <1>3, <1>4, <1>5, <1>6, <1>7, <1>8, <1>9, <1>10 DEF HandlerStep

-----------------------------------------------------------------------------
(* What a thread owes is its own: no step of another one changes it.         *)

LEMMA HandlerDebt ==
  ASSUME TypeOK, NEW h \in Handlers, Arrive(h) \/ HandlerStep(h),
         NEW t \in Threads, t # h
  PROVE  owe'[t] = owe[t]
<1> USE DEF TypeOK, regVars, Store, MarkConnectionClosed
<1>1. CASE Arrive(h)
  BY <1>1 DEF Arrive, MyHttpHandle, MyHttpHandleWithEngine, MyHttpsHandle, Begin, TurnAway
<1>2. CASE StoreTop(h) \/ Strategy(h) \/ Handshake(h) \/ Dial(h) \/ Write200(h)
           \/ StoreRelay(h) \/ RelayEnd(h) \/ StoreChild(h)
  BY <1>2 DEF StoreTop, Strategy, Handshake, Dial, Write200, StoreRelay, RelayEnd, StoreChild
<1>3. CASE ReadRequest(h) \/ ReadFails(h) \/ ProcessRequest(h)
           \/ RoundTrip(h) \/ RespondPlain(h) \/ Respond(h)
  BY <1>3 DEF ReadRequest, ReadFails, LoopExit, ProcessRequest, RoundTrip, RespondPlain, Respond
<1>4. CASE ChildMark(h) \/ MarkFirst(h) \/ MarkLast(h) \/ RespondUpgrade(h)
  BY <1>4 DEF ChildMark, MarkFirst, MarkLast, RespondUpgrade
<1>5. CASE CloseLast(h) \/ CloseFirst(h) \/ MarkStatus(h) \/ MarkEnd(h)
  BY <1>5 DEF CloseLast, CloseFirst, MarkStatus, MarkEnd
<1>6. QED
  BY <1>1, <1>2, <1>3, <1>4, <1>5 DEF HandlerStep

(* Handlers know nothing of the control commands. *)
LEMMA HandlerNoScan ==
  ASSUME NEW h \in Handlers, Arrive(h) \/ HandlerStep(h)
  PROVE  UNCHANGED <<scan, cmds>>
<1> USE DEF ctrlVars
<1>1. CASE Arrive(h)
  BY <1>1 DEF Arrive, MyHttpHandle, MyHttpHandleWithEngine, MyHttpsHandle, Begin, TurnAway
<1>2. CASE StoreTop(h) \/ Strategy(h) \/ Handshake(h) \/ Dial(h) \/ Write200(h)
           \/ StoreRelay(h) \/ RelayEnd(h)
  BY <1>2 DEF StoreTop, Strategy, Handshake, Dial, Write200, StoreRelay, RelayEnd
<1>3. CASE ReadRequest(h) \/ ReadFails(h) \/ ProcessRequest(h) \/ StoreChild(h)
           \/ RoundTrip(h) \/ RespondPlain(h) \/ Respond(h) \/ RespondUpgrade(h)
  BY <1>3 DEF ReadRequest, ReadFails, LoopExit, ProcessRequest, StoreChild, RoundTrip,
     RespondPlain, Respond, RespondUpgrade
<1>4. CASE ChildMark(h) \/ MarkFirst(h) \/ CloseLast(h) \/ CloseFirst(h) \/ MarkLast(h)
           \/ MarkStatus(h) \/ MarkEnd(h)
  BY <1>4 DEF ChildMark, MarkFirst, CloseLast, CloseFirst, MarkLast, MarkStatus, MarkEnd
<1>5. QED
  BY <1>1, <1>2, <1>3, <1>4 DEF HandlerStep

LEMMA ControllerDebt ==
  ASSUME TypeOK, NEW c \in Controllers, Command(c) \/ ControllerStep(c),
         NEW t \in Threads, t # c
  PROVE  owe'[t] = owe[t]
<1> USE DEF TypeOK, regVars, MarkConnectionClosed, CloseAndRemove
<1>1. CASE Command(c)
  BY <1>1 DEF Command, CloseAllBegin, CloseOneBegin, RangeBegin
<1>2. CASE CloseAllMark(c) \/ CloseAllOver(c) \/ CloseOneSelf(c)
  BY <1>2 DEF CloseAllMark, CloseAllOver, CloseOneSelf
<1>3. CASE MarkStatus(c) \/ MarkEnd(c) \/ DeleteOwed(c)
  BY <1>3 DEF MarkStatus, MarkEnd, DeleteOwed
<1>4. CASE \E s \in Session : CloseAllVisit(c, s) \/ CloseOneVisit(c, s)
  BY <1>4 DEF CloseAllVisit, CloseOneVisit
<1>5. QED
  BY <1>1, <1>2, <1>3, <1>4 DEF ControllerStep

LEMMA PusherOwn ==
  ASSUME TypeOK, PusherStep \/ Tick \/ UNCHANGED vars, NEW t \in Threads, t # Pusher
  PROVE  owe'[t] = owe[t]
BY DEF TypeOK, PusherStep, PusherTick, PusherVisit, PusherTest, DeleteOwed, Tick, vars, regVars

-----------------------------------------------------------------------------
(* Active records and their owners. *)

(* Session s is Active after the step only as the record it was before. *)
Lasts(s) ==
  Active(s)' => /\ Active(s) /\ table'[s] = table[s]
                /\ Rec(s)'.owner = Rec(s).owner /\ Rec(s)'.parent = Rec(s).parent
                /\ Rec(s)'.onClose = Rec(s).onClose

(* A step that leaves the handlers alone and makes no record Active keeps    *)
(* ActiveOwned: this covers the pusher, the control commands and the clock.  *)
LEMMA NoNewActive ==
  ASSUME ActiveOwned, UNCHANGED <<pc, kind, tun, cur>>,
         \A h \in Handlers : owe'[h] = owe[h],
         \A s \in Session : Lasts(s)
  PROVE  ActiveOwned'
BY DEF ActiveOwned, OwnedBy, ServedAs, Marking, Lasts

LEMMA QuietLasts ==
  ASSUME UNCHANGED <<table, heap>>
  PROVE  \A s \in Session : Lasts(s)
BY DEF Lasts, Active, Present, Rec

(* The record that is marked is not Active any more, if it is still stored.  *)
LEMMA MarkStatusActive ==
  ASSUME TypeOK, NEW t \in Threads, MarkStatus(t)
  PROVE  /\ \E s \in Session, g \in 1 .. 2 :
              s = owe[t].s /\ g = owe[t].g /\ (table[s] = g => ~Active(s)')
         /\ \A q \in Session : Lasts(q)
<1>1. owe[t].s \in Session /\ owe[t].g \in 1 .. 2
  BY DEF TypeOK, MarkStatus, Debt, NoDebt
<1>2. PICK s \in Session, g \in 1 .. 2 : s = owe[t].s /\ g = owe[t].g
  BY <1>1
<1>3. table' = table /\ heap' = [heap EXCEPT ![<<s, g>>].status = "Closed"]
  BY <1>2 DEF MarkStatus
<1>4. /\ heap'[<<s, g>>].status = "Closed"
      /\ \A p \in Session \X (1 .. 2) : p # <<s, g>> => heap'[p] = heap[p]
  <2>1. heap[<<s, g>>] \in Record
    BY DEF TypeOK
  <2>2. QED
    BY <1>3, <2>1 DEF TypeOK, Record
<1>5. table[s] = g => ~Active(s)'
  BY <1>3, <1>4 DEF Active, Rec
<1>6. ASSUME NEW q \in Session, Active(q)' PROVE Lasts(q)
  <2>1. PICK k \in 1 .. 2 : k = table[q] /\ k = table'[q]
    BY <1>3, <1>6 DEF TypeOK, Active, Present
  <2>2. <<q, k>> # <<s, g>>
    BY <1>5, <1>6, <2>1
  <2>3. heap'[<<q, k>>] = heap[<<q, k>>]
    BY <1>4, <2>2
  <2>4. QED
    BY <1>6, <2>1, <2>3 DEF Lasts, Active, Present, Rec
<1>7. \A q \in Session : Lasts(q)
  BY <1>6 DEF Lasts
<1>8. QED
  BY <1>2, <1>5, <1>7

LEMMA MarkEndActive ==
  ASSUME TypeOK, NEW t \in Threads, MarkEnd(t)
  PROVE  \A q \in Session : Lasts(q)
<1>1. owe[t].s \in Session /\ owe[t].g \in 1 .. 2
  BY DEF TypeOK, MarkEnd, Debt, NoDebt
<1>2. ASSUME NEW p \in Session \X (1 .. 2)
      PROVE  /\ heap'[p].status = heap[p].status
             /\ heap'[p].owner = heap[p].owner
             /\ heap'[p].parent = heap[p].parent
             /\ heap'[p].onClose = heap[p].onClose
  <2>1. CASE p = <<owe[t].s, owe[t].g>>
    <3>1. heap[p] \in Record
      BY DEF TypeOK
    <3>2. heap'[p] = [heap[p] EXCEPT !.end = now]
      BY <2>1, <3>1 DEF TypeOK, MarkEnd
    <3>3. QED
      BY <3>1, <3>2 DEF Record
  <2>2. CASE p # <<owe[t].s, owe[t].g>>
    BY <1>1, <2>2 DEF TypeOK, MarkEnd
  <2>3. QED
    BY <2>1, <2>2
<1>3. QED
  BY <1>2 DEF TypeOK, MarkEnd, Lasts, Active, Present, Rec

LEMMA DeleteOwedActive ==
  ASSUME TypeOK, NEW t \in Threads, DeleteOwed(t)
  PROVE  \A q \in Session : Lasts(q)
BY DEF TypeOK, DeleteOwed, Lasts, Active, Present, Rec

LEMMA OtherThreads ==
  ASSUME TypeOK, ActiveOwned,
         \/ PusherStep \/ Tick \/ UNCHANGED vars
         \/ \E c \in Controllers : Command(c) \/ ControllerStep(c)
  PROVE  /\ ActiveOwned' /\ UNCHANGED <<pc, kind, tun, cur>>
         /\ \A h \in Handlers : owe'[h] = owe[h]
<1> USE ConstAssumption
<1>a. \A h \in Handlers : h \in Threads /\ h # Pusher /\ h \notin Controllers
  BY DEF Threads
<1>b. \A h \in Handlers : owe'[h] = owe[h]
  BY <1>a, PusherOwn, ControllerDebt
<1> SUFFICES UNCHANGED <<pc, kind, tun, cur>> /\ \A s \in Session : Lasts(s)
    BY <1>b, NoNewActive
<1>1. CASE PusherStep
  <2>1. Pusher \in Threads
    BY DEF Threads
  <2>2. CASE DeleteOwed(Pusher)
    BY <2>1, <2>2, DeleteOwedActive DEF DeleteOwed, connVars
  <2>3. CASE PusherTick \/ PusherTest \/ \E s \in Session : PusherVisit(s)
    BY <2>3, QuietLasts DEF PusherTick, PusherTest, PusherVisit, regVars, connVars
  <2>4. QED
    BY <1>1, <2>2, <2>3 DEF PusherStep
<1>2. CASE Tick \/ UNCHANGED vars
  BY <1>2, QuietLasts DEF Tick, vars, regVars, connVars
<1>3. ASSUME NEW c \in Controllers, Command(c)
      PROVE  UNCHANGED <<pc, kind, tun, cur>> /\ \A s \in Session : Lasts(s)
  BY <1>3, QuietLasts DEF Command, CloseAllBegin, CloseOneBegin, RangeBegin, regVars, connVars
<1>4. ASSUME NEW c \in Controllers, ControllerStep(c)
      PROVE  UNCHANGED <<pc, kind, tun, cur>> /\ \A s \in Session : Lasts(s)
  <2>1. c \in Threads
    BY DEF Threads
  <2>2. CASE MarkStatus(c) \/ MarkEnd(c)
    BY <2>1, <2>2, MarkStatusActive, MarkEndActive DEF MarkStatus, MarkEnd, connVars
  <2>3. CASE DeleteOwed(c)
    BY <2>1, <2>3, DeleteOwedActive DEF DeleteOwed, connVars
  <2>4. CASE CloseAllMark(c) \/ CloseAllOver(c)
    BY <2>4, QuietLasts DEF CloseAllMark, CloseAllOver, MarkConnectionClosed, regVars, connVars
  <2>5. CASE CloseOneSelf(c)
    BY <2>5, QuietLasts DEF CloseOneSelf
  <2>6. CASE \E s \in Session : CloseAllVisit(c, s) \/ CloseOneVisit(c, s)
    BY <2>6, QuietLasts DEF CloseAllVisit, CloseOneVisit, regVars
  <2>7. QED
    BY <1>4, <2>2, <2>3, <2>4, <2>5, <2>6 DEF ControllerStep
<1>5. QED
  BY <1>1, <1>2, <1>3, <1>4

(* A step of handler h: the records of other owners are untouched by it, or  *)
(* lose their Active status; its own are judged by its new pc.               *)
LEMMA OwnActive ==
  ASSUME TypeOK, ActiveOwned, NEW h \in Handlers, Arrive(h) \/ HandlerStep(h),
         \A i \in Handlers \ {h} : /\ pc'[i] = pc[i] /\ tun'[i] = tun[i]
                                   /\ cur'[i] = cur[i] /\ kind'[i] = kind[i],
         \A s \in Session : Active(s)' =>
            \/ Lasts(s) /\ (Rec(s).owner = h => OwnedBy(h, s)')
            \/ Rec(s)'.owner = h /\ OwnedBy(h, s)'
  PROVE  ActiveOwned'
<1>1. \A i \in Handlers \ {h} : owe'[i] = owe[i]
  BY HandlerDebt DEF Threads
<1>2. QED
  BY <1>1 DEF ActiveOwned, OwnedBy, ServedAs, Marking, Lasts

LEMMA StoreActive ==
  ASSUME TypeOK, NEW h \in Handlers, NEW s \in Session, NEW g \in 1 .. 2,
         NEW parent, NEW onClose, Store(h, s, g, parent, onClose)
  PROVE  /\ Rec(s)'.owner = h /\ Rec(s)'.onClose = onClose
         /\ \A q \in Session \ {s} : Lasts(q)
<1>1. table'[s] = g /\ \A q \in Session \ {s} : table'[q] = table[q]
  BY DEF TypeOK, Store
<1>2. heap'[<<s, g>>] = [status |-> "Active", end |-> ZeroTime, parent |-> parent,
                         onClose |-> onClose, owner |-> h, back |-> heap'[<<s, g>>].back]
  BY DEF TypeOK, Store
<1>3. \A q \in Session \ {s} : Present(q) => heap'[<<q, table[q]>>] = heap[<<q, table[q]>>]
  BY DEF TypeOK, Store, Present
<1>4. QED
  BY <1>1, <1>2, <1>3 DEF Lasts, Active, Present, Rec

LEMMA HandlerActiveOwned ==
  ASSUME TypeOK, SessionsKnown, PlainIsOneSession, ActiveOwned, NEW h \in Handlers,
         Arrive(h) \/ HandlerStep(h)
  PROVE  ActiveOwned'
<1> USE ConstAssumption
<1>a. h \in Threads
  BY DEF Threads
<1>b. \A s \in Session : Active(s) /\ Rec(s).owner = h => OwnedBy(h, s)
  BY DEF ActiveOwned
<1>e. owe[h] = NoDebt =>
        \A s \in Session : Active(s) /\ Rec(s).owner = h => ServedAs(h, s, Rec(s).onClose)
  <2>1. ASSUME owe[h] = NoDebt, NEW s \in Session PROVE ~Marking(h, s, table[s])
    <3>1. owe[h].op # "mark"
      BY <2>1 DEF NoDebt
    <3>2. QED
      BY <3>1 DEF Marking
  <2>2. QED
    BY <1>b, <2>1 DEF OwnedBy
<1>c. kind[h] = "plain" => /\ cur[h] = tun[h]
                           /\ pc[h] \in {"store", "roundtrip", "respond", "markLast", "done"}
  BY DEF PlainIsOneSession
<1> DEFINE Same == \A i \in Handlers \ {h} : /\ pc'[i] = pc[i] /\ tun'[i] = tun[i]
                                             /\ cur'[i] = cur[i] /\ kind'[i] = kind[i]
(* Steps that leave the registry alone. *)
<1>d. ASSUME UNCHANGED <<table, heap>>, Same, owe[h] = NoDebt,
             \A s \in Session : \A o : ServedAs(h, s, o) => ServedAs(h, s, o)'
      PROVE  ActiveOwned'
  <2>1. \A s \in Session : Lasts(s)
    BY <1>d, QuietLasts
  <2>2. \A s \in Session : Active(s)' /\ Rec(s).owner = h => OwnedBy(h, s)'
    BY <1>d, <1>e, <2>1 DEF Lasts, OwnedBy
  <2>3. QED
    BY <1>d, <2>1, <2>2, OwnActive
<1>1. CASE Arrive(h)
  <2>1. pc[h] = "idle" /\ UNCHANGED <<table, heap>> /\ Same /\ owe[h] = NoDebt
    BY <1>1 DEF TypeOK, Arrive, MyHttpHandle, MyHttpHandleWithEngine, MyHttpsHandle,
       TurnAway, Begin, At, Goto, regVars
  <2>2. \A s \in Session : \A o : ~ServedAs(h, s, o)
    BY <1>c, <2>1 DEF ServedAs, TopServed, ChildServed
  <2>3. QED
    BY <1>d, <2>1, <2>2
<1>2. CASE Strategy(h)
  <2>1. UNCHANGED <<table, heap>> /\ Same /\ owe[h] = NoDebt
    BY <1>2 DEF TypeOK, Strategy, At, Goto, regVars
  <2>2. \A s \in Session : \A o : ServedAs(h, s, o) => ServedAs(h, s, o)'
    BY <1>2 DEF TypeOK, Strategy, At, Goto, ServedAs, TopServed, ChildServed
  <2>3. QED
    BY <1>d, <2>1, <2>2
<1>3. CASE Handshake(h) \/ Dial(h) \/ Write200(h) \/ RelayEnd(h) \/ CloseFirst(h)
  <2>1. UNCHANGED <<table, heap>> /\ Same /\ owe[h] = NoDebt
    BY <1>3 DEF TypeOK, Handshake, Dial, Write200, RelayEnd, CloseFirst, At, Goto, regVars
  <2>2. \A s \in Session : \A o : ServedAs(h, s, o) => ServedAs(h, s, o)'
    BY <1>3, <1>c DEF TypeOK, Handshake, Dial, Write200, RelayEnd, CloseFirst, At, Goto,
       ServedAs, TopServed, ChildServed
  <2>3. QED
    BY <1>d, <2>1, <2>2
<1>4. CASE ReadRequest(h) \/ ReadFails(h) \/ ProcessRequest(h)
  <2>1. UNCHANGED <<table, heap>> /\ Same /\ owe[h] = NoDebt
    BY <1>4 DEF TypeOK, ReadRequest, ReadFails, ProcessRequest, At, Goto, regVars
  <2>2. pc[h] \in {"read", "request"}
    BY <1>4 DEF ReadRequest, ReadFails, ProcessRequest, At
  <2>3. pc'[h] \in {"request", "childStore", "markFirst", "closeFirst"} /\ tun' = tun
    BY <1>4 DEF TypeOK, ReadRequest, ReadFails, ProcessRequest, LoopExit, Goto
  <2>4. \A s \in Session : \A o : ServedAs(h, s, o) => ServedAs(h, s, o)'
    BY <1>c, <2>2, <2>3 DEF ServedAs, TopServed, ChildServed
  <2>5. QED
    BY <1>d, <2>1, <2>4
<1>5. CASE RoundTrip(h) \/ RespondPlain(h) \/ Respond(h)
  <2>1. UNCHANGED <<table, heap>> /\ Same /\ owe[h] = NoDebt
    BY <1>5 DEF TypeOK, RoundTrip, RespondPlain, Respond, At, Goto, regVars
  <2>2. \A s \in Session : \A o : ServedAs(h, s, o) => ServedAs(h, s, o)'
    BY <1>5 DEF TypeOK, RoundTrip, RespondPlain, Respond, At, Goto, ServedAs, TopServed, ChildServed
  <2>3. QED
    BY <1>d, <2>1, <2>2
<1>6. CASE CloseLast(h)
  <2>1. UNCHANGED <<table, heap>> /\ Same /\ owe[h] = NoDebt
    BY <1>6 DEF TypeOK, CloseLast, At, Goto, regVars
  <2>2. \A s \in Session : \A o : ~ServedAs(h, s, o)
    BY <1>6, <1>c DEF CloseLast, At, ServedAs, TopServed, ChildServed
  <2>3. QED
    BY <1>d, <2>1, <2>2
(* Stores. *)
<1>7. CASE StoreTop(h)
  <2>0. owe[h] = NoDebt
    BY <1>7 DEF StoreTop, At
  <2>1. PICK s \in Session : s = tun[h]
    BY <1>7 DEF SessionsKnown, StoreTop, At
  <2>2. PICK o \in {"cancel", "close"} : o = IF kind[h] = "plain" THEN "cancel" ELSE "close"
    OBVIOUS
  <2>3. Store(h, s, 1, 0, o) /\ 1 \in 1 .. 2
    BY <1>7, <2>1, <2>2 DEF StoreTop
  <2>4. Same
    BY <1>7 DEF TypeOK, StoreTop, Goto
  <2>5. ServedAs(h, s, o)'
    BY <1>7, <1>c, <2>1, <2>2 DEF TypeOK, StoreTop, Goto, ServedAs, TopServed, ChildServed
  <2>6. \A q \in Session : \A c : ServedAs(h, q, c) => ServedAs(h, q, c)'
    BY <1>7, <1>c DEF TypeOK, StoreTop, At, Goto, ServedAs, TopServed, ChildServed
  <2>7. Rec(s)'.owner = h /\ Rec(s)'.onClose = o
    BY <2>3, StoreActive
  <2>8. \A q \in Session \ {s} : Lasts(q)
    BY <2>3, StoreActive
  <2>9. Rec(s)'.owner = h /\ OwnedBy(h, s)'
    BY <2>5, <2>7 DEF ServedAs, OwnedBy
  <2>10. \A q \in Session \ {s} : Active(q)' /\ Rec(q).owner = h => OwnedBy(h, q)'
    BY <1>e, <2>0, <2>6, <2>8 DEF ServedAs, OwnedBy, Lasts
  <2>11. QED
    BY <2>4, <2>8, <2>9, <2>10, OwnActive
<1>8. CASE StoreRelay(h)
  <2>0. owe[h] = NoDebt
    BY <1>8 DEF StoreRelay, At
  <2>1. PICK s \in Session : s = tun[h]
    BY <1>8 DEF SessionsKnown, TopServed, StoreRelay, At
  <2>2. PICK o : o = "close"
    OBVIOUS
  <2>3. Store(h, s, 2, tun[h], o) /\ 2 \in 1 .. 2
    BY <1>8, <2>1, <2>2 DEF StoreRelay
  <2>4. Same
    BY <1>8 DEF TypeOK, StoreRelay, Goto
  <2>5. ServedAs(h, s, o)'
    BY <1>8, <1>c, <2>1, <2>2 DEF TypeOK, StoreRelay, Goto, ServedAs, TopServed, ChildServed
  <2>6. \A q \in Session : \A c : ServedAs(h, q, c) => ServedAs(h, q, c)'
    BY <1>8, <1>c DEF TypeOK, StoreRelay, At, Goto, ServedAs, TopServed, ChildServed
  <2>7. Rec(s)'.owner = h /\ Rec(s)'.onClose = o
    BY <2>3, StoreActive
  <2>8. \A q \in Session \ {s} : Lasts(q)
    BY <2>3, StoreActive
  <2>9. Rec(s)'.owner = h /\ OwnedBy(h, s)'
    BY <2>5, <2>7 DEF ServedAs, OwnedBy
  <2>10. \A q \in Session \ {s} : Active(q)' /\ Rec(q).owner = h => OwnedBy(h, q)'
    BY <1>e, <2>0, <2>6, <2>8 DEF ServedAs, OwnedBy, Lasts
  <2>11. QED
    BY <2>4, <2>8, <2>9, <2>10, OwnActive
<1>9. CASE StoreChild(h)
  <2>0. owe[h] = NoDebt
    BY <1>9 DEF StoreChild, At
  <2>1. PICK s \in Session : s = cur[h]
    BY <1>9 DEF SessionsKnown, ChildServed, StoreChild, At
  <2>2. PICK o : o = "cancel"
    OBVIOUS
  <2>3. Store(h, s, 1, tun[h], o) /\ 1 \in 1 .. 2
    BY <1>9, <2>1, <2>2 DEF StoreChild
  <2>4. Same
    BY <1>9 DEF TypeOK, StoreChild, Goto
  <2>5. ServedAs(h, s, o)'
    BY <1>9, <1>c, <2>1, <2>2 DEF TypeOK, StoreChild, Goto, ServedAs, TopServed, ChildServed
  <2>6. \A q \in Session : \A c : ServedAs(h, q, c) => ServedAs(h, q, c)'
    BY <1>9, <1>c DEF TypeOK, StoreChild, At, Goto, ServedAs, TopServed, ChildServed
  <2>7. Rec(s)'.owner = h /\ Rec(s)'.onClose = o
    BY <2>3, StoreActive
  <2>8. \A q \in Session \ {s} : Lasts(q)
    BY <2>3, StoreActive
  <2>9. Rec(s)'.owner = h /\ OwnedBy(h, s)'
    BY <2>5, <2>7 DEF ServedAs, OwnedBy
  <2>10. \A q \in Session \ {s} : Active(q)' /\ Rec(q).owner = h => OwnedBy(h, q)'
    BY <1>e, <2>0, <2>6, <2>8 DEF ServedAs, OwnedBy, Lasts
  <2>11. QED
    BY <2>4, <2>8, <2>9, <2>10, OwnActive
(* Marks: the record is loaded, then written. *)
<1>10. CASE RespondUpgrade(h) \/ ChildMark(h) \/ MarkFirst(h) \/ MarkLast(h)
  <2>1. PICK s \in Session : /\ MarkConnectionClosed(h, s)
                             /\ \/ (RespondUpgrade(h) \/ ChildMark(h)) /\ s = cur[h]
                                \/ (MarkFirst(h) \/ MarkLast(h)) /\ s = tun[h]
    BY <1>10 DEF RespondUpgrade, ChildMark, MarkFirst, MarkLast, At, SessionsKnown,
       TopServed, ChildServed
  <2>2. UNCHANGED <<table, heap>> /\ owe[h] = NoDebt /\ Same
    BY <1>10, <2>1 DEF TypeOK, MarkConnectionClosed, RespondUpgrade, ChildMark, MarkFirst,
       MarkLast, At, Goto
  <2>3. \A q \in Session : Lasts(q)
    BY <2>2, QuietLasts
  <2>4. Active(s) => OwnedBy(h, s)'
    BY <1>a, <2>1, <2>2 DEF TypeOK, MarkConnectionClosed, Active, OwnedBy, Marking
  <2>5. \A q \in Session \ {s} : \A o : ServedAs(h, q, o) => ServedAs(h, q, o)'
    <3>1. CASE RespondUpgrade(h) \/ ChildMark(h)
      BY <2>1, <3>1 DEF TypeOK, RespondUpgrade, ChildMark, MarkFirst, MarkLast, LoopExit, At,
         Goto, ServedAs, TopServed
    <3>2. CASE MarkFirst(h) \/ MarkLast(h)
      BY <1>c, <2>1, <3>2 DEF RespondUpgrade, ChildMark, MarkFirst, MarkLast, At, ServedAs,
         ChildServed
    <3>3. QED
      BY <1>10, <3>1, <3>2
  <2>6. \A q \in Session : Active(q)' /\ Rec(q).owner = h => OwnedBy(h, q)'
    BY <1>e, <2>2, <2>3, <2>4, <2>5 DEF OwnedBy, Lasts
  <2>7. QED
    BY <2>2, <2>3, <2>6, OwnActive
<1>11. CASE MarkStatus(h) \/ MarkEnd(h)
  <2>1. UNCHANGED <<pc, kind, tun, cur>> /\ \A q \in Session : Lasts(q)
    BY <1>11, <1>a, MarkStatusActive, MarkEndActive DEF MarkStatus, MarkEnd, connVars
  <2>2. ASSUME NEW q \in Session, Active(q)', Marking(h, q, table[q])
        PROVE  FALSE
    <3>1. owe[h].op = "mark" /\ owe[h].s = q /\ owe[h].g = table[q]
      BY <2>2 DEF Marking
    <3>2. MarkStatus(h)
      BY <1>11, <3>1 DEF MarkEnd
    <3>3. QED
      BY <1>a, <2>2, <3>1, <3>2, MarkStatusActive
  <2>3. \A q \in Session : Active(q)' /\ Rec(q).owner = h => OwnedBy(h, q)'
    BY <1>b, <2>1, <2>2 DEF OwnedBy, ServedAs, Lasts
  <2>4. QED
    BY <2>1, <2>3, OwnActive
<1>12. QED
  BY <1>1, <1>2, <1>3, <1>4, <1>5, <1>6, <1>7, <1>8, <1>9, <1>10, <1>11 DEF HandlerStep

(* What a handler has loaded is marked before anything else.                 *)
LEMMA HandlerMarksOwn ==
  ASSUME TypeOK, MarksOwn, NEW h \in Handlers, Arrive(h) \/ HandlerStep(h)
  PROVE  MarksOwn'
<1> USE ConstAssumption
<1>a. h \in Threads /\ \A i \in Handlers : i \in Threads
  BY DEF Threads
<1>b. \A i \in Handlers \ {h} : owe'[i] = owe[i]
  BY <1>a, HandlerDebt
<1>c. SUFFICES /\ \A i \in Handlers \ {h} : /\ pc'[i] = pc[i] /\ tun'[i] = tun[i]
                                            /\ cur'[i] = cur[i]
               /\ owe'[h].op = "mark" =>
                    \/ pc'[h] \in {"childMark", "read", "markFirst", "closeFirst"}
                         /\ owe'[h].s = cur'[h]
                    \/ pc'[h] \in {"closeLast", "done"} /\ owe'[h].s = tun'[h]
  BY <1>b DEF MarksOwn
<1> USE DEF TypeOK, Goto
<1>1. CASE Arrive(h)
  BY <1>1 DEF Arrive, MyHttpHandle, MyHttpHandleWithEngine, MyHttpsHandle, Begin, TurnAway,
     regVars, At, NoDebt
<1>2. CASE StoreTop(h) \/ Strategy(h) \/ Handshake(h) \/ Dial(h) \/ Write200(h)
           \/ StoreRelay(h) \/ RelayEnd(h) \/ StoreChild(h)
  BY <1>2 DEF StoreTop, Strategy, Handshake, Dial, Write200, StoreRelay, RelayEnd, StoreChild,
     Store, regVars, At, NoDebt
<1>3. CASE ReadRequest(h) \/ ReadFails(h) \/ ProcessRequest(h)
           \/ RoundTrip(h) \/ RespondPlain(h) \/ Respond(h)
  BY <1>3 DEF ReadRequest, ReadFails, LoopExit, ProcessRequest, RoundTrip, RespondPlain,
     Respond, regVars, At, NoDebt
<1>4. CASE ChildMark(h) \/ RespondUpgrade(h)
  BY <1>4, <1>a DEF ChildMark, RespondUpgrade, LoopExit, MarkConnectionClosed, At, NoDebt
<1>5. CASE MarkFirst(h) \/ MarkLast(h)
  BY <1>5, <1>a DEF MarkFirst, MarkLast, MarkConnectionClosed, At, NoDebt
<1>6. CASE CloseLast(h) \/ CloseFirst(h)
  BY <1>6 DEF CloseLast, CloseFirst, regVars, At, NoDebt
<1>7. CASE MarkStatus(h) \/ MarkEnd(h)
  <2>1. owe'[h].op # "mark"
    BY <1>7, <1>a DEF MarkStatus, MarkEnd, NoDebt, Debt
  <2>2. QED
    BY <1>7, <2>1 DEF MarkStatus, MarkEnd, connVars
<1>8. QED
  BY <1>1, <1>2, <1>3, <1>4, <1>5, <1>6, <1>7 DEF HandlerStep

-----------------------------------------------------------------------------
(* The theorems. *)

LEMMA InitIInv == Init => IInv
<1> SUFFICES ASSUME Init PROVE IInv
    OBVIOUS
<1>1. TypeOK
  BY InitTypeOK
<1>2. SessionsKnown /\ PlainIsOneSession
  BY DEF Init, SessionsKnown, PlainIsOneSession, TopServed, ChildServed
<1>3. MarksOwn /\ ActiveOwned
  BY ConstAssumption DEF Init, MarksOwn, NoDebt, Threads, ActiveOwned, Active, Present
<1>4. QED
  BY <1>1, <1>2, <1>3 DEF IInv

LEMMA NextIInv == IInv /\ [Next]_vars => IInv'
<1> SUFFICES ASSUME IInv, [Next]_vars PROVE IInv'
    OBVIOUS
<1> USE DEF IInv
<1>1. TypeOK'
  BY NextTypeOK
<1>2. ASSUME NEW h \in Handlers, Arrive(h) \/ HandlerStep(h)
      PROVE  SessionsKnown' /\ PlainIsOneSession' /\ MarksOwn' /\ ActiveOwned'
  BY <1>2, HandlerSessionsKnown, HandlerMarksOwn, HandlerActiveOwned
<1>3. CASE \/ PusherStep \/ Tick \/ UNCHANGED vars
           \/ \E c \in Controllers : Command(c) \/ ControllerStep(c)
  <2>1. /\ ActiveOwned' /\ UNCHANGED <<pc, kind, tun, cur>>
        /\ \A h \in Handlers : owe'[h] = owe[h]
    BY <1>3, OtherThreads
  <2>2. QED
    BY <1>1, <2>1 DEF SessionsKnown, PlainIsOneSession, MarksOwn
<1>4. QED
  BY <1>1, <1>2, <1>3 DEF Next

(* IInv is inductive, so it holds in every reachable state of any instance.  *)
THEOREM Inductive == Spec => []IInv
<1>1. QED
  BY InitIInv, NextIInv, PTL DEF Spec

(* Every variable keeps its type. *)
THEOREM TypeCorrect == Spec => []TypeOK
<1>1. IInv => TypeOK
  BY DEF IInv
<1>2. QED
  BY <1>1, Inductive, PTL

(* No record stays Active once its handler has finished with it, with any    *)
(* number of connections and control clients acting at the same time.        *)
THEOREM ActiveRecordsAreServed == Spec => []ActiveIsServed
<1>1. IInv => ActiveIsServed
  BY DEF IInv, ActiveOwned, OwnedBy, ServedAs, ActiveIsServed, Serving, PlainIsOneSession,
     TopServed, ChildServed
<1>2. QED
  BY <1>1, Inductive, PTL

(* At most one request of a connection is Active at a time. *)
THEOREM OneRequestAtATime == Spec => []OneActiveChild
<1>1. IInv => OneActiveChild
  <2> SUFFICES ASSUME IInv, NEW s1 \in Session, NEW s2 \in Session, NEW h \in Handlers,
                      OwnedBy(h, s1), Rec(s1).onClose = "cancel",
                      OwnedBy(h, s2), Rec(s2).onClose = "cancel"
               PROVE  s1 = s2
    BY DEF IInv, ActiveOwned, OneActiveChild
  <2>1. CASE owe[h].op = "mark"
    BY <2>1 DEF IInv, MarksOwn, OwnedBy, Marking, ServedAs, ChildServed
  <2>2. CASE owe[h].op # "mark"
    BY <2>2 DEF OwnedBy, Marking, ServedAs
  <2>3. QED
    BY <2>1, <2>2
<1>2. QED
  BY <1>1, Inductive, PTL

-----------------------------------------------------------------------------
(* Without a manual close, a child's tunnel is in the registry.  This is     *)
(* about two records, and about numbers: nobody marks or deletes a session   *)
(* that a handler still serves, because nobody else holds its number.        *)

(* The numbers a handler holds have been handed out; its own is held by no   *)
(* other handler, and is not the number of a request it serves.              *)
NumbersApart ==
  \A h \in Handlers :
    /\ tun[h] <= sess /\ cur[h] <= sess
    /\ tun[h] # 0 => \A i \in Handlers \ {h} : tun[i] # tun[h] /\ cur[i] # tun[h]
    /\ kind[h] # "plain" /\ pc[h] \in ChildServed \cup {"childStore"} => cur[h] # tun[h]

Unmarked(s) == \A g \in 1 .. 2 : heap[<<s, g>>].status # "Closed"

(* A number that is not handed out, or not stored yet, is not in the table.  *)
NotYetStored ==
  /\ \A s \in Session : s > sess => table[s] = 0 /\ Unmarked(s)
  /\ \A h \in Handlers : pc[h] = "store" => table[tun[h]] = 0 /\ Unmarked(tun[h])

(* The converse of ActiveOwned, for a connection's own session.              *)
ServedIsActive ==
  \A h \in Handlers : pc[h] \in TopServed => Active(tun[h]) /\ Unmarked(tun[h])

(* A handler that is about to mark a request's record is not about to mark   *)
(* its connection's.                                                         *)
MarksApart ==
  \A h \in Handlers : owe[h].op = "mark" /\ pc[h] \in TopServed => owe[h].s # tun[h]

ParentKnown ==
  \A s \in Session : Active(s) => Rec(s).parent \in {0, s, tun[Rec(s).owner]}

(* What the collector looks at has been stored; what it is about to delete   *)
(* is nobody's own session.                                                  *)
DeletesDead ==
  /\ owe[Pusher].op \in {"none", "test", "del"}
  /\ owe[Pusher].op # "none" =>
       /\ owe[Pusher].s <= sess
       /\ \A h \in Handlers : pc[h] = "store" => tun[h] # owe[Pusher].s
  /\ owe[Pusher].op = "del" =>
       \A h \in Handlers : pc[h] \in TopServed => tun[h] # owe[Pusher].s

NoCommand == cmds = 0 /\ \A c \in Controllers : scan[c] = NoScan /\ owe[c] = NoDebt

HInv == IInv /\ NumbersApart /\ NotYetStored /\ ServedIsActive /\ MarksApart
             /\ ParentKnown /\ DeletesDead /\ NoCommand

(* A step that leaves session s as a reader sees it, but for its end time,   *)
(* and marks no record of it.                                                *)
Untouched(s) ==
  /\ table'[s] = table[s]
  /\ Unmarked(s) => Unmarked(s)'
  /\ Present(s) => /\ Rec(s)'.status = Rec(s).status
                   /\ Rec(s)'.parent = Rec(s).parent
                   /\ Rec(s)'.owner = Rec(s).owner

LEMMA UntouchedActive ==
  ASSUME NEW s \in Session, Untouched(s)
  PROVE  /\ Active(s)' <=> Active(s)
         /\ Active(s) => Rec(s)'.parent = Rec(s).parent /\ Rec(s)'.owner = Rec(s).owner
BY DEF Untouched, Active, Present

LEMMA StoreTouches ==
  ASSUME TypeOK, NEW h \in Handlers, NEW s \in Session, NEW g \in 1 .. 2,
         NEW parent, NEW onClose, Store(h, s, g, parent, onClose)
  PROVE  /\ Active(s)' /\ Rec(s)'.owner = h /\ Rec(s)'.parent = parent
         /\ Unmarked(s) => Unmarked(s)'
         /\ \A q \in Session \ {s} : Untouched(q)
<1>1. table'[s] = g /\ \A q \in Session \ {s} : table'[q] = table[q]
  BY DEF TypeOK, Store
<1>2. heap'[<<s, g>>] = [status |-> "Active", end |-> ZeroTime, parent |-> parent,
                         onClose |-> onClose, owner |-> h, back |-> heap'[<<s, g>>].back]
  BY DEF TypeOK, Store
<1>3. \A q \in Session, k \in 1 .. 2 :
        <<q, k>> # <<s, g>> => heap'[<<q, k>>] = heap[<<q, k>>]
  BY DEF TypeOK, Store
<1>4. \A q \in Session \ {s} : Present(q) => heap'[<<q, table[q]>>] = heap[<<q, table[q]>>]
  <2>1. \A q \in Session : Present(q) => table[q] \in 1 .. 2
    BY DEF TypeOK, Present
  <2>2. QED
    BY <1>3, <2>1
<1>5. \A q \in Session : Unmarked(q) => Unmarked(q)'
  BY <1>2, <1>3 DEF Unmarked
<1>6. QED
  BY <1>1, <1>2, <1>4, <1>5 DEF Active, Present, Rec, Untouched

LEMMA MarkTouches ==
  ASSUME TypeOK, NEW t \in Threads, MarkStatus(t)
  PROVE  \A q \in Session : q # owe[t].s => Untouched(q)
<1>1. PICK s \in Session, g \in 1 .. 2 : s = owe[t].s /\ g = owe[t].g
  BY DEF TypeOK, MarkStatus, Debt, NoDebt
<1>2. table' = table /\ heap' = [heap EXCEPT ![<<s, g>>].status = "Closed"]
  BY <1>1 DEF MarkStatus
<1>3. \A q \in Session \ {s}, k \in 1 .. 2 : heap'[<<q, k>>] = heap[<<q, k>>]
  BY <1>2 DEF TypeOK
<1>4. \A q \in Session : Present(q) => table[q] \in 1 .. 2
  BY DEF TypeOK, Present
<1>5. QED
  BY <1>1, <1>2, <1>3, <1>4 DEF Untouched, Unmarked, Rec

LEMMA EndTouches ==
  ASSUME TypeOK, NEW t \in Threads, MarkEnd(t)
  PROVE  \A q \in Session : Untouched(q)
<1>1. owe[t].s \in Session /\ owe[t].g \in 1 .. 2
  BY DEF TypeOK, MarkEnd, Debt, NoDebt
<1>2. ASSUME NEW p \in Session \X (1 .. 2)
      PROVE  /\ heap'[p].status = heap[p].status
             /\ heap'[p].owner = heap[p].owner
             /\ heap'[p].parent = heap[p].parent
  <2>1. CASE p = <<owe[t].s, owe[t].g>>
    <3>1. heap[p] \in Record
      BY DEF TypeOK
    <3>2. heap'[p] = [heap[p] EXCEPT !.end = now]
      BY <2>1, <3>1 DEF TypeOK, MarkEnd
    <3>3. QED
      BY <3>1, <3>2 DEF Record
  <2>2. CASE p # <<owe[t].s, owe[t].g>>
    BY <1>1, <2>2 DEF TypeOK, MarkEnd
  <2>3. QED
    BY <2>1, <2>2
<1>3. \A q \in Session : Unmarked(q) => Unmarked(q)'
  BY <1>2 DEF Unmarked
<1>4. QED
  BY <1>2, <1>3 DEF TypeOK, MarkEnd, Untouched, Present, Rec

(* Where a step takes a handler's numbers: it keeps them, or takes the next  *)
(* one, as its own only when it begins.                                      *)
Advances(h) ==
  /\ \A i \in Handlers \ {h} : /\ pc'[i] = pc[i] /\ tun'[i] = tun[i]
                               /\ cur'[i] = cur[i] /\ kind'[i] = kind[i]
  /\ sess' \in {sess, sess + 1}
  /\ pc'[h] = "store" => pc[h] \in {"idle", "store"}
  /\ \/ /\ tun'[h] = tun[h]
        /\ pc'[h] \in TopServed \cup {"store"} => pc[h] \in TopServed \cup {"store"}
     \/ tun'[h] = sess + 1 /\ sess' = sess + 1 /\ pc[h] = "idle" /\ pc'[h] = "store"
  /\ tun'[h] \in {tun[h], sess'} /\ cur'[h] \in {cur[h], sess'}
  /\ tun'[h] # tun[h] => sess' = sess + 1 /\ tun'[h] = sess + 1
  /\ cur'[h] # cur[h] => sess' = sess + 1 /\ cur'[h] = sess + 1
  /\ kind'[h] # "plain" /\ pc'[h] \in ChildServed \cup {"childStore"} =>
       /\ tun'[h] = tun[h]
       /\ cur'[h] = sess + 1 \/ (/\ cur'[h] = cur[h] /\ kind[h] # "plain"
                                 /\ pc[h] \in ChildServed \cup {"childStore"})

LEMMA HandlerAdvances ==
  ASSUME TypeOK, PlainIsOneSession, NEW h \in Handlers, Arrive(h) \/ HandlerStep(h)
  PROVE  Advances(h)
<1> USE DEF TypeOK, Goto, Advances
<1>1. CASE Arrive(h)
  <2>1. ASSUME NEW k \in AllKinds \cup {"connect"}, NEW socket, Begin(h, k, socket)
        PROVE  Advances(h)
    BY <2>1 DEF Begin, NextSession, At, TopServed, ChildServed
  <2>2. CASE TurnAway(h)
    BY <2>2 DEF TurnAway, NextSession, At, TopServed, ChildServed
  <2>3. QED
    BY <1>1, <2>1, <2>2 DEF Arrive, MyHttpHandle, MyHttpHandleWithEngine, MyHttpsHandle, AllKinds
<1>2. CASE StoreTop(h)
  BY <1>2 DEF StoreTop, At, TopServed, ChildServed
<1>3. CASE Strategy(h) \/ Handshake(h) \/ Dial(h)
  BY <1>3 DEF Strategy, Handshake, Dial, At, TopServed, ChildServed
<1>4. CASE Write200(h) \/ StoreRelay(h) \/ RelayEnd(h) \/ StoreChild(h)
  BY <1>4 DEF Write200, StoreRelay, RelayEnd, StoreChild, At, TopServed, ChildServed
<1>5. CASE ReadRequest(h) \/ ReadFails(h)
  BY <1>5 DEF ReadRequest, ReadFails, LoopExit, NextSession, At, TopServed, ChildServed
<1>6. CASE ProcessRequest(h)
  BY <1>6 DEF ProcessRequest, NextSession, At, TopServed, ChildServed
<1>7. CASE RoundTrip(h) \/ RespondPlain(h) \/ Respond(h) \/ RespondUpgrade(h)
  BY <1>7 DEF RoundTrip, RespondPlain, Respond, RespondUpgrade, At, TopServed, ChildServed
<1>8. CASE ChildMark(h)
  BY <1>8 DEF ChildMark, LoopExit, At, TopServed, ChildServed
<1>9. CASE MarkFirst(h) \/ CloseLast(h) \/ CloseFirst(h) \/ MarkLast(h)
  BY <1>9 DEF MarkFirst, CloseLast, CloseFirst, MarkLast, At, TopServed, ChildServed
<1>10. CASE MarkStatus(h) \/ MarkEnd(h)
  BY <1>10 DEF MarkStatus, MarkEnd, connVars
<1>11. QED
  BY <1>1, <1>2, <1>3, <1>4, <1>5, <1>6, <1>7, <1>8, <1>9, <1>10 DEF HandlerStep

LEMMA NumbersKept ==
  ASSUME TypeOK, NumbersApart, NEW h \in Handlers, Advances(h)
  PROVE  NumbersApart'
<1> USE ConstAssumption
<1>1. /\ sess \in Nat /\ sess' \in Nat /\ sess' >= sess
      /\ \A i \in Handlers : tun[i] \in Nat /\ cur[i] \in Nat
  BY DEF TypeOK, Advances
<1>2. \A i \in Handlers : tun'[i] <= sess' /\ cur'[i] <= sess'
  BY <1>1 DEF NumbersApart, Advances
<1>3. ASSUME NEW i \in Handlers, tun'[i] # 0, NEW j \in Handlers \ {i}
      PROVE  tun'[j] # tun'[i] /\ cur'[j] # tun'[i]
  <2>1. CASE i = h
    <3>1. tun'[j] = tun[j] /\ cur'[j] = cur[j] /\ tun[j] <= sess /\ cur[j] <= sess
      BY <2>1 DEF Advances, NumbersApart
    <3>2. CASE tun'[h] = tun[h]
      BY <1>3, <2>1, <3>1, <3>2 DEF NumbersApart
    <3>3. CASE tun'[h] = sess + 1
      BY <1>1, <2>1, <3>1, <3>3
    <3>4. QED
      BY <3>2, <3>3 DEF Advances
  <2>2. CASE i # h
    <3>1. tun'[i] = tun[i] /\ tun[i] <= sess
      BY <2>2 DEF Advances, NumbersApart
    <3>2. tun[j] # tun[i] /\ cur[j] # tun[i]
      BY <1>3, <3>1 DEF NumbersApart
    <3>3. CASE j # h
      BY <3>1, <3>2, <3>3 DEF Advances
    <3>4. CASE j = h
      BY <1>1, <3>1, <3>2, <3>4 DEF Advances
    <3>5. QED
      BY <3>3, <3>4
  <2>3. QED
    BY <2>1, <2>2
<1>4. ASSUME NEW i \in Handlers, kind'[i] # "plain", pc'[i] \in ChildServed \cup {"childStore"}
      PROVE  cur'[i] # tun'[i]
  <2>1. CASE i # h
    BY <1>4, <2>1 DEF Advances, NumbersApart
  <2>2. CASE i = h
    <3>1. tun'[h] = tun[h] /\ tun[h] <= sess
      BY <1>4, <2>2 DEF Advances, NumbersApart
    <3>2. CASE cur'[h] = sess + 1
      BY <1>1, <2>2, <3>1, <3>2
    <3>3. CASE cur'[h] = cur[h] /\ kind[h] # "plain" /\ pc[h] \in ChildServed \cup {"childStore"}
      BY <2>2, <3>1, <3>3 DEF NumbersApart
    <3>4. QED
      BY <1>4, <2>2, <3>2, <3>3 DEF Advances
  <2>3. QED
    BY <2>1, <2>2
<1>5. QED
  BY <1>2, <1>3, <1>4 DEF NumbersApart

(* What a step of handler h does to the registry: sessions other than its    *)
(* own two are untouched; its own record stays Active for as long as it is   *)
(* served; a record it stores has its own session as parent, or none.        *)
Registers(h) ==
  /\ \A s \in Session : s # tun[h] /\ s # cur[h] => Untouched(s)
  /\ \A s \in Session :
       \/ Lasts(s)
       \/ Rec(s)'.owner = h /\ Rec(s)'.parent \in {0, tun[h]} /\ tun'[h] = tun[h]
  /\ pc'[h] = "store" => \A s \in Session : Untouched(s)
  /\ pc'[h] \in TopServed => Active(tun[h])' /\ Unmarked(tun[h])' /\ tun'[h] = tun[h]

LEMMA HandlerRegisters ==
  ASSUME TypeOK, SessionsKnown, PlainIsOneSession, MarksOwn, NumbersApart, NotYetStored,
         ServedIsActive, MarksApart, NEW h \in Handlers, Arrive(h) \/ HandlerStep(h)
  PROVE  Registers(h)
<1> USE ConstAssumption
<1>a. h \in Threads
  BY DEF Threads
<1>b. pc[h] \in TopServed => tun[h] \in Session /\ Active(tun[h]) /\ Unmarked(tun[h])
  BY DEF SessionsKnown, ServedIsActive
<1>c. UNCHANGED <<table, heap>> => \A s \in Session : Untouched(s) /\ Lasts(s)
  BY QuietLasts DEF Untouched, Unmarked, Rec
(* The connection's own session, once served, in a step that leaves it alone. *)
<1>e. ASSUME NEW p \in Session, p = tun[h], tun' = tun, Active(p), Unmarked(p), Untouched(p)
      PROVE  Active(tun[h])' /\ Unmarked(tun[h])'
  <2>1. Active(p)' /\ Unmarked(p)'
    BY <1>e, UntouchedActive DEF Untouched
  <2>2. QED
    BY <1>e, <2>1 DEF Active, Present, Rec, Unmarked
(* Steps that leave the registry alone. *)
<1>d. ASSUME UNCHANGED <<table, heap>>,
             pc'[h] \in TopServed => pc[h] \in TopServed /\ tun'[h] = tun[h]
      PROVE  Registers(h)
  <2>1. pc'[h] \in TopServed => Active(tun[h])' /\ Unmarked(tun[h])' /\ tun'[h] = tun[h]
    BY <1>b, <1>d DEF Active, Present, Rec, Unmarked
  <2>2. QED
    BY <1>c, <1>d, <2>1 DEF Registers
<1>1. CASE Arrive(h)
  BY <1>1, <1>d DEF Arrive, MyHttpHandle, MyHttpHandleWithEngine, MyHttpsHandle,
     TurnAway, Begin, At, Goto, regVars, TopServed, TypeOK
<1>2. CASE Strategy(h) \/ Handshake(h) \/ Dial(h) \/ Write200(h) \/ RelayEnd(h)
  BY <1>2, <1>d DEF TypeOK, Strategy, Handshake, Dial, Write200, RelayEnd, At, Goto, regVars, TopServed
<1>3. CASE ReadRequest(h) \/ ReadFails(h) \/ ProcessRequest(h)
  BY <1>3, <1>d DEF TypeOK, ReadRequest, ReadFails, ProcessRequest, LoopExit, At, Goto, regVars, TopServed
<1>4. CASE RoundTrip(h) \/ RespondPlain(h) \/ Respond(h)
  BY <1>4, <1>d DEF TypeOK, RoundTrip, RespondPlain, Respond, At, Goto, regVars, TopServed
<1>5. CASE CloseFirst(h) \/ CloseLast(h)
  BY <1>5, <1>d DEF TypeOK, CloseFirst, CloseLast, At, Goto, regVars, TopServed
<1>6. CASE RespondUpgrade(h) \/ ChildMark(h) \/ MarkFirst(h) \/ MarkLast(h)
  BY <1>6, <1>d DEF TypeOK, RespondUpgrade, ChildMark, MarkFirst, MarkLast,
     MarkConnectionClosed, LoopExit, At, Goto, TopServed
(* Stores. *)
<1>7. CASE StoreTop(h)
  <2>1. PICK s \in Session : s = tun[h]
    BY <1>7 DEF SessionsKnown, StoreTop, At
  <2>2. PICK o : o = IF kind[h] = "plain" THEN "cancel" ELSE "close"
    OBVIOUS
  <2>3. Store(h, s, 1, 0, o) /\ 1 \in 1 .. 2
    BY <1>7, <2>1, <2>2 DEF StoreTop
  <2>4. pc'[h] # "store" /\ tun' = tun
    BY <1>7 DEF TypeOK, StoreTop, Goto
  <2>5. /\ Active(s)' /\ Rec(s)'.owner = h /\ Rec(s)'.parent = 0
        /\ Unmarked(s) => Unmarked(s)'
        /\ \A q \in Session \ {s} : Untouched(q) /\ Lasts(q)
    BY <2>3, StoreTouches, StoreActive
  <2>6. Active(tun[h])' /\ Unmarked(tun[h])'
    <3>1. Unmarked(s)
      BY <1>7, <2>1 DEF NotYetStored, StoreTop, At
    <3>2. QED
      BY <2>1, <2>4, <2>5, <3>1 DEF Active, Present, Rec, Unmarked
  <2>7. QED
    BY <2>1, <2>4, <2>5, <2>6 DEF Registers
<1>8. CASE StoreRelay(h)
  <2>1. PICK s \in Session : s = tun[h]
    BY <1>8 DEF SessionsKnown, TopServed, StoreRelay, At
  <2>2. Store(h, s, 2, s, "close") /\ 2 \in 1 .. 2
    BY <1>8, <2>1 DEF StoreRelay
  <2>3. pc'[h] # "store" /\ tun' = tun
    BY <1>8 DEF TypeOK, StoreRelay, Goto
  <2>4. /\ Active(s)' /\ Rec(s)'.owner = h /\ Rec(s)'.parent = s
        /\ Unmarked(s) => Unmarked(s)'
        /\ \A q \in Session \ {s} : Untouched(q) /\ Lasts(q)
    BY <2>2, StoreTouches, StoreActive
  <2>5. Active(tun[h])' /\ Unmarked(tun[h])'
    <3>1. Unmarked(s)
      BY <1>b, <1>8, <2>1 DEF StoreRelay, At, TopServed
    <3>2. QED
      BY <2>1, <2>3, <2>4, <3>1 DEF Active, Present, Rec, Unmarked
  <2>6. QED
    BY <2>1, <2>3, <2>4, <2>5 DEF Registers
<1>9. CASE StoreChild(h)
  <2>1. PICK s \in Session : s = cur[h]
    BY <1>9 DEF SessionsKnown, StoreChild, At
  <2>2. PICK p \in Session : p = tun[h]
    BY <1>9 DEF SessionsKnown, TopServed, StoreChild, At
  <2>3. Store(h, s, 1, p, "cancel") /\ 1 \in 1 .. 2
    BY <1>9, <2>1, <2>2 DEF StoreChild
  <2>4. pc'[h] # "store" /\ tun' = tun
    BY <1>9 DEF TypeOK, StoreChild, Goto
  <2>5. /\ Active(s)' /\ Rec(s)'.owner = h /\ Rec(s)'.parent = p
        /\ Unmarked(s) => Unmarked(s)'
        /\ \A q \in Session \ {s} : Untouched(q) /\ Lasts(q)
    BY <2>3, StoreTouches, StoreActive
  <2>6. p # s
    <3>1. kind[h] # "plain"
      BY <1>9 DEF PlainIsOneSession, StoreChild, At
    <3>2. QED
      BY <1>9, <2>1, <2>2, <3>1 DEF NumbersApart, StoreChild, At
  <2>7. Active(tun[h])' /\ Unmarked(tun[h])'
    <3>1. Active(p) /\ Unmarked(p)
      BY <1>9, <1>b, <2>2 DEF StoreChild, At, TopServed
    <3>2. QED
      BY <1>e, <2>2, <2>4, <2>5, <2>6, <3>1
  <2>8. QED
    BY <2>1, <2>2, <2>4, <2>5, <2>7 DEF Registers
(* The writes of MarkClosed. *)
<1>10. CASE MarkStatus(h)
  <2>1. PICK s \in Session : s = owe[h].s
    BY <1>10, <1>a DEF TypeOK, MarkStatus, Debt, NoDebt
  <2>2. /\ \A q \in Session : Lasts(q)
        /\ \A q \in Session \ {s} : Untouched(q)
    BY <1>10, <1>a, <2>1, MarkStatusActive, MarkTouches
  <2>3. pc' = pc /\ tun' = tun /\ s \in {tun[h], cur[h]} /\ pc[h] # "store"
    BY <1>10, <2>1 DEF MarkStatus, connVars, MarksOwn
  <2>4. ASSUME pc[h] \in TopServed PROVE Active(tun[h])' /\ Unmarked(tun[h])'
    <3>1. PICK p \in Session : p = tun[h] /\ Active(p) /\ Unmarked(p)
      BY <1>b, <2>4
    <3>2. p # s
      BY <1>10, <2>1, <2>4, <3>1 DEF MarksApart, MarkStatus
    <3>3. QED
      BY <1>e, <2>2, <2>3, <3>1, <3>2
  <2>5. QED
    BY <2>2, <2>3, <2>4 DEF Registers
<1>11. CASE MarkEnd(h)
  <2>1. \A s \in Session : Untouched(s) /\ Lasts(s)
    BY <1>11, <1>a, EndTouches, MarkEndActive
  <2>2. pc' = pc /\ tun' = tun
    BY <1>11 DEF MarkEnd, connVars
  <2>3. pc[h] \in TopServed => Active(tun[h])' /\ Unmarked(tun[h])'
    BY <1>b, <1>e, <2>1, <2>2
  <2>4. QED
    BY <2>1, <2>2, <2>3 DEF Registers
<1>12. QED
  BY <1>1, <1>2, <1>3, <1>4, <1>5, <1>6, <1>7, <1>8, <1>9, <1>10, <1>11 DEF HandlerStep

(* What handler h is about to mark after its step, if it still serves its    *)
(* connection, is a request's record.                                        *)
LEMMA HandlerMarksApart ==
  ASSUME TypeOK, PlainIsOneSession, NumbersApart, MarksApart, NEW h \in Handlers,
         Arrive(h) \/ HandlerStep(h), owe'[h].op = "mark", pc'[h] \in TopServed
  PROVE  owe'[h].s # tun'[h]
<1>a. h \in Threads
  BY DEF Threads
<1> USE DEF TypeOK, Goto
<1>1. CASE Arrive(h)
  BY <1>1 DEF Arrive, MyHttpHandle, MyHttpHandleWithEngine, MyHttpsHandle, Begin, TurnAway,
     regVars, At, NoDebt
<1>2. CASE StoreTop(h) \/ Strategy(h) \/ Handshake(h) \/ Dial(h) \/ Write200(h)
           \/ StoreRelay(h) \/ RelayEnd(h) \/ StoreChild(h)
  BY <1>2 DEF StoreTop, Strategy, Handshake, Dial, Write200, StoreRelay, RelayEnd, StoreChild,
     Store, regVars, At, NoDebt
<1>3. CASE ReadRequest(h) \/ ReadFails(h) \/ ProcessRequest(h)
           \/ RoundTrip(h) \/ RespondPlain(h) \/ Respond(h)
  BY <1>3 DEF ReadRequest, ReadFails, LoopExit, ProcessRequest, RoundTrip, RespondPlain,
     Respond, regVars, At, NoDebt
<1>4. CASE ChildMark(h) \/ RespondUpgrade(h)
  <2>1. /\ pc[h] \in ChildServed /\ kind[h] # "plain" /\ tun' = tun
        /\ owe'[h].s = cur[h]
    BY <1>4, <1>a DEF ChildMark, RespondUpgrade, MarkConnectionClosed, At, NoDebt,
       ChildServed, PlainIsOneSession
  <2>2. QED
    BY <2>1 DEF NumbersApart
<1>5. CASE MarkFirst(h) \/ MarkLast(h)
  BY <1>5 DEF MarkFirst, MarkLast, TopServed
<1>6. CASE CloseLast(h) \/ CloseFirst(h)
  BY <1>6 DEF CloseLast, CloseFirst, regVars, At, NoDebt
<1>7. CASE MarkStatus(h) \/ MarkEnd(h)
  <2>1. owe'[h].op # "mark"
    BY <1>7, <1>a DEF MarkStatus, MarkEnd, NoDebt, Debt
  <2>2. QED
    BY <2>1
<1>8. QED
  BY <1>1, <1>2, <1>3, <1>4, <1>5, <1>6, <1>7 DEF HandlerStep

LEMMA HandlerHInv ==
  ASSUME HInv, NEW h \in Handlers, Arrive(h) \/ HandlerStep(h)
  PROVE  /\ NumbersApart' /\ NotYetStored' /\ ServedIsActive' /\ MarksApart'
         /\ ParentKnown' /\ DeletesDead'
<1> USE ConstAssumption
<1>a. /\ TypeOK /\ SessionsKnown /\ PlainIsOneSession /\ MarksOwn /\ ActiveOwned
      /\ NumbersApart /\ NotYetStored /\ ServedIsActive /\ MarksApart /\ ParentKnown
      /\ DeletesDead
  BY DEF HInv, IInv
<1>b. Advances(h) /\ Registers(h) /\ NumbersApart'
  BY <1>a, HandlerAdvances, HandlerRegisters, NumbersKept
<1>c. /\ sess \in Nat /\ sess' \in Nat /\ sess' >= sess
      /\ \A i \in Handlers : tun[i] \in Nat /\ cur[i] \in Nat
  BY <1>a, <1>b DEF TypeOK, Advances
(* Another handler's own session is not touched. *)
<1>d. ASSUME NEW i \in Handlers \ {h}, NEW s \in Session, s = tun[i]
      PROVE  Untouched(s)
  <2>1. tun[i] # 0
    BY <1>d DEF Session
  <2>2. tun[h] # s /\ cur[h] # s
    BY <1>a, <1>d, <2>1 DEF NumbersApart
  <2>3. QED
    BY <1>b, <1>d, <2>2 DEF Registers
<1>1. NotYetStored'
  <2>1. ASSUME NEW s \in Session, s > sess'
        PROVE  table'[s] = 0 /\ Unmarked(s)'
    <3>1. s > sess
      BY <1>c, <2>1 DEF Session
    <3>2. s # tun[h] /\ s # cur[h]
      BY <1>a, <1>c, <3>1 DEF NumbersApart, Session
    <3>3. QED
      BY <1>a, <1>b, <3>1, <3>2 DEF Registers, Untouched, NotYetStored
  <2>2. ASSUME NEW i \in Handlers, pc'[i] = "store"
        PROVE  table'[tun'[i]] = 0 /\ Unmarked(tun[i])'
    <3>1. CASE i # h
      <4>1. pc[i] = "store" /\ tun'[i] = tun[i]
        BY <1>b, <2>2, <3>1 DEF Advances
      <4>2. PICK s \in Session : s = tun[i] /\ table[s] = 0 /\ Unmarked(s)
        BY <1>a, <4>1 DEF SessionsKnown, NotYetStored
      <4>3. table'[s] = 0 /\ Unmarked(s)'
        BY <1>d, <3>1, <4>2 DEF Untouched
      <4>4. QED
        BY <4>1, <4>2, <4>3 DEF Unmarked
    <3>2. CASE i = h
      <4>1. \A s \in Session : table'[s] = table[s] /\ (Unmarked(s) => Unmarked(s)')
        BY <1>b, <2>2, <3>2 DEF Registers, Untouched
      <4>2. CASE tun'[h] = sess + 1 /\ sess' = sess + 1
        <5>1. sess' \in Session
          BY <1>a, <1>c, <4>2, NextTypeOK DEF TypeOK, Session, Next
        <5>2. PICK s \in Session : s = sess' /\ table[s] = 0 /\ Unmarked(s)
          BY <1>a, <1>c, <4>2, <5>1 DEF NotYetStored
        <5>3. table'[s] = 0 /\ Unmarked(s)' /\ s = tun'[h]
          BY <4>1, <4>2, <5>2
        <5>4. QED
          BY <3>2, <5>3 DEF Unmarked
      <4>3. CASE tun'[h] = tun[h] /\ pc[h] \in TopServed \cup {"store"}
        <5>1. pc[h] = "store"
          BY <1>b, <2>2, <3>2, <4>3 DEF Advances, TopServed
        <5>2. PICK s \in Session : s = tun[h] /\ table[s] = 0 /\ Unmarked(s)
          BY <1>a, <5>1 DEF SessionsKnown, NotYetStored
        <5>3. table'[s] = 0 /\ Unmarked(s)' /\ s = tun'[h]
          BY <4>1, <4>3, <5>2
        <5>4. QED
          BY <3>2, <5>3 DEF Unmarked
      <4>4. QED
        BY <1>b, <2>2, <3>2, <4>2, <4>3 DEF Advances
    <3>3. QED
      BY <3>1, <3>2
  <2>3. QED
    BY <2>1, <2>2 DEF NotYetStored
<1>2. ServedIsActive'
  <2>1. ASSUME NEW i \in Handlers \ {h}, pc'[i] \in TopServed
        PROVE  Active(tun[i])' /\ Unmarked(tun[i])'
    <3>1. pc[i] \in TopServed /\ tun'[i] = tun[i]
      BY <1>b, <2>1 DEF Advances
    <3>2. PICK s \in Session : s = tun[i] /\ Active(s) /\ Unmarked(s)
      BY <1>a, <3>1 DEF SessionsKnown, ServedIsActive
    <3>3. Active(s)' /\ Unmarked(s)'
      BY <1>d, <3>2, UntouchedActive DEF Untouched
    <3>4. QED
      BY <3>1, <3>2, <3>3 DEF Active, Present, Rec, Unmarked
  <2>2. QED
    BY <1>b, <2>1 DEF ServedIsActive, Registers
<1>3. ParentKnown'
  <2>1. ASSUME NEW s \in Session, Active(s)'
        PROVE  Rec(s)'.parent \in {0, s, tun'[Rec(s)'.owner]}
    <3>1. CASE Lasts(s)
      <4>1. /\ Active(s) /\ Rec(s)'.owner = Rec(s).owner
            /\ Rec(s)'.parent = Rec(s).parent
        BY <2>1, <3>1 DEF Lasts
      <4>2. PICK i \in Handlers : i = Rec(s).owner /\ OwnedBy(i, s)
        BY <1>a, <4>1 DEF ActiveOwned
      <4>3. pc[i] # "idle"
        BY <1>a, <4>2 DEF OwnedBy, Marking, MarksOwn, ServedAs, TopServed, ChildServed
      <4>4. tun'[i] = tun[i]
        BY <1>b, <4>3 DEF Advances
      <4>5. Rec(s).parent \in {0, s, tun[i]}
        BY <1>a, <4>1, <4>2 DEF ParentKnown
      <4>6. QED
        BY <4>1, <4>2, <4>4, <4>5
    <3>2. CASE Rec(s)'.owner = h /\ Rec(s)'.parent \in {0, tun[h]} /\ tun'[h] = tun[h]
      BY <3>2
    <3>3. QED
      BY <1>b, <2>1, <3>1, <3>2 DEF Registers
  <2>2. QED
    BY <2>1 DEF ParentKnown
<1>4. DeletesDead'
  <2>1. owe'[Pusher] = owe[Pusher]
    BY <1>a, HandlerDebt DEF Threads
  <2>2. ASSUME owe[Pusher].op # "none"
        PROVE  /\ owe[Pusher].s <= sess'
               /\ \A i \in Handlers : pc'[i] = "store" => tun'[i] # owe[Pusher].s
               /\ owe[Pusher].op = "del" =>
                    \A i \in Handlers : pc'[i] \in TopServed => tun'[i] # owe[Pusher].s
    <3>1. PICK s \in Session : s = owe[Pusher].s
      BY <1>a, <2>2 DEF TypeOK, Threads, Debt, NoDebt
    <3>2. /\ s <= sess /\ \A i \in Handlers : pc[i] = "store" => tun[i] # s
          /\ owe[Pusher].op = "del" => \A i \in Handlers : pc[i] \in TopServed => tun[i] # s
      BY <1>a, <2>2, <3>1 DEF DeletesDead
    <3>3. s <= sess' /\ s # sess + 1
      BY <1>c, <3>2 DEF Session
    <3>4. \A i \in Handlers : pc'[i] = "store" => tun'[i] # s
      BY <1>b, <3>2, <3>3 DEF Advances, TopServed
    <3>5. ASSUME owe[Pusher].op = "del", NEW i \in Handlers, pc'[i] \in TopServed
          PROVE  tun'[i] # s
      BY <1>b, <3>2, <3>3, <3>5 DEF Advances
    <3>6. QED
      BY <3>1, <3>3, <3>4, <3>5
  <2>3. QED
    BY <1>a, <2>1, <2>2 DEF DeletesDead
<1>5. MarksApart'
  <2>1. \A i \in Handlers \ {h} : owe'[i] = owe[i]
    BY <1>a, HandlerDebt DEF Threads
  <2>2. ASSUME owe'[h].op = "mark", pc'[h] \in TopServed
        PROVE  owe'[h].s # tun'[h]
    BY <1>a, <2>2, HandlerMarksApart
  <2>3. QED
    BY <1>a, <1>b, <2>1, <2>2 DEF MarksApart, Advances
<1>6. QED
  BY <1>b, <1>1, <1>2, <1>3, <1>4, <1>5

(* The other goroutines: nobody but the collector touches the registry.      *)
LEMMA OtherHInv ==
  ASSUME MaxCmds = 0, HInv,
         \/ PusherStep \/ Tick \/ UNCHANGED vars
         \/ \E c \in Controllers : Command(c) \/ ControllerStep(c)
  PROVE  /\ NumbersApart' /\ NotYetStored' /\ ServedIsActive' /\ MarksApart'
         /\ ParentKnown' /\ DeletesDead'
<1> USE ConstAssumption
<1>a. /\ TypeOK /\ SessionsKnown /\ ActiveOwned /\ NumbersApart /\ NotYetStored
      /\ ServedIsActive /\ MarksApart /\ ParentKnown /\ DeletesDead /\ NoCommand
  BY DEF HInv, IInv
<1>b. Pusher \in Threads /\ owe[Pusher] \in Debt /\ DOMAIN owe = Threads
  BY <1>a DEF Threads, TypeOK
<1>c. ASSUME NEW c \in Controllers PROVE ~(Command(c) \/ ControllerStep(c))
  <2>1. scan[c] = NoScan /\ owe[c] = NoDebt /\ cmds = 0
    BY <1>a DEF NoCommand
  <2>2. QED
    BY <2>1 DEF Command, CloseAllBegin, CloseOneBegin, RangeBegin, ControllerStep, CloseAllMark,
       CloseAllOver, CloseOneSelf, RangeOver, MarkStatus, MarkEnd, DeleteOwed, CloseAllVisit,
       CloseOneVisit, RangeVisits, NoScan, NoDebt
<1>d. UNCHANGED <<pc, kind, tun, cur>> /\ MarksApart'
  <2>1. UNCHANGED <<pc, kind, tun, cur>> /\ \A h \in Handlers : owe'[h] = owe[h]
    BY <1>a, OtherThreads
  <2>2. QED
    BY <1>a, <2>1 DEF MarksApart
<1>e. ASSUME UNCHANGED <<sess, table, heap>>
      PROVE  NumbersApart' /\ NotYetStored' /\ ServedIsActive' /\ ParentKnown'
  BY <1>a, <1>d, <1>e DEF NumbersApart, NotYetStored, ServedIsActive, ParentKnown, Active,
     Present, Rec, Unmarked
<1>1. CASE PusherTick \/ Tick \/ UNCHANGED vars
  <2>1. UNCHANGED <<sess, table, heap, owe>>
    BY <1>1 DEF PusherTick, Tick, vars, regVars
  <2>2. DeletesDead'
    BY <1>a, <1>d, <2>1 DEF DeletesDead
  <2>3. QED
    BY <1>d, <1>e, <2>1, <2>2
<1>2. ASSUME NEW s \in Session, PusherVisit(s)
      PROVE  NumbersApart' /\ NotYetStored' /\ ServedIsActive' /\ ParentKnown' /\ DeletesDead'
  <2>1. UNCHANGED <<sess, table, heap>> /\ table[s] # 0
    BY <1>2 DEF PusherVisit, Present
  <2>2. owe'[Pusher].s = s /\ owe'[Pusher].op = "test"
    BY <1>2, <1>b DEF PusherVisit
  <2>3. s <= sess
    BY <1>a, <2>1 DEF NotYetStored, TypeOK, Session
  <2>4. \A h \in Handlers : pc[h] = "store" => tun[h] # s
    BY <1>a, <2>1 DEF NotYetStored
  <2>5. DeletesDead'
    BY <1>d, <2>1, <2>2, <2>3, <2>4 DEF DeletesDead
  <2>6. QED
    BY <1>e, <2>1, <2>5
<1>3. CASE PusherTest
  <2>1. UNCHANGED <<sess, table, heap>> /\ owe[Pusher].op = "test"
    BY <1>3 DEF PusherTest
  <2>2. PICK s \in Session, g \in 1 .. 2 : s = owe[Pusher].s /\ g = owe[Pusher].g
    BY <1>b, <2>1 DEF Debt, NoDebt
  <2>3. /\ s <= sess /\ \A h \in Handlers : pc[h] = "store" => tun[h] # s
    BY <1>a, <2>1, <2>2 DEF DeletesDead
  <2>4. CASE Expired(heap[<<s, g>>], tickAt)
    <3>1. owe'[Pusher] = [op |-> "del", s |-> s, g |-> 0]
      BY <1>3, <1>b, <2>2, <2>4 DEF PusherTest
    <3>2. \A h \in Handlers : pc[h] \in TopServed => tun[h] # s
      BY <1>a, <2>4 DEF Expired, ServedIsActive, Unmarked
    <3>3. DeletesDead'
      BY <1>d, <2>1, <2>3, <3>1, <3>2 DEF DeletesDead
    <3>4. QED
      BY <1>d, <1>e, <2>1, <3>3
  <2>5. CASE ~Expired(heap[<<s, g>>], tickAt)
    <3>1. owe'[Pusher].op = "none"
      BY <1>3, <1>b, <2>2, <2>5 DEF PusherTest, NoDebt
    <3>2. DeletesDead'
      BY <3>1 DEF DeletesDead
    <3>3. QED
      BY <1>d, <1>e, <2>1, <3>2
  <2>6. QED
    BY <2>4, <2>5
<1>4. CASE DeleteOwed(Pusher)
  <2>1. UNCHANGED <<sess, heap>>
    BY <1>4 DEF DeleteOwed
  <2>2. PICK s \in Session : s = owe[Pusher].s
    BY <1>4, <1>b DEF DeleteOwed, Debt, NoDebt
  <2>3. table' = [table EXCEPT ![s] = 0]
    BY <1>4, <2>2 DEF DeleteOwed
  <2>4. \A q \in Session : Active(q)' => Active(q) /\ Rec(q)' = Rec(q)
    BY <1>a, <2>1, <2>3 DEF TypeOK, Active, Present, Rec
  <2>5. \A h \in Handlers : pc[h] \in TopServed \cup {"store"} => tun[h] # s
    BY <1>4, <1>a, <2>2 DEF DeleteOwed, DeletesDead
  <2>6. NumbersApart' /\ ParentKnown'
    BY <1>a, <1>d, <2>1, <2>4 DEF NumbersApart, ParentKnown
  <2>7. NotYetStored'
    BY <1>a, <1>d, <2>1, <2>3 DEF NotYetStored, TypeOK, SessionsKnown, Unmarked
  <2>8. ServedIsActive'
    <3>1. ASSUME NEW h \in Handlers, pc[h] \in TopServed
          PROVE  Active(tun[h])' /\ Unmarked(tun[h])'
      <4>1. PICK q \in Session : q = tun[h] /\ q # s /\ Active(q) /\ Unmarked(q)
        BY <1>a, <2>5, <3>1 DEF SessionsKnown, ServedIsActive
      <4>2. Active(q)' /\ Unmarked(q)'
        BY <1>a, <2>1, <2>3, <4>1 DEF TypeOK, Active, Present, Rec, Unmarked
      <4>3. QED
        BY <1>d, <4>1, <4>2 DEF Active, Present, Rec, Unmarked
    <3>2. QED
      BY <1>d, <3>1 DEF ServedIsActive
  <2>9. DeletesDead'
    BY <1>4, <1>a, <1>b DEF DeleteOwed, NoDebt, DeletesDead
  <2>10. QED
    BY <1>d, <2>6, <2>7, <2>8, <2>9
<1>5. QED
  BY <1>1, <1>2, <1>3, <1>4, <1>c, <1>d DEF PusherStep

LEMMA CommandsNone ==
  ASSUME MaxCmds = 0, HInv, [Next]_vars
  PROVE  NoCommand'
<1> USE ConstAssumption
<1>a. TypeOK /\ NoCommand
  BY DEF HInv, IInv
<1>b. \A c \in Controllers : c \in Threads /\ c \notin Handlers /\ c # Pusher
  BY DEF Threads
<1>1. ASSUME NEW h \in Handlers, Arrive(h) \/ HandlerStep(h)
      PROVE  NoCommand'
  <2>1. UNCHANGED <<scan, cmds>>
    BY <1>1, HandlerNoScan
  <2>2. \A c \in Controllers : owe'[c] = owe[c]
    BY <1>1, <1>a, <1>b, HandlerDebt
  <2>3. QED
    BY <1>a, <2>1, <2>2 DEF NoCommand
<1>2. CASE PusherStep \/ Tick \/ UNCHANGED vars
  <2>1. \A c \in Controllers : owe'[c] = owe[c]
    BY <1>2, <1>a, <1>b, PusherOwn
  <2>2. UNCHANGED <<scan, cmds>>
    BY <1>2 DEF PusherStep, PusherTick, PusherVisit, PusherTest, DeleteOwed, Tick, vars, ctrlVars
  <2>3. QED
    BY <1>a, <2>1, <2>2 DEF NoCommand
<1>3. ASSUME NEW c \in Controllers, Command(c) \/ ControllerStep(c) PROVE FALSE
  <2>1. scan[c] = NoScan /\ owe[c] = NoDebt /\ cmds = 0
    BY <1>a DEF NoCommand
  <2>2. QED
    BY <1>3, <2>1 DEF Command, CloseAllBegin, CloseOneBegin, RangeBegin, ControllerStep, CloseAllMark,
       CloseAllOver, CloseOneSelf, RangeOver, MarkStatus, MarkEnd, DeleteOwed, CloseAllVisit,
       CloseOneVisit, RangeVisits, NoScan, NoDebt
<1>4. QED
  BY <1>1, <1>2, <1>3 DEF Next

LEMMA InitHInv == Init => HInv
<1> SUFFICES ASSUME Init PROVE HInv
    OBVIOUS
<1>1. IInv
  BY InitIInv
<1>2. \A h \in Handlers : pc[h] \notin TopServed \cup ChildServed \cup {"store", "childStore"}
  BY DEF Init, TopServed, ChildServed
<1>3. \A s \in Session : ~Active(s)
  BY DEF Init, Active, Present
<1>4. NoCommand /\ DeletesDead /\ MarksApart
  BY ConstAssumption DEF Init, NoCommand, DeletesDead, MarksApart, NoDebt, Threads
<1>5. NumbersApart /\ NotYetStored
  <2>1. \A s \in Session : Unmarked(s)
    BY DEF Init, Unmarked, Absent
  <2>2. QED
    BY <1>2, <2>1, ConstAssumption DEF Init, NumbersApart, NotYetStored
<1>6. QED
  BY <1>1, <1>2, <1>3, <1>4, <1>5 DEF HInv, ServedIsActive, ParentKnown

LEMMA NextHInv ==
  ASSUME MaxCmds = 0, HInv, [Next]_vars
  PROVE  HInv'
<1>1. IInv'
  BY NextIInv DEF HInv
<1>2. NoCommand'
  BY CommandsNone
<1>3. /\ NumbersApart' /\ NotYetStored' /\ ServedIsActive' /\ MarksApart'
      /\ ParentKnown' /\ DeletesDead'
  BY HandlerHInv, OtherHInv DEF Next
<1>4. QED
  BY <1>1, <1>2, <1>3 DEF HInv

(* Without a manual close, whatever the other connections and the collector  *)
(* do: a child is never shown under a tunnel that is not in the registry.    *)
THEOREM ParentsAreRegistered ==
  ASSUME MaxCmds = 0
  PROVE  Spec => []ParentPresent
<1>1. HInv /\ [Next]_vars => HInv'
  BY NextHInv
<1>2. HInv => ParentPresent
  <2> SUFFICES ASSUME HInv, NEW s \in Session, Active(s), Rec(s).parent # 0
               PROVE  Present(Rec(s).parent)
      BY DEF ParentPresent
  <2>1. PICK i \in Handlers : i = Rec(s).owner /\ OwnedBy(i, s)
    BY DEF HInv, IInv, ActiveOwned
  <2>2. Rec(s).parent \in {s, tun[i]}
    BY <2>1 DEF HInv, ParentKnown
  <2>3. CASE Rec(s).parent = s
    BY <2>3 DEF Active
  <2>4. CASE Rec(s).parent = tun[i]
    <3>1. CASE pc[i] \in TopServed
      BY <2>4, <3>1 DEF HInv, ServedIsActive, Active
    <3>2. CASE pc[i] \notin TopServed
      <4>1. tun[i] = s
        BY <2>1, <3>2 DEF HInv, IInv, MarksOwn, OwnedBy, Marking, ServedAs, ChildServed, TopServed
      <4>2. QED
        BY <2>4, <4>1 DEF Active
    <3>3. QED
      BY <3>1, <3>2
  <2>5. QED
    BY <2>2, <2>3, <2>4
<1>3. QED
  BY <1>1, <1>2, InitHInv, PTL DEF Spec

-----------------------------------------------------------------------------
(* What the registry holds of a session, and the ways it can change.  The    *)
(* only step that stores a record over an old one is the second Store of a   *)
(* CONNECT tunnel; all others store under a number nobody has used.          *)

(* The session number handler h has taken but not yet stored, 0 if none. *)
Pending(h) ==
  IF pc[h] = "store" THEN tun[h] ELSE IF pc[h] = "childStore" THEN cur[h] ELSE 0

Born(s) == heap[<<s, 1>>].status # "none"
Unborn(s) == table[s] = 0 /\ ~Born(s)
Joined(s) == heap[<<s, 2>>].status # "none"

(* The session of a connection whose strategy is the tunnel. *)
Tunneled(s) == \E h \in Handlers : kind[h] = "tunnel" /\ tun[h] = s

(* What is in the table has been stored; the second record of a session      *)
(* comes after the first, for good, and is its own parent.                   *)
Stored ==
  \A s \in Session :
    /\ table[s] # 0 => heap[<<s, table[s]>>].status \in {"Active", "Closed"}
    /\ ~heap[<<s, 1>>].back
    /\ Joined(s) => Born(s) /\ heap[<<s, 2>>].parent = s /\ table[s] # 1

(* What a goroutine has loaded, to mark it or to test it, has been stored.   *)
LoadedIsStored ==
  \A t \in Threads : owe[t].op \in {"mark", "test"} =>
    heap[<<owe[t].s, owe[t].g>>].status # "none"

(* A first record that is Closed, or about to be, under a second one: the    *)
(* second Store has noted it.                                                *)
BackNoted ==
  \A s \in Session :
    /\ Joined(s)
    /\ heap[<<s, 1>>].status = "Closed" \/ \E t \in Threads : Marking(t, s, 1)
    => heap[<<s, 2>>].back

(* Session numbers are handed out once: what is pending or not yet handed    *)
(* out has no record, and no two handlers hold the same pending number.      *)
FreshSessions ==
  /\ \A s \in Session : s > sess => Unborn(s)
  /\ \A h \in Handlers : Pending(h) # 0 => Pending(h) <= sess /\ Unborn(Pending(h))
  /\ \A h, i \in Handlers : h # i /\ Pending(h) # 0 => Pending(h) # Pending(i)

(* A CONNECT handler has stored its session once before it is a tunnel, and  *)
(* stores it again once.                                                     *)
BeforeJoin == {"strategy", "dial", "write200", "storeRelay"}
TunnelPlaces == {"dial", "write200", "storeRelay", "relay", "markFirst", "closeLast",
                 "closeFirst", "markLast", "done"}

Tunnels ==
  \A h \in Handlers :
    /\ kind[h] = "tunnel" => pc[h] \in TunnelPlaces /\ tun[h] \in Session
    /\ pc[h] \in {"dial", "write200", "storeRelay", "relay"} => kind[h] = "tunnel"
    /\ pc[h] \in BeforeJoin => Born(tun[h]) /\ ~Joined(tun[h])

LInv == IInv /\ NumbersApart /\ Stored /\ FreshSessions /\ Tunnels
             /\ LoadedIsStored /\ BackNoted

(* A record that may be marked meanwhile, and one a reader sees as before,   *)
(* but for its end time.                                                     *)
Kept(s, g) == /\ heap'[<<s, g>>].status = "none" <=> heap[<<s, g>>].status = "none"
              /\ heap'[<<s, g>>].parent = heap[<<s, g>>].parent
              /\ heap'[<<s, g>>].back = heap[<<s, g>>].back

Alike(s, g) == Kept(s, g) /\ heap'[<<s, g>>].status = heap[<<s, g>>].status

(* What a step can make of a session.  A record that is not stored may be    *)
(* marked by whoever has loaded it before: no reader sees that.              *)
Same(s) == /\ table'[s] = table[s] /\ Kept(s, 1) /\ Kept(s, 2)
           /\ table[s] # 0 => Alike(s, table[s])

Opens(s) ==
  /\ Unborn(s) /\ table'[s] = 1 /\ Alike(s, 2)
  /\ heap'[<<s, 1>>].status = "Active" /\ ~heap'[<<s, 1>>].back

Marks(s) ==
  /\ table[s] # 0 /\ table'[s] = table[s]
  /\ heap'[<<s, table[s]>>].status = "Closed"
  /\ \A g \in 1 .. 2 : Kept(s, g) /\ (g # table[s] => Alike(s, g))

Removes(s) == table[s] # 0 /\ table'[s] = 0 /\ Alike(s, 1) /\ Alike(s, 2)

Joins(s) ==
  /\ Born(s) /\ ~Joined(s) /\ Tunneled(s)
  /\ table'[s] = 2 /\ Alike(s, 1)
  /\ heap'[<<s, 2>>].status = "Active" /\ heap'[<<s, 2>>].parent = s
  /\ heap'[<<s, 2>>].back <=> ~Active(s) \/ \E t \in Threads : Marking(t, s, 1)

Changes(s) == Same(s) \/ Opens(s) \/ Marks(s) \/ Removes(s) \/ Joins(s)

LEMMA QuietChange ==
  ASSUME UNCHANGED <<table, heap>>
  PROVE  \A q \in Session : Same(q)
BY DEF Same, Alike, Kept

LEMMA AlikeSame ==
  ASSUME TypeOK, NEW q \in Session, table'[q] = table[q], \A k \in 1 .. 2 : Alike(q, k)
  PROVE  Same(q)
<1>1. table[q] # 0 => table[q] \in 1 .. 2
  BY DEF TypeOK
<1>2. QED
  BY <1>1 DEF Same, Alike

LEMMA StoreOpens ==
  ASSUME TypeOK, NEW h \in Handlers, NEW s \in Session, NEW parent, NEW onClose,
         Unborn(s), Store(h, s, 1, parent, onClose)
  PROVE  Opens(s) /\ \A q \in Session \ {s} : Same(q)
<1>a. (1 = 2 /\ (~Active(s) \/ \E t \in Threads : Marking(t, s, 1))) = FALSE
  OBVIOUS
<1>b. heap' = [heap EXCEPT ![<<s, 1>>] =
                [status |-> "Active", end |-> ZeroTime, parent |-> parent,
                 onClose |-> onClose, owner |-> h, back |-> FALSE]]
  BY <1>a, Zenon DEF Store
<1>1. heap'[<<s, 1>>] = [status |-> "Active", end |-> ZeroTime, parent |-> parent,
                         onClose |-> onClose, owner |-> h, back |-> FALSE]
  BY <1>b DEF TypeOK
<1>2. table'[s] = 1 /\ heap'[<<s, 2>>] = heap[<<s, 2>>]
  BY DEF TypeOK, Store
<1>3. ~heap'[<<s, 1>>].back /\ heap'[<<s, 1>>].status = "Active"
  BY <1>1
<1>4. \A q \in Session \ {s} : /\ table'[q] = table[q] /\ heap'[<<q, 1>>] = heap[<<q, 1>>]
                               /\ heap'[<<q, 2>>] = heap[<<q, 2>>]
  BY DEF TypeOK, Store
<1>5. QED
  <2>1. ASSUME NEW q \in Session \ {s} PROVE Same(q)
    <3>1. table'[q] = table[q] /\ \A k \in 1 .. 2 : heap'[<<q, k>>] = heap[<<q, k>>]
      BY <1>4
    <3>2. \A k \in 1 .. 2 : Alike(q, k)
      BY <3>1 DEF Alike, Kept
    <3>3. QED
      BY <3>1, <3>2, AlikeSame
  <2>2. Opens(s)
    BY <1>2, <1>3 DEF Opens, Alike, Kept
  <2>3. QED
    BY <2>1, <2>2

LEMMA StoreJoins ==
  ASSUME TypeOK, NEW h \in Handlers, NEW s \in Session, NEW onClose,
         Born(s), ~Joined(s), Tunneled(s), Store(h, s, 2, s, onClose)
  PROVE  Joins(s) /\ \A q \in Session \ {s} : Same(q)
<1> DEFINE Late == ~Active(s) \/ \E t \in Threads : Marking(t, s, 1)
<1>a. PICK b \in BOOLEAN : b = Late
  OBVIOUS
<1>b. (2 = 2 /\ Late) = b
  BY <1>a, Zenon
<1>c. heap' = [heap EXCEPT ![<<s, 2>>] =
                [status |-> "Active", end |-> ZeroTime, parent |-> s,
                 onClose |-> onClose, owner |-> h, back |-> b]]
  BY <1>b, Zenon DEF Store
<1>1. heap'[<<s, 2>>] = [status |-> "Active", end |-> ZeroTime, parent |-> s,
                         onClose |-> onClose, owner |-> h, back |-> b]
  BY <1>c DEF TypeOK
<1>2. table'[s] = 2 /\ heap'[<<s, 1>>] = heap[<<s, 1>>]
  BY DEF TypeOK, Store
<1>3. /\ heap'[<<s, 2>>].back <=> Late
      /\ heap'[<<s, 2>>].status = "Active" /\ heap'[<<s, 2>>].parent = s
  <2>1. heap'[<<s, 2>>].back = b
    BY <1>1
  <2>2. heap'[<<s, 2>>].back <=> Late
    BY <1>a, <2>1, Zenon
  <2>3. QED
    BY <1>1, <2>2
<1>4. \A q \in Session \ {s} : /\ table'[q] = table[q] /\ heap'[<<q, 1>>] = heap[<<q, 1>>]
                               /\ heap'[<<q, 2>>] = heap[<<q, 2>>]
  BY DEF TypeOK, Store
<1>5. QED
  <2>1. ASSUME NEW q \in Session \ {s} PROVE Same(q)
    <3>1. table'[q] = table[q] /\ \A k \in 1 .. 2 : heap'[<<q, k>>] = heap[<<q, k>>]
      BY <1>4
    <3>2. \A k \in 1 .. 2 : Alike(q, k)
      BY <3>1 DEF Alike, Kept
    <3>3. QED
      BY <3>1, <3>2, AlikeSame
  <2>2. Alike(s, 1)
    BY <1>2 DEF Alike, Kept
  <2>3. Joins(s)
    BY <1>2, <1>3, <2>2, Zenon DEF Joins
  <2>4. QED
    BY <2>1, <2>3

LEMMA MarkMarks ==
  ASSUME TypeOK, LoadedIsStored, NEW t \in Threads, MarkStatus(t)
  PROVE  \E s \in Session : (Same(s) \/ Marks(s)) /\ \A q \in Session \ {s} : Same(q)
<1>1. PICK s \in Session, g \in 1 .. 2 : s = owe[t].s /\ g = owe[t].g
  BY DEF TypeOK, MarkStatus, Debt, NoDebt
<1>2. table' = table /\ heap' = [heap EXCEPT ![<<s, g>>].status = "Closed"]
  BY <1>1 DEF MarkStatus
<1>3. \A q \in Session, k \in 1 .. 2 :
        <<q, k>> # <<s, g>> => heap'[<<q, k>>] = heap[<<q, k>>]
  BY <1>2 DEF TypeOK
<1>4. /\ heap'[<<s, g>>].status = "Closed" /\ heap[<<s, g>>].status # "none"
      /\ heap'[<<s, g>>].parent = heap[<<s, g>>].parent
      /\ heap'[<<s, g>>].back = heap[<<s, g>>].back
  <2>1. heap[<<s, g>>] \in Record
    BY DEF TypeOK
  <2>2. heap'[<<s, g>>] = [heap[<<s, g>>] EXCEPT !.status = "Closed"]
    BY <1>2 DEF TypeOK
  <2>3. heap[<<s, g>>].status # "none"
    BY <1>1 DEF MarkStatus, LoadedIsStored
  <2>4. QED
    BY <2>1, <2>2, <2>3 DEF Record
<1>5. \A k \in 1 .. 2 : Kept(s, k) /\ (k # g => Alike(s, k))
  BY <1>3, <1>4 DEF Alike, Kept
<1>6. \A q \in Session \ {s} : Same(q)
  <2> SUFFICES ASSUME NEW q \in Session \ {s} PROVE Same(q)
      OBVIOUS
  <2>1. \A k \in 1 .. 2 : Alike(q, k) /\ Kept(q, k)
    BY <1>3 DEF Alike, Kept
  <2>2. table[q] # 0 => table[q] \in 1 .. 2
    BY DEF TypeOK
  <2>3. QED
    BY <1>2, <2>1, <2>2 DEF Same
<1>7. CASE table[s] = g
  BY <1>2, <1>4, <1>5, <1>6, <1>7 DEF Marks
<1>8. CASE table[s] # g
  <2>1. table[s] # 0 => table[s] \in 1 .. 2
    BY DEF TypeOK
  <2>2. Same(s)
    BY <1>2, <1>5, <1>8, <2>1 DEF Same
  <2>3. QED
    BY <1>6, <2>2
<1>9. QED
  BY <1>7, <1>8

LEMMA EndKeeps ==
  ASSUME TypeOK, NEW t \in Threads, MarkEnd(t)
  PROVE  \A q \in Session : Same(q) /\ \A g \in 1 .. 2 : Alike(q, g)
<1>1. owe[t].s \in Session /\ owe[t].g \in 1 .. 2
  BY DEF TypeOK, MarkEnd, Debt, NoDebt
<1>2. ASSUME NEW q \in Session, NEW g \in 1 .. 2
      PROVE  Alike(q, g)
  <2>1. heap[<<q, g>>] \in Record
    BY DEF TypeOK
  <2>2. CASE <<q, g>> = <<owe[t].s, owe[t].g>>
    <3>1. heap'[<<q, g>>] = [heap[<<q, g>>] EXCEPT !.end = now]
      BY <1>1, <2>2 DEF TypeOK, MarkEnd
    <3>2. QED
      BY <2>1, <3>1 DEF Record, Alike, Kept
  <2>3. CASE <<q, g>> # <<owe[t].s, owe[t].g>>
    <3>1. heap'[<<q, g>>] = heap[<<q, g>>]
      BY <1>1, <2>3 DEF TypeOK, MarkEnd
    <3>2. QED
      BY <3>1 DEF Alike, Kept
  <2>4. QED
    BY <2>2, <2>3
<1>3. table' = table
  BY DEF MarkEnd
<1>4. QED
  BY <1>2, <1>3, AlikeSame

LEMMA DeleteRemoves ==
  ASSUME TypeOK, NEW t \in Threads, DeleteOwed(t)
  PROVE  /\ owe[t].s \in Session /\ table'[owe[t].s] = 0
         /\ Same(owe[t].s) \/ Removes(owe[t].s)
         /\ \A q \in Session \ {owe[t].s} : Same(q)
<1>1. owe[t].s \in Session
  BY DEF TypeOK, DeleteOwed, Debt, NoDebt
<1>2. table' = [table EXCEPT ![owe[t].s] = 0] /\ heap' = heap
  BY DEF DeleteOwed
<1>3. \A q \in Session, k \in 1 .. 2 : Alike(q, k) /\ Kept(q, k)
  BY <1>2 DEF Alike, Kept
<1>4. QED
  BY <1>1, <1>2, <1>3 DEF TypeOK, Same, Removes

LEMMA ChangesApart ==
  ASSUME TypeOK, NEW s \in Session
  PROVE  /\ Opens(s) => ~Same(s) /\ ~Marks(s) /\ ~Removes(s) /\ ~Joins(s)
         /\ Joins(s) => ~Same(s) /\ ~Marks(s) /\ ~Removes(s)
<1>1. Opens(s) => ~Same(s) /\ ~Marks(s) /\ ~Removes(s) /\ ~Joins(s)
  BY DEF Opens, Same, Marks, Removes, Joins, Unborn
<1>2. Joins(s) => ~Same(s) /\ ~Removes(s)
  BY DEF Same, Removes, Joins, Joined, Alike, Kept
<1>3. ASSUME Joins(s), Marks(s) PROVE FALSE
  <2>1. table[s] = 2
    BY <1>3 DEF Joins, Marks
  <2>2. QED
    BY <1>3, <2>1 DEF Joins, Marks
<1>4. QED
  BY <1>1, <1>2, <1>3

LEMMA StoredKept ==
  ASSUME TypeOK, Stored, \A s \in Session : Changes(s)
  PROVE  Stored'
<1> SUFFICES ASSUME NEW s \in Session
             PROVE  /\ table'[s] # 0 => heap'[<<s, table'[s]>>].status \in {"Active", "Closed"}
                    /\ ~heap'[<<s, 1>>].back
                    /\ Joined(s)' => /\ Born(s)' /\ heap'[<<s, 2>>].parent = s
                                     /\ table'[s] # 1
    BY DEF Stored
<1>1. table[s] \in {0, 1, 2}
  BY DEF TypeOK
<1>2. /\ table[s] # 0 => heap[<<s, table[s]>>].status \in {"Active", "Closed"}
      /\ ~heap[<<s, 1>>].back
      /\ Joined(s) => Born(s) /\ heap[<<s, 2>>].parent = s /\ table[s] # 1
  BY DEF Stored
<1>3. CASE Same(s) \/ Removes(s)
  BY <1>1, <1>2, <1>3 DEF Same, Removes, Alike, Kept, Joined, Born
<1>4. CASE Opens(s)
  BY <1>2, <1>4 DEF Opens, Alike, Kept, Joined, Born, Unborn
<1>5. CASE Marks(s)
  <2>1. CASE table[s] = 1
    BY <1>2, <1>5, <2>1 DEF Marks, Alike, Kept, Joined, Born
  <2>2. CASE table[s] = 2
    BY <1>2, <1>5, <2>2 DEF Marks, Alike, Kept, Joined, Born
  <2>3. QED
    BY <1>1, <1>5, <2>1, <2>2 DEF Marks
<1>6. CASE Joins(s)
  BY <1>2, <1>6 DEF Joins, Alike, Kept, Joined, Born
<1>7. QED
  BY <1>3, <1>4, <1>5, <1>6 DEF Changes

(* A record once stored stays a record; only Joins makes a second one.       *)
LEMMA BornKept ==
  ASSUME TypeOK, Stored, NEW s \in Session, Changes(s)
  PROVE  /\ Born(s) => Born(s)' /\ heap'[<<s, 1>>].parent = heap[<<s, 1>>].parent
         /\ Unborn(s) => Unborn(s)' \/ Opens(s)
         /\ Joined(s)' => Joined(s) \/ Joins(s)
         /\ Joined(s) \/ Joins(s) => Joined(s)'
<1>1. table[s] \in {0, 1, 2}
  BY DEF TypeOK
<1>2. CASE Same(s) \/ Removes(s)
  BY <1>2 DEF Same, Removes, Alike, Kept, Joined, Joins, Born, Unborn
<1>3. CASE Opens(s)
  BY <1>3 DEF Opens, Alike, Kept, Joined, Joins, Born, Unborn
<1>4. CASE Marks(s)
  <2>1. CASE table[s] = 1
    BY <1>4, <2>1 DEF Marks, Alike, Kept, Joined, Joins, Born, Unborn
  <2>2. CASE table[s] = 2
    BY <1>4, <2>2 DEF Marks, Alike, Kept, Joined, Joins, Born, Unborn, Stored
  <2>3. QED
    BY <1>1, <1>4, <2>1, <2>2 DEF Marks
<1>5. CASE Joins(s)
  BY <1>5 DEF Joins, Alike, Kept, Joined, Born, Unborn
<1>6. QED
  BY <1>2, <1>3, <1>4, <1>5 DEF Changes

(* A session that is not Active is not Active again, unless it came back.    *)
Over(s) == Born(s) /\ (Active(s) => Back(s))

LEMMA OverStays ==
  ASSUME TypeOK, Stored, NEW s \in Session, Changes(s), Over(s)
  PROVE  Over(s)'
<1>1. table[s] \in {0, 1, 2}
  BY DEF TypeOK
<1>2. Born(s)'
  BY BornKept DEF Over
<1>a. /\ table[s] # 0 => heap[<<s, table[s]>>].status \in {"Active", "Closed"}
      /\ ~heap[<<s, 1>>].back
  BY DEF Stored
<1>3. CASE Same(s) \/ Removes(s)
  BY <1>1, <1>2, <1>3 DEF Same, Removes, Alike, Kept, Over, Active, Back, Present, Rec
<1>4. CASE Opens(s)
  BY <1>4 DEF Opens, Unborn, Over
<1>5. CASE Marks(s)
  BY <1>1, <1>2, <1>5 DEF Marks, Over, Active, Present, Rec
<1>6. CASE Joins(s)
  <2>1. ~Active(s)
    <3>1. CASE table[s] = 1
      BY <3>1 DEF Over, Back, Rec, Stored
    <3>2. CASE table[s] = 2
      <4>1. heap[<<s, table[s]>>].status \in {"Active", "Closed"}
        BY <3>2, <1>a
      <4>2. QED
        BY <1>6, <3>2, <4>1 DEF Joins, Joined
    <3>3. QED
      BY <1>1, <3>1, <3>2 DEF Active, Present
  <2>2. Back(s)'
    BY <1>6, <2>1 DEF Joins, Back, Present, Rec
  <2>3. QED
    BY <1>2, <2>2 DEF Over
<1>7. QED
  BY <1>3, <1>4, <1>5, <1>6 DEF Changes

-----------------------------------------------------------------------------
(* What the steps of a handler, and of the others, make of the sessions.     *)

AtMostOne == \A q, s \in Session : q # s => Same(q) \/ Same(s)

Moves(h) ==
  /\ AtMostOne
  /\ \A s \in Session :
       \/ Same(s) \/ Marks(s)
       \/ Opens(s) /\ s = Pending(h) /\ Pending(h)' = 0
       \/ Joins(s) /\ s = tun[h] /\ pc[h] = "storeRelay" /\ pc'[h] = "relay"
  /\ StoreTop(h) => Opens(tun[h])

LEMMA HandlerMoves ==
  ASSUME LInv, NEW h \in Handlers, Arrive(h) \/ HandlerStep(h)
  PROVE  Moves(h)
<1> USE ConstAssumption DEF LInv, IInv
<1>a. h \in Threads
  BY DEF Threads
<1>b. ASSUME UNCHANGED <<table, heap>> \/ \A q \in Session : Same(q), ~StoreTop(h)
      PROVE  Moves(h)
  BY <1>b, QuietChange DEF Moves, AtMostOne
<1>1. CASE Arrive(h)
  <2>1. UNCHANGED <<table, heap>> /\ pc[h] = "idle"
    BY <1>1 DEF Arrive, MyHttpHandle, MyHttpHandleWithEngine, MyHttpsHandle, Begin,
       TurnAway, regVars, At
  <2>2. QED
    BY <1>b, <2>1 DEF StoreTop, At
<1>2. CASE \/ Strategy(h) \/ Handshake(h) \/ Dial(h) \/ Write200(h) \/ RelayEnd(h)
           \/ ReadRequest(h) \/ ReadFails(h) \/ ProcessRequest(h) \/ RoundTrip(h)
           \/ RespondPlain(h) \/ Respond(h) \/ CloseLast(h) \/ CloseFirst(h)
  <2>1. UNCHANGED <<table, heap>>
    BY <1>2 DEF Strategy, Handshake, Dial, Write200, RelayEnd, ReadRequest, ReadFails, LoopExit,
       ProcessRequest, RoundTrip, RespondPlain, Respond, CloseLast, CloseFirst, regVars
  <2>2. pc[h] # "store"
    BY <1>2 DEF Strategy, Handshake, Dial, Write200, RelayEnd, ReadRequest, ReadFails,
       ProcessRequest, RoundTrip, RespondPlain, Respond, CloseLast, CloseFirst, At
  <2>3. QED
    BY <1>b, <2>1, <2>2 DEF StoreTop, At
<1>3. CASE MarkEnd(h)
  <2>1. ~StoreTop(h)
    BY <1>3 DEF MarkEnd, StoreTop, At, NoDebt
  <2>2. QED
    BY <1>a, <1>b, <1>3, <2>1, EndKeeps
<1>4. CASE StoreTop(h) \/ StoreChild(h)
  <2>1. PICK s \in Session : s = Pending(h) /\ Unborn(s)
    <3>1. Pending(h) \in Session
      BY <1>4 DEF StoreTop, StoreChild, At, Pending, SessionsKnown
    <3>2. QED
      BY <3>1 DEF FreshSessions, Session
  <2>2. \E parent, onClose : Store(h, s, 1, parent, onClose)
    BY <1>4, <2>1 DEF StoreTop, StoreChild, At, Pending
  <2>3. Opens(s) /\ \A q \in Session \ {s} : Same(q)
    BY <2>1, <2>2, StoreOpens
  <2>4. Pending(h)' = 0
    BY <1>4 DEF StoreTop, StoreChild, Pending, Goto, TypeOK
  <2>5. StoreTop(h) => s = tun[h]
    BY <2>1 DEF StoreTop, At, Pending
  <2>6. QED
    BY <2>1, <2>3, <2>4, <2>5 DEF Moves, AtMostOne
<1>5. CASE StoreRelay(h)
  <2>1. PICK s \in Session : s = tun[h]
    BY <1>5 DEF SessionsKnown, TopServed, StoreRelay, At
  <2>2. Born(s) /\ ~Joined(s) /\ Tunneled(s)
    BY <1>5, <2>1 DEF Tunnels, BeforeJoin, StoreRelay, At, Tunneled
  <2>3. Store(h, s, 2, s, "close")
    BY <1>5, <2>1 DEF StoreRelay
  <2>4. Joins(s) /\ \A q \in Session \ {s} : Same(q)
    BY <2>2, <2>3, StoreJoins
  <2>5. pc[h] = "storeRelay" /\ pc'[h] = "relay" /\ ~StoreTop(h)
    BY <1>5 DEF StoreRelay, StoreTop, At, Goto, TypeOK
  <2>6. QED
    BY <2>1, <2>4, <2>5 DEF Moves, AtMostOne
<1>6. CASE RespondUpgrade(h) \/ ChildMark(h) \/ MarkFirst(h) \/ MarkLast(h)
  <2>1. UNCHANGED <<table, heap>> /\ ~StoreTop(h)
    BY <1>6 DEF RespondUpgrade, ChildMark, MarkFirst, MarkLast, MarkConnectionClosed, At, StoreTop
  <2>2. QED
    BY <1>b, <2>1
<1>7. CASE MarkStatus(h)
  <2>1. PICK s \in Session : (Same(s) \/ Marks(s)) /\ \A q \in Session \ {s} : Same(q)
    BY <1>a, <1>7, MarkMarks
  <2>2. ~StoreTop(h)
    BY <1>7 DEF MarkStatus, StoreTop, At, NoDebt
  <2>3. QED
    BY <2>1, <2>2 DEF Moves, AtMostOne
<1>8. QED
  BY <1>1, <1>2, <1>3, <1>4, <1>5, <1>6, <1>7 DEF HandlerStep

LEMMA OthersMove ==
  ASSUME TypeOK, LoadedIsStored,
         \/ PusherStep \/ Tick \/ UNCHANGED vars
         \/ \E c \in Controllers : Command(c) \/ ControllerStep(c)
  PROVE  AtMostOne /\ \A s \in Session : Same(s) \/ Marks(s) \/ Removes(s)
<1>1. CASE \E t \in Threads : MarkEnd(t)
  BY <1>1, EndKeeps DEF AtMostOne
<1>2. CASE \E t \in Threads : DeleteOwed(t)
  BY <1>2, DeleteRemoves DEF AtMostOne
<1>3. CASE \E t \in Threads : MarkStatus(t)
  BY <1>3, MarkMarks DEF AtMostOne
<1>4. CASE UNCHANGED <<table, heap>>
  BY <1>4, QuietChange DEF AtMostOne
<1>5. CASE PusherStep
  BY <1>2, <1>4, <1>5 DEF PusherStep, PusherTick, PusherVisit, PusherTest, Threads, regVars
<1>6. CASE Tick \/ UNCHANGED vars
  BY <1>4, <1>6 DEF Tick, vars, regVars
<1>7. CASE \E c \in Controllers : Command(c)
  BY <1>4, <1>7 DEF Command, CloseAllBegin, CloseOneBegin, RangeBegin, regVars
<1>8. CASE \E c \in Controllers : ControllerStep(c)
  BY <1>1, <1>2, <1>3, <1>4, <1>8 DEF ControllerStep, CloseAllMark, MarkConnectionClosed,
     CloseAllOver, CloseOneSelf, CloseAllVisit, CloseOneVisit, regVars, Threads
<1>9. QED
  BY <1>5, <1>6, <1>7, <1>8

-----------------------------------------------------------------------------
(* Loads and marks: a record that is loaded is the stored one, and a record  *)
(* is Closed only by a goroutine that has loaded it.                         *)

Loads ==
  \A t \in Threads : owe'[t].op \in {"mark", "test"} =>
    \/ owe'[t] = owe[t]
    \/ /\ UNCHANGED <<table, heap>>
       /\ owe'[t].s \in Session /\ owe'[t].g # 0 /\ table[owe'[t].s] = owe'[t].g

ClosedByMark ==
  \A s \in Session : heap'[<<s, 1>>].status = "Closed" =>
    heap[<<s, 1>>].status = "Closed" \/ \E t \in Threads : Marking(t, s, 1)

LEMMA LoadLoads ==
  ASSUME TypeOK, NEW t \in Threads, NEW s \in Session, MarkConnectionClosed(t, s)
  PROVE  Loads /\ ClosedByMark
<1>1. UNCHANGED <<table, heap>>
  BY DEF MarkConnectionClosed
<1>2. Loads
  BY DEF MarkConnectionClosed, Loads, TypeOK, Present
<1>3. QED
  BY <1>1, <1>2 DEF ClosedByMark

LEMMA StatusByMark ==
  ASSUME TypeOK, NEW t \in Threads, MarkStatus(t)
  PROVE  Loads /\ ClosedByMark
<1>1. Loads
  BY DEF MarkStatus, Loads, TypeOK
<1>2. PICK s \in Session, g \in 1 .. 2 : s = owe[t].s /\ g = owe[t].g
  BY DEF TypeOK, MarkStatus, Debt, NoDebt
<1>3. owe[t] = [op |-> "mark", s |-> s, g |-> g]
  BY <1>2 DEF TypeOK, MarkStatus, Debt, NoDebt
<1>4. \A q \in Session : <<q, 1>> # <<s, g>> => heap'[<<q, 1>>] = heap[<<q, 1>>]
  BY <1>2 DEF TypeOK, MarkStatus
<1>5. QED
  BY <1>1, <1>3, <1>4 DEF ClosedByMark, Marking

LEMMA EndLoads ==
  ASSUME TypeOK, NEW t \in Threads, MarkEnd(t) \/ DeleteOwed(t)
  PROVE  Loads /\ ClosedByMark
<1>1. Loads
  BY DEF MarkEnd, DeleteOwed, Loads, TypeOK, NoDebt
<1>2. ClosedByMark
  <2>1. CASE MarkEnd(t)
    <3>1. \A q \in Session : Alike(q, 1)
      BY <2>1, EndKeeps
    <3>2. QED
      BY <3>1 DEF ClosedByMark, Alike
  <2>2. CASE DeleteOwed(t)
    BY <2>2 DEF DeleteOwed, ClosedByMark
  <2>3. QED
    BY <2>1, <2>2
<1>3. QED
  BY <1>1, <1>2

LEMMA QuietLoads ==
  ASSUME TypeOK, UNCHANGED heap,
         \A t \in Threads : owe'[t] = owe[t] \/ owe'[t].op \in {"none", "del"}
  PROVE  Loads /\ ClosedByMark
BY DEF Loads, ClosedByMark

LEMMA HandlerLoads ==
  ASSUME TypeOK, SessionsKnown, NEW h \in Handlers, Arrive(h) \/ HandlerStep(h)
  PROVE  Loads /\ ClosedByMark
<1>a. h \in Threads
  BY DEF Threads
<1>1. CASE Arrive(h)
  BY <1>1, QuietLoads DEF Arrive, MyHttpHandle, MyHttpHandleWithEngine, MyHttpsHandle, Begin,
     TurnAway, regVars
<1>2. CASE \/ Strategy(h) \/ Handshake(h) \/ Dial(h) \/ Write200(h) \/ RelayEnd(h)
           \/ ReadRequest(h) \/ ReadFails(h) \/ ProcessRequest(h) \/ RoundTrip(h)
           \/ RespondPlain(h) \/ Respond(h) \/ CloseLast(h) \/ CloseFirst(h)
  <2>1. UNCHANGED <<heap, owe>>
    BY <1>2 DEF Strategy, Handshake, Dial, Write200, RelayEnd, ReadRequest, ReadFails, LoopExit,
       ProcessRequest, RoundTrip, RespondPlain, Respond, CloseLast, CloseFirst, regVars
  <2>2. QED
    BY <2>1, QuietLoads
<1>3. CASE StoreTop(h) \/ StoreRelay(h) \/ StoreChild(h)
  <2>1. PICK s \in Session, g \in 1 .. 2 : \E parent, onClose : Store(h, s, g, parent, onClose)
    BY <1>3 DEF StoreTop, StoreRelay, StoreChild, At, SessionsKnown, TopServed
  <2>2. PICK parent, onClose : Store(h, s, g, parent, onClose)
    BY <2>1
  <2>3. owe' = owe /\ heap'[<<s, g>>].status = "Active"
    BY <2>2 DEF Store, TypeOK
  <2>4. \A q \in Session : <<q, 1>> # <<s, g>> => heap'[<<q, 1>>] = heap[<<q, 1>>]
    BY <2>2 DEF Store, TypeOK
  <2>5. QED
    BY <2>3, <2>4 DEF Loads, ClosedByMark
<1>4. CASE RespondUpgrade(h) \/ ChildMark(h) \/ MarkFirst(h) \/ MarkLast(h)
  <2>1. PICK s \in Session : MarkConnectionClosed(h, s)
    BY <1>4 DEF RespondUpgrade, ChildMark, MarkFirst, MarkLast, At, SessionsKnown,
       TopServed, ChildServed
  <2>2. QED
    BY <1>a, <2>1, LoadLoads
<1>5. CASE MarkStatus(h) \/ MarkEnd(h)
  BY <1>a, <1>5, StatusByMark, EndLoads
<1>6. QED
  BY <1>1, <1>2, <1>3, <1>4, <1>5 DEF HandlerStep

LEMMA OtherLoads ==
  ASSUME TypeOK, \/ PusherStep \/ Tick \/ UNCHANGED vars
                 \/ \E c \in Controllers : Command(c) \/ ControllerStep(c)
  PROVE  Loads /\ ClosedByMark
<1>a. Pusher \in Threads /\ \A c \in Controllers : c \in Threads
  BY DEF Threads
<1>1. CASE PusherTick \/ Tick \/ UNCHANGED vars
  BY <1>1, QuietLoads DEF PusherTick, Tick, vars, regVars
<1>2. CASE \E s \in Session : PusherVisit(s)
  BY <1>2 DEF PusherVisit, Present, TypeOK, Loads, ClosedByMark
<1>3. CASE PusherTest
  <2>1. UNCHANGED heap /\ \A t \in Threads : owe'[t] = owe[t] \/ owe'[t].op \in {"none", "del"}
    BY <1>3 DEF PusherTest, TypeOK, NoDebt
  <2>2. QED
    BY <2>1, QuietLoads
<1>4. CASE DeleteOwed(Pusher)
  BY <1>4, <1>a, EndLoads
<1>5. ASSUME NEW c \in Controllers, Command(c)
      PROVE  Loads /\ ClosedByMark
  BY <1>5, QuietLoads DEF Command, CloseAllBegin, CloseOneBegin, RangeBegin, regVars
<1>6. ASSUME NEW c \in Controllers, ControllerStep(c)
      PROVE  Loads /\ ClosedByMark
  <2>1. CASE MarkStatus(c) \/ MarkEnd(c) \/ DeleteOwed(c)
    BY <2>1, <1>a, StatusByMark, EndLoads
  <2>2. CASE CloseAllMark(c)
    <3>1. PICK s \in Session : s = scan[c].cur
      BY <2>2 DEF CloseAllMark, TypeOK, Scan, Session
    <3>2. QED
      BY <2>2, <3>1, <1>a, LoadLoads DEF CloseAllMark
  <2>3. CASE \/ CloseAllOver(c) \/ CloseOneSelf(c)
             \/ \E s \in Session : CloseAllVisit(c, s) \/ CloseOneVisit(c, s)
    <3>1. UNCHANGED heap /\ \A t \in Threads : owe'[t] = owe[t] \/ owe'[t].op \in {"none", "del"}
      BY <2>3 DEF CloseAllOver, CloseOneSelf, CloseAllVisit, CloseOneVisit, CloseAndRemove,
         regVars, TypeOK
    <3>2. QED
      BY <3>1, QuietLoads
  <2>4. QED
    BY <1>6, <2>1, <2>2, <2>3 DEF ControllerStep
<1>7. QED
  BY <1>1, <1>2, <1>3, <1>4, <1>5, <1>6 DEF PusherStep

LEMMA LoadedKept ==
  ASSUME TypeOK, TypeOK', Stored, LoadedIsStored, Loads, \A s \in Session : Changes(s)
  PROVE  LoadedIsStored'
<1> SUFFICES ASSUME NEW t \in Threads, owe'[t].op \in {"mark", "test"}
             PROVE  heap'[<<owe'[t].s, owe'[t].g>>].status # "none"
    BY DEF LoadedIsStored
<1>1. PICK s \in Session, g \in 1 .. 2 : s = owe'[t].s /\ g = owe'[t].g
  BY DEF TypeOK, Debt, NoDebt
<1>2. heap[<<s, g>>].status # "none"
  <2>1. CASE owe'[t] = owe[t]
    BY <1>1, <2>1 DEF LoadedIsStored
  <2>2. CASE table[s] = g /\ g # 0
    BY <2>2 DEF Stored
  <2>3. QED
    BY <1>1, <2>1, <2>2 DEF Loads
<1>3. heap'[<<s, g>>].status # "none"
  <2>1. CASE g = 1
    BY <1>2, <2>1, BornKept DEF Born
  <2>2. CASE g = 2
    BY <1>2, <2>2, BornKept DEF Joined
  <2>3. QED
    BY <2>1, <2>2
<1>4. QED
  BY <1>1, <1>3

LEMMA BackNotedKept ==
  ASSUME TypeOK, Stored, BackNoted, Loads, ClosedByMark, \A s \in Session : Changes(s)
  PROVE  BackNoted'
<1> SUFFICES ASSUME NEW s \in Session, Joined(s)',
                    \/ heap'[<<s, 1>>].status = "Closed"
                    \/ \E t \in Threads : Marking(t, s, 1)'
             PROVE  heap'[<<s, 2>>].back
    BY DEF BackNoted
<1>1. CASE Joins(s)
  <2>1. table[s] # 2
    BY <1>1 DEF Joins, Joined, Stored
  <2>2. table[s] \in {0, 1, 2} /\ heap'[<<s, 1>>].status = heap[<<s, 1>>].status
    BY <1>1 DEF TypeOK, Joins, Alike
  <2>3. heap[<<s, 1>>].status = "Closed" => ~Active(s)
    BY <2>1, <2>2 DEF Active, Present, Rec
  <2>4. ASSUME NEW t \in Threads, Marking(t, s, 1)' PROVE Marking(t, s, 1)
    <3>1. heap' # heap
      BY <1>1 DEF Joins, Joined
    <3>2. QED
      BY <2>4, <3>1 DEF Loads, Marking
  <2>5. QED
    BY <1>1, <2>2, <2>3, <2>4 DEF Joins
<1>2. CASE ~Joins(s)
  <2>1. Joined(s) /\ Born(s) /\ table[s] # 1
    BY <1>2, BornKept DEF Stored
  <2>2. heap'[<<s, 2>>].back = heap[<<s, 2>>].back
    <3>1. Kept(s, 2)
      <4>1. CASE Same(s) \/ Opens(s) \/ Removes(s)
        BY <4>1 DEF Same, Opens, Removes, Alike
      <4>2. CASE Marks(s)
        BY <4>2 DEF Marks
      <4>3. QED
        BY <1>2, <4>1, <4>2 DEF Changes
    <3>2. QED
      BY <3>1 DEF Kept
  <2>3. ASSUME NEW t \in Threads, Marking(t, s, 1)' PROVE Marking(t, s, 1)
    BY <2>1, <2>3 DEF Loads, Marking
  <2>4. heap[<<s, 1>>].status = "Closed" \/ \E t \in Threads : Marking(t, s, 1)
    BY <2>3 DEF ClosedByMark
  <2>5. QED
    BY <2>1, <2>2, <2>4 DEF BackNoted
<1>3. QED
  BY <1>1, <1>2

-----------------------------------------------------------------------------
(* FreshSessions: session numbers are taken and used in order. *)

LEMMA FreshStep ==
  ASSUME TypeOK, FreshSessions, NEW h \in Handlers, sess' \in {sess, sess + 1}, sess' <= MaxSess,
         \A i \in Handlers \ {h} : Pending(i)' = Pending(i),
         Pending(h)' \in {0, Pending(h)} \/ (sess' = sess + 1 /\ Pending(h)' = sess'),
         \A q \in Session : Unborn(q) => Unborn(q)' \/ (q = Pending(h) /\ Pending(h)' = 0)
  PROVE  FreshSessions'
<1> USE ConstAssumption
<1>1. sess \in Nat /\ sess' \in Nat /\ sess' >= sess
  BY DEF TypeOK
<1>2. \A i \in Handlers : Pending(i) \in 0 .. MaxSess
  BY DEF TypeOK, Pending
<1>3. Pending(h) <= sess
  BY <1>1, <1>2 DEF FreshSessions
<1>4. \A s \in Session : s > sess' => Unborn(s)'
  BY <1>1, <1>2, <1>3 DEF FreshSessions, Session
<1>5. \A i \in Handlers \ {h} :
        Pending(i)' # 0 => /\ Pending(i)' <= sess /\ Unborn(Pending(i))
                           /\ Pending(i)' # Pending(h) /\ Pending(i)' \in Session
  BY <1>2 DEF FreshSessions, Session
<1>6. \A i \in Handlers \ {h} : Pending(i)' # 0 => Pending(i)' <= sess' /\ Unborn(Pending(i))'
  <2> SUFFICES ASSUME NEW i \in Handlers \ {h}, Pending(i)' # 0
               PROVE  Pending(i)' <= sess' /\ Unborn(Pending(i))'
    OBVIOUS
  <2>1. PICK q \in Session : q = Pending(i) /\ q = Pending(i)'
    BY <1>5
  <2>2. Unborn(q)'
    BY <1>5, <2>1
  <2>3. QED
    BY <1>1, <1>2, <1>5, <2>1, <2>2 DEF Unborn
<1>7. Pending(h)' # 0 => Pending(h)' <= sess' /\ Unborn(Pending(h))'
  <2> SUFFICES ASSUME Pending(h)' # 0
               PROVE  Pending(h)' <= sess' /\ Unborn(Pending(h))'
    OBVIOUS
  <2>1. PICK q \in Session : q = Pending(h)' /\ q <= sess' /\ Unborn(q)
    BY <1>1, <1>2, <1>3 DEF FreshSessions, Session
  <2>2. Unborn(q)'
    BY <2>1
  <2>3. QED
    BY <2>1, <2>2 DEF Unborn
<1>8. \A i \in Handlers \ {h} : Pending(i)' # 0 => Pending(i)' # Pending(h)'
  BY <1>1, <1>2, <1>5
<1>9. \A i, j \in Handlers : i # j /\ Pending(i)' # 0 => Pending(i)' # Pending(j)'
  <2> SUFFICES ASSUME NEW i \in Handlers, NEW j \in Handlers, i # j, Pending(i)' # 0
               PROVE  Pending(i)' # Pending(j)'
    OBVIOUS
  <2>1. CASE i # h /\ j # h
    BY <2>1 DEF FreshSessions
  <2>2. CASE i = h
    BY <1>8, <2>2
  <2>3. CASE j = h
    BY <1>8, <2>3
  <2>4. QED
    BY <2>1, <2>2, <2>3
<1>10. QED
  BY <1>4, <1>6, <1>7, <1>9 DEF FreshSessions

LEMMA FreshElsewhere ==
  ASSUME FreshSessions, UNCHANGED <<sess, pc, tun, cur>>,
         \A q \in Session : Unborn(q) => Unborn(q)', TypeOK
  PROVE  FreshSessions'
<1>1. \A h \in Handlers : Pending(h)' = Pending(h) /\ Pending(h) \in 0 .. MaxSess
  BY ConstAssumption DEF Pending, TypeOK
<1>2. \A h \in Handlers : Pending(h) # 0 => Pending(h) \in Session
  BY <1>1, ConstAssumption DEF Session
<1>3. ASSUME NEW h \in Handlers, Pending(h)' # 0 PROVE Unborn(Pending(h))'
  <2>1. PICK q \in Session : q = Pending(h) /\ q = Pending(h)' /\ Unborn(q)
    BY <1>1, <1>2, <1>3 DEF FreshSessions
  <2>2. Unborn(q)'
    BY <2>1
  <2>3. QED
    BY <2>1, <2>2 DEF Unborn
<1>4. QED
  BY <1>1, <1>3 DEF FreshSessions

LEMMA HandlerPending ==
  ASSUME TypeOK, PlainIsOneSession, NEW h \in Handlers, Arrive(h) \/ HandlerStep(h)
  PROVE  /\ sess' \in {sess, sess + 1}
         /\ \A i \in Handlers \ {h} : Pending(i)' = Pending(i)
         /\ Pending(h)' \in {0, Pending(h)} \/ (sess' = sess + 1 /\ Pending(h)' = sess')
<1>1. Advances(h)
  BY HandlerAdvances
<1>2. sess' \in {sess, sess + 1} /\ \A i \in Handlers \ {h} : Pending(i)' = Pending(i)
  BY <1>1 DEF Advances, Pending
<1> SUFFICES Pending(h)' \in {0, Pending(h)} \/ (sess' = sess + 1 /\ Pending(h)' = sess')
    BY <1>2
<1> USE DEF TypeOK, Goto, Pending
<1>3. CASE Arrive(h)
  <2>1. ASSUME NEW k, NEW socket, Begin(h, k, socket)
        PROVE  sess' = sess + 1 /\ Pending(h)' = sess'
    BY <2>1 DEF Begin, NextSession
  <2>2. CASE TurnAway(h)
    BY <2>2 DEF TurnAway
  <2>3. QED
    BY <1>3, <2>1, <2>2 DEF Arrive, MyHttpHandle, MyHttpHandleWithEngine, MyHttpsHandle
<1>4. CASE ReadRequest(h) \/ ReadFails(h) \/ ProcessRequest(h)
  BY <1>4 DEF ReadRequest, ReadFails, LoopExit, ProcessRequest, NextSession
<1>5. CASE \/ StoreTop(h) \/ Strategy(h) \/ Handshake(h) \/ Dial(h) \/ Write200(h)
           \/ StoreRelay(h) \/ RelayEnd(h) \/ StoreChild(h)
  BY <1>5 DEF StoreTop, Strategy, Handshake, Dial, Write200, StoreRelay, RelayEnd, StoreChild
<1>6. CASE \/ RoundTrip(h) \/ RespondPlain(h) \/ Respond(h) \/ RespondUpgrade(h)
           \/ ChildMark(h)
  BY <1>6 DEF RoundTrip, RespondPlain, Respond, RespondUpgrade, ChildMark, LoopExit
<1>7. CASE \/ MarkFirst(h) \/ CloseLast(h) \/ CloseFirst(h) \/ MarkLast(h)
           \/ MarkStatus(h) \/ MarkEnd(h)
  BY <1>7 DEF MarkFirst, CloseLast, CloseFirst, MarkLast, MarkStatus, MarkEnd, connVars
<1>8. QED
  BY <1>3, <1>4, <1>5, <1>6, <1>7 DEF HandlerStep

LEMMA HandlerFresh ==
  ASSUME LInv, NEW h \in Handlers, Arrive(h) \/ HandlerStep(h), TypeOK'
  PROVE  FreshSessions'
<1> USE DEF LInv, IInv
<1>1. Moves(h)
  BY HandlerMoves
<1>2. \A q \in Session : Changes(q)
  BY <1>1 DEF Moves, Changes
<1>3. \A q \in Session : Unborn(q) => Unborn(q)' \/ (q = Pending(h) /\ Pending(h)' = 0)
  <2> SUFFICES ASSUME NEW q \in Session, Unborn(q)
               PROVE  Unborn(q)' \/ (q = Pending(h) /\ Pending(h)' = 0)
      OBVIOUS
  <2>1. CASE Opens(q)
    BY <1>1, <2>1, ChangesApart DEF Moves
  <2>2. CASE ~Opens(q)
    BY <1>2, <2>2, BornKept
  <2>3. QED
    BY <2>1, <2>2
<1>4. sess' <= MaxSess
  BY ConstAssumption DEF TypeOK
<1>5. QED
  BY <1>3, <1>4, HandlerPending, FreshStep

-----------------------------------------------------------------------------
(* A tunnel is one from its strategy on. *)

Paths(h) ==
  /\ kind'[h] = "tunnel" => pc'[h] \in TunnelPlaces /\ tun'[h] = tun[h]
                            /\ (kind[h] = "tunnel" \/ pc[h] = "strategy")
  /\ kind[h] = "tunnel" => kind'[h] = "tunnel"
  /\ kind'[h] = "tunnel" /\ kind[h] # "tunnel" => Strategy(h)
  /\ pc'[h] \in {"dial", "write200", "storeRelay", "relay"} => kind'[h] = "tunnel"
  /\ pc'[h] \in BeforeJoin => tun'[h] = tun[h] /\ (pc[h] \in BeforeJoin \/ StoreTop(h))

LEMMA HandlerPaths ==
  ASSUME TypeOK, Tunnels, NEW h \in Handlers, Arrive(h) \/ HandlerStep(h)
  PROVE  Paths(h)
<1>a. /\ kind[h] = "tunnel" => pc[h] \in TunnelPlaces
      /\ pc[h] \in {"dial", "write200", "storeRelay", "relay"} => kind[h] = "tunnel"
  BY DEF Tunnels
<1> USE DEF TypeOK, Goto, At, Paths, TunnelPlaces, BeforeJoin
<1>1. CASE Arrive(h)
  <2>1. ASSUME NEW k \in {"plain", "engine", "connect"}, NEW socket, Begin(h, k, socket)
        PROVE  Paths(h)
    BY <1>a, <2>1 DEF Begin
  <2>2. CASE TurnAway(h)
    BY <1>a, <2>2 DEF TurnAway
  <2>3. QED
    BY <1>1, <2>1, <2>2 DEF Arrive, MyHttpHandle, MyHttpHandleWithEngine, MyHttpsHandle
<1>2. CASE StoreTop(h)
  BY <1>a, <1>2 DEF StoreTop
<1>3. CASE Strategy(h)
  BY <1>a, <1>3 DEF Strategy
<1>4. CASE Handshake(h) \/ Dial(h) \/ Write200(h) \/ StoreRelay(h) \/ RelayEnd(h)
  BY <1>a, <1>4 DEF Handshake, Dial, Write200, StoreRelay, RelayEnd
<1>5. CASE ReadRequest(h) \/ ReadFails(h) \/ ProcessRequest(h) \/ StoreChild(h)
  BY <1>a, <1>5 DEF ReadRequest, ReadFails, LoopExit, ProcessRequest, StoreChild
<1>6. CASE RoundTrip(h) \/ RespondPlain(h) \/ Respond(h) \/ RespondUpgrade(h)
           \/ ChildMark(h)
  BY <1>a, <1>6 DEF RoundTrip, RespondPlain, Respond, RespondUpgrade, ChildMark, LoopExit
<1>7. CASE MarkFirst(h) \/ CloseLast(h) \/ CloseFirst(h) \/ MarkLast(h)
  BY <1>a, <1>7 DEF MarkFirst, CloseLast, CloseFirst, MarkLast
<1>8. CASE MarkStatus(h) \/ MarkEnd(h)
  BY <1>a, <1>8 DEF MarkStatus, MarkEnd, connVars
<1>9. QED
  BY <1>1, <1>2, <1>3, <1>4, <1>5, <1>6, <1>7, <1>8 DEF HandlerStep

LEMMA HandlerTunnels ==
  ASSUME LInv, NEW h \in Handlers, Arrive(h) \/ HandlerStep(h)
  PROVE  Tunnels'
<1> USE ConstAssumption DEF LInv, IInv
<1>1. Moves(h) /\ Paths(h) /\ Advances(h)
  BY HandlerMoves, HandlerPaths, HandlerAdvances
<1>2. \A q \in Session : Changes(q)
  BY <1>1 DEF Moves, Changes
<1>3. \A q \in Session : Born(q) => Born(q)'
  BY <1>2, BornKept
<1>4. \A q \in Session : Joined(q)' => Joined(q) \/ (q = tun[h] /\ pc'[h] = "relay")
  <2> SUFFICES ASSUME NEW q \in Session, Joined(q)', ~Joined(q)
               PROVE  q = tun[h] /\ pc'[h] = "relay"
      OBVIOUS
  <2>1. Joins(q)
    BY <1>2, BornKept
  <2>2. ~Same(q) /\ ~Marks(q) /\ ~Opens(q)
    BY <2>1, ChangesApart
  <2>3. QED
    BY <1>1, <2>2 DEF Moves
<1> SUFFICES ASSUME NEW i \in Handlers
             PROVE  /\ kind'[i] = "tunnel" => pc'[i] \in TunnelPlaces /\ tun'[i] \in Session
                    /\ pc'[i] \in {"dial", "write200", "storeRelay", "relay"} => kind'[i] = "tunnel"
                    /\ pc'[i] \in BeforeJoin => Born(tun[i])' /\ ~Joined(tun[i])'
    BY DEF Tunnels
<1>5. /\ kind[i] = "tunnel" => pc[i] \in TunnelPlaces /\ tun[i] \in Session
      /\ pc[i] \in {"dial", "write200", "storeRelay", "relay"} => kind[i] = "tunnel"
      /\ pc[i] \in BeforeJoin => Born(tun[i]) /\ ~Joined(tun[i])
  BY DEF Tunnels
<1>6. pc[i] \in BeforeJoin => tun[i] \in Session
  BY DEF SessionsKnown, BeforeJoin, TopServed
<1>7. CASE i # h
  <2>1. pc'[i] = pc[i] /\ kind'[i] = kind[i] /\ tun'[i] = tun[i]
    BY <1>1, <1>7 DEF Advances
  <2>2. ASSUME pc[i] \in BeforeJoin PROVE Born(tun[i])' /\ ~Joined(tun[i])'
    <3>1. PICK s \in Session : s = tun[i]
      BY <1>6, <2>2
    <3>2. s # tun[h]
      BY <1>7, <3>1 DEF NumbersApart, Session
    <3>3. Born(s)' /\ ~Joined(s)'
      BY <1>3, <1>4, <1>5, <2>2, <3>1, <3>2
    <3>4. QED
      BY <2>1, <3>1, <3>3
  <2>3. QED
    BY <1>5, <2>1, <2>2
<1>8. CASE i = h
  <2>1. kind'[h] = "tunnel" => pc'[h] \in TunnelPlaces /\ tun'[h] \in Session
    BY <1>1, <1>5, <1>6, <1>8 DEF Paths, BeforeJoin
  <2>2. ASSUME pc'[h] \in BeforeJoin PROVE Born(tun[h])' /\ ~Joined(tun[h])'
    <3>1. tun'[h] = tun[h] /\ (pc[h] \in BeforeJoin \/ StoreTop(h)) /\ pc'[h] # "relay"
      BY <1>1, <2>2 DEF Paths, BeforeJoin
    <3>2. PICK s \in Session : s = tun[h]
      BY <1>6, <1>8, <3>1 DEF SessionsKnown, StoreTop, At
    <3>3. CASE pc[h] \in BeforeJoin
      <4>1. Born(s)' /\ ~Joined(s)'
        BY <1>3, <1>4, <1>5, <1>8, <3>1, <3>2, <3>3
      <4>2. QED
        BY <3>1, <3>2, <4>1
    <3>4. CASE StoreTop(h)
      <4>1. Opens(s)
        BY <1>1, <3>2, <3>4 DEF Moves
      <4>2. ~Joined(s)
        BY <4>1 DEF Opens, Unborn, Stored
      <4>3. Born(s)' /\ ~Joined(s)'
        BY <4>1, <4>2 DEF Opens, Born, Joined, Alike, Kept
      <4>4. QED
        BY <3>1, <3>2, <4>3
    <3>5. QED
      BY <3>1, <3>3, <3>4
  <2>3. QED
    BY <1>1, <1>8, <2>1, <2>2 DEF Paths
<1>9. QED
  BY <1>7, <1>8

LEMMA OthersLInv ==
  ASSUME LInv, \/ PusherStep \/ Tick \/ UNCHANGED vars
               \/ \E c \in Controllers : Command(c) \/ ControllerStep(c)
  PROVE  /\ NumbersApart' /\ Stored' /\ FreshSessions' /\ Tunnels'
         /\ LoadedIsStored' /\ BackNoted'
<1> USE DEF LInv, IInv
<1>1. UNCHANGED <<sess, pc, kind, tun, cur>>
  <2>1. CASE PusherStep
    BY <2>1 DEF PusherStep, PusherTick, PusherVisit, PusherTest, DeleteOwed, connVars
  <2>2. CASE Tick \/ UNCHANGED vars
    BY <2>2 DEF Tick, vars, connVars
  <2>3. CASE \E c \in Controllers : Command(c)
    BY <2>3 DEF Command, CloseAllBegin, CloseOneBegin, RangeBegin, connVars
  <2>4. CASE \E c \in Controllers : ControllerStep(c)
    BY <2>4 DEF ControllerStep, CloseAllMark, CloseAllOver, CloseOneSelf, MarkStatus, MarkEnd,
       DeleteOwed, CloseAllVisit, CloseOneVisit, connVars
  <2>5. QED
    BY <2>1, <2>2, <2>3, <2>4
<1>2. \A s \in Session : Same(s) \/ Marks(s) \/ Removes(s)
  BY OthersMove
<1>3. \A s \in Session : Changes(s) /\ ~Opens(s) /\ ~Joins(s)
  BY <1>2, ChangesApart DEF Changes
<1>4. Stored'
  BY <1>3, StoredKept
<1>5. \A s \in Session : (Unborn(s) => Unborn(s)') /\ (Born(s) => Born(s)')
                         /\ (Joined(s)' => Joined(s))
  BY <1>3, BornKept
<1>6. FreshSessions'
  BY <1>1, <1>5, FreshElsewhere
<1>7. NumbersApart'
  BY <1>1 DEF NumbersApart
<1>8. Tunnels'
  <2>1. ASSUME NEW h \in Handlers, pc[h] \in BeforeJoin
        PROVE  Born(tun[h])' /\ ~Joined(tun[h])'
    <3>1. PICK s \in Session : s = tun[h]
      BY <2>1 DEF SessionsKnown, BeforeJoin, TopServed
    <3>2. Born(s)' /\ ~Joined(s)'
      BY <1>5, <2>1, <3>1 DEF Tunnels
    <3>3. QED
      BY <1>1, <3>1, <3>2
  <2>2. QED
    BY <1>1, <2>1 DEF Tunnels
<1>9. LoadedIsStored' /\ BackNoted'
  <2>1. TypeOK'
    BY NextTypeOK DEF Next
  <2>2. QED
    BY <1>3, <2>1, OtherLoads, LoadedKept, BackNotedKept
<1>10. QED
  BY <1>4, <1>6, <1>7, <1>8, <1>9

LEMMA InitLInv == Init => LInv
<1> SUFFICES ASSUME Init PROVE LInv
    OBVIOUS
<1>1. IInv
  BY InitIInv
<1>2. \A s \in Session : Unborn(s) /\ ~Joined(s) /\ ~heap[<<s, 1>>].back
  BY DEF Init, Unborn, Born, Joined, Absent
<1>3. \A h \in Handlers : pc[h] = "idle" /\ kind[h] = "none" /\ Pending(h) = 0
  BY DEF Init, Pending
<1>4. NumbersApart
  BY ConstAssumption DEF Init, NumbersApart, ChildServed
<1>5. LoadedIsStored /\ BackNoted
  BY <1>2 DEF Init, LoadedIsStored, BackNoted, NoDebt
<1>6. QED
  BY <1>1, <1>2, <1>3, <1>4, <1>5 DEF LInv, Stored, FreshSessions, Tunnels, BeforeJoin, Unborn

(* LInv is inductive, and every step changes the sessions in one of the ways *)
(* above, one at most.                                                       *)
LEMMA NextLInv ==
  ASSUME LInv, [Next]_vars
  PROVE  LInv' /\ AtMostOne /\ \A s \in Session : Changes(s)
<1> USE DEF LInv, IInv
<1>1. IInv'
  BY NextIInv
<1>2. ASSUME NEW h \in Handlers, Arrive(h) \/ HandlerStep(h)
      PROVE  LInv' /\ AtMostOne /\ \A s \in Session : Changes(s)
  <2>1. AtMostOne /\ \A s \in Session : Changes(s)
    BY <1>2, HandlerMoves DEF Moves, Changes
  <2>2. Stored'
    BY <2>1, StoredKept
  <2>3. FreshSessions' /\ Tunnels'
    BY <1>1, <1>2, HandlerFresh, HandlerTunnels
  <2>4. NumbersApart'
    BY <1>2, HandlerAdvances, NumbersKept
  <2>5. LoadedIsStored' /\ BackNoted'
    BY <1>1, <1>2, <2>1, HandlerLoads, LoadedKept, BackNotedKept
  <2>6. QED
    BY <1>1, <2>1, <2>2, <2>3, <2>4, <2>5
<1>3. CASE \/ PusherStep \/ Tick \/ UNCHANGED vars
           \/ \E c \in Controllers : Command(c) \/ ControllerStep(c)
  <2>1. AtMostOne /\ \A s \in Session : Changes(s)
    BY <1>3, OthersMove DEF Changes
  <2>2. QED
    BY <1>1, <1>3, <2>1, OthersLInv
<1>4. QED
  BY <1>2, <1>3 DEF Next

-----------------------------------------------------------------------------
(* Every step of Next is a step of ConnLifecycle or leaves what it speaks of *)
(* unchanged.                                                                *)

LifeStep == [Lifecycle!Next]_<<Phase, Relayed>>

LEMMA LifeValues ==
  /\ Phase = [s \in Session |-> Phase[s]] /\ Phase' = [s \in Session |-> Phase'[s]]
  /\ Relayed = [s \in Session |-> Relayed[s]] /\ Relayed' = [s \in Session |-> Relayed'[s]]
  /\ \A s \in Session :
       /\ Relayed[s] = IF Joined(s) THEN "done" ELSE IF Tunneled(s) THEN "due" ELSE "no"
       /\ Relayed'[s] = IF Joined(s)' THEN "done" ELSE IF Tunneled(s)' THEN "due" ELSE "no"
BY DEF Phase, Relayed, Joined, Tunneled

LEMMA SameLife ==
  ASSUME TypeOK, NEW s \in Session, Same(s)
  PROVE  Phase'[s] = Phase[s] /\ (Joined(s)' <=> Joined(s))
<1>1. table[s] \in {0, 1, 2}
  BY DEF TypeOK
<1>2. QED
  BY <1>1 DEF Same, Alike, Kept, Phase, Present, Rec, Joined

(* A step of one session, with the same tunnels before and after. *)
LEMMA OneChange ==
  ASSUME TypeOK, Stored, NEW s \in Session, Changes(s), \A q \in Session \ {s} : Same(q),
         \A q \in Session : Tunneled(q)' <=> Tunneled(q)
  PROVE  LifeStep
<1>a. table[s] \in {0, 1, 2}
  BY DEF TypeOK
<1>b. table[s] # 0 => heap[<<s, table[s]>>].status \in {"Active", "Closed"}
  BY DEF Stored
<1>c. \A q \in Session \ {s} : Phase'[q] = Phase[q] /\ Relayed'[q] = Relayed[q]
  BY SameLife, LifeValues
<1>d. ASSUME NEW p, Phase'[s] = p PROVE Phase' = [Phase EXCEPT ![s] = p]
  BY <1>c, <1>d, LifeValues
<1>e. ASSUME Relayed'[s] = Relayed[s] PROVE Relayed' = Relayed
  BY <1>c, <1>e, LifeValues
<1>f. (Joined(s)' <=> Joined(s)) => Relayed' = Relayed
  BY <1>e, LifeValues
<1>g. Lifecycle!Open(s) \/ Lifecycle!Close(s) \/ Lifecycle!Remove(s) \/ Lifecycle!Register(s)
        => LifeStep
  BY DEF LifeStep, Lifecycle!Next, Lifecycle!Session, Session
<1>1. CASE Same(s)
  <2>1. Phase' = Phase
    BY <1>1, <1>c, SameLife, LifeValues
  <2>2. QED
    BY <1>1, <1>f, <2>1, SameLife DEF LifeStep
<1>2. CASE Opens(s)
  <2>1. Phase[s] = "unborn" /\ Phase'[s] = "Active"
    BY <1>2 DEF Opens, Unborn, Born, Phase, Present, Rec
  <2>2. Joined(s)' <=> Joined(s)
    BY <1>2 DEF Opens, Alike, Kept, Joined
  <2>3. Lifecycle!Open(s)
    BY <1>d, <1>f, <2>1, <2>2 DEF Lifecycle!Open, Lifecycle!Move
  <2>4. QED
    BY <1>g, <2>3
<1>3. CASE Marks(s)
  <2>1. Phase[s] \in {"Active", "Closed"} /\ Phase'[s] = "Closed"
    BY <1>3, <1>b DEF Marks, Phase, Present, Rec
  <2>2. Joined(s)' <=> Joined(s)
    <3>1. CASE table[s] = 1
      BY <1>3, <3>1 DEF Marks, Alike, Kept, Joined
    <3>2. CASE table[s] = 2
      BY <1>3, <1>b, <3>2 DEF Marks, Joined
    <3>3. QED
      BY <1>3, <1>a, <3>1, <3>2 DEF Marks
  <2>3. Phase' = [Phase EXCEPT ![s] = "Closed"] /\ Relayed' = Relayed
    BY <1>d, <1>f, <2>1, <2>2
  <2>4. CASE Phase[s] = "Active"
    BY <1>g, <2>3, <2>4 DEF Lifecycle!Close, Lifecycle!Move
  <2>5. CASE Phase[s] = "Closed"
    <3>1. Phase' = Phase
      BY <2>3, <2>5, LifeValues
    <3>2. QED
      BY <2>3, <3>1 DEF LifeStep
  <2>6. QED
    BY <2>1, <2>4, <2>5
<1>4. CASE Removes(s)
  <2>1. Phase[s] \in {"Active", "Closed"}
    BY <1>4, <1>b DEF Removes, Phase, Present, Rec
  <2>2. Born(s)
    <3>1. CASE table[s] = 1
      BY <1>b, <3>1 DEF Born
    <3>2. CASE table[s] = 2
      <4>1. Joined(s)
        BY <1>b, <3>2 DEF Joined
      <4>2. QED
        BY <4>1 DEF Stored
    <3>3. QED
      BY <1>4, <1>a, <3>1, <3>2 DEF Removes
  <2>3. Phase'[s] = "gone"
    BY <1>4, <2>2 DEF Removes, Alike, Kept, Born, Phase, Present
  <2>4. Joined(s)' <=> Joined(s)
    BY <1>4 DEF Removes, Alike, Kept, Joined
  <2>5. Lifecycle!Remove(s)
    BY <1>d, <1>f, <2>1, <2>3, <2>4 DEF Lifecycle!Remove, Lifecycle!Move
  <2>6. QED
    BY <1>g, <2>5
<1>5. CASE Joins(s)
  <2>1. Relayed[s] = "due" /\ Relayed'[s] = "done"
    BY <1>5, LifeValues DEF Joins, Joined
  <2>2. Relayed' = [Relayed EXCEPT ![s] = "done"]
    BY <1>c, <2>1, LifeValues
  <2>3. Phase'[s] = "Active"
    BY <1>5 DEF Joins, Phase, Present, Rec
  <2>4. Phase[s] \in {"Active", "Closed", "gone"}
    BY <1>5, <1>b DEF Joins, Born, Phase, Present, Rec
  <2>5. Lifecycle!Register(s)
    BY <1>d, <2>1, <2>2, <2>3, <2>4 DEF Lifecycle!Register, Lifecycle!Relay, Lifecycle!Move,
       Lifecycle!Phases
  <2>6. QED
    BY <1>g, <2>5
<1>6. QED
  BY <1>1, <1>2, <1>3, <1>4, <1>5 DEF Changes

LEMMA StepOfLife ==
  ASSUME TypeOK, Stored, AtMostOne, \A s \in Session : Changes(s),
         \A q \in Session : Tunneled(q)' <=> Tunneled(q)
  PROVE  LifeStep
<1>1. CASE \A s \in Session : Same(s)
  <2>1. \A s \in Session : Phase'[s] = Phase[s] /\ Relayed'[s] = Relayed[s]
    BY <1>1, SameLife, LifeValues
  <2>2. QED
    BY <2>1, LifeValues DEF LifeStep
<1>2. ASSUME NEW s \in Session, ~Same(s) PROVE LifeStep
  BY <1>2, OneChange DEF AtMostOne
<1>3. QED
  BY <1>1, <1>2

(* Strategy is the step that makes a session a tunnel's. *)
LEMMA StrategyOfLife ==
  ASSUME LInv, NEW h \in Handlers, Strategy(h), kind'[h] = "tunnel"
  PROVE  LifeStep
<1> USE DEF LInv, IInv
<1>1. PICK s \in Session : s = tun[h]
  BY DEF Strategy, At, SessionsKnown, TopServed
<1>2. Born(s) /\ ~Joined(s)
  BY <1>1 DEF Strategy, At, Tunnels, BeforeJoin
<1>3. UNCHANGED <<table, heap, tun>> /\ \A i \in Handlers \ {h} : kind'[i] = kind[i]
  BY DEF Strategy, regVars, TypeOK
<1>4. ~Tunneled(s) /\ Tunneled(s)'
  <2>1. Tunneled(s)'
    BY <1>1, <1>3 DEF Tunneled
  <2>2. ASSUME NEW i \in Handlers, kind[i] = "tunnel", tun[i] = s PROVE FALSE
    <3>1. CASE i = h
      BY <2>2, <3>1 DEF Strategy, At, Tunnels, TunnelPlaces
    <3>2. CASE i # h
      BY <1>1, <2>2, <3>2, ConstAssumption DEF NumbersApart, Session
    <3>3. QED
      BY <3>1, <3>2
  <2>3. QED
    BY <2>1, <2>2 DEF Tunneled
<1>5. \A q \in Session \ {s} : Tunneled(q)' <=> Tunneled(q)
  BY <1>1, <1>3 DEF Tunneled
<1>6. Phase' = Phase /\ \A q \in Session : Joined(q)' <=> Joined(q)
  BY <1>3 DEF Phase, Present, Rec, Joined
<1>7. Phase[s] # "unborn"
  <2>1. table[s] # 0 => heap[<<s, table[s]>>].status \in {"Active", "Closed"}
    BY DEF Stored
  <2>2. QED
    BY <1>2, <2>1 DEF Phase, Present, Rec, Born
<1>8. Relayed[s] = "no" /\ Relayed' = [Relayed EXCEPT ![s] = "due"]
  BY <1>2, <1>4, <1>5, <1>6, LifeValues
<1>9. Lifecycle!Tunnel(s)
  BY <1>6, <1>7, <1>8 DEF Lifecycle!Tunnel, Lifecycle!Relay
<1>10. QED
  BY <1>9 DEF LifeStep, Lifecycle!Next, Lifecycle!Session, Session

LEMMA NextOfLife ==
  ASSUME LInv, [Next]_vars
  PROVE  LifeStep
<1> USE DEF LInv, IInv
<1>1. AtMostOne /\ \A s \in Session : Changes(s)
  BY NextLInv
<1>2. ASSUME \A i \in Handlers : /\ kind'[i] = "tunnel" <=> kind[i] = "tunnel"
                                 /\ kind[i] = "tunnel" => tun'[i] = tun[i]
      PROVE  LifeStep
  <2>1. \A q \in Session : Tunneled(q)' <=> Tunneled(q)
    BY <1>2 DEF Tunneled
  <2>2. QED
    BY <1>1, <2>1, StepOfLife
<1>3. ASSUME NEW h \in Handlers, Arrive(h) \/ HandlerStep(h)
      PROVE  LifeStep
  <2>1. Paths(h) /\ Advances(h)
    BY <1>3, HandlerPaths, HandlerAdvances
  <2>2. CASE kind'[h] = "tunnel" /\ kind[h] # "tunnel"
    BY <2>1, <2>2, StrategyOfLife DEF Paths
  <2>3. CASE ~(kind'[h] = "tunnel" /\ kind[h] # "tunnel")
    BY <1>2, <2>1, <2>3 DEF Paths, Advances
  <2>4. QED
    BY <2>2, <2>3
<1>4. CASE \/ PusherStep \/ Tick \/ UNCHANGED vars
           \/ \E c \in Controllers : Command(c) \/ ControllerStep(c)
  <2>1. UNCHANGED <<kind, tun>>
    BY <1>4, OtherThreads
  <2>2. QED
    BY <1>2, <2>1
<1>5. QED
  BY <1>3, <1>4 DEF Next

(* The registry implements ConnLifecycle: no interleaving of handlers, close *)
(* commands, collector and half-done marks brings a closed or removed        *)
(* session back, but for the second Store of a CONNECT tunnel, once.         *)
THEOREM RegistryImplementsLifecycle == Spec => LifecycleSpec
<1>1. Init => Lifecycle!Init
  <2> SUFFICES ASSUME Init PROVE Lifecycle!Init
      OBVIOUS
  <2>1. \A s \in Session : Phase[s] = "unborn"
    BY DEF Init, Phase, Present, Absent
  <2>2. \A s \in Session : ~Joined(s) /\ ~Tunneled(s)
    BY DEF Init, Joined, Tunneled, Absent
  <2>3. QED
    BY <2>1, <2>2, LifeValues DEF Lifecycle!Init, Lifecycle!Session, Session
<1>2. LInv /\ [Next]_vars => LInv' /\ [Lifecycle!Next]_<<Phase, Relayed>>
  BY NextLInv, NextOfLife DEF LifeStep
<1>3. QED
  BY <1>1, <1>2, InitLInv, PTL DEF Spec, LifecycleSpec, Lifecycle!Spec

-----------------------------------------------------------------------------
(* It takes both a CONNECT tunnel and a close command to bring a session     *)
(* back.                                                                     *)

NoneBack == \A s \in Session : ~Back(s)

LEMMA NoneBackKept ==
  ASSUME TypeOK, Stored, NoneBack, \A s \in Session : Changes(s),
         \A s \in Session : Joins(s) => Active(s) /\ \A t \in Threads : ~Marking(t, s, 1)
  PROVE  NoneBack'
<1> SUFFICES ASSUME NEW s \in Session, Back(s)' PROVE FALSE
    BY DEF NoneBack
<1>1. table[s] \in {0, 1, 2} /\ ~Back(s)
  BY DEF TypeOK, NoneBack
<1>2. CASE Same(s) \/ Removes(s)
  BY <1>1, <1>2 DEF Same, Removes, Alike, Kept, Back, Present, Rec
<1>3. CASE Opens(s)
  BY <1>3 DEF Opens, Back, Rec
<1>4. CASE Marks(s)
  BY <1>1, <1>4 DEF Marks, Kept, Back, Present, Rec
<1>5. CASE Joins(s)
  BY <1>5 DEF Joins, Back, Rec
<1>6. QED
  BY <1>2, <1>3, <1>4, <1>5 DEF Changes

LEMMA InitNoneBack == Init => NoneBack
BY DEF Init, NoneBack, Back, Present

(* In an instance without CONNECT tunnels no session ever comes back: the    *)
(* other kinds of handler store every session number once.                   *)
THEOREM OnlyTunnelsComeBack ==
  ASSUME "tunnel" \notin Kinds
  PROVE  Spec => []NoneBack
<1> DEFINE NoTunnels == \A h \in Handlers : kind[h] # "tunnel"
<1>1. Init => LInv /\ NoneBack /\ NoTunnels
  BY InitLInv, InitNoneBack DEF Init
<1>2. LInv /\ NoneBack /\ NoTunnels /\ [Next]_vars => (LInv /\ NoneBack /\ NoTunnels)'
  <2> SUFFICES ASSUME LInv, NoneBack, NoTunnels, [Next]_vars
               PROVE  LInv' /\ NoneBack' /\ NoTunnels'
      OBVIOUS
  <2> USE DEF LInv, IInv
  <2>1. LInv' /\ \A s \in Session : Changes(s)
    BY NextLInv
  <2>2. NoneBack'
    BY <2>1, NoneBackKept DEF Joins, Tunneled
  <2>3. NoTunnels'
    <3>1. ASSUME NEW h \in Handlers, Arrive(h) \/ HandlerStep(h)
          PROVE  NoTunnels'
      <4>1. Paths(h) /\ Advances(h)
        BY <3>1, HandlerPaths, HandlerAdvances
      <4>2. Strategy(h) => kind'[h] # "tunnel"
        BY DEF Strategy, TypeOK
      <4>3. QED
        BY <4>1, <4>2 DEF Paths, Advances
    <3>2. CASE \/ PusherStep \/ Tick \/ UNCHANGED vars
               \/ \E c \in Controllers : Command(c) \/ ControllerStep(c)
      BY <3>2, OtherThreads
    <3>3. QED
      BY <3>1, <3>2 DEF Next
  <2>4. QED
    BY <2>1, <2>2, <2>3
<1>3. QED
  BY <1>1, <1>2, PTL DEF Spec

(* Without a manual close no session ever comes back: the collector and the  *)
(* other handlers leave a tunnel's first record alone until its second Store *)
(* replaces it.                                                              *)
THEOREM OnlyCommandsBringBack ==
  ASSUME MaxCmds = 0
  PROVE  Spec => []NoneBack
<1>1. Init => LInv /\ HInv /\ NoneBack
  BY InitLInv, InitHInv, InitNoneBack
<1>2. LInv /\ HInv /\ NoneBack /\ [Next]_vars => (LInv /\ HInv /\ NoneBack)'
  <2> SUFFICES ASSUME LInv, HInv, NoneBack, [Next]_vars
               PROVE  LInv' /\ HInv' /\ NoneBack'
      OBVIOUS
  <2>1. TypeOK /\ Stored /\ ServedIsActive
    BY DEF LInv, IInv, HInv
  <2>2. LInv' /\ HInv' /\ \A s \in Session : Changes(s)
    BY NextLInv, NextHInv
  <2>3. \A s \in Session : Joins(s) => Active(s) /\ \A t \in Threads : ~Marking(t, s, 1)
    <3>1. ASSUME NEW h \in Handlers, Arrive(h) \/ HandlerStep(h), NEW s \in Session, Joins(s)
          PROVE  Active(s) /\ \A t \in Threads : ~Marking(t, s, 1)
      <4>1. s = tun[h] /\ pc[h] = "storeRelay"
        BY <2>1, <3>1, HandlerMoves, ChangesApart DEF Moves
      <4>2. Active(s)
        BY <2>1, <4>1 DEF ServedIsActive, TopServed
      <4>3. ASSUME NEW t \in Handlers, Marking(t, s, 1) PROVE FALSE
        <5>1. cur[t] = s \/ tun[t] = s
          BY <4>3 DEF LInv, IInv, MarksOwn, Marking
        <5>2. t = h
          BY <4>1, <5>1, ConstAssumption DEF LInv, NumbersApart, Session
        <5>3. QED
          BY <4>1, <4>3, <5>2 DEF LInv, IInv, MarksOwn, Marking
      <4>4. ASSUME NEW t \in Controllers \cup {Pusher}, Marking(t, s, 1) PROVE FALSE
        BY <4>4 DEF HInv, NoCommand, DeletesDead, Marking, NoDebt
      <4>5. QED
        BY <4>2, <4>3, <4>4 DEF Threads
    <3>2. CASE \/ PusherStep \/ Tick \/ UNCHANGED vars
               \/ \E c \in Controllers : Command(c) \/ ControllerStep(c)
      BY <2>1, <3>2, OthersMove, ChangesApart DEF LInv
    <3>3. QED
      BY <3>1, <3>2 DEF Next
  <2>4. NoneBack'
    BY <2>1, <2>2, <2>3, NoneBackKept
  <2>5. QED
    BY <2>2, <2>4
<1>3. QED
  BY <1>1, <1>2, PTL DEF Spec

-----------------------------------------------------------------------------
(* What closeAllConnections has marked stays so. *)

(* What a Range of closeAllConnections has visited was stored before.  All   *)
(* of it but the record between OnClose and the mark is over, or is the      *)
(* record the command has loaded and is about to mark.                       *)
VisitedBy(c) ==
  scan[c].op = "all" => \A s \in scan[c].seen :
    Born(s) /\ (s # scan[c].cur => Over(s) \/ Marking(c, s, table[s]))

Visited == \A c \in Controllers : VisitedBy(c)

LEMMA PresentBorn ==
  ASSUME TypeOK, Stored, NEW s \in Session, Present(s)
  PROVE  Born(s)
<1>1. table[s] \in {1, 2} /\ table[s] # 0
  BY DEF TypeOK, Present
<1>2. heap[<<s, table[s]>>].status \in {"Active", "Closed"}
  BY <1>1 DEF Stored
<1>3. CASE table[s] = 1
  BY <1>2, <1>3 DEF Born
<1>4. CASE table[s] = 2
  <2>1. Joined(s)
    BY <1>2, <1>4 DEF Joined
  <2>2. QED
    BY <2>1 DEF Stored
<1>5. QED
  BY <1>1, <1>3, <1>4

LEMMA ControllerScan ==
  ASSUME TypeOK, NEW c \in Controllers, Command(c) \/ ControllerStep(c),
         NEW d \in Controllers, d # c
  PROVE  scan'[d] = scan[d]
<1> USE DEF TypeOK, ctrlVars
<1>1. CASE Command(c)
  BY <1>1 DEF Command, CloseAllBegin, CloseOneBegin, RangeBegin
<1>2. CASE ControllerStep(c)
  BY <1>2 DEF ControllerStep, CloseAllMark, CloseAllOver, CloseOneSelf, RangeOver, MarkStatus,
     MarkEnd, DeleteOwed, CloseAllVisit, CloseOneVisit
<1>3. QED
  BY <1>1, <1>2

LEMMA ControllerVisited ==
  ASSUME LInv, \A s \in Session : Changes(s), NEW c \in Controllers, VisitedBy(c),
         Command(c) \/ ControllerStep(c)
  PROVE  VisitedBy(c)'
<1> USE DEF LInv, IInv
<1>a. scan[c] \in Scan /\ DOMAIN scan = Controllers /\ c \in Threads
  BY DEF TypeOK, Threads
<1>b. scan[c].op = "all" => scan[c].seen \subseteq Session
  BY <1>a DEF Scan
<1>c. \A s \in Session : (Born(s) => Born(s)') /\ (Over(s) => Over(s)')
  BY BornKept, OverStays
<1>1. CASE Command(c)
  <2>1. ASSUME NEW op, NEW id, RangeBegin(c, op, id) PROVE scan'[c].seen = {}
    BY <1>a, <2>1 DEF RangeBegin
  <2>2. scan'[c].seen = {}
    BY <1>1, <2>1 DEF Command, CloseAllBegin, CloseOneBegin
  <2>3. QED
    BY <2>2 DEF VisitedBy
<1>2. CASE MarkStatus(c) \/ MarkEnd(c) \/ DeleteOwed(c)
  <2>1. scan' = scan
    BY <1>2 DEF MarkStatus, MarkEnd, DeleteOwed, ctrlVars
  <2>2. ASSUME NEW s \in Session, Born(s), Marking(c, s, table[s]) PROVE Over(s)'
    <3>1. MarkStatus(c) /\ owe[c].s = s /\ owe[c].g = table[s]
      BY <1>2, <2>2 DEF Marking, MarkEnd, DeleteOwed
    <3>2. ~Active(s)'
      BY <1>a, <3>1, MarkStatusActive
    <3>3. QED
      BY <1>c, <2>2, <3>2 DEF Over
  <2>3. QED
    BY <1>b, <1>c, <2>1, <2>2 DEF VisitedBy
<1>3. ASSUME NEW s \in Session, CloseAllVisit(c, s)
      PROVE  VisitedBy(c)'
  <2>1. /\ scan'[c].seen = scan[c].seen \cup {s} /\ scan'[c].cur = s
        /\ scan[c].op = "all" /\ scan[c].cur = 0
    BY <1>3, <1>a DEF CloseAllVisit, RangeVisits
  <2>2. Born(s)
    BY <1>3, PresentBorn DEF CloseAllVisit, RangeVisits
  <2>3. \A q \in scan[c].seen : Over(q) /\ Born(q)
    <3>1. owe[c].op = "none"
      BY <1>3 DEF CloseAllVisit, RangeVisits, NoDebt
    <3>2. \A q \in scan[c].seen : ~Marking(c, q, table[q])
      BY <3>1 DEF Marking
    <3>3. QED
      BY <1>b, <2>1, <3>2 DEF VisitedBy, Session
  <2>4. QED
    BY <1>b, <1>c, <2>1, <2>2, <2>3 DEF VisitedBy
<1>4. CASE CloseAllMark(c)
  <2>1. PICK s \in Session : s = scan[c].cur
    BY <1>4, <1>a DEF CloseAllMark, Scan, Session
  <2>2. /\ scan'[c].seen = scan[c].seen /\ scan[c].op = "all" /\ owe[c] = NoDebt
        /\ MarkConnectionClosed(c, s)
    BY <1>4, <1>a, <2>1 DEF CloseAllMark, Scan
  <2>3. Present(s) => Marking(c, s, table[s])'
    BY <1>a, <2>2 DEF MarkConnectionClosed, Marking, TypeOK
  <2>4. ~Present(s) => ~Active(s)'
    BY <2>2 DEF MarkConnectionClosed, Active, Present
  <2>5. ASSUME NEW q \in scan[c].seen PROVE Born(q)' /\ (Over(q)' \/ Marking(c, q, table[q])')
    <3>1. q \in Session /\ Born(q)'
      BY <1>b, <1>c, <2>2 DEF VisitedBy
    <3>2. CASE q = s
      BY <2>3, <2>4, <3>1, <3>2 DEF Over
    <3>3. CASE q # s
      <4>1. ~Marking(c, q, table[q])
        BY <2>2 DEF Marking, NoDebt
      <4>2. Over(q)
        BY <2>1, <2>2, <3>3, <4>1 DEF VisitedBy
      <4>3. QED
        BY <1>c, <3>1, <4>2
    <3>4. QED
      BY <3>1, <3>2, <3>3
  <2>6. QED
    BY <2>2, <2>5 DEF VisitedBy
<1>5. CASE CloseAllOver(c) \/ CloseOneSelf(c) \/ \E s \in Session : CloseOneVisit(c, s)
  <2>1. scan'[c].op # "all"
    BY <1>5, <1>a DEF CloseAllOver, CloseOneSelf, CloseOneVisit, RangeOver, RangeVisits,
       NoScan, Scan
  <2>2. QED
    BY <2>1 DEF VisitedBy
<1>6. QED
  BY <1>1, <1>2, <1>3, <1>4, <1>5 DEF ControllerStep

(* A record that is about to be marked stays stored, or the session is over: *)
(* the second Store that replaces it notes it.                               *)
LEMMA StaysMarking ==
  ASSUME LInv, NEW s \in Session, Changes(s), Born(s), NEW t \in Threads,
         owe'[t] = owe[t], Marking(t, s, table[s])
  PROVE  Over(s)' \/ Marking(t, s, table[s])'
<1>0. TypeOK /\ Stored
  BY DEF LInv, IInv
<1>1. table[s] \in {1, 2}
  BY <1>0 DEF TypeOK, Marking, Debt, NoDebt
<1>a. heap[<<s, table[s]>>].status \in {"Active", "Closed"}
  <2>1. table[s] # 0
    BY <1>1
  <2>2. table[s] # 0 => heap[<<s, table[s]>>].status \in {"Active", "Closed"}
    BY <1>0 DEF Stored
  <2>3. QED
    BY <2>1, <2>2
<1>2. CASE table'[s] = table[s]
  BY <1>2 DEF Marking
<1>3. CASE Removes(s)
  <2>1. ~Active(s)'
    BY <1>3 DEF Removes, Active, Present
  <2>2. Born(s)'
    BY <1>0, <1>3, BornKept
  <2>3. QED
    BY <2>1, <2>2 DEF Over
<1>4. CASE Joins(s)
  <2>1. table[s] = 1
    <3>1. table[s] # 2
      BY <1>a, <1>4 DEF Joins, Joined
    <3>2. QED
      BY <1>1, <3>1
  <2>2. heap'[<<s, 2>>].back /\ table'[s] = 2
    BY <1>4, <2>1 DEF Joins
  <2>3. Back(s)'
    BY <2>2 DEF Back, Present, Rec
  <2>4. Born(s)'
    BY <1>0, <1>4, BornKept
  <2>5. QED
    BY <2>3, <2>4 DEF Over
<1>5. QED
  BY <1>1, <1>2, <1>3, <1>4 DEF Changes, Same, Opens, Unborn, Marks

LEMMA VisitedKept ==
  ASSUME LInv, Visited, [Next]_vars
  PROVE  Visited'
<1> USE DEF LInv, IInv
<1>1. \A s \in Session : Changes(s)
  BY NextLInv
<1>2. \A s \in Session : (Born(s) => Born(s)') /\ (Over(s) => Over(s)')
  BY <1>1, BornKept, OverStays
<1> SUFFICES ASSUME NEW d \in Controllers PROVE VisitedBy(d)'
    BY DEF Visited
<1>a. d \in Threads /\ d \notin Handlers /\ d # Pusher
  BY ConstAssumption DEF Threads
<1>3. CASE scan'[d] = scan[d] /\ owe'[d] = owe[d]
  <2>1. scan[d].op = "all" => scan[d].seen \subseteq Session
    BY DEF TypeOK, Scan
  <2>2. ASSUME NEW s \in Session, Born(s), Marking(d, s, table[s])
        PROVE  Over(s)' \/ Marking(d, s, table[s])'
    BY <1>1, <1>2, <1>3, <1>a, <2>2, StaysMarking
  <2>3. QED
    BY <1>2, <1>3, <2>1, <2>2 DEF Visited, VisitedBy
<1>4. ASSUME NEW h \in Handlers, Arrive(h) \/ HandlerStep(h)
      PROVE  VisitedBy(d)'
  BY <1>3, <1>4, <1>a, HandlerNoScan, HandlerDebt
<1>5. CASE PusherStep \/ Tick \/ UNCHANGED vars
  <2>1. scan' = scan
    BY <1>5 DEF PusherStep, PusherTick, PusherVisit, PusherTest, DeleteOwed, Tick, vars, ctrlVars
  <2>2. owe'[d] = owe[d]
    BY <1>5, <1>a, PusherOwn
  <2>3. QED
    BY <1>3, <2>1, <2>2
<1>6. ASSUME NEW c \in Controllers, Command(c) \/ ControllerStep(c)
      PROVE  VisitedBy(d)'
  <2>1. CASE d = c
    BY <1>1, <1>6, <2>1, ControllerVisited DEF Visited
  <2>2. CASE d # c
    BY <1>3, <1>6, <1>a, <2>2, ControllerScan, ControllerDebt
  <2>3. QED
    BY <2>1, <2>2
<1>7. QED
  BY <1>4, <1>5, <1>6 DEF Next

(* What closeAllConnections has marked is not Active again before its walk   *)
(* is over: handlers that store, mark and go on meanwhile bring nothing      *)
(* back, but for the second Store of a CONNECT tunnel.                       *)
THEOREM CloseAllIsFinal == Spec => []CloseAllSticks
<1>1. Init => LInv /\ Visited
  BY InitLInv DEF Init, Visited, VisitedBy, NoScan
<1>2. LInv /\ Visited /\ [Next]_vars => (LInv /\ Visited)'
  BY NextLInv, VisitedKept
<1>3. LInv /\ Visited => CloseAllSticks
  BY DEF Visited, VisitedBy, Over, CloseAllSticks
<1>4. QED
  BY <1>1, <1>2, <1>3, PTL DEF Spec

-----------------------------------------------------------------------------
(* The collector.  It tests the record it read and deletes whatever the      *)
(* session has by then: if the record was Closed and the session is Active,  *)
(* the second Store of a tunnel has replaced it.                             *)

PusherDebt == owe[Pusher].op = "del" => Over(owe[Pusher].s)

LEMMA ClosedIsOver ==
  ASSUME TypeOK, Stored, BackNoted, NEW s \in Session, NEW g \in 1 .. 2,
         heap[<<s, g>>].status = "Closed"
  PROVE  Over(s)
<1>1. Born(s)
  <2>1. CASE g = 1
    BY <2>1 DEF Born
  <2>2. CASE g = 2
    BY <2>2 DEF Joined, Stored
  <2>3. QED
    BY <2>1, <2>2
<1>2. ASSUME Active(s) PROVE Back(s)
  <2>1. /\ table[s] \in 1 .. 2 /\ table[s] # g
        /\ heap[<<s, table[s]>>].status = "Active"
    BY <1>2 DEF TypeOK, Active, Present, Rec
  <2>2. CASE g = 2
    <3>1. Joined(s)
      BY <2>2 DEF Joined
    <3>2. QED
      BY <2>1, <2>2, <3>1 DEF Stored
  <2>3. CASE g = 1
    <3>1. table[s] = 2
      BY <2>1, <2>3
    <3>2. Joined(s)
      BY <2>1, <3>1 DEF Joined
    <3>3. heap[<<s, 2>>].back
      BY <2>3, <3>2 DEF BackNoted
    <3>4. QED
      BY <3>1, <3>3 DEF Back, Present, Rec
  <2>4. QED
    BY <2>2, <2>3
<1>3. QED
  BY <1>1, <1>2 DEF Over

LEMMA PusherDebtKept ==
  ASSUME LInv, PusherDebt, [Next]_vars
  PROVE  PusherDebt'
<1> USE DEF LInv, IInv
<1>a. Pusher \in Threads /\ Pusher \notin Handlers /\ Pusher \notin Controllers
  BY ConstAssumption DEF Threads
<1>b. owe[Pusher].op = "del" => owe[Pusher].s \in Session
  BY <1>a DEF TypeOK, Debt, NoDebt
<1>c. \A s \in Session : Over(s) => Over(s)'
  BY NextLInv, OverStays
<1>1. CASE owe'[Pusher] = owe[Pusher]
  <2> SUFFICES ASSUME owe[Pusher].op = "del" PROVE Over(owe[Pusher].s)'
      BY <1>1 DEF PusherDebt
  <2>1. PICK s \in Session : s = owe[Pusher].s
    BY <1>b
  <2>2. Over(s)'
    BY <1>c, <2>1 DEF PusherDebt
  <2>3. s = owe'[Pusher].s
    BY <1>1, <2>1
  <2>4. QED
    BY <2>2, <2>3
<1>2. ASSUME NEW h \in Handlers, Arrive(h) \/ HandlerStep(h)
      PROVE  PusherDebt'
  BY <1>1, <1>2, <1>a, HandlerDebt
<1>3. ASSUME NEW c \in Controllers, Command(c) \/ ControllerStep(c)
      PROVE  PusherDebt'
  BY <1>1, <1>3, <1>a, ControllerDebt
<1>4. CASE PusherTick \/ Tick \/ UNCHANGED vars
  BY <1>1, <1>4 DEF PusherTick, Tick, vars, regVars
<1>5. CASE DeleteOwed(Pusher)
  BY <1>5, <1>a DEF DeleteOwed, TypeOK, NoDebt, PusherDebt
<1>6. CASE \E s \in Session : PusherVisit(s)
  <2>1. owe'[Pusher].op = "test"
    BY <1>6, <1>a DEF PusherVisit, TypeOK
  <2>2. QED
    BY <2>1 DEF PusherDebt
<1>7. CASE PusherTest
  <2>1. PICK s \in Session, g \in 1 .. 2 : s = owe[Pusher].s /\ g = owe[Pusher].g
    BY <1>7, <1>a DEF PusherTest, TypeOK, Debt, NoDebt
  <2> SUFFICES ASSUME owe'[Pusher].op = "del" PROVE Over(owe[Pusher].s)'
      BY DEF PusherDebt
  <2>2. heap[<<s, g>>].status = "Closed" /\ owe'[Pusher].s = s
    BY <1>7, <1>a, <2>1 DEF PusherTest, Expired, TypeOK, NoDebt
  <2>3. Over(s)'
    BY <1>c, <2>2, ClosedIsOver
  <2>4. QED
    BY <2>2, <2>3
<1>8. QED
  BY <1>2, <1>3, <1>4, <1>5, <1>6, <1>7 DEF Next, PusherStep

(* The collector takes no Active record, although it reads a record in one   *)
(* step, tests it in another and deletes in a third, whoever marks or        *)
(* replaces it in between, but for that of a session whose second Store      *)
(* overtook a close.                                                         *)
THEOREM CollectorSparesActive == Spec => NoActiveEvicted
<1>1. Init => LInv /\ PusherDebt
  BY InitLInv, ConstAssumption DEF Init, PusherDebt, NoDebt, Threads
<1>2. LInv /\ PusherDebt /\ [Next]_vars => (LInv /\ PusherDebt)'
  BY NextLInv, PusherDebtKept
<1>3. LInv /\ PusherDebt /\ [Next]_vars =>
        [\A s \in Session :
           DeleteOwed(Pusher) /\ Active(s) /\ ~Back(s) => Present(s)']_vars
  <2> SUFFICES ASSUME LInv, PusherDebt, DeleteOwed(Pusher), NEW s \in Session, Active(s),
                      ~Back(s)
               PROVE  Present(s)'
      OBVIOUS
  <2>1. owe[Pusher].s # s
    BY DEF PusherDebt, DeleteOwed, Over
  <2>2. table'[s] = table[s]
    BY <2>1 DEF DeleteOwed, LInv, IInv, TypeOK
  <2>3. QED
    BY <2>2 DEF Active, Present
<1>4. QED
  BY <1>1, <1>2, <1>3, PTL DEF Spec, NoActiveEvicted

-----------------------------------------------------------------------------
(* closeConnection.  What its walk has visited is a child that is removed,   *)
(* or about to be, or another session's.                                     *)

ReachedBy(c) ==
  scan[c].op = "one" => \A s \in scan[c].seen :
    /\ Born(s)
    /\ heap[<<s, 1>>].parent = scan[c].id =>
         table[s] # 1 \/ (owe[c].op = "del" /\ owe[c].s = s)

Reached == \A c \in Controllers : ReachedBy(c)

(* A session once stored is not stored as a first record again. *)
LEMMA FirstOnce ==
  ASSUME TypeOK, Stored, NEW s \in Session, Changes(s), Born(s)
  PROVE  /\ Born(s)' /\ heap'[<<s, 1>>].parent = heap[<<s, 1>>].parent
         /\ table[s] # 1 => table'[s] # 1
<1>1. Born(s)' /\ heap'[<<s, 1>>].parent = heap[<<s, 1>>].parent
  BY BornKept
<1>2. table[s] # 1 => table'[s] # 1
  BY DEF Changes, Same, Opens, Unborn, Marks, Removes, Joins
<1>3. QED
  BY <1>1, <1>2

LEMMA ControllerReached ==
  ASSUME LInv, \A s \in Session : Changes(s), NEW c \in Controllers, ReachedBy(c),
         Command(c) \/ ControllerStep(c)
  PROVE  ReachedBy(c)'
<1> USE DEF LInv, IInv
<1>a. c \in Threads
  BY DEF Threads
<1>b. scan[c] \in Scan /\ owe[c] \in Debt /\ DOMAIN scan = Controllers /\ DOMAIN owe = Threads
  BY <1>a DEF TypeOK
<1>c. scan[c].op = "one" => scan[c].seen \subseteq Session
  BY <1>b DEF Scan
(* With nothing owed, what was seen and is a child is not in the table as a  *)
(* first record, and stays so.                                               *)
<1>d. ASSUME scan[c].op = "one", owe[c].op # "del", NEW s \in scan[c].seen
      PROVE  Born(s)' /\ (heap'[<<s, 1>>].parent = scan[c].id => table'[s] # 1)
  <2>1. s \in Session /\ Born(s) /\ (heap[<<s, 1>>].parent = scan[c].id => table[s] # 1)
    BY <1>c, <1>d DEF ReachedBy
  <2>2. QED
    BY <2>1, FirstOnce
<1>1. CASE Command(c)
  <2>1. ASSUME NEW op, NEW id, RangeBegin(c, op, id) PROVE scan'[c].seen = {}
    BY <1>b, <2>1 DEF RangeBegin
  <2>2. scan'[c].seen = {}
    BY <1>1, <2>1 DEF Command, CloseAllBegin, CloseOneBegin
  <2>3. QED
    BY <2>2 DEF ReachedBy
<1>2. CASE CloseAllMark(c) \/ CloseAllOver(c) \/ CloseOneSelf(c)
           \/ \E s \in Session : CloseAllVisit(c, s)
  <2>1. scan'[c].op # "one"
    BY <1>2, <1>b DEF CloseAllMark, CloseAllOver, CloseOneSelf, RangeOver, CloseAllVisit, NoScan, Scan
  <2>2. QED
    BY <2>1 DEF ReachedBy
<1>3. CASE MarkStatus(c) \/ MarkEnd(c)
  <2>1. scan' = scan /\ owe[c].op # "del"
    BY <1>3 DEF MarkStatus, MarkEnd, ctrlVars
  <2>2. QED
    BY <1>d, <2>1 DEF ReachedBy
<1>4. CASE DeleteOwed(c)
  <2> SUFFICES ASSUME scan[c].op = "one", NEW s \in scan[c].seen
               PROVE  Born(s)' /\ (heap'[<<s, 1>>].parent = scan[c].id => table'[s] # 1)
    BY <1>4 DEF ReachedBy, DeleteOwed, ctrlVars
  <2>1. s \in Session /\ Born(s)
    BY <1>c DEF ReachedBy
  <2>2. CASE s = owe[c].s
    <3>1. table'[s] = 0
      BY <1>4, <2>1, <2>2 DEF DeleteOwed, TypeOK
    <3>2. Born(s)'
      BY <2>1, FirstOnce
    <3>3. QED
      BY <3>1, <3>2
  <2>3. CASE s # owe[c].s
    BY <2>1, <2>3, FirstOnce DEF ReachedBy
  <2>4. QED
    BY <2>2, <2>3
<1>5. ASSUME NEW q \in Session, CloseOneVisit(c, q)
      PROVE  ReachedBy(c)'
  <2>1. /\ scan[c].op = "one" /\ owe[c] = NoDebt /\ Present(q) /\ heap' = heap /\ table' = table
        /\ scan'[c].op = "one" /\ scan'[c].id = scan[c].id /\ scan'[c].seen = scan[c].seen \cup {q}
    BY <1>5, <1>b DEF CloseOneVisit, RangeVisits, Scan
  <2>2. Born(q)'
    BY <2>1, PresentBorn, FirstOnce
  <2>3. table[q] = 1 /\ heap[<<q, 1>>].parent = scan[c].id => owe'[c].op = "del" /\ owe'[c].s = q
    BY <1>5, <1>b, <1>a DEF CloseOneVisit, CloseAndRemove, Rec
  <2>4. owe[c].op # "del"
    BY <2>1 DEF NoDebt
  <2>5. ASSUME NEW s \in scan[c].seen \cup {q}
        PROVE  /\ Born(s)'
               /\ heap'[<<s, 1>>].parent = scan[c].id =>
                    table'[s] # 1 \/ (owe'[c].op = "del" /\ owe'[c].s = s)
    BY <1>d, <2>1, <2>2, <2>3, <2>4
  <2>6. QED
    BY <2>1, <2>5 DEF ReachedBy
<1>6. QED
  BY <1>1, <1>2, <1>3, <1>4, <1>5 DEF ControllerStep

LEMMA ReachedKept ==
  ASSUME LInv, Reached, [Next]_vars
  PROVE  Reached'
<1> USE DEF LInv, IInv
<1>a. \A s \in Session : Changes(s)
  BY NextLInv
<1> SUFFICES ASSUME NEW d \in Controllers PROVE ReachedBy(d)'
    BY DEF Reached
<1>b. d \in Threads /\ d \notin Handlers /\ d # Pusher /\ ReachedBy(d)
  BY ConstAssumption DEF Threads, Reached
<1>1. CASE scan'[d] = scan[d] /\ owe'[d] = owe[d]
  <2> SUFFICES ASSUME scan[d].op = "one", NEW s \in scan[d].seen
               PROVE  /\ Born(s)'
                      /\ heap'[<<s, 1>>].parent = scan[d].id =>
                           table'[s] # 1 \/ (owe[d].op = "del" /\ owe[d].s = s)
    BY <1>1 DEF ReachedBy
  <2>1. s \in Session /\ Born(s)
    BY <1>b DEF ReachedBy, TypeOK, Scan
  <2>2. QED
    BY <1>a, <1>b, <2>1, FirstOnce DEF ReachedBy
<1>2. ASSUME NEW h \in Handlers, Arrive(h) \/ HandlerStep(h)
      PROVE  ReachedBy(d)'
  <2>1. scan' = scan
    BY <1>2, HandlerNoScan
  <2>2. owe'[d] = owe[d]
    BY <1>2, <1>b, HandlerDebt
  <2>3. QED
    BY <1>1, <2>1, <2>2
<1>3. CASE PusherStep \/ Tick \/ UNCHANGED vars
  <2>1. scan' = scan
    BY <1>3 DEF PusherStep, PusherTick, PusherVisit, PusherTest, DeleteOwed, Tick, vars, ctrlVars
  <2>2. owe'[d] = owe[d]
    BY <1>3, <1>b, PusherOwn
  <2>3. QED
    BY <1>1, <2>1, <2>2
<1>4. ASSUME NEW c \in Controllers, Command(c) \/ ControllerStep(c)
      PROVE  ReachedBy(d)'
  <2>1. CASE d = c
    BY <1>4, <1>a, <1>b, <2>1, ControllerReached
  <2>2. CASE d # c
    BY <1>4, <1>1, <1>b, <2>2, ControllerScan, ControllerDebt
  <2>3. QED
    BY <2>1, <2>2
<1>5. QED
  BY <1>2, <1>3, <1>4 DEF Next

(* The walk of closeConnection ends only when no child it found registered   *)
(* is Active, in any instance and with any number of commands at a time.     *)
THEOREM CloseOneReachesChildren == Spec => ChildrenReached
<1>1. Init => LInv /\ Reached
  BY InitLInv DEF Init, Reached, ReachedBy, NoScan
<1>2. LInv /\ Reached /\ [Next]_vars => (LInv /\ Reached)'
  BY NextLInv, ReachedKept
<1>3. LInv /\ Reached /\ [Next]_vars =>
        [\A c \in Controllers : scan[c].op = "one" /\ scan'[c] = NoScan =>
           \A k \in scan[c].must \ {scan[c].id} :
             Active(k) => Rec(k).parent # scan[c].id]_vars
  <2> SUFFICES ASSUME LInv, Reached, Next, NEW c \in Controllers, scan[c].op = "one",
                      scan'[c] = NoScan, NEW k \in scan[c].must \ {scan[c].id}, Active(k)
               PROVE  Rec(k).parent # scan[c].id
      OBVIOUS
  <2> USE DEF LInv, IInv
  <2>1. scan[c] \in Scan /\ k \in Session /\ scan'[c] # scan[c]
    BY DEF TypeOK, Scan, NoScan
  <2>2. RangeOver(c, "one")
    <3>1. ASSUME NEW h \in Handlers, Arrive(h) \/ HandlerStep(h) PROVE FALSE
      BY <2>1, <3>1, HandlerNoScan
    <3>2. CASE PusherStep \/ Tick
      BY <2>1, <3>2 DEF PusherStep, PusherTick, PusherVisit, PusherTest, DeleteOwed, Tick, ctrlVars
    <3>3. CASE CloseOneSelf(c)
      BY <3>3 DEF CloseOneSelf
    <3>4. CASE \/ CloseAllMark(c) \/ CloseAllOver(c)
               \/ MarkStatus(c) \/ MarkEnd(c) \/ DeleteOwed(c)
               \/ \E s \in Session : CloseAllVisit(c, s) \/ CloseOneVisit(c, s)
      BY <2>1, <3>4 DEF CloseAllMark, CloseAllOver, RangeOver, MarkStatus, MarkEnd, DeleteOwed,
         CloseAllVisit, CloseOneVisit, RangeVisits, ctrlVars, TypeOK, Scan, NoScan
    <3>5. CASE \E e \in Controllers : Command(e) \/ ControllerStep(e)
      <4>1. PICK e \in Controllers : Command(e) \/ ControllerStep(e)
        BY <3>5
      <4>2. e = c
        BY <2>1, <4>1, ControllerScan
      <4>3. ~Command(c)
        <5>1. scan[c] # NoScan
          BY DEF NoScan
        <5>2. QED
          BY <5>1 DEF Command, CloseAllBegin, CloseOneBegin, RangeBegin
      <4>4. QED
        BY <4>1, <4>2, <4>3, <3>3, <3>4 DEF ControllerStep
    <3>6. QED
      BY <3>1, <3>2, <3>5 DEF Next
  <2>3. k \in scan[c].seen /\ owe[c].op # "del"
    BY <2>2 DEF RangeOver, Active, NoDebt
  <2>4. table[k] \in {1, 2}
    BY <2>1 DEF TypeOK, Active, Present
  <2>5. CASE table[k] = 1
    BY <2>3, <2>5 DEF Reached, ReachedBy, Rec
  <2>6. CASE table[k] = 2
    <3>1. Joined(k)
      BY <2>1, <2>6 DEF Active, Rec, Joined
    <3>2. QED
      BY <2>1, <2>6, <3>1 DEF Stored, Rec
  <2>7. QED
    BY <2>4, <2>5, <2>6
<1>4. QED
  BY <1>1, <1>2, <1>3, PTL DEF Spec, ChildrenReached
=============================================================================
