------------------------------ MODULE UiStore -------------------------------
(***************************************************************************)
(* The page's store (stores/websocket.js) against the connection pusher:   *)
(* snapshots of the registry arrive over a websocket that may break and is *)
(* reopened by a timer; the store shows the last snapshot and derives the  *)
(* history of closed connections from what disappeared.                    *)
(*                                                                         *)
(* The registry is reduced to the status of each session; how a record     *)
(* becomes Closed and how long it stays is in ConnRegistry, so here the    *)
(* pusher may collect a Closed record at any time.  A restart of the proxy *)
(* numbers its sessions from 1 again.  The page is one JavaScript thread:  *)
(* each event handler is one step.                                         *)
(***************************************************************************)
EXTENDS Integers, FiniteSets, FiniteSetsExt, Sequences, SequencesExt, Subsequence

CONSTANTS
  MaxSess,      \* bound on the sessions of one run of the proxy
  MaxConns,     \* a snapshot has at most 350 records
  MaxHist,      \* MAX_HISTORY_CONNECTIONS, 1000
  MaxBreaks,    \* bound on connection failures
  MaxRestarts,  \* bound on restarts of the proxy
  MaxClears,    \* bound on the times the user clears the history
  MaxLogins     \* bound on the times the user logs in

(* A snapshot never holds so much that the history cannot take what one     *)
(* message adds: 350 gone and 350 closed against 1000.                      *)
ASSUME StoreAssumption ==
  /\ MaxSess \in Nat /\ MaxConns \in Nat /\ MaxHist \in Nat
  /\ 2 * MaxConns <= MaxHist
  /\ MaxBreaks \in Nat /\ MaxRestarts \in Nat /\ MaxClears \in Nat /\ MaxLogins \in Nat

Sess == 1 .. MaxSess
Slots == 1 .. 3   \* websockets of the page that are not closed for good

VARIABLES
  run,         \* which run of the proxy
  rec,         \* the registry: status of each session
  sock,        \* readyState of each websocket
  topic,       \* the hub has its subscription
  wire,        \* the snapshots on their way
  current,     \* socket.value, 0 for null
  isConnected,
  timers,      \* setTimeout calls that have not fired
  shown,       \* connections.value
  hist,        \* historyConnections.value, newest first
  histSet,     \* historyConnectionsSet
  breaks, clears, logins

serverVars == <<run, rec>>
sockVars == <<sock, topic, wire, current, isConnected, timers>>
viewVars == <<shown, hist, histSet>>
boundVars == <<breaks, clears, logins>>
vars == <<serverVars, sockVars, viewVars, boundVars>>

(* A record as it is sent; the page does not see run. *)
Row == [id : Sess, run : 0 .. MaxRestarts, status : {"Active", "Closed"}]
IdsOf(rows) == {rows[i].id : i \in 1 .. Len(rows)}

TypeOK ==
  /\ run \in 0 .. MaxRestarts
  /\ rec \in [Sess -> {"none", "Active", "Closed", "gone"}]
  /\ sock \in [Slots -> {"closed", "connecting", "open", "closing"}]
  /\ topic \in [Slots -> BOOLEAN]
  /\ wire \in [Slots -> Seq(Seq(Row))]
  /\ current \in Slots \cup {0} /\ isConnected \in BOOLEAN
  /\ timers \in 0 .. MaxLogins
  /\ shown \in Seq(Row) /\ Len(shown) <= MaxConns
  /\ hist \in Seq(Row) /\ Len(hist) <= MaxHist
  /\ histSet \subseteq Sess
  /\ breaks \in 0 .. MaxBreaks /\ clears \in 0 .. MaxClears /\ logins \in 0 .. MaxLogins

Init ==
  /\ run = 0 /\ rec = [s \in Sess |-> "none"]
  /\ sock = [i \in Slots |-> "closed"] /\ topic = [i \in Slots |-> FALSE]
  /\ wire = [i \in Slots |-> <<>>] /\ current = 0 /\ isConnected = FALSE /\ timers = 0
  /\ shown = <<>> /\ hist = <<>> /\ histSet = {}
  /\ breaks = 0 /\ clears = 0 /\ logins = 0

-----------------------------------------------------------------------------
(* The registry. *)

Open(s) ==
  /\ rec[s] = "none" /\ \A t \in Sess : t < s => rec[t] # "none"
  /\ rec' = [rec EXCEPT ![s] = "Active"]
  /\ UNCHANGED <<run, sockVars, viewVars, boundVars>>

(* MarkClosed; CloseAndRemoveConnection; the collector. *)
Close(s) ==
  /\ \/ rec[s] = "Active" /\ rec' = [rec EXCEPT ![s] = "Closed"]
     \/ rec[s] = "Active" /\ rec' = [rec EXCEPT ![s] = "gone"]
     \/ rec[s] = "Closed" /\ rec' = [rec EXCEPT ![s] = "gone"]
  /\ UNCHANGED <<run, sockVars, viewVars, boundVars>>

(* The proxy stops and starts again: every websocket breaks. *)
Restart ==
  /\ run < MaxRestarts /\ run' = run + 1
  /\ rec' = [s \in Sess |-> "none"]
  /\ sock' = [i \in Slots |-> IF sock[i] = "closed" THEN "closed" ELSE "closing"]
  /\ topic' = [i \in Slots |-> FALSE] /\ wire' = [i \in Slots |-> <<>>]
  /\ UNCHANGED <<current, isConnected, timers, viewVars, boundVars>>

(* Active first, then the newest first. *)
Before(r, q) ==
  IF r.status # q.status THEN r.status = "Active" ELSE r.id > q.id

(* What is pushed is cut to MaxConns records.  (Ids differ, so there is only *)
(* one listing.)                                                            *)
Rows == {[id |-> s, run |-> run, status |-> rec[s]] :
           s \in {t \in Sess : rec[t] \in {"Active", "Closed"}}}
Listings ==
  LET n == Cardinality(Rows)
  IN  {all \in [1 .. n -> Rows] : \A i, j \in 1 .. n : i < j => Before(all[i], all[j])}

Snapshot(all) == IF Len(all) > MaxConns THEN SubSeq(all, 1, MaxConns) ELSE all

(* One tick of the connection pusher, for one client. *)
Push(i) ==
  /\ sock[i] = "open" /\ topic[i] /\ wire[i] = <<>>
  /\ \E all \in Listings : wire' = [wire EXCEPT ![i] = <<Snapshot(all)>>]
  /\ UNCHANGED <<serverVars, sock, topic, current, isConnected, timers, viewVars, boundVars>>

-----------------------------------------------------------------------------
(* connect: a socket that exists is closed first; its onclose comes later.  *)
Connect ==
  LET spare == {j \in Slots \ {current} : sock[j] = "closed"}
      new == Min(spare)
  IN  /\ spare # {}
      /\ sock' = [j \in Slots |->
           IF j = new THEN "connecting"
           ELSE IF j = current /\ sock[j] # "closed" THEN "closing" ELSE sock[j]]
      /\ topic' = [topic EXCEPT ![new] = FALSE]
      /\ wire' = [j \in Slots |-> IF j \in {new, current} THEN <<>> ELSE wire[j]]
      /\ current' = new
      /\ isConnected' = FALSE

Login ==
  /\ logins < MaxLogins /\ logins' = logins + 1
  /\ Connect
  /\ UNCHANGED <<serverVars, timers, viewVars, breaks, clears>>

(* onopen, which sends the subscription, *)
OnOpen(i) ==
  /\ sock[i] = "connecting" /\ sock' = [sock EXCEPT ![i] = "open"]
  /\ isConnected' = TRUE
  /\ UNCHANGED <<serverVars, topic, wire, current, timers, viewVars, boundVars>>

(* and the hub's handler, which receives it. *)
Subscribed(i) ==
  /\ sock[i] = "open" /\ ~topic[i] /\ topic' = [topic EXCEPT ![i] = TRUE]
  /\ UNCHANGED <<serverVars, sock, wire, current, isConnected, timers, viewVars, boundVars>>

(* The connection breaks, or cannot be made; what is under way is lost.     *)
Break(i) ==
  /\ breaks < MaxBreaks /\ breaks' = breaks + 1
  /\ sock[i] \in {"connecting", "open"} /\ sock' = [sock EXCEPT ![i] = "closing"]
  /\ topic' = [topic EXCEPT ![i] = FALSE] /\ wire' = [wire EXCEPT ![i] = <<>>]
  /\ UNCHANGED <<serverVars, current, isConnected, timers, viewVars, clears, logins>>

(* Slip: onclose sets no timer. *)
OnCloseQuiet(i) ==
  /\ sock[i] = "closing" /\ sock' = [sock EXCEPT ![i] = "closed"]
  /\ isConnected' = FALSE
  /\ UNCHANGED <<serverVars, topic, wire, current, timers, viewVars, boundVars>>

(* Slip: onerror and onclose each set a timer. *)
OnCloseTwice(i) ==
  /\ sock[i] = "closing" /\ sock' = [sock EXCEPT ![i] = "closed"]
  /\ isConnected' = FALSE
  /\ timers' = timers + 2
  /\ UNCHANGED <<serverVars, topic, wire, current, viewVars, boundVars>>

(* onerror and onclose, of whichever socket. *)
OnClose(i) ==
  /\ sock[i] = "closing" /\ sock' = [sock EXCEPT ![i] = "closed"]
  /\ isConnected' = FALSE
  /\ timers' = timers + 1
  /\ UNCHANGED <<serverVars, topic, wire, current, viewVars, boundVars>>

(* Five seconds later. *)
Timer ==
  /\ timers > 0 /\ timers' = timers - 1
  /\ IF isConnected
     THEN UNCHANGED <<sock, topic, wire, current, isConnected>>
     ELSE Connect
  /\ UNCHANGED <<serverVars, viewVars, boundVars>>

-----------------------------------------------------------------------------
(* handleConnections. *)

Find(rows, id) == {rows[i] : i \in {j \in 1 .. Len(rows) : rows[j].id = id}}
Filed(row) == [row EXCEPT !.status = "Closed"]

(* Shown before, now missing or Closed, and not yet filed: with its newest  *)
(* state.                                                                   *)
Ended(data) ==
  {r \in ToSet(shown) : /\ r.id \notin histSet
                        /\ \A c \in Find(data, r.id) : c.status = "Closed"}

Vanished(data) ==
  LET old == Sift(shown, Ended(data))
  IN  [i \in 1 .. Len(old) |->
         IF Find(data, old[i].id) = {} THEN Filed(old[i])
         ELSE CHOOSE c \in Find(data, old[i].id) : TRUE]

(* Closed when it is first seen. *)
NewClosed(data) ==
  LET told == histSet \cup IdsOf(Vanished(data))
  IN  Sift(data, {r \in ToSet(data) : r.status = "Closed" /\ r.id \notin told})

(* Slip: trimmed entries stay in the set. *)
FileKeepSet(news) ==
  LET all == news \o hist
      kept == IF Len(all) > MaxHist THEN SubSeq(all, 1, MaxHist) ELSE all
  IN  /\ hist' = kept
      /\ histSet' = histSet \cup IdsOf(news)

File(news) ==
  LET all == news \o hist
      kept == IF Len(all) > MaxHist THEN SubSeq(all, 1, MaxHist) ELSE all
      removed == SubSeq(all, Len(kept) + 1, Len(all))
  IN  /\ hist' = kept
      /\ histSet' = (histSet \cup IdsOf(news)) \ IdsOf(removed)

(* Slip: only records seen as Closed are filed. *)
HandleClosedOnly(i) ==
  /\ sock[i] = "open" /\ wire[i] # <<>>
  /\ LET data == Head(wire[i]) IN
       File(NewClosed(data)) /\ shown' = data
  /\ wire' = [wire EXCEPT ![i] = Tail(@)]
  /\ UNCHANGED <<serverVars, sock, topic, current, isConnected, timers, boundVars>>

(* Slip: an empty snapshot is ignored. *)
HandleNonEmpty(i) ==
  /\ sock[i] = "open" /\ wire[i] # <<>>
  /\ LET data == Head(wire[i]) IN
       IF data = <<>> THEN UNCHANGED viewVars
       ELSE File(Vanished(data) \o NewClosed(data)) /\ shown' = data
  /\ wire' = [wire EXCEPT ![i] = Tail(@)]
  /\ UNCHANGED <<serverVars, sock, topic, current, isConnected, timers, boundVars>>

HandleConnections(i) ==
  /\ sock[i] = "open" /\ wire[i] # <<>>
  /\ \E data \in {Head(wire[i])} : \E news \in {Vanished(data) \o NewClosed(data)} :
       File(news) /\ shown' = data
  /\ wire' = [wire EXCEPT ![i] = Tail(@)]
  /\ UNCHANGED <<serverVars, sock, topic, current, isConnected, timers, boundVars>>

ClearHistory ==
  /\ clears < MaxClears /\ clears' = clears + 1
  /\ hist' = <<>> /\ histSet' = {}
  /\ UNCHANGED <<serverVars, sockVars, shown, breaks, logins>>

-----------------------------------------------------------------------------
Page(i) == OnOpen(i) \/ OnClose(i) \/ HandleConnections(i)
Hub(i) == Subscribed(i) \/ Push(i)

Next ==
  \/ \E s \in Sess : Open(s) \/ Close(s)
  \/ Restart \/ Login \/ Timer \/ ClearHistory
  \/ \E i \in Slots : Page(i) \/ Hub(i) \/ Break(i)

Spec == Init /\ [][Next]_vars

(* The browser delivers its events, the pusher ticks, timers fire. *)
FairSpec ==
  /\ Spec /\ WF_vars(Timer)
  /\ \A i \in Slots : WF_vars(Page(i)) /\ WF_vars(Subscribed(i)) /\ WF_vars(Push(i))

-----------------------------------------------------------------------------
(* The set that filters duplicates and the list the user sees stay in step  *)
(* over filing, trimming and clearing, within the limit, and no id is       *)
(* listed twice.                                                            *)
HistoryMatchesSet ==
  /\ TypeOK
  /\ histSet = IdsOf(hist)
  /\ \A i, j \in 1 .. Len(hist) : i # j => hist[i].id # hist[j].id

(* What the page showed as Active and shows so no longer enters the history *)
(* with the same message, unless the history has that number already (cut   *)
(* off earlier, or of an earlier run of the proxy: ids are not unique over  *)
(* restarts).                                                               *)
FiledWhenGone ==
  [][\A i \in 1 .. Len(shown) :
       LET c == shown[i] IN
         /\ c.status = "Active" /\ c.id \notin IdsOf(hist) /\ shown' # shown
         /\ \A r \in Find(shown', c.id) : r.status = "Closed" /\ r.run = c.run
         => \E h \in Find(hist', c.id) : h.run = c.run]_vars

(* A timer never tears down a websocket that is open or being opened, as    *)
(* long as the user logs in once.                                           *)
LiveSocketKept ==
  [][timers' < timers /\ current # 0 => sock[current] \in {"closed", "closing"}]_vars

Ghosts == {s \in Sess : \E i \in 1 .. Len(shown) :
  shown[i].id = s /\ shown[i].status = "Active"
  /\ (shown[i].run # run \/ rec[s] \in {"Closed", "gone"})}

(* The page does not keep showing as Active connections that have ended,    *)
(* not even when the websocket broke or the proxy was restarted meanwhile.  *)
GhostGoes == Ghosts # {} ~> Ghosts = {}

(* After a break the page gets its connection back. *)
Reconnects == (logins > 0 /\ ~isConnected) ~> isConnected
=============================================================================
