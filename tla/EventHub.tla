------------------------------ MODULE EventHub ------------------------------
(***************************************************************************)
(* The control server's event feed: log lines and finished exchanges enter *)
(* a bounded channel each (a full one drops them), a pusher per channel    *)
(* collects a batch and sends it to every registered client that           *)
(* subscribed to the topic; log lines below the client's level are left    *)
(* out.  A handler per client registers it, rewrites its subscription      *)
(* field by field while the pushers read it, and takes it out again.       *)
(*                                                                         *)
(* A client is one websocket.  A stalled one does not read: a write to it  *)
(* ends with the two seconds' deadline.  The two other pushers, traffic    *)
(* and connections, use broadcastToTopic in the same way and are not here. *)
(***************************************************************************)
EXTENDS Integers, Sequences, SequencesExt, Subsequence

CONSTANTS
  Clients,   \* the websockets of the run
  Early,     \* those that are connected and subscribed from the start
  Nobody,    \* no client
  Info,      \* the level a new subscription has, a number
  LevelOf,   \* the level of each log line
  Wanted,    \* the levels each client's page may ask for
  MaxMsgs,   \* bound on the messages of each feed, by feed
  ChanCap,   \* LogChan has 1000 places, GlobalExchangeChan 5000
  BatchMax,  \* a batch of 200 is sent at once
  MaxFaults  \* bound on clients that stall or leave

Feeds == {"logs", "mitm"}

ASSUME FeedAssumption ==
  /\ Nobody \notin Clients /\ Early \subseteq Clients
  /\ Info \in Nat /\ LevelOf \in Seq(Nat) /\ Wanted \in [Clients -> SUBSET Nat]
  /\ MaxMsgs["logs"] <= Len(LevelOf)
  /\ MaxMsgs \in [Feeds -> Nat] /\ ChanCap \in Nat \ {0} /\ BatchMax \in Nat \ {0}
  /\ MaxFaults \in Nat

Ids == 1 .. IF MaxMsgs["logs"] > MaxMsgs["mitm"] THEN MaxMsgs["logs"] ELSE MaxMsgs["mitm"]

VARIABLES
  made,     \* messages made so far, in each feed
  chan,     \* LogChan and GlobalExchangeChan
  batch,    \* what the pusher has collected
  push,     \* where each pusher is
  seen, must, \* clients its Range has visited, and those it may not miss
  due,      \* of the latter, those subscribed when it started
  cur, out, \* the client it is sending to, and the messages
  reg,      \* the keys of hub.clients
  conn,     \* the state of each websocket
  sub,      \* its Subscription
  handler,  \* where handleWebSocket is
  mu,       \* Subscription.writeMu: the feed that holds it
  faults,   \* clients that stalled or left
  recv      \* what the client got from each feed

feedVars == <<made, chan, batch>>
pushVars == <<push, seen, must, due, cur, out>>
subVars == <<sub, handler>>
vars == <<feedVars, pushVars, reg, conn, subVars, mu, faults, recv>>

Free == "free"
Levels == {Info} \cup UNION {Wanted[k] : k \in Clients}
Subscription == [logs : BOOLEAN, mitm : BOOLEAN, level : Levels]
NewSubscription == [logs |-> FALSE, mitm |-> FALSE, level |-> Info]
FullSubscription == [logs |-> TRUE, mitm |-> TRUE, level |-> Info]

TypeOK ==
  /\ made \in [Feeds -> Nat] /\ \A f \in Feeds : made[f] <= MaxMsgs[f]
  /\ chan \in [Feeds -> Seq(Ids)] /\ \A f \in Feeds : Len(chan[f]) <= ChanCap
  /\ batch \in [Feeds -> Seq(Ids)] /\ \A f \in Feeds : Len(batch[f]) <= BatchMax
  /\ push \in [Feeds -> {"collect", "range", "lock", "write"}]
  /\ seen \in [Feeds -> SUBSET Clients] /\ must \in [Feeds -> SUBSET Clients]
  /\ due \in [Feeds -> SUBSET Clients]
  /\ cur \in [Feeds -> Clients \cup {Nobody}]
  /\ out \in [Feeds -> Seq(Ids)]
  /\ reg \subseteq Clients
  /\ conn \in [Clients -> {"none", "open", "stalled", "closed"}]
  /\ sub \in [Clients -> Subscription]
  /\ handler \in [Clients -> {"off", "new", "level", "loop", "done"}]
  /\ mu \in [Clients -> Feeds \cup {Free}]
  /\ faults \in 0 .. MaxFaults
  /\ recv \in [Clients -> [Feeds -> Seq(Ids)]]

Init ==
  /\ made = [f \in Feeds |-> 0]
  /\ chan = [f \in Feeds |-> <<>>] /\ batch = [f \in Feeds |-> <<>>]
  /\ push = [f \in Feeds |-> "collect"]
  /\ seen = [f \in Feeds |-> {}] /\ must = [f \in Feeds |-> {}]
  /\ due = [f \in Feeds |-> {}]
  /\ cur = [f \in Feeds |-> Nobody] /\ out = [f \in Feeds |-> <<>>]
  /\ reg = Early
  /\ conn = [k \in Clients |-> IF k \in Early THEN "open" ELSE "none"]
  /\ sub = [k \in Clients |-> IF k \in Early THEN FullSubscription ELSE NewSubscription]
  /\ handler = [k \in Clients |-> IF k \in Early THEN "loop" ELSE "off"]
  /\ mu = [k \in Clients |-> Free]
  /\ faults = 0
  /\ recv = [k \in Clients |-> [f \in Feeds |-> <<>>]]

-----------------------------------------------------------------------------
(* Slip: the channel takes every message. *)
ProduceUnbounded(f) ==
  /\ made[f] < MaxMsgs[f]
  /\ made' = [made EXCEPT ![f] = @ + 1]
  /\ chan' = [chan EXCEPT ![f] = Append(@, made[f] + 1)]
  /\ UNCHANGED <<batch, pushVars, reg, conn, subVars, mu, faults, recv>>

(* LogCollector.Printf and SendExchange: a send that does not block; the    *)
(* message is dropped when the channel is full.                             *)
Produce(f) ==
  /\ made[f] < MaxMsgs[f]
  /\ made' = [made EXCEPT ![f] = @ + 1]
  /\ chan' = IF Len(chan[f]) < ChanCap
             THEN [chan EXCEPT ![f] = Append(@, made[f] + 1)] ELSE chan
  /\ UNCHANGED <<batch, pushVars, reg, conn, subVars, mu, faults, recv>>

(* sync.Map.Range starts: it visits a key at most once and misses none that *)
(* stays.                                                                   *)
RangeFrom(f) ==
  /\ push' = [push EXCEPT ![f] = "range"]
  /\ seen' = [seen EXCEPT ![f] = {}] /\ must' = [must EXCEPT ![f] = reg]
  /\ due' = [due EXCEPT ![f] = {k \in reg : sub[k][f]}]

Collect(f) ==
  /\ push[f] = "collect" /\ chan[f] # <<>>
  /\ chan' = [chan EXCEPT ![f] = Tail(@)]
  /\ batch' = [batch EXCEPT ![f] = Append(@, Head(chan[f]))]
  /\ IF Len(batch'[f]) >= BatchMax THEN RangeFrom(f) ELSE UNCHANGED <<push, seen, must, due>>
  /\ UNCHANGED <<made, cur, out, reg, conn, subVars, mu, faults, recv>>

Tick(f) ==
  /\ push[f] = "collect" /\ batch[f] # <<>>
  /\ RangeFrom(f)
  /\ UNCHANGED <<feedVars, cur, out, reg, conn, subVars, mu, faults, recv>>

(* serialized[level], or the whole batch of exchanges. *)
Selected(f, k) ==
  Sift(batch[f], {i \in ToSet(batch[f]) : f = "mitm" \/ LevelOf[i] >= sub[k].level})

(* Nothing for this client. *)
Skip(f, k) ==
  /\ push[f] = "range" /\ k \in reg \ seen[f]
  /\ ~sub[k][f] \/ Selected(f, k) = <<>>
  /\ seen' = [seen EXCEPT ![f] = @ \cup {k}]
  /\ UNCHANGED <<feedVars, push, must, due, cur, out, reg, conn, subVars, mu, faults, recv>>

Visit(f, k) ==
  /\ push[f] = "range" /\ k \in reg \ seen[f]
  /\ sub[k][f] /\ Selected(f, k) # <<>>
  /\ seen' = [seen EXCEPT ![f] = @ \cup {k}]
  /\ cur' = [cur EXCEPT ![f] = k] /\ out' = [out EXCEPT ![f] = Selected(f, k)]
  /\ push' = [push EXCEPT ![f] = "lock"]
  /\ UNCHANGED <<feedVars, must, due, reg, conn, subVars, mu, faults, recv>>

(* Slip: writeMu is not taken. *)
LockNothing(f) ==
  /\ push[f] = "lock"
  /\ push' = [push EXCEPT ![f] = "write"]
  /\ UNCHANGED <<feedVars, seen, must, due, cur, out, reg, conn, subVars, mu, faults, recv>>

Lock(f) ==
  /\ push[f] = "lock" /\ mu[cur[f]] = Free
  /\ mu' = [mu EXCEPT ![cur[f]] = f]
  /\ push' = [push EXCEPT ![f] = "write"]
  /\ UNCHANGED <<feedVars, seen, must, due, cur, out, reg, conn, subVars, faults, recv>>

Unlock(f) ==
  /\ mu' = [mu EXCEPT ![cur[f]] = Free]
  /\ push' = [push EXCEPT ![f] = "range"]
  /\ cur' = [cur EXCEPT ![f] = Nobody] /\ out' = [out EXCEPT ![f] = <<>>]

WriteOk(f) ==
  /\ push[f] = "write" /\ conn[cur[f]] = "open"
  /\ recv' = [recv EXCEPT ![cur[f]][f] = @ \o out[f]]
  /\ Unlock(f)
  /\ UNCHANGED <<feedVars, seen, must, due, reg, conn, subVars, faults>>

(* Slip: no write deadline; only a closed connection fails. *)
WriteFailsClosed(f) ==
  /\ push[f] = "write" /\ conn[cur[f]] = "closed"
  /\ Unlock(f)
  /\ reg' = reg \ {cur[f]} /\ conn' = [conn EXCEPT ![cur[f]] = "closed"]
  /\ UNCHANGED <<feedVars, seen, must, due, subVars, faults, recv>>

(* The write fails, or its deadline passes: the client is deleted and its   *)
(* connection closed.                                                       *)
WriteFails(f) ==
  /\ push[f] = "write" /\ conn[cur[f]] \in {"stalled", "closed"}
  /\ Unlock(f)
  /\ reg' = reg \ {cur[f]} /\ conn' = [conn EXCEPT ![cur[f]] = "closed"]
  /\ UNCHANGED <<feedVars, seen, must, due, subVars, faults, recv>>

(* Slip: batch = batch[:0] is forgotten. *)
RangeOverKeep(f) ==
  /\ push[f] = "range" /\ must[f] \cap reg \subseteq seen[f]
  /\ push' = [push EXCEPT ![f] = "collect"]
  /\ seen' = [seen EXCEPT ![f] = {}] /\ must' = [must EXCEPT ![f] = {}]
  /\ due' = [due EXCEPT ![f] = {}]
  /\ batch' = [batch EXCEPT ![f] = IF Len(@) >= BatchMax THEN <<>> ELSE @]
  /\ UNCHANGED <<made, chan, cur, out, reg, conn, subVars, mu, faults, recv>>

(* Slip: the Range stops at the first client. *)
RangeOverFirst(f) ==
  /\ push[f] = "range" /\ (seen[f] # {} \/ reg = {})
  /\ push' = [push EXCEPT ![f] = "collect"]
  /\ seen' = [seen EXCEPT ![f] = {}] /\ must' = [must EXCEPT ![f] = {}]
  /\ due' = [due EXCEPT ![f] = {}]
  /\ batch' = [batch EXCEPT ![f] = <<>>]
  /\ UNCHANGED <<made, chan, cur, out, reg, conn, subVars, mu, faults, recv>>

RangeOver(f) ==
  /\ push[f] = "range" /\ must[f] \cap reg \subseteq seen[f]
  /\ push' = [push EXCEPT ![f] = "collect"]
  /\ seen' = [seen EXCEPT ![f] = {}] /\ must' = [must EXCEPT ![f] = {}]
  /\ due' = [due EXCEPT ![f] = {}]
  /\ batch' = [batch EXCEPT ![f] = <<>>]
  /\ UNCHANGED <<made, chan, cur, out, reg, conn, subVars, mu, faults, recv>>

-----------------------------------------------------------------------------
(* handleWebSocket. *)

Connect(k) ==
  /\ handler[k] = "off" /\ handler' = [handler EXCEPT ![k] = "new"]
  /\ conn' = [conn EXCEPT ![k] = "open"]
  /\ reg' = reg \cup {k}
  /\ UNCHANGED <<feedVars, pushVars, sub, mu, faults, recv>>

(* updateSubscription for the page's message, which asks for every topic;   *)
(* the page sends one when it connects and one when its user picks another  *)
(* level.  The fields are written one by one; no pusher looks at both       *)
(* MitmDetail and LogLevel, so these two share a step.                      *)
Subscribe(k) ==
  /\ conn[k] # "closed"
  /\ handler[k] \in {"new", "loop"}
  /\ handler[k] = "loop" => Wanted[k] # {sub[k].level}
  /\ handler' = [handler EXCEPT ![k] = "level"]
  /\ sub' = [sub EXCEPT ![k].logs = TRUE]
  /\ UNCHANGED <<feedVars, pushVars, reg, conn, mu, faults, recv>>

SubscribeLevel(k) ==
  /\ handler[k] = "level" /\ handler' = [handler EXCEPT ![k] = "loop"]
  /\ \E level \in Wanted[k] :
       sub' = [sub EXCEPT ![k].mitm = TRUE, ![k].level = level]
  /\ UNCHANGED <<feedVars, pushVars, reg, conn, mu, faults, recv>>

(* Slip: the deferred Delete is missing. *)
ReadFailsLeave(k) ==
  /\ handler[k] \in {"new", "loop"} /\ conn[k] = "closed"
  /\ handler' = [handler EXCEPT ![k] = "done"]
  /\ UNCHANGED <<feedVars, pushVars, reg, conn, sub, mu, faults, recv>>

(* ReadMessage fails; the deferred Delete and Close run. *)
ReadFails(k) ==
  /\ handler[k] \in {"new", "loop"} /\ conn[k] = "closed"
  /\ handler' = [handler EXCEPT ![k] = "done"]
  /\ reg' = reg \ {k}
  /\ UNCHANGED <<feedVars, pushVars, conn, sub, mu, faults, recv>>

(* The client. *)
Stall(k) ==
  /\ conn[k] = "open" /\ conn' = [conn EXCEPT ![k] = "stalled"]
  /\ faults < MaxFaults /\ faults' = faults + 1
  /\ UNCHANGED <<feedVars, pushVars, reg, subVars, mu, recv>>

Leave(k) ==
  /\ conn[k] \in {"open", "stalled"} /\ conn' = [conn EXCEPT ![k] = "closed"]
  /\ faults < MaxFaults /\ faults' = faults + 1
  /\ UNCHANGED <<feedVars, pushVars, reg, subVars, mu, recv>>

-----------------------------------------------------------------------------
Pusher(f) ==
  \/ Collect(f) \/ Tick(f) \/ RangeOver(f) \/ Lock(f) \/ WriteOk(f) \/ WriteFails(f)
  \/ \E k \in Clients : Visit(f, k) \/ Skip(f, k)

Handler(k) == SubscribeLevel(k) \/ ReadFails(k)

Next ==
  \/ \E f \in Feeds : Pusher(f) \/ Produce(f)
  \/ \E k \in Clients :
       Handler(k) \/ Connect(k) \/ Subscribe(k) \/ Stall(k) \/ Leave(k)

Spec == Init /\ [][Next]_vars

(* Pushers and handlers are goroutines; a pusher that waits for writeMu     *)
(* gets it, since the other one gives it back after two seconds at most.    *)
FairSpec ==
  /\ Spec
  /\ \A f \in Feeds : WF_vars(Pusher(f)) /\ SF_vars(Lock(f))
  /\ \A k \in Clients : WF_vars(Handler(k))

-----------------------------------------------------------------------------
(* The websocket library forbids two writes at once on a connection; the    *)
(* pushers and their clients' mutexes keep to that.                         *)
OneWriter ==
  \A f, g \in Feeds :
    f # g /\ push[f] = "write" /\ push[g] = "write" => cur[f] # cur[g]

(* A client gets the messages of a feed in the order they were made, each   *)
(* at most once, over all batches.                                          *)
FeedInOrder ==
  \A k \in Clients, f \in Feeds :
    \A i, j \in 1 .. Len(recv[k][f]) : i < j => recv[k][f][i] < recv[k][f][j]

(* Neither the default level nor any its page asks for leaves it out. *)
Passes(f, m, k) ==
  f = "mitm" \/ \A level \in {Info} \cup Wanted[k] : LevelOf[m] >= level

(* A batch is only cleared when every client that was subscribed when it    *)
(* was sent around, and still is registered, has all its messages: a slow   *)
(* or dying neighbour, a second pusher on the same clients or a late change *)
(* of the level takes nothing away from the others.                         *)
BatchDelivered ==
  [][\A f \in Feeds : batch[f] # <<>> /\ batch'[f] = <<>> =>
       \A k \in due[f] \cap reg, m \in ToSet(batch[f]) :
         Passes(f, m, k) => m \in ToSet(recv[k][f])]_vars

(* The feeds go on: a pusher always comes back to its channel, stalled      *)
(* clients or not.                                                          *)
PusherReturns == \A f \in Feeds : push[f] # "collect" ~> push[f] = "collect"

(* A connection that is closed, by its client or by a pusher, leaves the    *)
(* registry and its handler returns.                                        *)
ClosedIsForgotten ==
  \A k \in Clients : conn[k] = "closed" ~> (k \notin reg /\ handler[k] = "done")
=============================================================================
