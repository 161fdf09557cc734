--------------------------- MODULE EventHubProofs ---------------------------
(* Proofs about EventHub, for any number of clients, messages and faults.    *)
EXTENDS EventHub, SeqFacts

-----------------------------------------------------------------------------
(* The inductive invariant. *)

(* A pusher has picked a client before it asks for the mutex.                *)
Picked == \A f \in Feeds : push[f] \in {"lock", "write"} => cur[f] \in Clients

(* A client's mutex is held by the feed that writes to it, and by nobody     *)
(* when no feed does.                                                        *)
Held == \A k \in Clients, f \in Feeds : mu[k] = f <=> push[f] = "write" /\ cur[f] = k

(* While a pusher collects there is room in the batch, and nobody has been   *)
(* visited and nobody is to be served yet.                                   *)
Rounds ==
  \A f \in Feeds : push[f] = "collect" =>
    Len(batch[f]) < BatchMax /\ seen[f] = {} /\ due[f] = {}

(* Messages move from the channel to the batch, from there to out and to the *)
(* clients, each behind all that were made before it.  Who has not been      *)
(* visited in this round has nothing of the batch yet.                       *)
InOrderFor(f, k) ==
  /\ Increasing(recv[k][f])
  /\ \A m \in ToSet(recv[k][f]) : m <= made[f]
  /\ Below(recv[k][f], chan[f])
  /\ k \notin seen[f] => Below(recv[k][f], batch[f])
  /\ push[f] \in {"lock", "write"} /\ cur[f] = k =>
       k \in seen[f] /\ Below(recv[k][f], out[f])

InOrder(f) ==
  /\ Increasing(chan[f]) /\ Increasing(batch[f]) /\ Increasing(out[f])
  /\ \A m \in ToSet(chan[f]) \cup ToSet(batch[f]) : m <= made[f]
  /\ Below(batch[f], chan[f])
  /\ push[f] \in {"lock", "write"} => ToSet(out[f]) \subseteq ToSet(batch[f])
  /\ \A k \in Clients : InOrderFor(f, k)

Ordered == \A f \in Feeds : InOrder(f)

(* The topics of a subscription stay on once they are, its level is one the  *)
(* page may ask for; a client that is registered has been connected.         *)
Subscriptions ==
  \A k \in Clients :
    /\ sub[k].level \in {Info} \cup Wanted[k]
    /\ handler[k] = "off" => k \notin reg

(* Who is due has been subscribed since the round began, and once visited    *)
(* has every message it wants, or is being written to with them in hand.     *)
Serves(f) ==
  /\ due[f] \subseteq must[f]
  /\ \A k \in due[f] : sub[k][f] /\ handler[k] # "off"
  /\ \A k \in due[f] \cap reg \cap seen[f], m \in ToSet(batch[f]) :
       Passes(f, m, k) =>
         IF push[f] \in {"lock", "write"} /\ cur[f] = k
         THEN m \in ToSet(out[f]) ELSE m \in ToSet(recv[k][f])

Served == \A f \in Feeds : Serves(f)

IInv == TypeOK /\ Picked /\ Held /\ Rounds /\ Ordered /\ Subscriptions /\ Served

LEMMA FreeIsNoFeed == Free \notin Feeds
BY DEF Free, Feeds

LEMMA IdsRange ==
  /\ Ids \subseteq Nat
  /\ \A f \in Feeds, n \in Nat : n < MaxMsgs[f] => n + 1 \in Ids
BY FeedAssumption DEF Ids, Feeds

-----------------------------------------------------------------------------
(* Types. *)

PushStates == {"collect", "range", "lock", "write"}

LEMMA SelectedFacts ==
  ASSUME TypeOK, NEW f \in Feeds, NEW k \in Clients
  PROVE  /\ Selected(f, k) \in Seq(Ids)
         /\ ToSet(Selected(f, k)) =
              {i \in ToSet(batch[f]) : f = "mitm" \/ LevelOf[i] >= sub[k].level}
<1>1. batch[f] \in Seq(Ids)
  BY DEF TypeOK
<1> DEFINE T == {i \in ToSet(batch[f]) : f = "mitm" \/ LevelOf[i] >= sub[k].level}
<1>2. Sift(batch[f], T) \in Seq(Ids) /\ ToSet(Sift(batch[f], T)) = ToSet(batch[f]) \cap T
  <2> HIDE DEF T
  <2>1. QED
    BY <1>1, SiftElements
<1>3. Selected(f, k) = Sift(batch[f], T)
  BY DEF Selected
<1>4. ToSet(batch[f]) \cap T = T
  OBVIOUS
<1>5. QED
  BY <1>2, <1>3, <1>4

LEMMA InitTypeOK == Init => TypeOK
<1> SUFFICES ASSUME Init PROVE TypeOK
    OBVIOUS
<1> USE FeedAssumption DEF Init
<1>1. FullSubscription \in Subscription /\ NewSubscription \in Subscription
  BY DEF FullSubscription, NewSubscription, Subscription, Levels
<1>2. sub \in [Clients -> Subscription]
  BY <1>1
<1>3. /\ made \in [Feeds -> Nat] /\ chan \in [Feeds -> Seq(Ids)] /\ batch \in [Feeds -> Seq(Ids)]
      /\ out \in [Feeds -> Seq(Ids)] /\ recv \in [Clients -> [Feeds -> Seq(Ids)]]
      /\ \A f \in Feeds : made[f] <= MaxMsgs[f] /\ Len(chan[f]) <= ChanCap /\ Len(batch[f]) <= BatchMax
  OBVIOUS
<1>4. QED
  BY <1>2, <1>3 DEF TypeOK

LEMMA PusherTypeOK ==
  ASSUME TypeOK, Picked, Rounds, NEW f \in Feeds, Pusher(f)
  PROVE  TypeOK'
<1> USE FeedAssumption
<1>a. RangeFrom(f) =>
        /\ push' \in [Feeds -> PushStates] /\ seen' \in [Feeds -> SUBSET Clients]
        /\ must' \in [Feeds -> SUBSET Clients] /\ due' \in [Feeds -> SUBSET Clients]
  BY DEF RangeFrom, TypeOK, PushStates
<1>1. CASE Collect(f)
  <2>1. chan[f] \in Seq(Ids) /\ batch[f] \in Seq(Ids) /\ chan[f] # <<>>
    BY <1>1 DEF TypeOK, Collect
  <2>2. /\ Tail(chan[f]) \in Seq(Ids) /\ Len(Tail(chan[f])) <= Len(chan[f])
        /\ Append(batch[f], Head(chan[f])) \in Seq(Ids)
        /\ Len(Append(batch[f], Head(chan[f]))) = Len(batch[f]) + 1
    BY <2>1
  <2>3. chan' \in [Feeds -> Seq(Ids)] /\ \A g \in Feeds : Len(chan'[g]) <= ChanCap
    <3> DEFINE T == Tail(chan[f])
    <3>1. /\ chan \in [Feeds -> Seq(Ids)] /\ \A g \in Feeds : Len(chan[g]) <= ChanCap
          /\ chan' = [chan EXCEPT ![f] = T]
      BY <1>1 DEF TypeOK, Collect
    <3>2. Len(T) <= ChanCap /\ T \in Seq(Ids)
      BY <2>1, <2>2, <3>1, FeedAssumption
    <3> HIDE DEF T
    <3>3. QED
      BY <3>1, <3>2
  <2>4. batch' \in [Feeds -> Seq(Ids)] /\ \A g \in Feeds : Len(batch'[g]) <= BatchMax
    <3>1. Len(Append(batch[f], Head(chan[f]))) <= BatchMax
      BY <1>1, <2>1, <2>2 DEF Rounds, Collect
    <3>2. QED
      BY <1>1, <2>2, <3>1 DEF TypeOK, Collect
  <2>5. QED
    BY <1>1, <1>a, <2>3, <2>4 DEF TypeOK, Collect, subVars, PushStates
<1>2. CASE Tick(f)
  BY <1>2, <1>a DEF TypeOK, Tick, feedVars, subVars, PushStates
<1>3. CASE RangeOver(f)
  <2>1. batch' \in [Feeds -> Seq(Ids)] /\ \A g \in Feeds : Len(batch'[g]) <= BatchMax
    BY <1>3 DEF TypeOK, RangeOver
  <2>2. QED
    BY <1>3, <2>1 DEF TypeOK, RangeOver, subVars
<1>4. ASSUME NEW k \in Clients, Visit(f, k) PROVE TypeOK'
  <2>1. out' \in [Feeds -> Seq(Ids)]
    BY <1>4, SelectedFacts DEF TypeOK, Visit
  <2>2. QED
    BY <1>4, <2>1 DEF TypeOK, Visit, feedVars, subVars
<1>5. ASSUME NEW k \in Clients, Skip(f, k) PROVE TypeOK'
  BY <1>5 DEF TypeOK, Skip, feedVars, subVars
<1>6. CASE Lock(f)
  BY <1>6 DEF TypeOK, Picked, Lock, feedVars, subVars
<1>7. CASE WriteOk(f) \/ WriteFails(f)
  <2>1. /\ mu' \in [Clients -> Feeds \cup {Free}] /\ push' \in [Feeds -> PushStates]
        /\ cur' \in [Feeds -> Clients \cup {Nobody}] /\ out' \in [Feeds -> Seq(Ids)]
    <3>1. Unlock(f) /\ cur[f] \in Clients
      BY <1>7 DEF WriteOk, WriteFails, Picked
    <3>2. mu' \in [Clients -> Feeds \cup {Free}] /\ push' \in [Feeds -> PushStates]
      BY <3>1 DEF TypeOK, Unlock, PushStates
    <3>3. cur' \in [Feeds -> Clients \cup {Nobody}]
      BY <3>1 DEF TypeOK, Unlock
    <3>4. out' \in [Feeds -> Seq(Ids)]
      BY <3>1 DEF TypeOK, Unlock
    <3>5. QED
      BY <3>2, <3>3, <3>4
  <2>2. CASE WriteOk(f)
    <3>1. cur[f] \in Clients
      BY <2>2 DEF WriteOk, Picked
    <3>2. recv[cur[f]][f] \o out[f] \in Seq(Ids)
      BY <3>1 DEF TypeOK
    <3>3. recv' \in [Clients -> [Feeds -> Seq(Ids)]]
      BY <2>2, <3>1, <3>2 DEF TypeOK, WriteOk
    <3>4. QED
      BY <2>1, <2>2, <3>3 DEF TypeOK, WriteOk, feedVars, subVars, PushStates
  <2>3. CASE WriteFails(f)
    BY <2>1, <2>3 DEF TypeOK, WriteFails, feedVars, subVars, PushStates
  <2>4. QED
    BY <1>7, <2>2, <2>3
<1>8. QED
  BY <1>1, <1>2, <1>3, <1>4, <1>5, <1>6, <1>7 DEF Pusher

LEMMA ProduceTypeOK ==
  ASSUME TypeOK, NEW f \in Feeds, Produce(f)
  PROVE  TypeOK'
<1> USE FeedAssumption
<1>1. made[f] \in Nat /\ made[f] + 1 \in Ids
  BY IdsRange DEF TypeOK, Produce
<1>2. made' \in [Feeds -> Nat] /\ \A g \in Feeds : made'[g] <= MaxMsgs[g]
  <2>1. made[f] + 1 <= MaxMsgs[f]
    BY <1>1 DEF Produce
  <2>2. QED
    BY <1>1, <2>1 DEF TypeOK, Produce
<1>3. chan' \in [Feeds -> Seq(Ids)] /\ \A g \in Feeds : Len(chan'[g]) <= ChanCap
  BY <1>1 DEF TypeOK, Produce
<1>4. QED
  BY <1>2, <1>3 DEF TypeOK, Produce, pushVars, subVars

LEMMA ClientTypeOK ==
  ASSUME TypeOK, NEW k \in Clients,
         Handler(k) \/ Connect(k) \/ Subscribe(k) \/ Stall(k) \/ Leave(k)
  PROVE  TypeOK'
<1> USE FeedAssumption DEF feedVars, pushVars, subVars
<1>1. sub[k] \in Subscription
  BY DEF TypeOK
<1>2. CASE Subscribe(k)
  <2>1. [sub[k] EXCEPT !.logs = TRUE] \in Subscription
    BY <1>1 DEF Subscription
  <2>2. sub' \in [Clients -> Subscription]
    BY <1>2, <2>1 DEF TypeOK, Subscribe
  <2>3. QED
    BY <1>2, <2>2 DEF TypeOK, Subscribe
<1>3. CASE SubscribeLevel(k)
  <2>1. \A level \in Wanted[k] : [sub[k] EXCEPT !.mitm = TRUE, !.level = level] \in Subscription
    <3>1. Wanted[k] \subseteq Levels
      BY DEF Levels
    <3>2. QED
      BY <1>1, <3>1 DEF Subscription
  <2>2. sub' \in [Clients -> Subscription]
    <3>1. PICK level \in Wanted[k] :
            sub' = [sub EXCEPT ![k] = [sub[k] EXCEPT !.mitm = TRUE, !.level = level]]
      BY <1>3 DEF SubscribeLevel
    <3>2. QED
      BY <2>1, <3>1 DEF TypeOK
  <2>3. QED
    BY <1>3, <2>2 DEF TypeOK, SubscribeLevel
<1>4. CASE ReadFails(k) \/ Connect(k)
  <2>1. /\ reg' \subseteq Clients
        /\ handler' \in [Clients -> {"off", "new", "level", "loop", "done"}]
        /\ conn' \in [Clients -> {"none", "open", "stalled", "closed"}]
    <3>1. CASE ReadFails(k)
      BY <3>1 DEF TypeOK, ReadFails
    <3>2. CASE Connect(k)
      BY <3>2 DEF TypeOK, Connect
    <3>3. QED
      BY <1>4, <3>1, <3>2
  <2>2. QED
    BY <1>4, <2>1 DEF TypeOK, ReadFails, Connect
<1>5. CASE Stall(k) \/ Leave(k)
  <2>1. faults' \in 0 .. MaxFaults
    BY <1>5 DEF TypeOK, Stall, Leave
  <2>2. conn' \in [Clients -> {"none", "open", "stalled", "closed"}]
    BY <1>5 DEF TypeOK, Stall, Leave
  <2>3. QED
    BY <1>5, <2>1, <2>2 DEF TypeOK, Stall, Leave
<1>6. QED
  BY <1>2, <1>3, <1>4, <1>5 DEF Handler

LEMMA NextTypeOK == TypeOK /\ Picked /\ Rounds /\ [Next]_vars => TypeOK'
<1> SUFFICES ASSUME TypeOK, Picked, Rounds, [Next]_vars PROVE TypeOK'
    OBVIOUS
<1>1. CASE UNCHANGED vars
  BY <1>1 DEF TypeOK, vars, feedVars, pushVars, subVars
<1>2. QED
  BY <1>1, PusherTypeOK, ProduceTypeOK, ClientTypeOK DEF Next

-----------------------------------------------------------------------------
(* The pushers: who writes where, and what a round begins with. *)

Control == Picked /\ Held /\ Rounds

LEMMA PusherControl ==
  ASSUME TypeOK, Control, NEW f \in Feeds, Pusher(f)
  PROVE  Control'
<1> USE FeedAssumption, FreeIsNoFeed DEF Control, Picked, Held
<1>a. /\ push \in [Feeds -> PushStates] /\ cur \in [Feeds -> Clients \cup {Nobody}]
      /\ mu \in [Clients -> Feeds \cup {Free}] /\ seen \in [Feeds -> SUBSET Clients]
      /\ due \in [Feeds -> SUBSET Clients] /\ batch \in [Feeds -> Seq(Ids)]
  BY DEF TypeOK, PushStates
<1>1. CASE Collect(f) \/ Tick(f) \/ RangeOver(f)
  <2>1. UNCHANGED <<cur, mu>> /\ push[f] \in {"collect", "range"}
    BY <1>1 DEF Collect, Tick, RangeOver
  <2>2. /\ push'[f] \in {"collect", "range"}
        /\ push'[f] = "collect" => /\ Len(batch'[f]) < BatchMax
                                   /\ seen'[f] = {} /\ due'[f] = {}
        /\ \A g \in Feeds \ {f} : /\ push'[g] = push[g] /\ seen'[g] = seen[g]
                                  /\ due'[g] = due[g] /\ batch'[g] = batch[g]
    <3>1. CASE Collect(f)
      <4>1. batch' = [batch EXCEPT ![f] = Append(batch[f], Head(chan[f]))]
        BY <3>1 DEF Collect
      <4>2. CASE Len(batch'[f]) >= BatchMax
        BY <1>a, <3>1, <4>1, <4>2 DEF Collect, RangeFrom, PushStates
      <4>3. CASE ~(Len(batch'[f]) >= BatchMax)
        <5>1. batch'[f] \in Seq(Ids)
          <6>1. batch[f] \in Seq(Ids) /\ Head(chan[f]) \in Ids
            BY <3>1 DEF TypeOK, Collect
          <6>2. QED
            BY <1>a, <4>1, <6>1
        <5>2. Len(batch'[f]) < BatchMax
          BY <4>3, <5>1
        <5>3. UNCHANGED <<push, seen, must, due>> /\ push[f] = "collect"
          BY <3>1, <4>3 DEF Collect
        <5>4. QED
          BY <1>a, <4>1, <5>2, <5>3 DEF Rounds
      <4>4. QED
        BY <4>2, <4>3
    <3>2. CASE Tick(f)
      BY <1>a, <3>2 DEF Tick, RangeFrom, feedVars
    <3>3. CASE RangeOver(f)
      <4>1. /\ push' = [push EXCEPT ![f] = "collect"] /\ seen' = [seen EXCEPT ![f] = {}]
            /\ due' = [due EXCEPT ![f] = {}] /\ batch' = [batch EXCEPT ![f] = <<>>]
        BY <3>3 DEF RangeOver
      <4>2. Len(<<>>) = 0
        OBVIOUS
      <4>3. QED
        BY <1>a, <4>1, <4>2
    <3>4. QED
      BY <1>1, <3>1, <3>2, <3>3
  <2>3. \A g \in Feeds : push'[g] = push[g] \/ {push[g], push'[g]} \subseteq {"collect", "range"}
    BY <2>1, <2>2
  <2>4. Picked' /\ Held'
    <3>1. Picked'
      BY <2>1, <2>3
    <3>2. \A g \in Feeds : push'[g] = "write" <=> push[g] = "write"
      BY <2>3
    <3>3. Held'
      BY <2>1, <3>2
    <3>4. QED
      BY <3>1, <3>3
  <2>5. Rounds'
    <3>1. ASSUME NEW g \in Feeds, push'[g] = "collect"
          PROVE  Len(batch'[g]) < BatchMax /\ seen'[g] = {} /\ due'[g] = {}
      <4>1. CASE g = f
        BY <2>2, <3>1, <4>1
      <4>2. CASE g # f
        BY <2>2, <3>1, <4>2 DEF Rounds
      <4>3. QED
        BY <4>1, <4>2
    <3>2. QED
      BY <3>1 DEF Rounds
  <2>6. QED
    BY <2>4, <2>5
<1>2. ASSUME NEW k \in Clients, Visit(f, k) PROVE Control'
  <2>1. push[f] = "range" /\ mu' = mu /\ due' = due /\ batch' = batch
    BY <1>2 DEF Visit, feedVars
  <2>2. /\ push'[f] = "lock" /\ cur'[f] = k
        /\ \A g \in Feeds \ {f} : push'[g] = push[g] /\ cur'[g] = cur[g] /\ seen'[g] = seen[g]
    BY <1>a, <1>2 DEF Visit
  <2>3. Picked'
    BY <2>2
  <2>4. Held'
    <3>1. \A g \in Feeds : push'[g] = "write" <=> push[g] = "write"
      BY <2>1, <2>2
    <3>2. \A g \in Feeds : push[g] = "write" => cur'[g] = cur[g]
      BY <2>1, <2>2
    <3>3. QED
      BY <2>1, <3>1, <3>2
  <2>5. Rounds'
    BY <2>1, <2>2 DEF Rounds
  <2>6. QED
    BY <2>3, <2>4, <2>5
<1>3. ASSUME NEW k \in Clients, Skip(f, k) PROVE Control'
  <2>1. push[f] = "range" /\ UNCHANGED <<push, cur, mu, due, batch>>
        /\ \A g \in Feeds \ {f} : seen'[g] = seen[g]
    BY <1>3 DEF Skip, feedVars
  <2>2. Picked' /\ Held'
    BY <2>1
  <2>3. Rounds'
    BY <2>1 DEF Rounds
  <2>4. QED
    BY <2>2, <2>3
<1>4. CASE Lock(f)
  <2>1. Picked' /\ Held'
    BY <1>a, <1>4 DEF Lock
  <2>2. Rounds'
    BY <1>a, <1>4 DEF Lock, Rounds, feedVars
  <2>3. QED
    BY <2>1, <2>2
<1>5. CASE WriteOk(f) \/ WriteFails(f)
  <2>1. push[f] = "write" /\ Unlock(f) /\ UNCHANGED <<seen, due, batch>>
    BY <1>5 DEF WriteOk, WriteFails, feedVars
  <2>2. Picked' /\ Held'
    BY <1>a, <2>1 DEF Unlock
  <2>3. Rounds'
    BY <1>a, <2>1 DEF Unlock, Rounds
  <2>4. QED
    BY <2>2, <2>3
<1>6. QED
  BY <1>1, <1>2, <1>3, <1>4, <1>5 DEF Pusher

(* What the steps of the others leave alone. *)
LEMMA ProduceFrame ==
  ASSUME NEW f \in Feeds, Produce(f)
  PROVE  UNCHANGED <<batch, pushVars, reg, conn, subVars, mu, recv>>
BY DEF Produce, pushVars, subVars

LEMMA ClientFrame ==
  ASSUME NEW k \in Clients,
         Handler(k) \/ Connect(k) \/ Subscribe(k) \/ Stall(k) \/ Leave(k)
  PROVE  UNCHANGED <<feedVars, pushVars, mu, recv>>
BY DEF Handler, SubscribeLevel, ReadFails, Connect, Subscribe, Stall, Leave, feedVars, pushVars, subVars

LEMMA NextControl == TypeOK /\ Control /\ [Next]_vars => Control'
<1> SUFFICES ASSUME TypeOK, Control, [Next]_vars PROVE Control'
    OBVIOUS
<1>1. ASSUME UNCHANGED <<batch, pushVars, mu>> PROVE Control'
  BY <1>1 DEF Control, Picked, Held, Rounds, pushVars
<1>2. CASE UNCHANGED vars
  BY <1>1, <1>2 DEF vars, feedVars
<1>3. ASSUME NEW f \in Feeds, Produce(f) PROVE Control'
  BY <1>1, <1>3, ProduceFrame
<1>4. ASSUME NEW k \in Clients,
             Handler(k) \/ Connect(k) \/ Subscribe(k) \/ Stall(k) \/ Leave(k)
      PROVE  Control'
  BY <1>1, <1>4, ClientFrame DEF feedVars
<1>5. QED
  BY <1>2, <1>3, <1>4, PusherControl DEF Next

-----------------------------------------------------------------------------
(* The order of the messages. *)

LEMMA EmptyFacts ==
  /\ ToSet(<<>>) = {} /\ Increasing(<<>>)
  /\ \A s : Below(s, <<>>) /\ Below(<<>>, s)
<1>1. ToSet(<<>>) = {}
  BY DEF ToSet
<1>2. QED
  BY <1>1 DEF Increasing, Below

(* A feed is in order as long as nothing of it changes. *)
LEMMA FeedFrame ==
  ASSUME NEW f \in Feeds, InOrder(f),
         made'[f] = made[f], chan'[f] = chan[f], batch'[f] = batch[f], out'[f] = out[f],
         push'[f] = push[f], cur'[f] = cur[f], seen'[f] = seen[f],
         \A k \in Clients : recv'[k][f] = recv[k][f]
  PROVE  InOrder(f)'
BY DEF InOrder, InOrderFor

(* A pusher changes nothing of another feed. *)
LEMMA PusherFrame ==
  ASSUME TypeOK, Picked, NEW f \in Feeds, Pusher(f), NEW g \in Feeds \ {f}
  PROVE  /\ made'[g] = made[g] /\ chan'[g] = chan[g] /\ batch'[g] = batch[g]
         /\ out'[g] = out[g] /\ push'[g] = push[g] /\ cur'[g] = cur[g]
         /\ seen'[g] = seen[g] /\ must'[g] = must[g] /\ due'[g] = due[g]
         /\ \A k \in Clients : recv'[k][g] = recv[k][g]
<1> USE DEF TypeOK, feedVars, RangeFrom, Unlock
<1>1. CASE Collect(f) \/ Tick(f) \/ RangeOver(f)
  BY <1>1 DEF Collect, Tick, RangeOver
<1>2. ASSUME NEW k \in Clients, Visit(f, k) \/ Skip(f, k) PROVE UNCHANGED <<made, chan, batch, must, due, recv>>
                /\ out'[g] = out[g] /\ push'[g] = push[g] /\ cur'[g] = cur[g] /\ seen'[g] = seen[g]
  BY <1>2 DEF Visit, Skip
<1>3. CASE Lock(f)
  BY <1>3 DEF Lock
<1>4. CASE WriteOk(f)
  <2>1. cur[f] \in Clients
    BY <1>4 DEF WriteOk, Picked
  <2>2. \A k \in Clients : recv'[k][g] = recv[k][g]
    BY <1>4, <2>1 DEF WriteOk
  <2>3. QED
    BY <1>4, <2>2 DEF WriteOk
<1>5. CASE WriteFails(f)
  BY <1>5 DEF WriteFails
<1>6. QED
  BY <1>1, <1>2, <1>3, <1>4, <1>5 DEF Pusher

LEMMA FeedTypes ==
  ASSUME TypeOK, NEW f \in Feeds
  PROVE  /\ made[f] \in Nat /\ chan[f] \in Seq(Nat) /\ batch[f] \in Seq(Nat) /\ out[f] \in Seq(Nat)
         /\ \A k \in Clients : recv[k][f] \in Seq(Nat)
<1>1. ASSUME NEW s \in Seq(Ids) PROVE s \in Seq(Nat)
  <2>1. Len(s) \in Nat /\ s = [i \in 1 .. Len(s) |-> s[i]] /\ \A i \in 1 .. Len(s) : s[i] \in Ids
    OBVIOUS
  <2>2. \A i \in 1 .. Len(s) : s[i] \in Nat
    BY <2>1, IdsRange
  <2>3. [i \in 1 .. Len(s) |-> s[i]] \in Seq(Nat)
    BY <2>1, <2>2
  <2>4. QED
    BY <2>1, <2>3
<1>2. QED
  BY <1>1 DEF TypeOK

LEMMA ProduceOrdered ==
  ASSUME TypeOK, NEW f \in Feeds, Produce(f), InOrder(f)
  PROVE  InOrder(f)'
<1> DEFINE n == made[f] + 1
<1>1. /\ made'[f] = n /\ made[f] \in Nat /\ n \in Nat
      /\ chan'[f] = Append(chan[f], n) \/ chan'[f] = chan[f]
      /\ UNCHANGED <<batch, out, push, cur, seen, recv>>
  <2>1. made'[f] = n
    BY DEF TypeOK, Produce
  <2>2. chan'[f] = Append(chan[f], n) \/ chan'[f] = chan[f]
    BY DEF TypeOK, Produce
  <2>3. QED
    BY <2>1, <2>2, FeedTypes DEF Produce, pushVars
<1>2. Increasing(chan'[f]) /\ ToSet(chan'[f]) \subseteq ToSet(chan[f]) \cup {n}
  <2>1. CASE chan'[f] = Append(chan[f], n)
    <3>1. \A y \in ToSet(chan[f]) : y < n
      <4>1. \A y \in ToSet(chan[f]) : y \in Nat
        BY FeedTypes DEF ToSet
      <4>2. QED
        BY <1>1, <4>1 DEF InOrder
    <3>2. Increasing(Append(chan[f], n))
      BY <1>1, <3>1, FeedTypes, IncreasingAppend DEF InOrder
    <3>3. ToSet(Append(chan[f], n)) = ToSet(chan[f]) \cup {n}
      BY <1>1, FeedTypes, ToSetAppend
    <3>4. QED
      BY <2>1, <3>2, <3>3
  <2>2. CASE chan'[f] = chan[f]
    BY <2>2 DEF InOrder
  <2>3. QED
    BY <1>1, <2>1, <2>2
<1>3. /\ \A m \in ToSet(batch[f]) : m \in Nat
      /\ \A m \in ToSet(chan[f]) : m \in Nat
      /\ \A k \in Clients : \A m \in ToSet(recv[k][f]) : m \in Nat
  <2>1. \A s \in Seq(Nat) : \A m \in ToSet(s) : m \in Nat
    BY DEF ToSet
  <2>2. QED
    BY <2>1, FeedTypes
<1> HIDE DEF n
<1>4. /\ \A m \in ToSet(chan'[f]) \cup ToSet(batch[f]) : m <= n
      /\ Below(batch[f], chan'[f])
  <2>0. n = made[f] + 1
    BY DEF n
  <2>1. \A m \in ToSet(batch[f]) \cup ToSet(chan[f]) : m < n
    BY <1>1, <1>3, <2>0 DEF InOrder
  <2>2. \A m \in ToSet(chan'[f]) \cup ToSet(batch[f]) : m <= n
    BY <1>1, <1>2, <1>3, <2>1
  <2>3. QED
    BY <1>2, <2>1, <2>2 DEF InOrder, Below
<1>5. ASSUME NEW k \in Clients PROVE InOrderFor(f, k)'
  <2>0. n = made[f] + 1
    BY DEF n
  <2>1. ASSUME NEW m \in ToSet(recv[k][f]) PROVE m < n /\ m <= n
    <3>1. m <= made[f] /\ m \in Nat
      BY <1>3 DEF InOrder, InOrderFor
    <3>2. QED
      BY <1>1, <2>0, <3>1
  <2>2. Below(recv[k][f], chan'[f])
    BY <1>2, <2>1 DEF InOrder, InOrderFor, Below
  <2>3. QED
    BY <1>1, <2>1, <2>2 DEF InOrder, InOrderFor
<1>6. QED
  BY <1>1, <1>2, <1>4, <1>5 DEF InOrder

LEMMA CollectOrdered ==
  ASSUME TypeOK, Rounds, NEW f \in Feeds, Collect(f), InOrder(f)
  PROVE  InOrder(f)'
<1> DEFINE h == Head(chan[f])
<1>1. /\ push[f] = "collect" /\ chan[f] # <<>> /\ chan[f] \in Seq(Nat) /\ batch[f] \in Seq(Nat)
      /\ h \in Nat /\ Tail(chan[f]) \in Seq(Nat)
      /\ chan'[f] = Tail(chan[f]) /\ batch'[f] = Append(batch[f], h)
      /\ UNCHANGED <<made, out, cur, recv>>
      /\ push'[f] \in {"collect", "range"}
  <2>1. chan[f] # <<>> /\ chan[f] \in Seq(Nat) /\ batch[f] \in Seq(Nat)
    BY FeedTypes DEF Collect
  <2>2. h \in Nat /\ Tail(chan[f]) \in Seq(Nat)
    BY <2>1
  <2>3. chan'[f] = Tail(chan[f])
    BY DEF TypeOK, Collect
  <2>4. batch'[f] = Append(batch[f], h)
    BY DEF TypeOK, Collect
  <2>5. push'[f] \in {"collect", "range"}
    BY DEF TypeOK, Collect, RangeFrom
  <2>6. QED
    BY <2>1, <2>2, <2>3, <2>4, <2>5 DEF Collect
<1>2. /\ ToSet(chan[f]) = {h} \cup ToSet(chan'[f])
      /\ ToSet(batch'[f]) = ToSet(batch[f]) \cup {h}
  BY <1>1, ToSetTail, ToSetAppend
<1>3. Increasing(chan'[f]) /\ \A y \in ToSet(chan'[f]) : h < y
  BY <1>1, IncreasingTail DEF InOrder
<1>4. Increasing(batch'[f])
  <2>1. \A y \in ToSet(batch[f]) : y < h
    BY <1>2 DEF InOrder, Below
  <2>2. QED
    BY <1>1, <2>1, IncreasingAppend DEF InOrder
<1> HIDE DEF h
<1>5. Below(batch'[f], chan'[f]) /\ \A m \in ToSet(chan'[f]) \cup ToSet(batch'[f]) : m <= made[f]
  BY <1>2, <1>3 DEF InOrder, Below
<1>6. seen[f] = {}
  BY <1>1 DEF Rounds
<1>7. ASSUME NEW k \in Clients PROVE InOrderFor(f, k)'
  <2>1. InOrderFor(f, k) /\ k \notin seen[f]
    BY <1>6 DEF InOrder
  <2>2. Below(recv[k][f], chan'[f]) /\ Below(recv[k][f], batch'[f])
    BY <1>2, <2>1 DEF InOrderFor, Below
  <2>3. QED
    BY <1>1, <2>1, <2>2 DEF InOrderFor
<1>8. QED
  BY <1>1, <1>2, <1>3, <1>4, <1>5, <1>7 DEF InOrder

LEMMA RoundOrdered ==
  ASSUME TypeOK, Rounds, NEW f \in Feeds, Tick(f) \/ RangeOver(f), InOrder(f)
  PROVE  InOrder(f)'
<1>1. CASE Tick(f)
  <2>1. /\ push[f] = "collect" /\ push'[f] = "range" /\ seen'[f] = {}
        /\ UNCHANGED <<made, chan, batch, out, cur, recv>>
    BY <1>1 DEF TypeOK, Tick, RangeFrom, feedVars
  <2>2. seen[f] = {}
    BY <2>1 DEF Rounds
  <2>3. QED
    BY <2>1, <2>2 DEF InOrder, InOrderFor
<1>2. CASE RangeOver(f)
  <2>1. push'[f] = "collect" /\ batch'[f] = <<>> /\ UNCHANGED <<made, chan, out, cur, recv>>
    BY <1>2 DEF TypeOK, RangeOver
  <2>2. QED
    BY <2>1, EmptyFacts DEF InOrder, InOrderFor
<1>3. QED
  BY <1>1, <1>2

LEMMA VisitOrdered ==
  ASSUME TypeOK, NEW f \in Feeds, NEW k \in Clients, Visit(f, k) \/ Skip(f, k), InOrder(f)
  PROVE  InOrder(f)'
<1>1. /\ UNCHANGED <<made, chan, batch, recv>>
      /\ seen'[f] = seen[f] \cup {k} /\ k \notin seen[f] /\ push[f] = "range"
  BY DEF TypeOK, Visit, Skip, feedVars
<1>2. CASE Visit(f, k)
  <2>1. push'[f] = "lock" /\ cur'[f] = k /\ out'[f] = Selected(f, k)
    BY <1>2 DEF TypeOK, Visit
  <2>2. Increasing(out'[f])
    BY <2>1, FeedTypes, SiftIncreasing DEF InOrder, Selected
  <2>3. ToSet(out'[f]) \subseteq ToSet(batch[f])
    BY <2>1, SelectedFacts
  <2>4. ASSUME NEW c \in Clients PROVE InOrderFor(f, c)'
    <3>1. InOrderFor(f, c)
      BY DEF InOrder
    <3>2. CASE c = k
      <4>1. Below(recv[c][f], batch[f])
        BY <1>1, <3>1, <3>2 DEF InOrderFor
      <4>2. Below(recv[c][f], out'[f])
        BY <2>3, <4>1 DEF Below
      <4>3. QED
        BY <1>1, <2>1, <3>1, <3>2, <4>2 DEF InOrderFor
    <3>3. CASE c # k
      BY <1>1, <2>1, <3>1, <3>3 DEF InOrderFor
    <3>4. QED
      BY <3>2, <3>3
  <2>5. QED
    BY <1>1, <2>2, <2>3, <2>4 DEF InOrder
<1>3. CASE Skip(f, k)
  <2>1. UNCHANGED <<push, cur, out>>
    BY <1>3 DEF Skip
  <2>2. QED
    BY <1>1, <2>1 DEF InOrder, InOrderFor
<1>4. QED
  BY <1>2, <1>3

LEMMA WriteOrdered ==
  ASSUME TypeOK, Picked, NEW f \in Feeds, Lock(f) \/ WriteOk(f) \/ WriteFails(f), InOrder(f)
  PROVE  InOrder(f)'
<1> USE EmptyFacts
<1>1. CASE Lock(f)
  <2>1. push[f] = "lock" /\ push'[f] = "write" /\ UNCHANGED <<made, chan, batch, out, cur, seen, recv>>
    BY <1>1 DEF TypeOK, Lock, feedVars
  <2>2. QED
    BY <2>1 DEF InOrder, InOrderFor
<1>2. CASE WriteFails(f)
  <2>1. push'[f] = "range" /\ out'[f] = <<>> /\ UNCHANGED <<made, chan, batch, seen, recv>>
    BY <1>2 DEF TypeOK, WriteFails, Unlock, feedVars
  <2>2. QED
    BY <2>1 DEF InOrder, InOrderFor
<1>3. CASE WriteOk(f)
  <2>0. PICK c \in Clients : c = cur[f]
    BY <1>3 DEF WriteOk, Picked
  <2> DEFINE r == recv[c][f]
  <2>1. push[f] = "write"
    BY <1>3 DEF WriteOk
  <2>2. push'[f] = "range" /\ out'[f] = <<>> /\ UNCHANGED <<made, chan, batch, seen>>
    BY <1>3 DEF TypeOK, WriteOk, Unlock, feedVars
  <2>3. recv'[c][f] = r \o out[f]
    BY <1>3, <2>0 DEF TypeOK, WriteOk
  <2>4. \A k \in Clients \ {c} : recv'[k][f] = recv[k][f]
    BY <1>3, <2>0 DEF TypeOK, WriteOk
  <2>5. /\ Increasing(r) /\ \A m \in ToSet(r) : m <= made[f]
        /\ Below(r, chan[f]) /\ c \in seen[f] /\ Below(r, out[f])
    BY <2>0, <2>1 DEF InOrder, InOrderFor
  <2>6. /\ Increasing(r \o out[f]) /\ ToSet(r \o out[f]) = ToSet(r) \cup ToSet(out[f])
    <3>1. r \in Seq(Nat) /\ out[f] \in Seq(Nat)
      BY <2>1, FeedTypes
    <3>2. Increasing(out[f])
      BY DEF InOrder
    <3> HIDE DEF r
    <3>3. QED
      BY <2>5, <3>1, <3>2, IncreasingConcat, ToSetConcat
  <2>7. InOrderFor(f, c)'
    <3>1. ToSet(out[f]) \subseteq ToSet(batch[f])
      BY <2>1 DEF InOrder
    <3>2. \A m \in ToSet(r \o out[f]) : m <= made[f]
      BY <2>5, <2>6, <3>1 DEF InOrder
    <3>3. Below(r \o out[f], chan[f])
      BY <2>5, <2>6, <3>1 DEF InOrder, Below
    <3>4. /\ Increasing(recv'[c][f]) /\ \A m \in ToSet(recv'[c][f]) : m <= made'[f]
          /\ Below(recv'[c][f], chan'[f]) /\ c \in seen'[f] /\ push'[f] = "range"
      BY <2>2, <2>3, <2>5, <2>6, <3>2, <3>3
    <3>5. QED
      BY <3>4 DEF InOrderFor
  <2>8. ASSUME NEW k \in Clients \ {c} PROVE InOrderFor(f, k)'
    <3>1. InOrderFor(f, k)
      BY DEF InOrder
    <3>2. QED
      BY <2>2, <2>4, <3>1 DEF InOrderFor
  <2>9. QED
    BY <2>2, <2>7, <2>8 DEF InOrder
<1>4. QED
  BY <1>1, <1>2, <1>3

LEMMA NextOrdered == TypeOK /\ Picked /\ Rounds /\ Ordered /\ [Next]_vars => Ordered'
<1> SUFFICES ASSUME TypeOK, Picked, Rounds, Ordered, [Next]_vars, NEW g \in Feeds
             PROVE  InOrder(g)'
    BY DEF Ordered
<1>0. InOrder(g)
  BY DEF Ordered
<1>1. CASE UNCHANGED <<feedVars, pushVars, recv>>
  BY <1>0, <1>1, FeedFrame DEF feedVars, pushVars
<1>2. ASSUME NEW f \in Feeds, Pusher(f) PROVE InOrder(g)'
  <2>1. CASE f = g
    BY <1>0, <1>2, <2>1, CollectOrdered, RoundOrdered, VisitOrdered, WriteOrdered DEF Pusher
  <2>2. CASE f # g
    BY <1>0, <1>2, <2>2, PusherFrame, FeedFrame
  <2>3. QED
    BY <2>1, <2>2
<1>3. ASSUME NEW f \in Feeds, Produce(f) PROVE InOrder(g)'
  <2>1. CASE f = g
    BY <1>0, <1>3, <2>1, ProduceOrdered
  <2>2. CASE f # g
    <3>1. made'[g] = made[g] /\ chan'[g] = chan[g] /\ UNCHANGED <<batch, pushVars, recv>>
      BY <1>3, <2>2 DEF TypeOK, Produce
    <3>2. QED
      BY <1>0, <3>1, FeedFrame DEF pushVars
  <2>3. QED
    BY <2>1, <2>2
<1>4. ASSUME NEW k \in Clients,
             Handler(k) \/ Connect(k) \/ Subscribe(k) \/ Stall(k) \/ Leave(k)
      PROVE  InOrder(g)'
  BY <1>1, <1>4, ClientFrame
<1>5. CASE UNCHANGED vars
  BY <1>1, <1>5 DEF vars
<1>6. QED
  BY <1>2, <1>3, <1>4, <1>5 DEF Next

-----------------------------------------------------------------------------
(* Who is served. *)

LEMMA NextSubscriptions == TypeOK /\ Picked /\ Subscriptions /\ [Next]_vars => Subscriptions'
<1> SUFFICES ASSUME TypeOK, Picked, Subscriptions, [Next]_vars, NEW c \in Clients
             PROVE  /\ sub'[c].level \in {Info} \cup Wanted[c]
                    /\ handler'[c] = "off" => c \notin reg'
    BY DEF Subscriptions
<1>0. /\ sub[c].level \in {Info} \cup Wanted[c]
      /\ handler[c] = "off" => c \notin reg
  BY DEF Subscriptions
<1>1. CASE UNCHANGED <<sub, handler>> /\ reg' \subseteq reg
  BY <1>0, <1>1
<1>2. ASSUME NEW f \in Feeds, Pusher(f) \/ Produce(f)
      PROVE  UNCHANGED <<sub, handler>> /\ reg' \subseteq reg
  BY <1>2 DEF Pusher, Collect, Tick, RangeOver, Visit, Skip, Lock, WriteOk, WriteFails,
              Produce, subVars
<1>3. ASSUME NEW k \in Clients,
             Handler(k) \/ Connect(k) \/ Subscribe(k) \/ Stall(k) \/ Leave(k)
      PROVE  /\ sub'[c].level \in {Info} \cup Wanted[c]
             /\ handler'[c] = "off" => c \notin reg'
  <2>1. sub \in [Clients -> Subscription] /\ handler \in [Clients -> {"off", "new", "level", "loop", "done"}]
    BY DEF TypeOK
  <2>2. CASE Subscribe(k)
    <3>1. sub'[c].level = sub[c].level
      BY <2>1, <2>2 DEF Subscribe, Subscription
    <3>2. handler'[c] = "off" => handler[c] = "off" /\ reg' = reg
      BY <2>1, <2>2 DEF Subscribe
    <3>3. QED
      BY <1>0, <3>1, <3>2
  <2>3. CASE SubscribeLevel(k)
    <3>1. sub'[c].level \in {sub[c].level} \cup Wanted[c]
      BY <2>1, <2>3 DEF SubscribeLevel, Subscription
    <3>2. handler'[c] = "off" => handler[c] = "off" /\ reg' = reg
      BY <2>1, <2>3 DEF SubscribeLevel
    <3>3. QED
      BY <1>0, <3>1, <3>2
  <2>4. CASE Connect(k)
    BY <1>0, <2>1, <2>4 DEF Connect
  <2>5. CASE ReadFails(k)
    BY <1>0, <2>1, <2>5 DEF ReadFails
  <2>6. CASE Stall(k) \/ Leave(k)
    BY <1>1, <2>6 DEF Stall, Leave, subVars
  <2>7. QED
    BY <1>3, <2>2, <2>3, <2>4, <2>5, <2>6 DEF Handler
<1>4. CASE UNCHANGED vars
  BY <1>1, <1>4 DEF vars, subVars
<1>5. QED
  BY <1>1, <1>2, <1>3, <1>4 DEF Next

(* A message that passes both levels is among those picked out.              *)
LEMMA PassesSelected ==
  ASSUME TypeOK, Subscriptions, NEW f \in Feeds, NEW k \in Clients,
         NEW m \in ToSet(batch[f]), Passes(f, m, k)
  PROVE  m \in ToSet(Selected(f, k))
<1>1. sub[k].level \in {Info} \cup Wanted[k]
  BY DEF Subscriptions
<1>2. f = "mitm" \/ LevelOf[m] >= sub[k].level
  BY <1>1 DEF Passes
<1>3. QED
  BY <1>2, SelectedFacts

(* A feed's clients are served as long as nothing of it changes, and the     *)
(* clients that are due neither come back nor lose their subscription.       *)
LEMMA ServesFrame ==
  ASSUME NEW f \in Feeds, Serves(f),
         batch'[f] = batch[f], out'[f] = out[f], push'[f] = push[f], cur'[f] = cur[f],
         seen'[f] = seen[f], must'[f] = must[f], due'[f] = due[f], due[f] \subseteq Clients,
         \A k \in Clients : recv'[k][f] = recv[k][f],
         \A k \in due[f] : /\ sub'[k][f] = sub[k][f] /\ handler'[k] # "off"
                           /\ k \in reg' => k \in reg
  PROVE  Serves(f)'
BY DEF Serves, Passes

LEMMA PusherServed ==
  ASSUME TypeOK, Picked, Rounds, Subscriptions, NEW f \in Feeds, Pusher(f), Serves(f)
  PROVE  Serves(f)'
<1>0. /\ due[f] \subseteq Clients /\ reg \subseteq Clients
      /\ due \in [Feeds -> SUBSET Clients] /\ must \in [Feeds -> SUBSET Clients]
      /\ seen \in [Feeds -> SUBSET Clients] /\ push \in [Feeds -> PushStates]
      /\ cur \in [Feeds -> Clients \cup {Nobody}] /\ out \in [Feeds -> Seq(Ids)]
      /\ batch \in [Feeds -> Seq(Ids)]
  BY DEF TypeOK, PushStates
<1>1. ASSUME RangeFrom(f), UNCHANGED <<reg, sub, handler>> PROVE Serves(f)'
  <2>1. /\ due'[f] = {k \in reg : sub[k][f]} /\ must'[f] = reg /\ seen'[f] = {}
    BY <1>0, <1>1 DEF RangeFrom
  <2>2. \A k \in due'[f] : sub[k][f] /\ handler[k] # "off"
    BY <1>0, <2>1 DEF Subscriptions
  <2>3. QED
    BY <1>1, <2>1, <2>2 DEF Serves
<1>2. CASE Collect(f)
  <2>1. CASE RangeFrom(f)
    BY <1>1, <1>2, <2>1 DEF Collect, subVars
  <2>2. CASE ~RangeFrom(f)
    <3>1. UNCHANGED <<push, seen, must, due, sub, handler>>
      BY <1>2, <2>2 DEF Collect, subVars
    <3>2. due[f] = {}
      BY <1>2 DEF Collect, Rounds
    <3>3. QED
      BY <3>1, <3>2 DEF Serves
  <2>3. QED
    BY <2>1, <2>2
<1>3. CASE Tick(f)
  BY <1>1, <1>3 DEF Tick, subVars
<1>4. CASE RangeOver(f)
  <2>1. due'[f] = {}
    BY <1>0, <1>4 DEF RangeOver
  <2>2. QED
    BY <2>1 DEF Serves
<1>5. ASSUME NEW k \in Clients, Visit(f, k) \/ Skip(f, k) PROVE Serves(f)'
  <2>1. /\ push[f] = "range" /\ seen'[f] = seen[f] \cup {k}
        /\ UNCHANGED <<batch, must, due, reg, sub, handler, recv>>
    BY <1>0, <1>5 DEF Visit, Skip, feedVars, subVars
  <2>2. ASSUME NEW c \in due[f] \cap reg \cap seen[f], c # k,
               NEW m \in ToSet(batch[f]), Passes(f, m, c)
        PROVE  m \in ToSet(recv[c][f])
    BY <2>1, <2>2 DEF Serves
  <2>3. CASE Visit(f, k)
    <3>1. push'[f] = "lock" /\ cur'[f] = k /\ out'[f] = Selected(f, k)
      BY <1>0, <2>3 DEF Visit
    <3>2. \A m \in ToSet(batch[f]) : Passes(f, m, k) => m \in ToSet(out'[f])
      BY <3>1, PassesSelected
    <3>3. QED
      BY <2>1, <2>2, <3>1, <3>2 DEF Serves, Passes
  <2>4. CASE Skip(f, k)
    <3>1. UNCHANGED <<push, cur, out>>
      BY <2>4 DEF Skip
    <3>2. k \in due[f] => \A m \in ToSet(batch[f]) : ~Passes(f, m, k)
      <4>1. k \in due[f] => Selected(f, k) = <<>>
        BY <2>4 DEF Serves, Skip
      <4>2. QED
        BY <4>1, PassesSelected, EmptyFacts
    <3>3. QED
      BY <2>1, <2>2, <3>1, <3>2 DEF Serves, Passes
  <2>5. QED
    BY <1>5, <2>3, <2>4
<1>6. CASE Lock(f)
  <2>1. push[f] = "lock" /\ push'[f] = "write"
        /\ UNCHANGED <<batch, seen, must, due, cur, out, reg, sub, handler, recv>>
    BY <1>0, <1>6 DEF Lock, feedVars, subVars
  <2>2. QED
    BY <2>1 DEF Serves, Passes
<1>7. CASE WriteOk(f) \/ WriteFails(f)
  <2>0. PICK c \in Clients : c = cur[f]
    BY <1>7 DEF WriteOk, WriteFails, Picked
  <2>1. push[f] = "write" /\ push'[f] = "range" /\ UNCHANGED <<batch, seen, must, due, sub, handler>>
    BY <1>0, <1>7 DEF WriteOk, WriteFails, Unlock, feedVars, subVars
  <2>2. CASE WriteOk(f)
    <3>1. recv'[c][f] = recv[c][f] \o out[f] /\ reg' = reg
      BY <2>0, <2>2 DEF TypeOK, WriteOk
    <3>2. \A k \in Clients \ {c} : recv'[k][f] = recv[k][f]
      BY <2>0, <2>2 DEF TypeOK, WriteOk
    <3>3. ToSet(out[f]) \subseteq ToSet(recv'[c][f])
      <4>1. recv[c][f] \in Seq(Nat) /\ out[f] \in Seq(Nat)
        BY FeedTypes
      <4>2. QED
        BY <3>1, <4>1, ToSetConcat
    <3>4. QED
      BY <1>0, <2>0, <2>1, <3>1, <3>2, <3>3 DEF Serves, Passes
  <2>3. CASE WriteFails(f)
    BY <1>0, <2>0, <2>1, <2>3 DEF Serves, Passes, WriteFails
  <2>4. QED
    BY <1>7, <2>2, <2>3
<1>8. QED
  BY <1>2, <1>3, <1>4, <1>5, <1>6, <1>7 DEF Pusher

LEMMA NextServed ==
  TypeOK /\ Picked /\ Rounds /\ Subscriptions /\ Served /\ [Next]_vars => Served'
<1> SUFFICES ASSUME TypeOK, Picked, Rounds, Subscriptions, Served, [Next]_vars, NEW g \in Feeds
             PROVE  Serves(g)'
    BY DEF Served
<1>0. Serves(g) /\ due[g] \subseteq Clients
  BY DEF Served, TypeOK
<1>1. ASSUME UNCHANGED <<batch, pushVars, recv>>,
             \A k \in due[g] : /\ sub'[k][g] = sub[k][g] /\ handler'[k] # "off"
                               /\ k \in reg' => k \in reg
      PROVE  Serves(g)'
  BY <1>0, <1>1, ServesFrame DEF pushVars
<1>2. \A k \in due[g] : sub[k][g] /\ handler[k] # "off"
  BY <1>0 DEF Serves
<1>3. CASE UNCHANGED vars
  BY <1>1, <1>2, <1>3 DEF vars, feedVars, subVars
<1>4. ASSUME NEW f \in Feeds, Produce(f) PROVE Serves(g)'
  BY <1>1, <1>2, <1>4 DEF Produce, subVars
<1>5. ASSUME NEW f \in Feeds, Pusher(f) PROVE Serves(g)'
  <2>1. CASE f = g
    BY <1>0, <1>5, <2>1, PusherServed
  <2>2. CASE f # g
    <3>1. UNCHANGED <<sub, handler>> /\ reg' \subseteq reg
      BY <1>5 DEF Pusher, Collect, Tick, RangeOver, Visit, Skip, Lock, WriteOk, WriteFails, subVars
    <3>2. QED
      BY <1>0, <1>2, <1>5, <2>2, <3>1, PusherFrame, ServesFrame
  <2>3. QED
    BY <2>1, <2>2
<1>6. ASSUME NEW c \in Clients,
             Handler(c) \/ Connect(c) \/ Subscribe(c) \/ Stall(c) \/ Leave(c)
      PROVE  Serves(g)'
  <2>0. UNCHANGED <<batch, pushVars, recv>>
    BY <1>6, ClientFrame DEF feedVars
  <2>1. sub \in [Clients -> Subscription] /\ g \in {"logs", "mitm"}
        /\ handler \in [Clients -> {"off", "new", "level", "loop", "done"}]
    BY DEF TypeOK, Feeds
  <2>2. CASE Subscribe(c)
    <3>1. ASSUME NEW k \in due[g] PROVE sub'[k][g] = sub[k][g]
      <4>1. sub[k][g] = TRUE /\ sub[k] \in Subscription /\ k \in Clients
        BY <1>0, <1>2, <2>1 DEF Subscription
      <4>2. CASE k = c
        <5>1. sub'[k] = [sub[k] EXCEPT !.logs = TRUE]
          BY <2>1, <2>2, <4>1, <4>2 DEF Subscribe
        <5>2. QED
          BY <2>1, <4>1, <5>1 DEF Subscription
      <4>3. CASE k # c
        BY <2>1, <2>2, <4>1, <4>3 DEF Subscribe
      <4>4. QED
        BY <4>2, <4>3
    <3>2. \A k \in due[g] : handler'[k] # "off" /\ reg' = reg
      BY <1>0, <1>2, <2>1, <2>2 DEF Subscribe
    <3>3. QED
      BY <1>1, <2>0, <3>1, <3>2
  <2>3. CASE SubscribeLevel(c)
    <3>1. ASSUME NEW k \in due[g] PROVE sub'[k][g] = sub[k][g]
      <4>1. sub[k][g] = TRUE /\ sub[k] \in Subscription /\ k \in Clients
        BY <1>0, <1>2, <2>1 DEF Subscription
      <4>2. CASE k = c
        <5>1. PICK level \in Wanted[c] : sub'[k] = [sub[k] EXCEPT !.mitm = TRUE, !.level = level]
          BY <2>1, <2>3, <4>1, <4>2 DEF SubscribeLevel
        <5>2. QED
          BY <2>1, <4>1, <5>1 DEF Subscription
      <4>3. CASE k # c
        BY <2>1, <2>3, <4>1, <4>3 DEF SubscribeLevel
      <4>4. QED
        BY <4>2, <4>3
    <3>2. \A k \in due[g] : handler'[k] # "off" /\ reg' = reg
      BY <1>0, <1>2, <2>1, <2>3 DEF SubscribeLevel
    <3>3. QED
      BY <1>1, <2>0, <3>1, <3>2
  <2>4. CASE Connect(c)
    BY <1>0, <1>1, <1>2, <2>0, <2>1, <2>4 DEF Connect
  <2>5. CASE ReadFails(c)
    BY <1>0, <1>1, <1>2, <2>0, <2>1, <2>5 DEF ReadFails
  <2>6. CASE Stall(c) \/ Leave(c)
    BY <1>1, <1>2, <2>0, <2>6 DEF Stall, Leave, subVars
  <2>7. QED
    BY <1>6, <2>2, <2>3, <2>4, <2>5, <2>6 DEF Handler
<1>7. QED
  BY <1>3, <1>4, <1>5, <1>6 DEF Next

-----------------------------------------------------------------------------
(* The invariant. *)

LEMMA InitIInv == Init => IInv
<1> SUFFICES ASSUME Init PROVE IInv
    OBVIOUS
<1>1. TypeOK
  BY InitTypeOK
<1>2. Picked /\ Held
  BY FreeIsNoFeed DEF Init, Picked, Held
<1>3. Rounds
  BY FeedAssumption DEF Init, Rounds
<1>4. Ordered
  BY EmptyFacts DEF Init, Ordered, InOrder, InOrderFor
<1>5. Subscriptions
  BY FeedAssumption DEF Init, Subscriptions, FullSubscription, NewSubscription
<1>6. Served
  BY DEF Init, Served, Serves
<1>7. QED
  BY <1>1, <1>2, <1>3, <1>4, <1>5, <1>6 DEF IInv

LEMMA NextIInv == IInv /\ [Next]_vars => IInv'
BY NextTypeOK, NextControl, NextOrdered, NextSubscriptions, NextServed DEF IInv, Control

-----------------------------------------------------------------------------
(* The theorems. *)

(* IInv is inductive, so it holds in every reachable state of any instance.  *)
THEOREM Inductive == Spec => []IInv
<1>1. QED
  BY InitIInv, NextIInv, PTL DEF Spec

(* The variables keep their types, the channels and batches their bounds.    *)
THEOREM TypeCorrect == Spec => []TypeOK
<1>1. IInv => TypeOK
  BY DEF IInv
<1>2. QED
  BY <1>1, Inductive, PTL

(* No two pushers write to the same websocket at the same time, for any      *)
(* number of clients that come, stall and leave.                             *)
THEOREM WritesAreExclusive == Spec => []OneWriter
<1>1. IInv => OneWriter
  BY DEF IInv, Picked, Held, OneWriter
<1>2. QED
  BY <1>1, Inductive, PTL

(* Every client gets the messages of a feed in the order they were made and  *)
(* none twice, however the batches are cut, whatever the channel dropped.    *)
THEOREM FeedsInOrder == Spec => []FeedInOrder
<1>1. IInv => FeedInOrder
  BY DEF IInv, Ordered, InOrder, InOrderFor, Increasing, FeedInOrder
<1>2. QED
  BY <1>1, Inductive, PTL

(* Only the end of a round clears a batch that is not empty. *)
LEMMA OnlyRangeOverClears ==
  ASSUME TypeOK, [Next]_vars, NEW g \in Feeds, batch[g] # <<>>, batch'[g] = <<>>
  PROVE  RangeOver(g)
<1>1. batch' # batch
  OBVIOUS
<1>2. PICK f \in Feeds : Pusher(f)
  <2>1. ~UNCHANGED vars /\ \A f \in Feeds : ~Produce(f)
    BY <1>1 DEF vars, feedVars, Produce
  <2>2. \A k \in Clients : ~(Handler(k) \/ Connect(k) \/ Subscribe(k) \/ Stall(k) \/ Leave(k))
    BY <1>1, ClientFrame DEF feedVars
  <2>3. QED
    BY <2>1, <2>2 DEF Next
<1>3. Collect(f) \/ RangeOver(f)
  BY <1>1, <1>2 DEF Pusher, Tick, Lock, WriteOk, WriteFails, Visit, Skip, feedVars
<1>4. ASSUME Collect(f) PROVE FALSE
  <2>1. batch[f] \in Seq(Ids) /\ Head(chan[f]) \in Ids
    BY <1>4 DEF Collect, TypeOK
  <2>2. Append(batch[f], Head(chan[f])) # <<>>
    BY <2>1
  <2>3. QED
    BY <1>4, <2>2 DEF Collect, TypeOK
<1>5. f = g
  BY <1>3, <1>4 DEF RangeOver, TypeOK
<1>6. QED
  BY <1>3, <1>4, <1>5

(* A batch is cleared only when every client that was subscribed when it was *)
(* sent around and still is registered has each of its messages that passes  *)
(* the client's level.                                                       *)
THEOREM BatchesDelivered == Spec => BatchDelivered
<1> DEFINE A == \A f \in Feeds : batch[f] # <<>> /\ batch'[f] = <<>> =>
                  \A k \in due[f] \cap reg, m \in ToSet(batch[f]) :
                    Passes(f, m, k) => m \in ToSet(recv[k][f])
<1>1. ASSUME IInv, [Next]_vars, NEW f \in Feeds, batch[f] # <<>>, batch'[f] = <<>>,
             NEW k \in due[f] \cap reg, NEW m \in ToSet(batch[f]), Passes(f, m, k)
      PROVE  m \in ToSet(recv[k][f])
  <2>1. RangeOver(f)
    BY <1>1, OnlyRangeOverClears DEF IInv
  <2>2. Serves(f) /\ push[f] = "range" /\ must[f] \cap reg \subseteq seen[f]
    BY <1>1, <2>1 DEF IInv, Served, RangeOver
  <2>3. k \in due[f] \cap reg \cap seen[f]
    BY <2>2 DEF Serves
  <2>4. QED
    BY <1>1, <2>2, <2>3 DEF Serves
<1>2. IInv /\ [Next]_vars => [A]_vars
  BY <1>1
<1>3. QED
  BY <1>2, Inductive, PTL DEF Spec, BatchDelivered
=============================================================================
