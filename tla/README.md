# A formal model of proxy_man

`proxy_man` is a Go man-in-the-middle HTTP(S) proxy (`src/proxy_man`) with a Vue user
interface (`src/proxyui`). This directory holds its TLA+ specifications, the TLC
configurations that model-check them on small instances, and TLAPS proofs of the
properties that matter most for every value of the constants.

    tlc -config Reg_pair.cfg MCConnRegistry      # a run: the table below names module and cfg
    tlapm ConnRegistryProofs.tla                 # the proofs of a module

`PROJECT.json` lists the runs, for every definition the source lines it stands for, a
mutation of the code for every checked property, the hazards of the code, and the theorems.

## 1. Inventory

| component | source | state it keeps | operations |
|---|---|---|---|
| connection registry | `mproxy/connections.go`, Store/Delete calls in `http.go`, `https.go` | `Connections` (sync.Map of session -> `*ConnectionInfo`), `sess` counter | store, MarkConnectionClosed, CloseAndRemoveConnection |
| handlers | `mproxy/http.go`, `https.go`, `websocket.go` | one goroutine per connection: client socket, target socket, current session | plain request, keep-alive engine, CONNECT as MITM, tunnel or reject |
| control socket | `proxysocket/proxy.go` | one goroutine per websocket client | closeAllConnections, closeConnection, subscribe |
| event hub and pushers | `proxysocket/hub.go`, `mproxy/logs.go` | subscriptions, batches, three bounded channels, the 500 ms connection pusher | broadcast; collect closed records |
| MITM exchange and body capture | `mproxy/mitm_exchange.go`, `mproxy/actions.go`, `myminio/minioUpload.go` | per request: two captures, each with an io.Pipe and an uploader goroutine | BuildBodyReader, Read, Close, uploadToMinIO, SendExchange |
| configuration | `mproxy/config.go`, `handleConfig` | `Current` under an RWMutex, `config.json`, `config.json.tmp` | Load, UpdateConfig, GetConfig, saveLocked |
| router | `mproxy/router.go`, `router_roundtrip.go`, `connectDial` | `Dialers`, `Rules` under an RWMutex | ReloadFromConfig, MatchRoute |
| traffic accounting | `https_traffic.go`, `tunnel_traffic.go` | per-session, parent and global counters | add, read each second |
| HTTP/1 reader | `http1parser/` | a buffer cloned from the connection | ReadRequest, header extraction |
| certificates | `signer/`, `tls_cert.go` | certificate cache | SignHost |
| UI store and views | `proxyui/src/stores/websocket.js`, `views/*.vue` | configuration, live and closed connections, exchanges | load, merge, save; reconnect; render |
| start-up, hooks, MinIO client | `main.go`, `core_proxy.go`, `hooks.go`, `ctxt.go`, `myminio/config.go` | - | wiring |

How they interact. A handler takes a session number, stores a record, runs the request hooks
(which may wrap the body in a capture and choose a RoundTripper by the router), relays the
answer, closes the bodies (which waits for the uploads and sends the exchange into a channel)
and marks the record on its way out. The connection pusher and the control goroutines read and
change the same records without a lock; they reach a handler only by cancelling its request's
context or by closing its client socket. `handleConfig` changes the configuration under
`cm.mu` and reloads the router after it has released it. Everything the UI knows comes from
pushed messages and from the configuration it loaded last.

What is hard, and which property is about it:

* *Registry.* Records are marked by a load and two unsynchronised writes, collected in three steps, stored
  twice for a tunnel, and closed from four kinds of goroutine. No record may stay Active after its
  handler (`ActiveIsServed`), no session may come back (`LifecycleSpec`, `RemovedStaysRemoved`), the
  collector may only take what is closed (`NoActiveEvicted`), closing a tunnel must reach its children
  (`ChildrenReached`) and must end (`ClosedTunnelEnds`).
* *Capture.* Handler, Transport writer and uploaders meet on two pipes, and each may give up at
  any point. Nobody may wait for ever (`CloseReturns`, `BodyMoves`), no goroutine may be left
  (`NoUploadLeft`), what the UI is told must be true and final (`CaptureHonest`, `SentIsFinal`) and
  must be told at all (`ResponseReported`, `ErrorReported`).
* *Configuration.* Several tabs save, the disk may fail, the process may die at any step, and the
  router is rebuilt outside the lock. The file must stay whole (`DiskWhole`), agree with memory
  (`MemoryIsSaved`), and the router must follow (`RouterFollowsConfig`, `LoneSavesRouted`, `NoMissingNode`).
* *Relays.* Two copies share two sockets; each side may half-close, reset, or be closed by a command. One
  direction's end must neither cut the other (`StreamSpec`) nor go unnoticed (`EndForwarded`, `RelayEnds`).
* *Keep-alive loop.* The reader keeps a copy of what it reads, the Transport's writer takes the body from the
  same buffer and may stop early, the answer may break off. The loop must find the next request
  (`Aligned`), keep its headers (`HeadersKept`, `NamesKept`), and never pass off a cut answer as
  whole (`TruncationVisible`, `AnswerWhole`).
* *Feeds.* Two pushers write to the same websockets while handlers register, rewrite and remove them, and
  clients stall. Nothing may be lost to a healthy client (`BatchDelivered`), or come twice
  (`FeedInOrder`), and one bad client may not stop the rest (`PusherReturns`).
* *The page.* Snapshots are cut off, the websocket breaks, the proxy restarts. What ended must leave the
  list (`GhostGoes`) and enter the history once (`FiledWhenGone`, `HistoryMatchesSet`), and the page
  must reconnect without dropping what works (`Reconnects`, `LiveSocketKept`).

## 2. Plan

Done, in this order: `ConnRegistry` with its abstract specification `ConnLifecycle`; `ConfigRouter`;
`MitmExchange`; `TunnelCopy` with its abstract specification `ByteStream`; `EventHub`; `UiStore`;
`KeepAlive`, which joins the request reader, the chunked writer and the loop around them; the proofs.

The proofs followed, component by component: type correctness and the safety invariants, the two
refinements, the action properties, and the facts about sequences that the feeds, the request reader and the
page rest on (`SeqFacts`). Every safety property a run checks is now a theorem as well.

Left, most important first:

1. A composition of `ConnRegistry` and `MitmExchange`: the mark of a request waits for its upload
   (`http.go:294`), so a slow MinIO keeps a finished request Active.
2. A second login during a reconnection (`UiStore` with `MaxLogins` 2), where `LiveSocketKept` fails by design.

The runs are kept few: each asks one question, and a behaviour for which only the model is of
interest has none (the end of section 4).

## 3. Modules and code

### ConnRegistry, ConnLifecycle, MCConnRegistry

State: `sess` is `proxy.sess`; `table` and `heap` are `Connections` and the records it points to (a
session allocates at most two: a tunnel stores its session again after the dial); `pc`, `kind`, `tun`,
`cur`, `again`, `sock`, `remote` are a handler's goroutine, the session of its connection, the
session of its request, the result of `processRequest`, the hijacked socket, the target socket;
`cancelled` is the set of cancelled request contexts; `tickAt`, `scan`, `cmds` are the pusher
and the control commands; `now` is the wall clock.

Atomicity. sync.Map operations are atomic. `MarkConnectionClosed` loads a record and `MarkClosed` writes its
status and its end time, so a mark is three steps of its goroutine: each leaves a debt in `owe` that the next one pays
(`MarkStatus`, `MarkEnd`). Both writes go to the record that was loaded, which a second Store or a Delete may have
taken out of the table by then. The collector likewise reads a record (`PusherVisit`), tests it (`PusherTest`) and
deletes the key (`DeleteOwed`), whatever is stored under it by then. `OnClose` and the mark or Delete that follows
are separate steps; reading a record and calling its `OnClose` are one, since both records of a tunnel close the
same socket. `Expired` on a record whose `EndTime` is not yet written reads
the zero time, older than any retention. A zero time is also what a half-written `time.Time` is taken
for; the two Status strings have the same length, so a torn string header is one of the two.

Handlers. `MyHttpHandle`, `MyHttpHandleWithEngine`, `MyHttpsHandle` and `TurnAway` accept a connection;
`StoreTop`, `ReadRequest`, `ProcessRequest`, `StoreChild`, `RoundTrip`, `Respond`, `ChildMark` are the
request loop; `Strategy`, `Handshake`, `Dial`, `Write200`, `StoreRelay`, `RelayEnd` the CONNECT branches.
The two exit orders are kept apart: the engine and the relay mark and then close, the MITM loop, a failed
dial and a reject close and then mark. `Write200` on an error marks and closes nothing, as the code does.

Abstractions. The pusher may visit a session twice in a tick, or not at all; the code visits each one that stays
just once. A read of a closed socket may still return a request, which the client had pipelined and the reader
buffered. The deferred `cancel` of a request that is over is left out, it reaches nobody. A command names an id that was stored at some time, since only such an id was ever pushed.

`ConnLifecycle` is the abstract specification of one session number: unborn, Active, Closed, gone, never
back, except that the session of a CONNECT tunnel is registered once more (`Register`) after its target has been dialled,
whatever became of it meanwhile. `Phase` and `Relayed` are the refinement mapping. The exception is the code's
second Store, which breaks what `CloseAndRemoveConnection` promises (`RemovedStaysRemoved`). The
history field `back` of a record says that this second Store overtook a close (`Back`): the record it replaces was no
longer Active, or a goroutine had loaded it and not marked it yet, so that the mark lands on a record nobody looks at any
more. Nothing reads the field but the properties, which except just these sessions and hold for all others.

### ConfigRouter, MCConfigRouter

State: `current`, `lock`, `diskError` are `ConfigManager` (the last is a history variable: the last read or save of
`config.json` by this process returned an error); `tmp`, `disk` the two files, each absent, half written or whole; `dialers`,
`rules`, `rlock` the router; `pc` where each tab's POST, or start-up, is; `posted`, `view` what a tab sent
and what its store holds; `rpc`, `via` a request being routed.

A `Table` is one rule and a set of nodes; the rule is installed only if its node has a dialer, as
`ReloadFromConfig` does. `mitm` stands for all fields of the advanced page. A step ends where a lock is
taken or released and at every file operation, because a crash may come between; building the new
table outside the lock has no step of its own, since it reads only the POST's copy. `Load` on a missing
file saves the defaults (`LoadFile`); a file that is there and cannot be read leaves the defaults in memory
(`LoadFails`). Either error is ignored by `NewConfigManager`, as `AddRouter` from `failed` shows. A
tab that has not loaded yet holds the defaults, as the store does. A crash ends the requests with
the process and frees the locks; files and tabs survive.

### MitmExchange

One request of a keep-alive handler. State: `body` (chunks, known length or not, whether it is sent on),
`h` the handler, `w` the Transport's writer, `rt` the result of RoundTrip, `captured`, `readN`, `wend`,
`rend`, `up`, `got`, `capture` of each side: the capture, its pipe and its uploader; `exch` what was sent;
`mitm` the switch, `steady` whether it was left alone during the request (a history variable).

The handler closes the request body when RoundTrip has returned, which may be while the writer still
reads it; both then wait for the uploader. An early answer, a broken peer on either side, a failed write of
the header, a websocket upgrade, an answer without a body that names a length (HEAD, 204, 304) and a
failure of MinIO at any point are all possible.

Abstractions. A body is a count of chunks. io.Pipe is a rendezvous, one step. The
uploader writes `capture` and closes the read end in one step; nothing reads the capture in between
but the handler after `doneCh`. Hooks return no response of their own, since none of the program's does.
Plain mode never calls StartCapture, so it has no exchange and no module of its own. The
content of the snapshots and the exchange id are left out. `Dial` and the writer are net/http and marked
external.

### TunnelCopy, ByteStream

One relay: `copyAndClose` twice for a CONNECT tunnel, `copyOrWarn` twice for an upgraded exchange, and the
goroutine that waits for them. `copy` is where each copy is, `read` and `put` what it has read and
written; `signals` is `waitChan`; `main`, `left` the waiting goroutine and the sockets it still has to close;
`count` and `report` are the counters of `tunnelTrafficClient` and what its `onClose` logged; `fin`, `dead`, `shut`, `closed`
what the system calls of the proxy can tell about a socket.

A write is not atomic: the kernel takes what fits into `Window` and the copy waits for the peer to read. A
peer's FIN, its reset and the close command of the UI may come at any step. A read may return
several bytes. A reset of one peer ends as an orderly FIN for the other: `copyAndClose` calls CloseWrite on
every way out. Upgraded exchanges are not counted. Bytes stand for chunks; `io.Copy` neither reorders nor
skips, so a stream is a count.

`ByteStream` is one direction: the destination gets a prefix of what was sent, and is told of the end only
after the last byte unless the stream broke. `StreamSpec` maps both directions of the relay to it. In an
upgraded exchange the end of one direction counts as a break of the other: that is what
`proxyWebsocket` does.

`ConnRegistry` keeps of this only `RelayEnd`. The `else` branch (`https.go:451-466`) is for sockets that
cannot be half-closed; TCP and TLS connections can, so it is not modelled.

### KeepAlive, MCKeepAlive

One keep-alive connection of either handler. `reqs` is what the client sends; a request is a start line, header
names as spelled, a body as a sequence of lines with, perhaps, an unterminated end. `fetched`, `used`,
`mark` are three positions in that stream: what `bufio.Reader` has read (and the TeeReader copied), what its
users took, what `cloned.Next` has dropped. `pc` and `k` are the loop, `left` and `writer` the
body and the Transport's goroutine on it, `header` the request's header as the positions of the values under each
key, `resp`, `copied`, `out` the answer and what was written of it.

`ReadRequest` takes one line per step so that the socket may run dry anywhere; with the last one it
extracts the names from `cloned` and rewrites the keys. `CloseBody` is the deferred `req.Body.Close`: the
standard library reads the rest of the body unless the client asked to close the connection; it runs after an error
of RoundTrip as well (`drain`), before the loop ends. `WriteChunk`
writes size, data and line end as three writes, each of which may fail.

Abstractions. PreventParseHeader is on; otherwise the reader is the standard library's. A connection of the plain
engine hands its first request over parsed, so here `k` counts from the second, and the stream is taken to begin behind
the first one's body. That supposes net/http has read this body to its end; its Close stops after 256 KB, so the boundary
behind a longer body that nobody read is not covered by `Aligned`. A piece without line end before
the next request line is a start line that cannot be parsed apart from it, and is left out of the names.
What an aborted body leaves behind is a parse error if the loop meets it.

### EventHub, MCEventHub

`chan` and `batch` are the two bounded channels and the slices of the log and exchange pushers; `push`, `seen`,
`must`, `cur`, `out` where each pusher is in its `sync.Map.Range`; `due` is a history variable; `reg`, `sub`, `handler` are
`hub.clients`, the subscriptions and `handleWebSocket`; `mu` is `writeMu`; `conn`, `recv` the websockets and what
they got. A full channel drops. `Range` visits a key at most once and misses none that stays; one that comes
or goes meanwhile may be visited or not. A stalled client makes its write fail after the
deadline, and the pusher then deletes and closes it; the handler notices on its next read.

Abstractions. `updateSubscription` writes five fields; two steps are enough, since no pusher looks at both of
those that share one. The traffic and connection pushers use `broadcastToTopic` in the same way. A page
subscribes to every topic when it connects, and again whenever its user picks another level (`Wanted`). `LogLevel` is a
string, two words that are written and read without synchronisation; that a pusher may read one of each is not modelled.

`Subsequence` has the one operator that `EventHub` and `UiStore` share: the loop that appends what passes a test to a
new slice (the filter by level, and the two loops of `handleConnections`). It is written as a recursive function, so
that the proofs can unfold it.

### UiStore

The page is one JavaScript thread, so every event handler is one step. `sock`, `topic`, `wire` are the
websockets, whether the hub has their subscription, and the snapshots on their way; `current`,
`isConnected`, `timers` the connection part of the store; `shown`, `hist`, `histSet` the lists. `rec` is the
registry reduced to the status of each session, `run` which process of the proxy it belongs to: a
restart numbers sessions from 1. `Listings` are the rows in the pusher's order, `Snapshot` cuts them as it does.
`Ended` are the rows that left the list or are now Closed, `Vanished` and `NewClosed` the two loops.

What the model shows besides the properties: a second login while a reconnect timer runs drops a socket that
is being opened; after a restart an ended session whose number is already in the history is not filed; a
history that was cleared gets closed records again with the next snapshot; an Active connection cut off by the
limit of 350 is filed as closed.

## 4. Runs

| run | module | question | bounds | result |
|---|---|---|---|---|
| `reg_pair` | MCConnRegistry | two connections of any kind, tunnels too, and the collector | 2 handlers, 3 sessions, 2 instants | `ActiveIsServed`, `ParentPresent` hold |
| `reg_live` | MCConnRegistry | one connection of any kind, tunnels too, against a close command | 1 handler, 1 client, 2 sessions, 2 instants | `CloseAllSticks`, `NoActiveEvicted`, `ChildrenReached`, `LifecycleSpec` hold, `ClosedIsCollected` and `ClosedTunnelEnds` under `FairSpec` |
| `reg_removed` | MCConnRegistry | does a removed session stay away | 1 tunnel, 1 client | `RemovedStaysRemoved` violated |
| `mitm_body` | MitmExchange | are captures sound and do all goroutines end | bodies of at most 2 chunks | six properties hold under `FairSpec` |
| `mitm_error` | MitmExchange | is a failed RoundTrip reported | bodies of at most 1 chunk | `ErrorReported` violated |
| `cfg_store` | MCConfigRouter | memory, disk and router with two tabs, read and write errors and a crash | 2 tabs, 1 request, 3 tables, 2 saves, 1 crash | `DiskWhole`, `MemoryIsSaved`, `NoMissingNode` hold, `SaveAnswered` and `LoneSavesRouted` under `FairSpec` |
| `cfg_stale` | MCConfigRouter | does the router follow overlapping saves | 2 tabs, 3 tables, 2 saves | `RouterFollowsConfig` violated |
| `relay_copy` | TunnelCopy | is each direction a stream, does every end reach the other side and the relay end | 2 bytes each way, window 1 | `ReportFinal`, `StreamSpec` hold, `EndForwarded` and `RelayEnds` under `FairSpec` |
| `hub_feed` | MCEventHub | do the feeds survive slow, dying and arriving clients | 2 clients, 2 lines, 1 exchange, channel 1, batch 2, 1 fault | `TypeOK`, `OneWriter`, `FeedInOrder`, `BatchDelivered` hold, `PusherReturns` and `ClosedIsForgotten` under `FairSpec` |
| `ui_store` | UiStore | does the page's picture stay true | 3 sessions, snapshots of 1, history of 2, 1 break, 1 restart, 1 clear, 1 login | `HistoryMatchesSet`, `FiledWhenGone`, `LiveSocketKept` hold, `GhostGoes` and `Reconnects` under `FairSpec` |
| `req_loop` | MCKeepAlive | does the loop stay in step with the connection | every pair of 15 requests, buffer 2, answers of 2 pieces | `Aligned`, `HeadersKept`, `BuffersBounded`, `TruncationVisible`, `AnswerWhole` hold, `LoopEnds` under `FairSpec` |
| `req_names` | MCKeepAlive | does every request keep the spelling of its names | the same | `NamesKept` violated |

Why these bounds. Three sessions are a connection and two requests, so that one child is closed while
the next is opened, or two connections of which one has a child. `MaxTime` 1 with retention 0 separates
closed now from closed before. One command is enough for a command to run against every step of a handler; what two
commands can do together is only covered by the proofs, which have any number. Two chunks let a reader be
in the middle of a body with one chunk delivered and one on its way. Two saves are an overtaken
one and an overtaking one; besides the empty table `GoodOrBad` has a good one and one whose rule names a
missing node, `ThreeTables` two good ones. Two bytes and a window of one make a write block in the middle. With a channel of one and
a batch of two the channel fills, a message is dropped, and a batch is sent both when it is
full and by the ticker; the second client connects while the first is served, and asks for a higher level than the one it
starts with. A level that changes once more under a running Range does not fit into the run; `BatchesDelivered` and
`FeedsInOrder` are proved for any number of changes. A snapshot of
one record cuts off as soon as there are two sessions, and a history of two (never less than what one message
adds, `StoreAssumption`) is trimmed by the third. Two requests are enough for `cloned`: it holds one
earlier body, since each `ReadRequest` empties it. The bodies have each kind of line the header
parser tells apart. No symmetry is used. Deadlock is not checked: every instance stops when its handlers,
commands, saves, bytes, messages or requests are used up.

### What the violated runs show

* `reg_removed`: `closeConnection` between the 200 answer and the second Store of a tunnel closes and
  removes the session; the Store brings it back as Active, until the copies end on the closed socket.
* `mitm_error`: after a failed RoundTrip the recorded error is sent to nobody, although the UI has a place
  for it: only closing a response body sends an exchange.
* `cfg_stale`: two saves reload the router in the opposite order; it keeps the older table.
* `req_names`: `getRequestReader` hands out everything of `cloned` that was consumed since the last request,
  the last body included, and `Http1ExtractHeaders` drops its first line only. After a body with a line end
  the names of the next request are lost, or a line of the body is taken for one. `HeadersKept` bounds the
  damage: no value is ever lost, and bodies without a line end are harmless.

Also in the models, but stated as a property by no run: a close command loads the first record of a tunnel, the tunnel
stores its second one, and the mark of the first leaves the session Active with its socket closed, until its copies
end; after a failed read of `config.json` at start-up the defaults are in force beside the old file, and the next good save
overwrites it; the pusher reads Status between the two writes
of `MarkClosed` and collects a record before its retention is over; a request that registers its child behind
`closeConnection`'s walk outlives the tunnel's record; a tab that saves routes puts back the other page's fields as it
loaded them; the collector deletes the second record of a tunnel whose first one it had found closed; a target that stalls in the middle of
an answer holds the loop of a client that has left; both sockets stay open when the 200 answer of a tunnel cannot be written; between UpdateConfig and
the reload a request is matched against the old, perhaps empty, table; a save answered with 500 is
nevertheless in force in memory; the answer to a HEAD is shown with an upload error.

## 5. Fairness

* `ConnRegistry`: a goroutine that waits for a peer is not fair (`Waits`): RoundTrip, a body copy, a read,
  a handshake, a relay and a dial through an upstream proxy have no deadline. They become fair once the
  proxy has cancelled the context or closed the socket they wait on. Everything else is weakly fair: the Go
  scheduler runs a runnable goroutine, and the clock goes on. The pusher's ticker fires again and again, and each time it
  reads the clock and its Range visits every session that stays registered: `PusherTick` and each `PusherVisit` are
  enabled only between two visits, hence strongly fair. Clients need not connect and nobody has to give a command.
* `ConfigRouter`: file operations return and goroutines are scheduled, hence weak fairness for
  start-up. A tab's step is strongly fair because waiting for a mutex that others take again and again is
  enabled only now and then, and Go's RWMutex does not starve a waiting writer. Saves and crashes are
  not fair; both are bounded.
* `MitmExchange`: reading or writing a socket, dialling and RoundTrip are not fair. What waits for MinIO
  is: every PutObject runs under a context of 30 minutes. The steps on a pipe, closing it, and finishing an
  upload whose input has ended are goroutines that run.
* `TunnelCopy`: the copies and the waiting goroutine are scheduled. Of the network only this is assumed: a peer
  that has not reset reads what has arrived (`PeerRead`). Peers need not send, finish or reset, and no command need come:
  there is no deadline on a half-open tunnel, and none is assumed.
* `EventHub`: pushers and handlers are goroutines. `Lock` is strongly fair, since the two pushers take `writeMu` in
  turns and Go's mutex hands it to a starving waiter. Producers and clients are not fair.
* `UiStore`: the browser delivers its events, timers fire, the pusher ticks and the hub reads. Breaks, restarts,
  logins and clears are not fair and are bounded.
* `KeepAlive`: the handler is scheduled where it waits for nobody, or for the client's stream alone (`Loop`: `IsEOF`,
  reading a head, closing a body). RoundTrip, and `io.Copy` from the answer's body to the client, have no deadline and are
  not cancelled when the client leaves, so neither they nor the Transport's writer are fair; `LoopEnds` therefore excepts
  a handler at either of the two.

## 6. Proofs

All proofs are checked by TLAPS with no assumption beyond the named ASSUMEs of the modules
(`ConstAssumption`, `ChunkAssumption`, `ConfigAssumption`, `BoundAssumption`, `FeedAssumption`,
`ShapeAssumption`, `StoreAssumption`: naturals, disjoint sets of goroutines, well-formed requests), which TLC evaluates in the runs,
and the hypotheses that three theorems about the registry and one about the page name: no tunnels, no command, one login.

* `ConnRegistryProofs`. `TypeCorrect`, `ActiveRecordsAreServed`, `OneRequestAtATime`: for any number of
  handlers, control clients and sessions. `ActiveIsServed` is not inductive: from it alone a record of a
  request could be served as a connection, and a handler about to store could have no session. The
  invariant `IInv` adds that a handler that stores or marks has a session number (`SessionsKnown`), that a
  plain request uses one session for both (`PlainIsOneSession`), that a handler which has loaded a record to mark it
  has loaded its own (`MarksOwn`), and that an Active record is served as
  what its `onClose` says it is (`ActiveOwned`); the last gives both theorems.
  `ParentsAreRegistered`: without a command from the UI (with one it is false: a child may register behind the walk).
  `HInv` adds that numbers are handed out once (`NumbersApart`, `NotYetStored`), that neither record of a served session is
  Closed (`ServedIsActive`) since nobody else is about to mark one (`MarksApart`), that the parent an Active record names is its owner's connection (`ParentKnown`),
  and that the collector is about to delete nobody's connection (`DeletesDead`).
  `RegistryImplementsLifecycle`: every step of the registry is a step or a stutter of `ConnLifecycle`. `LInv` adds
  to `IInv` that numbers are handed out once (`NumbersApart`), that a number taken but not stored is fresh and held by
  one handler (`FreshSessions`: without it a Store could hit a session that was already closed), that a stored record is
  Active or Closed and a second one names its own session as parent (`Stored`), and that a tunnel has stored its session
  once before it dials and not twice before it relays (`Tunnels`), that what a goroutine has loaded was stored
  (`LoadedIsStored`), and that a first record which is closed, or about to be, under a second one is noted in `back`
  (`BackNoted`). From it one lemma per group of actions
  concludes that each step leaves a session as it is, opens, marks, removes or rejoins it (`Same`, `Opens`, `Marks`,
  `Removes`, `Joins`); the four theorems that follow reason about these five changes only, not about the actions.
  `CloseAllIsFinal`: nothing `closeAllConnections` has closed is Active again, where the
  strengthening says that what the walk has visited so far stays over (`Over`), or is the record that the command has
  loaded and is about to mark (`Visited`);
  `CollectorSparesActive`: a record that is Closed, in the table or not, belongs to a session that is over (`ClosedIsOver`,
  by `BackNoted`), and what the collector has decided to delete is still over when it deletes it;
  `CloseOneReachesChildren`: a child that was registered when the walk of `closeConnection` began is visited or gone when
  it ends. The first two except a session whose second Store overtook a close; `OnlyTunnelsComeBack` and `OnlyCommandsBringBack` show that
  without CONNECT tunnels, or without a close command, there is none, so that there the plain statements hold.
* `ConfigRouterProofs`. `TypeCorrect`, `DiskNeverTorn`, `DiskFollowsMemory`, `RulesHaveDialers`. `IInv` says
  when tabs are served (`Started`), that one saver holds the mutex (`OneSaver`), what is on disk at each step
  of a save (`SaveProgress`), and that dialers and rules come from one table while the lock is held
  (`SwapProgress`). Without `SaveProgress` a rename could install anything. `LoneSavesReachRouter`: as long as no two saves
  overlap, the router ends with the configuration in memory. `LoneInv` says that the configuration of the one save under
  way is the one in memory (`OwnConfig`) and that without a save the router has it already.
* `MitmExchangeProofs`. `TypeCorrect`, `NoLeak`, `ReportIsFinal`, `StoredIsRead`: for bodies of any length.
  `IInv` relates the place of the handler to the uploader that may run (`Stages`), a capture to its pipe
  and uploader (`Captures`), the chunks read to the chunks taken (`Counts`), and the exchange sent to the
  captures (`Report`). Type correctness itself needs `Counts`: an uploader takes no more than was read.
  `EveryAnswerReported` needs no strengthening: `ResponseReported` is inductive, one case per place of the handler.
* `TunnelCopyProofs`. `TypeCorrect`, `NothingCut` (a half-close cuts nothing of the other direction),
  `ReportedTrafficIsFinal`, and `RelayImplementsStreams`: every step of the relay is a step or a stutter of
  `ByteStream` in each direction, for any number of bytes and any window. `IInv` relates the place of a copy to the
  sockets it has shut (`Stages`), the ends to what was read and written (`Streams`, `Ends`), the counters to the bytes
  (`Counters`) and the report to both (`Report`). Without `Ends` a socket could be closed under a running copy.
* `EventHubProofs`, for any number of clients and messages. `WritesAreExclusive`: `Held` says that a pusher that writes
  holds the mutex of the client it picked. `FeedsInOrder`: what a client got, what its pusher is sending, the batch and the
  channel are, one after the other, an increasing sequence of numbers below the next one made; filtering keeps
  it increasing (`SiftIncreasing`). `BatchesDelivered`: who has to get the batch is among those its Range
  has still to visit or has got it.
* `KeepAliveProofs`, for any requests, answers and buffer. `TypeCorrect`, `RequestsAligned`: the three places in the stream lie within
  the request that `k` and `pc` name (`Reading`). `HeadersGoOn`: one round of the rewriting loop moves
  values between spellings of one field and loses none, so the whole loop does, by induction over the names. `AnswersWhole`:
  what is out is the head and the chunks copied so far (`Answering`). `NoFalseEnd`: `LastChunk` adds the place of
  the handler when the last chunk is out.
* `UiStoreProofs`, for any number of sessions, restarts, breaks and any limits with `2 * MaxConns <= MaxHist`. `HistoryInStep`: no
  snapshot on its way and no list shown has an id twice (`WireInv`, `Small`), hence what a message files has none twice and none
  that is in the set, and what the limit cuts off leaves both. `NothingUnfiled`: what left the list is among the news, and
  the news are never longer than the history. `LiveSocketSpared`, for one login: a login opens one websocket, a
  websocket that closes leaves one timer, a timer opens at most one (`TimersFromLogins`), so a timer never meets a live one.
* `SeqFacts`: the elements, the order and the length of a sifted sequence, flattening block by block, recursive functions
  over an interval. Its inductions are over a set of naturals (`SetInduction`, from `LeastNatural` and the
  well-foundedness of `<`), since the library's induction theorems, whose argument is an operator, cannot be
  instantiated here.

Only model-checked: the liveness properties (`ClosedIsCollected`, `ClosedTunnelEnds`, `CloseReturns`, `BodyMoves`,
`SaveAnswered`, `EndForwarded`, `RelayEnds`, `PusherReturns`, `ClosedIsForgotten`, `GhostGoes`, `Reconnects`, `LoopEnds`),
because TLAPS has no reasoning about fairness here. The violated properties are refuted by TLC.

## 7. Not modelled

* Rule matching (`router.go`, `stripPort`): a sequential function of a rule list and a host, made of string tests.
* The hook chain (`core_proxy.go`, `handle.go`, `hooks.go`, `ctxt.go`): runs the hooks in order and rewrites
  headers; its two effects on state are in `MitmExchange` and `ConfigRouter`.
* Traffic sums of requests and their parents, and the rates of the traffic pusher: sums for display, updated without
  synchronisation; nothing else depends on them.
* Certificate signing: X.509 encoding over a library. The MinIO client: calls into an SDK. The response helpers:
  used by no hook. Start-up: sequential wiring. Views: rendering. Tests and load generators: not part of the program.
* The answer of a plain request whose RoundTrip failed (`http.go:65`): the response hook panics on a nil response
  before the 500 answer is written; `ConnRegistry` has only the deferred mark.
* The page's lists of traffic, logs and exchanges: append and trim.

`PROJECT.json` names the reason for each and lists, under its hazards, what no property covers.
