---------------------------- MODULE ConfigRouter ----------------------------
(***************************************************************************)
(* The configuration of the proxy and the routing table built from it:     *)
(* the pages of the UI that load, merge and save the whole configuration,  *)
(* handleConfig, ConfigManager with its temporary file and rename,         *)
(* Router.ReloadFromConfig, the requests that are routed meanwhile, and    *)
(* crashes and restarts of the proxy at any step.                          *)
(*                                                                         *)
(* Atomicity.  A step ends where a goroutine takes or releases a lock or   *)
(* where the file system holds something new.  What is done under cm.mu    *)
(* is split at the file operations only, because a crash can come between  *)
(* them; the two assignments of the reload under router.mu are two steps.  *)
(***************************************************************************)
EXTENDS Naturals

CONSTANTS
  Clients,     \* browser tabs, each with its own store
  Requests,    \* requests that ask the router where to go
  Boot,        \* the main goroutine at start-up
  Nodes,       \* names of upstream proxies
  Tables,      \* what the routing page can save: a rule and the nodes given
  NoTable,     \* the table of DefaultConfig
  DiskFails,   \* whether reading, writing or renaming may return an error
  MaxSaves,    \* bound on the saves of the tabs
  MaxCrashes   \* bound on the crashes of the proxy

NoRule == "none"
NoOne == "nobody"
Table == [rule : Nodes \cup {NoRule}, nodes : SUBSET Nodes]

ASSUME ConfigAssumption ==
  /\ Boot \notin Clients /\ NoOne \notin Clients \cup {Boot}
  /\ Nodes \cap {NoRule, "direct", "missing"} = {}
  /\ Tables \subseteq Table /\ NoTable \in Tables
  /\ DiskFails \in BOOLEAN
  /\ MaxSaves \in Nat /\ MaxCrashes \in Nat

(* The routing page owns route and table; mitm stands for the fields of the *)
(* advanced page.                                                           *)
Config == [route : BOOLEAN, table : Tables, mitm : BOOLEAN]
DefaultConfig == [route |-> FALSE, table |-> NoTable, mitm |-> FALSE]

Savers == Clients \cup {Boot}

(* A file is absent, half written, or holds a configuration. *)
Absent == [state |-> "absent", cfg |-> DefaultConfig]
Torn == [state |-> "torn", cfg |-> DefaultConfig]
Whole(c) == [state |-> "whole", cfg |-> c]
File == [state : {"absent", "torn", "whole"}, cfg : Config]

VARIABLES
  up,        \* the proxy serves requests
  current,   \* ConfigManager.Current
  lock,      \* who holds ConfigManager.mu for writing, if any
  diskError, \* the last read or save of config.json has returned an error
  tmp, disk, \* config.json.tmp and config.json
  dialers, rules, \* Router.Dialers and Router.Rules
  rlock,     \* who holds Router.mu for writing, if any
  pc,        \* where each saver is
  posted,    \* the body of each tab's POST, and the page it came from
  view,      \* the configuration in each tab's store
  rpc, via,  \* where each routed request is, and where it was sent
  saves, crashes

cmVars == <<current, lock, diskError>>
fileVars == <<tmp, disk>>
routerVars == <<dialers, rules, rlock>>
tabVars == <<posted, view, saves>>
reqVars == <<rpc, via>>
vars == <<up, cmVars, fileVars, routerVars, pc, tabVars, reqVars, crashes>>

Post == [cfg : Config, page : {"route", "advanced"}]

TypeOK ==
  /\ up \in BOOLEAN /\ current \in Config /\ diskError \in BOOLEAN
  /\ lock \in Savers \cup {NoOne} /\ rlock \in Savers \cup {NoOne}
  /\ tmp \in File /\ disk \in File
  /\ dialers \in SUBSET Nodes /\ rules \in Nodes \cup {NoRule}
  /\ pc \in [Savers -> {"off", "idle", "lock", "write", "writing", "rename",
                        "saved", "failed", "reload", "swap"}]
  /\ posted \in [Clients -> Post]
  /\ view \in [Clients -> Config]
  /\ rpc \in [Requests -> {"idle", "match", "done"}]
  /\ via \in [Requests -> Nodes \cup {"none", "direct", "missing"}]
  /\ saves \in 0 .. MaxSaves /\ crashes \in 0 .. MaxCrashes

Init ==
  /\ up = FALSE /\ current = DefaultConfig /\ diskError = FALSE
  /\ lock = NoOne /\ rlock = NoOne
  /\ tmp = Absent /\ disk = Absent
  /\ dialers = {} /\ rules = NoRule
  /\ pc = [s \in Savers |-> IF s = Boot THEN "off" ELSE "idle"]
  /\ posted = [c \in Clients |-> [cfg |-> DefaultConfig, page |-> "route"]]
  /\ view = [c \in Clients |-> DefaultConfig]
  /\ rpc = [r \in Requests |-> "idle"] /\ via = [r \in Requests |-> "none"]
  /\ saves = 0 /\ crashes = 0

Goto(s, l) == pc' = [pc EXCEPT ![s] = l]

-----------------------------------------------------------------------------
(* saveLocked: marshal, write the temporary file, rename it over the old.   *)

(* Slip: config.json itself is written in place. *)
WriteInPlace(s) ==
  /\ pc[s] = "write"
  /\ disk' = Torn
  /\ Goto(s, "writing")
  /\ UNCHANGED <<up, cmVars, tmp, routerVars, tabVars, reqVars, crashes>>

(* os.WriteFile truncates the temporary file before it writes it. *)
WriteBegin(s) ==
  /\ pc[s] = "write"
  /\ tmp' = Torn
  /\ Goto(s, "writing")
  /\ UNCHANGED <<up, cmVars, disk, routerVars, tabVars, reqVars, crashes>>

WriteEnd(s) ==
  /\ pc[s] = "writing"
  /\ tmp' = Whole(current)
  /\ Goto(s, "rename")
  /\ UNCHANGED <<up, cmVars, disk, routerVars, tabVars, reqVars, crashes>>

Rename(s) ==
  /\ pc[s] = "rename"
  /\ disk' = tmp /\ tmp' = Absent
  /\ diskError' = FALSE
  /\ Goto(s, "saved")
  /\ UNCHANGED <<up, current, lock, routerVars, tabVars, reqVars, crashes>>

(* WriteFile or Rename returns an error. *)
SaveFails(s) ==
  /\ DiskFails
  /\ pc[s] \in {"write", "writing", "rename"}
  /\ diskError' = TRUE
  /\ Goto(s, "failed")
  /\ UNCHANGED <<up, current, lock, fileVars, routerVars, tabVars, reqVars, crashes>>

-----------------------------------------------------------------------------
(* The tabs and handleConfig. *)

(* loadConfig: GET /api/config; GetConfig takes the read lock. *)
Load(c) ==
  /\ up /\ pc[c] = "idle" /\ lock = NoOne
  /\ view' = [view EXCEPT ![c] = current]
  /\ UNCHANGED <<up, cmVars, fileVars, routerVars, pc, posted, saves, reqVars, crashes>>

(* saveConfig of a page: its own fields merged into the tab's store. *)
Submit(c, page, cfg) ==
  /\ up /\ pc[c] = "idle"
  /\ saves < MaxSaves /\ saves' = saves + 1
  /\ posted' = [posted EXCEPT ![c] = [cfg |-> cfg, page |-> page]]
  /\ Goto(c, "lock")
  /\ UNCHANGED <<up, cmVars, fileVars, routerVars, view, reqVars, crashes>>

SaveRoutes(c) ==
  \E on \in BOOLEAN, t \in Tables :
    Submit(c, "route", [route |-> on, table |-> t, mitm |-> view[c].mitm])

SaveAdvanced(c) ==
  \E on \in BOOLEAN :
    Submit(c, "advanced", [route |-> view[c].route, table |-> view[c].table, mitm |-> on])

(* Slip: the mutex is not taken. *)
UpdateUnlocked(c) ==
  /\ pc[c] = "lock"
  /\ lock' = c
  /\ current' = posted[c].cfg
  /\ Goto(c, "write")
  /\ UNCHANGED <<up, diskError, fileVars, routerVars, tabVars, reqVars, crashes>>

(* UpdateConfig: lock, replace Current, then save. *)
UpdateConfig(c) ==
  /\ pc[c] = "lock" /\ lock = NoOne
  /\ lock' = c
  /\ current' = posted[c].cfg
  /\ Goto(c, "write")
  /\ UNCHANGED <<up, diskError, fileVars, routerVars, tabVars, reqVars, crashes>>

(* Slip: the lock is released on success only. *)
AnswerFailedLocked(c) ==
  /\ pc[c] = "failed" /\ c # Boot
  /\ Goto(c, "idle")
  /\ UNCHANGED <<up, cmVars, fileVars, routerVars, tabVars, reqVars, crashes>>

(* The deferred Unlock and the 500 answer; the tab keeps its store. *)
AnswerFailed(c) ==
  /\ pc[c] = "failed" /\ c # Boot
  /\ lock' = NoOne
  /\ Goto(c, "idle")
  /\ UNCHANGED <<up, current, diskError, fileVars, routerVars, tabVars, reqVars, crashes>>

(* Slip: whether to reload is read from the old configuration. *)
SavedStale(c) ==
  /\ pc[c] = "saved" /\ c # Boot
  /\ lock' = NoOne
  /\ IF view[c].route
     THEN Goto(c, "reload") /\ UNCHANGED view
     ELSE Goto(c, "idle") /\ view' = [view EXCEPT ![c] = posted[c].cfg]
  /\ UNCHANGED <<up, current, diskError, fileVars, routerVars, posted, saves, reqVars,
                 crashes>>

(* The deferred Unlock after a successful save. *)
Saved(c) ==
  /\ pc[c] = "saved" /\ c # Boot
  /\ lock' = NoOne
  /\ IF posted[c].cfg.route
     THEN Goto(c, "reload") /\ UNCHANGED view
     ELSE Goto(c, "idle") /\ view' = [view EXCEPT ![c] = posted[c].cfg]
  /\ UNCHANGED <<up, current, diskError, fileVars, routerVars, posted, saves, reqVars,
                 crashes>>

-----------------------------------------------------------------------------
(* ReloadFromConfig, from the configuration of the POST or, at start-up,    *)
(* from GetConfig.  The new table is built before the lock is taken.        *)

Source(s) == IF s = Boot THEN current ELSE posted[s].cfg

(* A rule is installed only if its node has a dialer. *)
Installed(t) == IF t.rule \in t.nodes THEN t.rule ELSE NoRule

ReloadDialers(s) ==
  /\ pc[s] = "reload" /\ rlock = NoOne
  /\ rlock' = s
  /\ dialers' = Source(s).table.nodes
  /\ Goto(s, "swap")
  /\ UNCHANGED <<up, cmVars, fileVars, rules, tabVars, reqVars, crashes>>

ReloadRules(s) ==
  /\ pc[s] = "swap"
  /\ rules' = Installed(Source(s).table)
  /\ rlock' = NoOne
  /\ Goto(s, "idle")
  /\ IF s = Boot
     THEN up' = TRUE /\ UNCHANGED view
     ELSE view' = [view EXCEPT ![s] = posted[s].cfg] /\ UNCHANGED up
  /\ UNCHANGED <<cmVars, fileVars, dialers, posted, saves, reqVars, crashes>>

-----------------------------------------------------------------------------
(* Start-up and crash. *)

(* NewConfigManager and Load: a missing file is written with the defaults,  *)
(* a file that cannot be parsed leaves the defaults in memory.              *)
LoadFile ==
  /\ pc[Boot] = "off"
  /\ lock' = Boot
  /\ current' = IF disk.state = "whole" THEN disk.cfg ELSE DefaultConfig
  /\ Goto(Boot, IF disk.state = "absent" THEN "write" ELSE "saved")
  /\ UNCHANGED <<up, diskError, fileVars, routerVars, tabVars, reqVars, crashes>>

(* os.ReadFile returns another error: the defaults stay in memory, the file *)
(* stays as it is.                                                          *)
LoadFails ==
  /\ DiskFails
  /\ pc[Boot] = "off"
  /\ lock' = Boot
  /\ diskError' = TRUE
  /\ Goto(Boot, "failed")
  /\ UNCHANGED <<up, current, fileVars, routerVars, tabVars, reqVars, crashes>>

(* Load returns, its error ignored; AddRouter reloads if routing is on. *)
AddRouter ==
  /\ pc[Boot] \in {"saved", "failed"}
  /\ lock' = NoOne
  /\ IF current.route
     THEN Goto(Boot, "reload") /\ UNCHANGED up
     ELSE Goto(Boot, "idle") /\ up' = TRUE
  /\ UNCHANGED <<current, diskError, fileVars, routerVars, tabVars, reqVars, crashes>>

(* The process dies: the files stay as they are, the tabs see an error. *)
Crash ==
  /\ pc[Boot] # "off"
  /\ crashes < MaxCrashes /\ crashes' = crashes + 1
  /\ up' = FALSE /\ current' = DefaultConfig /\ diskError' = FALSE
  /\ lock' = NoOne /\ rlock' = NoOne
  /\ dialers' = {} /\ rules' = NoRule
  /\ pc' = [s \in Savers |-> IF s = Boot THEN "off" ELSE "idle"]
  /\ rpc' = [r \in Requests |-> "idle"] /\ via' = [r \in Requests |-> "none"]
  /\ UNCHANGED <<fileVars, tabVars>>

-----------------------------------------------------------------------------
(* A routed request: connectDial, or the request hook of AddRouter, looks   *)
(* at RouteEnable; MatchRoute takes its snapshot under router.mu later.     *)

CheckRouteEnable(r) ==
  /\ up /\ rpc[r] = "idle" /\ lock = NoOne
  /\ IF current.route
     THEN rpc' = [rpc EXCEPT ![r] = "match"] /\ UNCHANGED via
     ELSE rpc' = [rpc EXCEPT ![r] = "done"] /\ via' = [via EXCEPT ![r] = "direct"]
  /\ UNCHANGED <<up, cmVars, fileVars, routerVars, pc, tabVars, crashes>>

(* Slip: MatchRoute without the read lock. *)
MatchUnlocked(r) ==
  /\ rpc[r] = "match"
  /\ rpc' = [rpc EXCEPT ![r] = "done"]
  /\ via' = [via EXCEPT ![r] =
               IF rules = NoRule THEN "direct"
               ELSE IF rules \in dialers THEN rules ELSE "missing"]
  /\ UNCHANGED <<up, cmVars, fileVars, routerVars, pc, tabVars, crashes>>

(* "missing": the rule's target has no dialer, so the request goes direct   *)
(* although a rule sends it elsewhere.                                      *)
MatchRoute(r) ==
  /\ rpc[r] = "match" /\ rlock = NoOne
  /\ rpc' = [rpc EXCEPT ![r] = "done"]
  /\ via' = [via EXCEPT ![r] =
               IF rules = NoRule THEN "direct"
               ELSE IF rules \in dialers THEN rules ELSE "missing"]
  /\ UNCHANGED <<up, cmVars, fileVars, routerVars, pc, tabVars, crashes>>

SaverStep(s) ==
  \/ WriteBegin(s) \/ WriteEnd(s) \/ Rename(s) \/ SaveFails(s)
  \/ ReloadDialers(s) \/ ReloadRules(s)

ClientStep(c) == SaverStep(c) \/ UpdateConfig(c) \/ AnswerFailed(c) \/ Saved(c)
BootStep == SaverStep(Boot) \/ LoadFile \/ LoadFails \/ AddRouter
RequestStep(r) == CheckRouteEnable(r) \/ MatchRoute(r)

Next ==
  \/ \E c \in Clients : Load(c) \/ SaveRoutes(c) \/ SaveAdvanced(c) \/ ClientStep(c)
  \/ BootStep
  \/ \E r \in Requests : RequestStep(r)
  \/ Crash

Spec == Init /\ [][Next]_vars

(* Goroutines are scheduled and file operations return; nobody has to save. *)
Fairness ==
  /\ \A c \in Clients : SF_vars(ClientStep(c))
  /\ WF_vars(BootStep)

FairSpec == Spec /\ Fairness

-----------------------------------------------------------------------------
(* Properties. *)

(* "Written to a temporary file and renamed, lest it be damaged": whenever  *)
(* the process dies, config.json is absent or a complete configuration.     *)
DiskWhole == disk.state # "torn"

(* Outside UpdateConfig, what is in memory is what a restart would load,    *)
(* unless the last access to the file returned an error (a failed save, or  *)
(* a file that could not be read at start-up): saves from several tabs are  *)
(* never mixed, and a successful save ends any difference.                  *)
MemoryIsSaved == up /\ lock = NoOne /\ ~diskError => disk = Whole(current)

(* MatchRoute never finds a rule whose node has no dialer: the rules were   *)
(* checked against the dialers they are swapped in with, and a request sees *)
(* both of the same generation.                                             *)
NoMissingNode == \A r \in Requests : via[r] # "missing"

Quiet == up /\ \A s \in Savers : pc[s] = "idle"

(* "No restart needed after an update": once every save has been answered,  *)
(* the router works by the configuration in force.                          *)
RouterFollowsConfig ==
  Quiet /\ current.route /\ ~diskError => rules = Installed(current.table)

(* As long as the tabs save one after another, the router works by the      *)
(* configuration in force once they are answered, across failed writes,     *)
(* crashes and restarts.                                                    *)
OneSaveAtATime == \A c, d \in Clients : c = d \/ pc[c] = "idle" \/ pc[d] = "idle"
LoneSavesRouted == []OneSaveAtATime => []RouterFollowsConfig

(* Every save is answered, or cut off by a crash: no path keeps the lock.   *)
SaveAnswered == \A c \in Clients : pc[c] = "lock" ~> pc[c] = "idle"
=============================================================================
