-------------------------- MODULE ConfigRouterProofs ------------------------
(* Proofs about ConfigRouter, for any number of tabs, requests, nodes and    *)
(* tables.                                                                   *)
EXTENDS ConfigRouter, TLAPS

-----------------------------------------------------------------------------
(* The inductive invariant. *)

(* Tabs are served only once start-up is over. *)
Started ==
  /\ up <=> pc[Boot] = "idle"
  /\ ~up => \A c \in Clients : pc[c] = "idle"

(* Whoever is in saveLocked holds the mutex, and nobody else does. *)
InLock == {"write", "writing", "rename", "saved", "failed"}
OneSaver == \A s \in Savers : pc[s] \in InLock => lock = s

(* What the saver has on disk, step by step. *)
SaveProgress ==
  /\ \A s \in Savers :
       /\ pc[s] = "rename" => tmp = Whole(current)
       /\ pc[s] = "saved" => disk = Whole(current)
       /\ pc[s] = "failed" => diskError
  /\ pc[Boot] # "off" /\ lock = NoOne /\ ~diskError => disk = Whole(current)

(* The dialers are swapped in under the lock, from the same table the rules  *)
(* will come from.                                                           *)
SwapProgress ==
  /\ \A s \in Savers : pc[s] = "swap" => rlock = s /\ dialers = Source(s).table.nodes
  /\ rlock = NoOne => rules \in dialers \cup {NoRule}

IInv ==
  TypeOK /\ Started /\ OneSaver /\ SaveProgress /\ SwapProgress /\ DiskWhole /\ NoMissingNode

-----------------------------------------------------------------------------

LEMMA InitIInv == Init => IInv
<1> SUFFICES ASSUME Init PROVE IInv
    OBVIOUS
<1> USE ConfigAssumption DEF Init
<1>1. DefaultConfig \in Config
  BY DEF DefaultConfig, Config
<1>2. Absent \in File
  BY <1>1 DEF Absent, File
<1>3. TypeOK
  <2>1. posted \in [Clients -> Post] /\ view \in [Clients -> Config]
    BY <1>1 DEF Post
  <2>2. saves \in 0 .. MaxSaves /\ crashes \in 0 .. MaxCrashes
    OBVIOUS
  <2>3. pc \in [Savers -> {"off", "idle", "lock", "write", "writing", "rename",
                          "saved", "failed", "reload", "swap"}]
    OBVIOUS
  <2>4. rpc \in [Requests -> {"idle", "match", "done"}]
        /\ via \in [Requests -> Nodes \cup {"none", "direct", "missing"}]
    OBVIOUS
  <2>5. QED
    BY <1>1, <1>2, <2>1, <2>2, <2>3, <2>4 DEF TypeOK
<1>4. Started /\ OneSaver /\ SwapProgress
  BY DEF Started, OneSaver, InLock, SwapProgress, Savers
<1>5. SaveProgress /\ DiskWhole /\ NoMissingNode
  BY DEF SaveProgress, DiskWhole, Absent, NoMissingNode, Savers
<1>6. QED
  BY <1>3, <1>4, <1>5 DEF IInv

(* Files and configurations are well formed. *)
LEMMA WholeType == ASSUME NEW c \in Config PROVE Whole(c) \in File
BY DEF Whole, File

LEMMA WholeFile ==
  ASSUME NEW f \in File, f.state = "whole"
  PROVE  f = Whole(f.cfg)
BY DEF Whole, File

LEMMA TornType == Torn \in File /\ Absent \in File /\ DefaultConfig \in Config
BY ConfigAssumption DEF Torn, Absent, DefaultConfig, Config, File

LEMMA SourceType ==
  ASSUME TypeOK, NEW s \in Savers
  PROVE  Source(s) \in Config /\ Source(s).table.nodes \in SUBSET Nodes
         /\ Installed(Source(s).table) \in Source(s).table.nodes \cup {NoRule}
         /\ Installed(Source(s).table) \in Nodes \cup {NoRule}
<1>1. Source(s) \in Config
  BY DEF TypeOK, Source, Savers, Post
<1>2. Source(s).table \in Table
  BY <1>1, ConfigAssumption DEF Config
<1>3. QED
  BY <1>1, <1>2 DEF Table, Installed

(* The steps of saveLocked, whoever takes them. *)
LEMMA SaveSteps ==
  ASSUME IInv, NEW s \in Savers,
         WriteBegin(s) \/ WriteEnd(s) \/ Rename(s) \/ SaveFails(s)
  PROVE  IInv'
<1> USE ConfigAssumption
<1>1. TypeOK'
  BY TornType, WholeType DEF IInv, TypeOK, WriteBegin, WriteEnd, Rename, SaveFails, Goto,
     cmVars, fileVars, routerVars, tabVars, reqVars
<1>2. /\ UNCHANGED <<up, current, lock, rlock, dialers, rules, posted, via>>
      /\ pc' = [pc EXCEPT ![s] = pc'[s]]
      /\ pc[s] \in {"write", "writing", "rename"} /\ pc'[s] \in InLock
  BY DEF IInv, TypeOK, WriteBegin, WriteEnd, Rename, SaveFails, Goto, InLock,
     cmVars, fileVars, routerVars, tabVars, reqVars
<1>3. Started' /\ OneSaver' /\ SwapProgress' /\ NoMissingNode'
  BY <1>2 DEF IInv, TypeOK, Started, OneSaver, SwapProgress, NoMissingNode, InLock, Savers,
     Source
<1>4. lock = s /\ \A q \in Savers \ {s} : pc[q] \notin InLock /\ pc'[q] = pc[q]
  BY <1>2 DEF IInv, OneSaver, InLock, TypeOK
<1>5. SaveProgress' /\ DiskWhole'
  <2>1. CASE WriteBegin(s)
    BY <1>2, <1>4, <2>1 DEF IInv, TypeOK, WriteBegin, Goto, SaveProgress, DiskWhole, InLock,
       cmVars
  <2>2. CASE WriteEnd(s)
    BY <1>2, <1>4, <2>2 DEF IInv, TypeOK, WriteEnd, Goto, SaveProgress, DiskWhole, InLock,
       cmVars
  <2>3. CASE Rename(s)
    BY <1>2, <1>4, <2>3 DEF IInv, TypeOK, Rename, Goto, SaveProgress, DiskWhole, InLock, Whole
  <2>4. CASE SaveFails(s)
    BY <1>2, <1>4, <2>4 DEF IInv, TypeOK, SaveFails, Goto, SaveProgress, DiskWhole, InLock,
       fileVars
  <2>5. QED
    BY <2>1, <2>2, <2>3, <2>4
<1>6. QED
  BY <1>1, <1>3, <1>5 DEF IInv

(* A save enters or leaves the lock. *)
LEMMA LockSteps ==
  ASSUME IInv, NEW c \in Clients, UpdateConfig(c) \/ AnswerFailed(c) \/ Saved(c)
  PROVE  IInv'
<1> USE ConfigAssumption
<1>a. c \in Savers /\ c # Boot /\ Boot \in Savers
  BY DEF Savers
<1>b. posted[c].cfg \in Config /\ posted[c] \in Post
  BY DEF IInv, TypeOK, Post
<1>1. TypeOK'
  BY <1>a, <1>b DEF IInv, TypeOK, UpdateConfig, AnswerFailed, Saved, Goto,
     cmVars, fileVars, routerVars, tabVars, reqVars
<1>2. UNCHANGED <<up, diskError, tmp, disk, rlock, dialers, rules, posted, via>>
      /\ pc' = [pc EXCEPT ![c] = pc'[c]] /\ pc[c] \in {"lock", "failed", "saved"}
      /\ pc'[c] \in {"write", "idle", "reload"}
  BY <1>a DEF IInv, TypeOK, UpdateConfig, AnswerFailed, Saved, Goto,
     cmVars, fileVars, routerVars, tabVars, reqVars
<1>3. up /\ pc[Boot] = "idle" /\ pc'[Boot] = "idle" /\ pc'[c] # "swap"
  BY <1>a, <1>2 DEF IInv, TypeOK, Started
<1>4. Started' /\ SwapProgress' /\ DiskWhole' /\ NoMissingNode'
  BY <1>a, <1>2, <1>3 DEF IInv, TypeOK, Started, SwapProgress, Source, DiskWhole, NoMissingNode
<1>5. CASE UpdateConfig(c)
  <2>1. lock = NoOne /\ lock' = c /\ pc'[c] = "write"
    BY <1>5, <1>a DEF UpdateConfig, IInv, TypeOK, Goto
  <2>2. \A s \in Savers \ {c} : pc[s] \notin InLock /\ pc'[s] = pc[s]
    BY <1>2, <2>1, <1>a DEF IInv, OneSaver, TypeOK, Savers
  <2>3. OneSaver' /\ SaveProgress'
    BY <2>1, <2>2, <1>a DEF OneSaver, SaveProgress, InLock
  <2>4. QED
    BY <1>1, <1>4, <2>3 DEF IInv
<1>6. CASE AnswerFailed(c) \/ Saved(c)
  <2>1. lock' = NoOne /\ pc[c] \in {"failed", "saved"} /\ pc'[c] \notin InLock
        /\ current' = current
    <3>1. CASE AnswerFailed(c)
      BY <3>1, <1>a DEF AnswerFailed, Goto, IInv, TypeOK, InLock
    <3>2. CASE Saved(c)
      BY <3>2, <1>a DEF Saved, Goto, IInv, TypeOK, InLock
    <3>3. QED
      BY <1>6, <3>1, <3>2
  <2>2. \A s \in Savers \ {c} : pc[s] \notin InLock /\ pc'[s] = pc[s]
    BY <1>2, <2>1, <1>a DEF IInv, OneSaver, TypeOK, InLock
  <2>3. diskError \/ disk = Whole(current)
    BY <2>1, <1>a DEF IInv, SaveProgress
  <2>4. OneSaver' /\ SaveProgress'
    BY <1>2, <2>1, <2>2, <2>3, <1>a DEF OneSaver, SaveProgress, InLock, Whole
  <2>5. QED
    BY <1>1, <1>4, <2>4 DEF IInv
<1>7. QED
  BY <1>5, <1>6

(* The two steps of a reload. *)
LEMMA ReloadSteps ==
  ASSUME IInv, NEW s \in Savers, ReloadDialers(s) \/ ReloadRules(s)
  PROVE  IInv'
<1> USE ConfigAssumption
<1>1. Source(s) \in Config /\ Source(s).table.nodes \in SUBSET Nodes
      /\ Installed(Source(s).table) \in Source(s).table.nodes \cup {NoRule}
      /\ Installed(Source(s).table) \in Nodes \cup {NoRule}
  BY SourceType DEF IInv
<1>2. UNCHANGED <<current, lock, diskError, tmp, disk, posted, saves, rpc, via, crashes>>
      /\ pc' = [pc EXCEPT ![s] = pc'[s]] /\ pc[s] \in {"reload", "swap"}
      /\ pc'[s] \in {"swap", "idle"}
  BY DEF IInv, TypeOK, ReloadDialers, ReloadRules, Goto,
     cmVars, fileVars, routerVars, tabVars, reqVars
<1>3. TypeOK'
  <2>1. view' \in [Clients -> Config] /\ up' \in BOOLEAN
    BY DEF IInv, TypeOK, ReloadDialers, ReloadRules, Post, Savers, tabVars
  <2>2. dialers' \in SUBSET Nodes /\ rules' \in Nodes \cup {NoRule}
        /\ rlock' \in Savers \cup {NoOne}
    BY <1>1 DEF IInv, TypeOK, ReloadDialers, ReloadRules
  <2>3. QED
    BY <1>2, <2>1, <2>2 DEF IInv, TypeOK
<1>4. OneSaver' /\ SaveProgress' /\ DiskWhole' /\ NoMissingNode'
  BY <1>2 DEF IInv, TypeOK, OneSaver, SaveProgress, DiskWhole, NoMissingNode, InLock, Whole,
     Savers
<1>5. Started'
  <2>1. CASE s = Boot
    BY <1>2, <2>1 DEF IInv, TypeOK, Started, ReloadDialers, ReloadRules, Goto, Savers
  <2>2. CASE s # Boot
    BY <1>2, <2>2 DEF IInv, TypeOK, Started, ReloadDialers, ReloadRules, Goto, Savers
  <2>3. QED
    BY <2>1, <2>2
<1>6. \A q \in Savers \ {s} : pc[q] # "swap" /\ pc'[q] = pc[q]
  <2>1. rlock \in {NoOne, s}
    BY DEF IInv, SwapProgress, ReloadDialers, ReloadRules
  <2>2. QED
    BY <1>2, <2>1 DEF IInv, TypeOK, SwapProgress, Savers
<1>7. \A q \in Savers : Source(q)' = Source(q)
  BY <1>2 DEF Source
<1>8. SwapProgress'
  <2>1. CASE ReloadDialers(s)
    BY <1>6, <1>7, <2>1 DEF SwapProgress, ReloadDialers, Goto, IInv, TypeOK, Savers
  <2>2. CASE ReloadRules(s)
    <3>1. dialers' = Source(s).table.nodes /\ rules' = Installed(Source(s).table)
      BY <2>2 DEF ReloadRules, IInv, SwapProgress
    <3>2. pc'[s] = "idle"
      BY <2>2 DEF ReloadRules, Goto, IInv, TypeOK
    <3>3. QED
      BY <1>1, <1>6, <3>1, <3>2 DEF SwapProgress
  <2>3. QED
    BY <2>1, <2>2
<1>9. QED
  BY <1>3, <1>4, <1>5, <1>8 DEF IInv

(* Start-up. *)
LEMMA BootSteps ==
  ASSUME IInv, LoadFile \/ LoadFails \/ AddRouter
  PROVE  IInv'
<1> USE ConfigAssumption
<1>a. Boot \in Savers
  BY DEF Savers
<1>1. CASE LoadFile
  <2>1. \A c \in Clients : pc[c] = "idle"
    BY <1>1 DEF IInv, Started, LoadFile
  <2>2. current' \in Config
    BY <1>1, TornType DEF LoadFile, IInv, TypeOK, File
  <2>3. TypeOK'
    BY <1>1, <1>a, <2>2 DEF LoadFile, Goto, IInv, TypeOK, fileVars, routerVars, tabVars, reqVars
  <2>4. UNCHANGED <<up, diskError, tmp, disk, dialers, rules, rlock, posted, via>>
        /\ lock' = Boot /\ pc' = [pc EXCEPT ![Boot] = pc'[Boot]]
        /\ pc'[Boot] \in {"write", "saved"} /\ pc[Boot] = "off"
    BY <1>1, <1>a DEF LoadFile, Goto, IInv, TypeOK, fileVars, routerVars, tabVars, reqVars
  <2>5. pc'[Boot] = "saved" => disk = Whole(current')
    <3>1. ASSUME pc'[Boot] = "saved" PROVE disk.state = "whole"
      BY <1>1, <1>a, <3>1 DEF LoadFile, Goto, IInv, TypeOK, File, DiskWhole
    <3>2. QED
      BY <1>1, <3>1, WholeFile DEF LoadFile, IInv, TypeOK
  <2>6. Started' /\ OneSaver' /\ SwapProgress' /\ DiskWhole' /\ NoMissingNode'
    BY <1>a, <2>1, <2>4 DEF IInv, TypeOK, Started, OneSaver, InLock, SwapProgress, DiskWhole,
       NoMissingNode, Savers
  <2>7. SaveProgress'
    BY <1>a, <2>1, <2>4, <2>5 DEF IInv, TypeOK, SaveProgress, Savers, Whole
  <2>8. QED
    BY <2>3, <2>6, <2>7 DEF IInv
<1>2. CASE AddRouter
  <2>1. \A c \in Clients : pc[c] = "idle"
    BY <1>2 DEF IInv, Started, AddRouter
  <2>2. TypeOK'
    BY <1>2, <1>a DEF AddRouter, Goto, IInv, TypeOK, fileVars, routerVars, tabVars, reqVars
  <2>3. UNCHANGED <<current, diskError, tmp, disk, dialers, rules, rlock, posted, via>>
        /\ pc' = [pc EXCEPT ![Boot] = pc'[Boot]] /\ pc'[Boot] \in {"idle", "reload"}
        /\ (up' <=> pc'[Boot] = "idle")
    BY <1>2, <1>a DEF AddRouter, Goto, IInv, TypeOK, Started, fileVars, routerVars, tabVars,
       reqVars
  <2>4. diskError \/ disk = Whole(current)
    BY <1>2, <1>a DEF AddRouter, IInv, SaveProgress
  <2>5. Started' /\ OneSaver' /\ SwapProgress' /\ DiskWhole' /\ NoMissingNode'
    BY <1>a, <2>1, <2>3 DEF IInv, TypeOK, Started, OneSaver, InLock, SwapProgress, DiskWhole,
       NoMissingNode, Savers, Source
  <2>6. SaveProgress'
    BY <1>a, <2>1, <2>3, <2>4 DEF IInv, TypeOK, SaveProgress, Savers, Whole
  <2>7. QED
    BY <2>2, <2>5, <2>6 DEF IInv
<1>3. CASE LoadFails
  <2>1. \A c \in Clients : pc[c] = "idle"
    BY <1>3 DEF IInv, Started, LoadFails
  <2>2. TypeOK'
    BY <1>3, <1>a DEF LoadFails, Goto, IInv, TypeOK, fileVars, routerVars, tabVars, reqVars
  <2>3. UNCHANGED <<up, current, tmp, disk, dialers, rules, rlock, posted, via>>
        /\ lock' = Boot /\ diskError' /\ pc' = [pc EXCEPT ![Boot] = "failed"] /\ pc[Boot] = "off"
    BY <1>3, <1>a DEF LoadFails, Goto, IInv, TypeOK, fileVars, routerVars, tabVars, reqVars
  <2>4. Started' /\ OneSaver' /\ SwapProgress' /\ DiskWhole' /\ NoMissingNode'
    BY <1>a, <2>1, <2>3 DEF IInv, TypeOK, Started, OneSaver, InLock, SwapProgress, DiskWhole,
       NoMissingNode, Savers, Source
  <2>5. SaveProgress'
    BY <1>a, <2>1, <2>3 DEF IInv, TypeOK, SaveProgress, Savers
  <2>6. QED
    BY <2>2, <2>4, <2>5 DEF IInv
<1>4. QED
  BY <1>1, <1>2, <1>3

LEMMA CrashStep == ASSUME IInv, Crash PROVE IInv'
<1> USE ConfigAssumption
<1>1. TypeOK'
  <2>1. DefaultConfig \in Config
    BY TornType
  <2>2. pc' \in [Savers -> {"off", "idle", "lock", "write", "writing", "rename",
                           "saved", "failed", "reload", "swap"}]
    BY DEF Crash
  <2>3. rpc' \in [Requests -> {"idle", "match", "done"}]
        /\ via' \in [Requests -> Nodes \cup {"none", "direct", "missing"}]
    BY DEF Crash
  <2>4. crashes' \in 0 .. MaxCrashes
    BY DEF Crash, IInv, TypeOK
  <2>5. QED
    BY <2>1, <2>2, <2>3, <2>4 DEF Crash, IInv, TypeOK, fileVars, tabVars
<1>2. Started' /\ OneSaver' /\ SwapProgress' /\ NoMissingNode'
  BY DEF Crash, Started, OneSaver, InLock, SwapProgress, NoMissingNode, Savers
<1>3. SaveProgress' /\ DiskWhole'
  BY DEF Crash, SaveProgress, DiskWhole, IInv, Savers, fileVars
<1>4. QED
  BY <1>1, <1>2, <1>3 DEF IInv

(* What a tab or a request does without the mutexes. *)
LEMMA OtherSteps ==
  ASSUME IInv,
         \/ \E c \in Clients : Load(c) \/ SaveRoutes(c) \/ SaveAdvanced(c)
         \/ \E r \in Requests : RequestStep(r)
         \/ UNCHANGED vars
  PROVE  IInv'
<1> USE ConfigAssumption
<1>1. ASSUME NEW c \in Clients, Load(c) PROVE IInv'
  <2>1. TypeOK'
    BY <1>1 DEF Load, IInv, TypeOK, cmVars, fileVars, routerVars, reqVars
  <2>2. UNCHANGED <<up, cmVars, fileVars, routerVars, pc, posted, via>>
    BY <1>1 DEF Load, reqVars
  <2>3. QED
    BY <2>1, <2>2 DEF IInv, Started, OneSaver, SaveProgress, SwapProgress, DiskWhole,
       NoMissingNode, Source, cmVars, fileVars, routerVars, Whole
<1>2. ASSUME NEW c \in Clients, NEW page \in {"route", "advanced"}, NEW cfg \in Config,
             Submit(c, page, cfg)
      PROVE  IInv'
  <2>1. c \in Savers /\ c # Boot
    BY DEF Savers
  <2>2. TypeOK'
    BY <1>2, <2>1 DEF Submit, Goto, IInv, TypeOK, Post, cmVars, fileVars, routerVars, reqVars
  <2>3. UNCHANGED <<up, cmVars, fileVars, routerVars, via>> /\ up
        /\ pc' = [pc EXCEPT ![c] = "lock"] /\ pc[c] = "idle"
        /\ \A q \in Clients \ {c} : posted'[q] = posted[q]
    BY <1>2 DEF Submit, Goto, reqVars, IInv, TypeOK
  <2>4. Started' /\ OneSaver' /\ DiskWhole' /\ NoMissingNode' /\ SaveProgress'
    BY <2>1, <2>3 DEF IInv, TypeOK, Started, OneSaver, InLock, DiskWhole, NoMissingNode,
       SaveProgress, cmVars, fileVars, Whole, Savers
  <2>5. SwapProgress'
    BY <2>1, <2>3 DEF IInv, TypeOK, SwapProgress, Source, routerVars, cmVars, Savers
  <2>6. QED
    BY <2>2, <2>4, <2>5 DEF IInv
<1>3. ASSUME NEW c \in Clients, SaveRoutes(c) \/ SaveAdvanced(c) PROVE IInv'
  <2>1. view[c] \in Config
    BY DEF IInv, TypeOK
  <2>2. CASE SaveRoutes(c)
    <3>1. PICK on \in BOOLEAN, t \in Tables :
            Submit(c, "route", [route |-> on, table |-> t, mitm |-> view[c].mitm])
      BY <2>2 DEF SaveRoutes
    <3>2. [route |-> on, table |-> t, mitm |-> view[c].mitm] \in Config
      BY <2>1 DEF Config
    <3>3. QED
      BY <1>2, <3>1, <3>2
  <2>3. CASE SaveAdvanced(c)
    <3>1. PICK on \in BOOLEAN :
            Submit(c, "advanced", [route |-> view[c].route, table |-> view[c].table, mitm |-> on])
      BY <2>3 DEF SaveAdvanced
    <3>2. [route |-> view[c].route, table |-> view[c].table, mitm |-> on] \in Config
      BY <2>1 DEF Config
    <3>3. QED
      BY <1>2, <3>1, <3>2
  <2>4. QED
    BY <1>3, <2>2, <2>3
<1>4. ASSUME NEW r \in Requests, RequestStep(r) PROVE IInv'
  <2>1. UNCHANGED <<up, cmVars, fileVars, routerVars, pc, tabVars, crashes>>
    BY <1>4 DEF RequestStep, CheckRouteEnable, MatchRoute
  <2>2. rpc' \in [Requests -> {"idle", "match", "done"}]
        /\ via' \in [Requests -> Nodes \cup {"none", "direct", "missing"}]
    BY <1>4 DEF RequestStep, CheckRouteEnable, MatchRoute, IInv, TypeOK
  <2>3. NoMissingNode'
    <3>1. CASE CheckRouteEnable(r)
      BY <3>1 DEF CheckRouteEnable, NoMissingNode, IInv, TypeOK
    <3>2. CASE MatchRoute(r)
      <4>1. rules \in dialers \cup {NoRule} /\ "missing" \notin dialers
        BY <3>2, ConfigAssumption DEF MatchRoute, IInv, SwapProgress, TypeOK
      <4>2. QED
        BY <3>2, <4>1 DEF MatchRoute, NoMissingNode, IInv, TypeOK
    <3>3. QED
      BY <1>4, <3>1, <3>2 DEF RequestStep
  <2>4. QED
    BY <2>1, <2>2, <2>3 DEF IInv, TypeOK, Started, OneSaver, SaveProgress, SwapProgress,
       DiskWhole, Source, cmVars, fileVars, routerVars, tabVars, Whole
<1>5. CASE UNCHANGED vars
  BY <1>5 DEF vars, IInv, TypeOK, Started, OneSaver, SaveProgress, SwapProgress, DiskWhole,
     NoMissingNode, Source, cmVars, fileVars, routerVars, tabVars, reqVars, Whole
<1>6. QED
  BY <1>1, <1>3, <1>4, <1>5

-----------------------------------------------------------------------------
(* The theorems. *)

LEMMA NextIInv == IInv /\ [Next]_vars => IInv'
<1> SUFFICES ASSUME IInv, [Next]_vars PROVE IInv'
    OBVIOUS
<1>1. \A s \in Savers : SaverStep(s) => IInv'
  BY SaveSteps, ReloadSteps DEF SaverStep
<1>2. \A c \in Clients : ClientStep(c) => IInv'
  BY <1>1, LockSteps DEF ClientStep, Savers
<1>3. BootStep => IInv'
  BY <1>1, BootSteps DEF BootStep, Savers
<1>4. QED
  BY <1>2, <1>3, CrashStep, OtherSteps DEF Next

(* IInv is inductive, so it holds in every reachable state of any instance.  *)
THEOREM Inductive == Spec => []IInv
<1>1. QED
  BY InitIInv, NextIInv, PTL DEF Spec

(* Every variable keeps its type. *)
THEOREM TypeCorrect == Spec => []TypeOK
<1>1. IInv => TypeOK
  BY DEF IInv
<1>2. QED
  BY <1>1, Inductive, PTL

(* Whatever is saved, fails or crashes when, config.json is never half       *)
(* written.                                                                  *)
THEOREM DiskNeverTorn == Spec => []DiskWhole
<1>1. IInv => DiskWhole
  BY DEF IInv
<1>2. QED
  BY <1>1, Inductive, PTL

(* With any number of tabs saving, memory and disk agree outside             *)
(* UpdateConfig, unless the last save has failed.                            *)
THEOREM DiskFollowsMemory == Spec => []MemoryIsSaved
<1>1. IInv => MemoryIsSaved
  <2> SUFFICES ASSUME IInv, up, lock = NoOne, ~diskError PROVE disk = Whole(current)
    BY DEF MemoryIsSaved
  <2>1. pc[Boot] # "off"
    BY DEF IInv, Started
  <2>2. QED
    BY <2>1 DEF IInv, SaveProgress
<1>2. QED
  BY <1>1, Inductive, PTL

(* No request meets a rule without its dialer, however reloads and matches   *)
(* interleave.                                                               *)
THEOREM RulesHaveDialers == Spec => []NoMissingNode
<1>1. IInv => NoMissingNode
  BY DEF IInv
<1>2. QED
  BY <1>1, Inductive, PTL

-----------------------------------------------------------------------------
(* Saves that do not overlap.  The reload works from the body of the POST,   *)
(* not from Current: the two are the same from UpdateConfig to the answer,   *)
(* unless another save is let in between the unlock and the swap.            *)

OwnConfig ==
  \A c \in Clients :
    pc[c] \in InLock \cup {"reload", "swap"} => current = posted[c].cfg

LoneInv == IInv /\ OwnConfig /\ RouterFollowsConfig

(* A saver moves on within its save, or to its end. *)
LEMMA OwnMoved ==
  ASSUME TypeOK, OwnConfig, NEW c \in Clients, NEW l, pc' = [pc EXCEPT ![c] = l],
         UNCHANGED <<current, posted>>, pc[c] \in InLock \cup {"reload", "swap"}
  PROVE  OwnConfig'
<1> SUFFICES ASSUME NEW d \in Clients, pc'[d] \in InLock \cup {"reload", "swap"}
             PROVE  current = posted[d].cfg
    BY DEF OwnConfig
<1>1. CASE d = c
  BY <1>1 DEF OwnConfig
<1>2. CASE d # c
  <2>1. pc'[d] = pc[d]
    BY <1>2 DEF TypeOK, Savers
  <2>2. QED
    BY <2>1 DEF OwnConfig
<1>3. QED
  BY <1>1, <1>2

(* The steps that decide what the router works by. *)
LEMMA LoneSave ==
  ASSUME LoneInv, NEW c \in Clients, ClientStep(c), OneSaveAtATime
  PROVE  OwnConfig' /\ RouterFollowsConfig'
<1> USE ConfigAssumption
<1>a. /\ TypeOK /\ Started /\ OneSaver /\ SaveProgress /\ OwnConfig /\ RouterFollowsConfig
      /\ c \in Savers /\ c # Boot /\ Boot \in Savers
  BY DEF LoneInv, IInv, Savers
<1>b. ASSUME pc[c] # "idle" PROVE \A d \in Clients \ {c} : pc[d] = "idle"
  BY <1>b DEF OneSaveAtATime
<1>1. CASE WriteBegin(c) \/ WriteEnd(c) \/ Rename(c) \/ SaveFails(c)
  <2>1. /\ UNCHANGED <<current, posted>> /\ pc[c] \in InLock
        /\ pc' = [pc EXCEPT ![c] = pc'[c]] /\ pc'[c] # "idle"
    BY <1>a, <1>1 DEF WriteBegin, WriteEnd, Rename, SaveFails, Goto, InLock, TypeOK, cmVars, tabVars
  <2>2. OwnConfig'
    BY <1>a, <2>1, OwnMoved
  <2>3. ~Quiet'
    BY <1>a, <2>1 DEF Quiet
  <2>4. QED
    BY <2>2, <2>3 DEF RouterFollowsConfig
<1>2. CASE UpdateConfig(c)
  <2>1. /\ current' = posted[c].cfg /\ UNCHANGED posted
        /\ pc[c] = "lock" /\ pc' = [pc EXCEPT ![c] = "write"]
    BY <1>2 DEF UpdateConfig, Goto, tabVars
  <2>2. OwnConfig'
    BY <1>a, <1>b, <2>1 DEF OwnConfig, InLock, TypeOK
  <2>3. ~Quiet'
    BY <1>a, <2>1 DEF Quiet, TypeOK
  <2>4. QED
    BY <2>2, <2>3 DEF RouterFollowsConfig
<1>3. CASE AnswerFailed(c)
  <2>1. /\ UNCHANGED <<current, diskError, posted>>
        /\ pc[c] = "failed" /\ pc' = [pc EXCEPT ![c] = "idle"]
    BY <1>3 DEF AnswerFailed, Goto, tabVars
  <2>2. OwnConfig'
    BY <1>a, <2>1, OwnMoved DEF InLock
  <2>3. diskError'
    BY <1>a, <2>1 DEF SaveProgress
  <2>4. QED
    BY <2>2, <2>3 DEF RouterFollowsConfig
<1>4. CASE Saved(c)
  <2>1. /\ UNCHANGED <<current, posted>> /\ pc[c] = "saved"
        /\ \/ pc' = [pc EXCEPT ![c] = "reload"]
           \/ pc' = [pc EXCEPT ![c] = "idle"] /\ ~posted[c].cfg.route
    BY <1>4 DEF Saved, Goto
  <2>2. current = posted[c].cfg
    BY <1>a, <2>1 DEF OwnConfig, InLock
  <2>3. OwnConfig'
    BY <1>a, <2>1, OwnMoved DEF InLock
  <2>4. RouterFollowsConfig'
    BY <1>a, <2>1, <2>2 DEF RouterFollowsConfig, Quiet, TypeOK
  <2>5. QED
    BY <2>3, <2>4
<1>5. CASE ReloadDialers(c)
  <2>1. /\ UNCHANGED <<current, posted>> /\ pc[c] = "reload" /\ pc' = [pc EXCEPT ![c] = "swap"]
    BY <1>5 DEF ReloadDialers, Goto, cmVars, tabVars
  <2>2. OwnConfig'
    BY <1>a, <2>1 DEF OwnConfig, InLock, TypeOK
  <2>3. ~Quiet'
    BY <1>a, <2>1 DEF Quiet, TypeOK
  <2>4. QED
    BY <2>2, <2>3 DEF RouterFollowsConfig
<1>6. CASE ReloadRules(c)
  <2>1. /\ UNCHANGED <<current, posted>> /\ pc[c] = "swap" /\ pc' = [pc EXCEPT ![c] = "idle"]
        /\ rules' = Installed(posted[c].cfg.table)
    BY <1>a, <1>6 DEF ReloadRules, Goto, cmVars, Source
  <2>2. current = posted[c].cfg
    BY <1>a, <2>1 DEF OwnConfig
  <2>3. OwnConfig'
    BY <1>a, <2>1 DEF OwnConfig, InLock, TypeOK
  <2>4. rules' = Installed(current.table)
    BY <2>1, <2>2
  <2>5. QED
    BY <2>1, <2>3, <2>4 DEF RouterFollowsConfig, Installed
<1>7. QED
  BY <1>1, <1>2, <1>3, <1>4, <1>5, <1>6 DEF ClientStep, SaverStep

LEMMA LoneBoot ==
  ASSUME LoneInv, BootStep
  PROVE  OwnConfig' /\ RouterFollowsConfig'
<1> USE ConfigAssumption
<1>a. /\ TypeOK /\ Started /\ OwnConfig /\ RouterFollowsConfig
      /\ Boot \in Savers /\ Boot \notin Clients
  BY DEF LoneInv, IInv, Savers
<1>b. pc[Boot] # "idle"
  BY DEF BootStep, SaverStep, WriteBegin, WriteEnd, Rename, SaveFails, ReloadDialers,
     ReloadRules, LoadFile, LoadFails, AddRouter
<1>c. \A c \in Clients : pc[c] = "idle"
  BY <1>a, <1>b DEF Started
<1>d. pc' = [pc EXCEPT ![Boot] = pc'[Boot]]
  BY <1>a DEF BootStep, SaverStep, WriteBegin, WriteEnd, Rename, SaveFails, ReloadDialers,
     ReloadRules, LoadFile, LoadFails, AddRouter, Goto, TypeOK
<1>e. OwnConfig'
  <2>1. \A c \in Clients : pc'[c] = "idle"
    BY <1>a, <1>c, <1>d DEF Savers, TypeOK
  <2>2. QED
    BY <2>1 DEF OwnConfig, InLock
<1>1. CASE pc'[Boot] # "idle"
  BY <1>a, <1>e, <1>1 DEF RouterFollowsConfig, Quiet
<1>2. CASE ReloadRules(Boot)
  <2>1. rules' = Installed(current.table) /\ current' = current
    BY <1>2 DEF ReloadRules, Source, cmVars
  <2>2. QED
    BY <1>e, <2>1 DEF RouterFollowsConfig, Installed
<1>3. CASE AddRouter
  <2>1. current' = current /\ (current.route => pc'[Boot] = "reload")
    BY <1>a, <1>3 DEF AddRouter, Goto, TypeOK
  <2>2. QED
    BY <1>1, <1>e, <2>1 DEF RouterFollowsConfig
<1>4. QED
  BY <1>a, <1>1, <1>2, <1>3 DEF BootStep, SaverStep, WriteBegin, WriteEnd, Rename, SaveFails,
     ReloadDialers, LoadFile, LoadFails, Goto, TypeOK

LEMMA LoneOthers ==
  ASSUME LoneInv,
         \/ \E c \in Clients : Load(c) \/ SaveRoutes(c) \/ SaveAdvanced(c)
         \/ \E r \in Requests : RequestStep(r)
         \/ Crash \/ UNCHANGED vars
  PROVE  OwnConfig' /\ RouterFollowsConfig'
<1> USE ConfigAssumption
<1>a. TypeOK /\ OwnConfig /\ RouterFollowsConfig
  BY DEF LoneInv, IInv
<1>1. CASE UNCHANGED <<up, current, diskError, pc, posted, rules>>
  BY <1>a, <1>1 DEF OwnConfig, RouterFollowsConfig, Quiet, Installed
<1>2. ASSUME NEW c \in Clients, SaveRoutes(c) \/ SaveAdvanced(c)
      PROVE  OwnConfig' /\ RouterFollowsConfig'
  <2>1. /\ UNCHANGED current /\ pc[c] = "idle" /\ pc' = [pc EXCEPT ![c] = "lock"]
        /\ \A d \in Clients \ {c} : posted'[d] = posted[d]
    BY <1>a, <1>2 DEF SaveRoutes, SaveAdvanced, Submit, Goto, TypeOK, cmVars
  <2>2. c \in Savers
    BY DEF Savers
  <2>3. OwnConfig'
    BY <1>a, <2>1, <2>2 DEF OwnConfig, InLock, TypeOK, Savers
  <2>4. ~Quiet'
    BY <1>a, <2>1, <2>2 DEF Quiet, TypeOK
  <2>5. QED
    BY <2>3, <2>4 DEF RouterFollowsConfig
<1>3. CASE Crash
  <2>1. ~up' /\ \A c \in Clients : pc'[c] = "idle"
    BY <1>3 DEF Crash, Savers
  <2>2. QED
    BY <2>1 DEF OwnConfig, InLock, RouterFollowsConfig, Quiet
<1>4. CASE \/ \E c \in Clients : Load(c)
           \/ \E r \in Requests : RequestStep(r)
           \/ UNCHANGED vars
  BY <1>1, <1>4 DEF Load, RequestStep, CheckRouteEnable, MatchRoute, vars, cmVars, routerVars,
     tabVars
<1>5. QED
  BY <1>2, <1>3, <1>4

(* As long as no two tabs save at the same time, the router works by the     *)
(* configuration in force once the saves are answered, for any number of     *)
(* tabs, tables, failed writes and crashes.  (When two do, it need not.)     *)
THEOREM LoneSavesReachRouter == Spec => LoneSavesRouted
<1>1. Init => LoneInv
  BY InitIInv DEF Init, LoneInv, OwnConfig, InLock, RouterFollowsConfig, Quiet, Savers
<1>2. LoneInv /\ OneSaveAtATime /\ [Next]_vars => LoneInv'
  BY NextIInv, LoneSave, LoneBoot, LoneOthers DEF Next, LoneInv
<1>3. LoneInv => RouterFollowsConfig
  BY DEF LoneInv
<1>4. QED
  BY <1>1, <1>2, <1>3, PTL DEF Spec, LoneSavesRouted
=============================================================================
