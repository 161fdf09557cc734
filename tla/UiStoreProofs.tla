---------------------------- MODULE UiStoreProofs ---------------------------
(* Proofs about UiStore, for any number of sessions, restarts, breaks and    *)
(* logins and any snapshot and history limits that StoreAssumption allows.   *)
EXTENDS UiStore, SeqFacts, FiniteSetTheorems

-----------------------------------------------------------------------------
(* The inductive invariant. *)

(* No id is listed twice. *)
Distinct(q) == \A i, j \in 1 .. Len(q) : i # j => q[i].id # q[j].id
Small(q) == Len(q) <= MaxConns /\ Distinct(q)

WireInv == \A i \in Slots : \A k \in 1 .. Len(wire[i]) : Small(wire[i][k])

HistInv == Distinct(hist) /\ histSet = IdsOf(hist)

(* A login opens one websocket; a websocket that closes leaves one timer; a  *)
(* timer opens one websocket or none.                                        *)
Busy(i) == IF sock[i] = "closed" THEN 0 ELSE 1
TimersFromLogins == timers + Busy(1) + Busy(2) + Busy(3) <= logins

IInv == TypeOK /\ WireInv /\ Small(shown) /\ HistInv /\ TimersFromLogins

-----------------------------------------------------------------------------
(* Lists of rows. *)

LEMMA IdsConcat ==
  ASSUME NEW s \in Seq(Row), NEW t \in Seq(Row)
  PROVE  IdsOf(s \o t) = IdsOf(s) \cup IdsOf(t)
<1>1. PICK u \in Seq(Row) : u = s \o t
  BY ConcatProperties
<1>2. /\ Len(u) = Len(s) + Len(t) /\ Len(s) \in Nat /\ Len(t) \in Nat
      /\ \A i \in 1 .. Len(s) : u[i] = s[i]
      /\ \A i \in 1 .. Len(t) : u[Len(s) + i] = t[i]
  BY <1>1
<1>3. ASSUME NEW i \in 1 .. Len(u) PROVE u[i].id \in IdsOf(s) \cup IdsOf(t)
  <2>1. CASE i <= Len(s)
    BY <1>2, <2>1 DEF IdsOf
  <2>2. CASE i > Len(s)
    <3>1. i - Len(s) \in 1 .. Len(t) /\ Len(s) + (i - Len(s)) = i
      BY <1>2, <2>2
    <3>2. u[i] = t[i - Len(s)]
      BY <1>2, <3>1
    <3>3. QED
      BY <3>1, <3>2 DEF IdsOf
  <2>3. QED
    BY <1>2, <2>1, <2>2
<1>4. ASSUME NEW i \in 1 .. Len(s) PROVE s[i].id \in IdsOf(u)
  <2>1. i \in 1 .. Len(u) /\ u[i] = s[i]
    BY <1>2
  <2>2. QED
    BY <2>1 DEF IdsOf
<1>5. ASSUME NEW i \in 1 .. Len(t) PROVE t[i].id \in IdsOf(u)
  <2>1. Len(s) + i \in 1 .. Len(u) /\ u[Len(s) + i] = t[i]
    BY <1>2
  <2>2. QED
    BY <2>1 DEF IdsOf
<1>6. IdsOf(u) \subseteq IdsOf(s) \cup IdsOf(t)
  BY <1>3 DEF IdsOf
<1>7. IdsOf(s) \subseteq IdsOf(u) /\ IdsOf(t) \subseteq IdsOf(u)
  BY <1>4, <1>5 DEF IdsOf
<1>8. QED
  BY <1>1, <1>6, <1>7

LEMMA DistinctConcat ==
  ASSUME NEW s \in Seq(Row), NEW t \in Seq(Row), Distinct(s), Distinct(t),
         IdsOf(s) \cap IdsOf(t) = {}
  PROVE  Distinct(s \o t)
<1>1. PICK u \in Seq(Row) : u = s \o t
  BY ConcatProperties
<1>2. /\ Len(u) = Len(s) + Len(t) /\ Len(s) \in Nat /\ Len(t) \in Nat
      /\ \A i \in 1 .. Len(s) : u[i] = s[i]
      /\ \A i \in 1 .. Len(t) : u[Len(s) + i] = t[i]
  BY <1>1
<1>3. \A i \in 1 .. Len(s), j \in 1 .. Len(t) : s[i].id # t[j].id
  BY DEF IdsOf
<1>4. ASSUME NEW i \in 1 .. Len(u), NEW j \in 1 .. Len(u), i < j
      PROVE  u[i].id # u[j].id
  <2>1. CASE j <= Len(s)
    <3>1. i \in 1 .. Len(s) /\ j \in 1 .. Len(s) /\ i # j
      BY <1>2, <1>4, <2>1
    <3>2. u[i] = s[i] /\ u[j] = s[j]
      BY <1>2, <3>1
    <3>3. QED
      BY <3>1, <3>2 DEF Distinct
  <2>2. CASE i <= Len(s) /\ j > Len(s)
    <3>1. i \in 1 .. Len(s) /\ j - Len(s) \in 1 .. Len(t) /\ Len(s) + (j - Len(s)) = j
      BY <1>2, <2>2
    <3>2. u[i] = s[i] /\ u[j] = t[j - Len(s)]
      BY <1>2, <3>1
    <3>3. QED
      BY <1>3, <3>1, <3>2
  <2>3. CASE i > Len(s)
    <3>1. /\ i - Len(s) \in 1 .. Len(t) /\ Len(s) + (i - Len(s)) = i
          /\ j - Len(s) \in 1 .. Len(t) /\ Len(s) + (j - Len(s)) = j
          /\ i - Len(s) # j - Len(s)
      BY <1>2, <1>4, <2>3
    <3>2. u[i] = t[i - Len(s)] /\ u[j] = t[j - Len(s)]
      BY <1>2, <3>1
    <3>3. QED
      BY <3>1, <3>2 DEF Distinct
  <2>4. QED
    BY <1>2, <2>1, <2>2, <2>3
<1>5. \A i, j \in 1 .. Len(u) : i # j => i < j \/ j < i
  BY <1>2
<1>6. QED
  BY <1>1, <1>4, <1>5 DEF Distinct

(* Cutting a list off after n rows. *)
LEMMA Cut ==
  ASSUME NEW q \in Seq(Row), Distinct(q), NEW n \in 0 .. Len(q)
  PROVE  /\ SubSeq(q, 1, n) \in Seq(Row) /\ Len(SubSeq(q, 1, n)) = n
         /\ \A i \in 1 .. n : SubSeq(q, 1, n)[i] = q[i]
         /\ Distinct(SubSeq(q, 1, n))
         /\ IdsOf(SubSeq(q, 1, n)) = IdsOf(q) \ IdsOf(SubSeq(q, n + 1, Len(q)))
<1>1. PICK a : a = SubSeq(q, 1, n)
  OBVIOUS
<1>2. PICK b : b = SubSeq(q, n + 1, Len(q))
  OBVIOUS
<1>3. /\ Len(q) \in Nat /\ n \in Nat /\ n <= Len(q)
      /\ a \in Seq(Row) /\ Len(a) = n /\ \A i \in 1 .. n : a[i] = q[i]
  BY <1>1
<1>4. /\ b \in Seq(Row) /\ Len(b) = Len(q) - n /\ \A i \in 1 .. Len(q) - n : b[i] = q[n + i]
  BY <1>2
<1>5. Distinct(a)
  BY <1>3 DEF Distinct
<1>6. IdsOf(a) = {q[i].id : i \in 1 .. n}
  BY <1>3 DEF IdsOf
<1>7. IdsOf(b) = {q[i].id : i \in n + 1 .. Len(q)}
  <2>1. ASSUME NEW i \in 1 .. Len(q) - n PROVE n + i \in n + 1 .. Len(q) /\ b[i].id = q[n + i].id
    BY <1>3, <1>4
  <2>2. ASSUME NEW i \in n + 1 .. Len(q) PROVE i - n \in 1 .. Len(q) - n /\ b[i - n].id = q[i].id
    <3>1. i - n \in 1 .. Len(q) - n /\ n + (i - n) = i
      BY <1>3
    <3>2. QED
      BY <1>4, <3>1
  <2>3. IdsOf(b) = {b[i].id : i \in 1 .. Len(q) - n}
    BY <1>4 DEF IdsOf
  <2>4. \A x : x \in IdsOf(b) <=> \E i \in 1 .. Len(q) - n : x = b[i].id
    BY <2>3
  <2>5. \A x : (\E i \in 1 .. Len(q) - n : x = b[i].id) <=> \E i \in n + 1 .. Len(q) : x = q[i].id
    BY <2>1, <2>2, Zenon
  <2>6. \A x : x \in {q[i].id : i \in n + 1 .. Len(q)} <=> \E i \in n + 1 .. Len(q) : x = q[i].id
    OBVIOUS
  <2>7. \A x : x \in IdsOf(b) <=> x \in {q[i].id : i \in n + 1 .. Len(q)}
    BY <2>4, <2>5, <2>6, Zenon
  <2>8. QED
    BY <2>7, Zenon
<1>8. IdsOf(q) = {q[i].id : i \in 1 .. n} \cup {q[i].id : i \in n + 1 .. Len(q)}
  <2>1. \A i \in 1 .. Len(q) : i \in 1 .. n \/ i \in n + 1 .. Len(q)
    BY <1>3
  <2>2. (\A i \in 1 .. n : i \in 1 .. Len(q)) /\ (\A i \in n + 1 .. Len(q) : i \in 1 .. Len(q))
    BY <1>3
  <2>3. QED
    BY <2>1, <2>2 DEF IdsOf
<1>9. \A i \in 1 .. n, j \in n + 1 .. Len(q) : q[i].id # q[j].id
  <2>1. \A i \in 1 .. n, j \in n + 1 .. Len(q) : i \in 1 .. Len(q) /\ j \in 1 .. Len(q) /\ i # j
    BY <1>3
  <2>2. QED
    BY <2>1 DEF Distinct
<1>10. IdsOf(a) = IdsOf(q) \ IdsOf(b)
  BY <1>6, <1>7, <1>8, <1>9
<1>11. QED
  BY <1>1, <1>2, <1>3, <1>5, <1>10

LEMMA SiftRows ==
  ASSUME NEW q \in Seq(Row), Distinct(q), NEW T
  PROVE  /\ Sift(q, T) \in Seq(Row) /\ Len(Sift(q, T)) <= Len(q)
         /\ Distinct(Sift(q, T))
         /\ \A i \in 1 .. Len(Sift(q, T)) : Sift(q, T)[i] \in ToSet(q) \cap T
<1>1. PICK t : t = Sift(q, T)
  OBVIOUS
<1>2. t \in Seq(Row) /\ ToSet(t) = ToSet(q) \cap T
  BY <1>1, SiftElements
<1>3. Picks(t, q, Len(q)) /\ Len(t) <= Len(q)
  BY <1>1, SiftPicks
<1>4. PICK m \in [1 .. Len(t) -> 1 .. Len(q)] :
        /\ \A i, j \in 1 .. Len(t) : i < j => m[i] < m[j]
        /\ \A i \in 1 .. Len(t) : t[i] = q[m[i]]
  BY <1>3 DEF Picks
<1>5. \A i, j \in 1 .. Len(t) : i # j => m[i] # m[j]
  <2>1. \A i, j \in 1 .. Len(t) : i # j => i < j \/ j < i
    BY <1>2
  <2>2. \A i \in 1 .. Len(t) : m[i] \in 1 .. Len(q)
    BY <1>4
  <2>3. QED
    BY <1>2, <1>4, <2>1, <2>2
<1>6. Distinct(t)
  BY <1>4, <1>5 DEF Distinct
<1>7. \A i \in 1 .. Len(t) : t[i] \in ToSet(t)
  BY <1>2 DEF ToSet
<1>8. QED
  BY <1>1, <1>2, <1>3, <1>6, <1>7

-----------------------------------------------------------------------------
(* What the pusher sends. *)

LEMMA ListingRows ==
  ASSUME TypeOK, NEW all \in Listings
  PROVE  all \in Seq(Row) /\ Distinct(all)
<1> USE StoreAssumption
<1>1. Rows \subseteq Row
  BY DEF Rows, Row, TypeOK
<1>2. \A r, q \in Rows : r.id = q.id => r = q
  BY DEF Rows
<1>3. Cardinality(Rows) \in Nat
  <2>1. IsFiniteSet(Sess)
    BY FS_Interval DEF Sess
  <2>2. PICK f : f = [r \in Rows |-> r.id]
    OBVIOUS
  <2>3. f \in [Rows -> Sess]
    BY <1>1, <2>2 DEF Row
  <2>4. \A r, q \in Rows : f[r] = f[q] => r = q
    BY <1>2, <2>2
  <2>5. f \in Injection(Rows, Sess)
    BY <2>3, <2>4 DEF Injection, IsInjective
  <2>6. IsFiniteSet(Rows)
    BY <2>1, <2>5, FS_Injection
  <2>7. QED
    BY <2>6, FS_CardinalityType
<1>4. PICK n \in Nat : n = Cardinality(Rows)
  BY <1>3
<1>5. all \in [1 .. n -> Rows] /\ \A i, j \in 1 .. n : i < j => Before(all[i], all[j])
  BY <1>4 DEF Listings
<1>6. all \in Seq(Row) /\ Len(all) = n
  BY <1>1, <1>5
<1>7. \A r \in Rows : ~Before(r, r)
  BY <1>1 DEF Before, Row, Sess
<1>8. ASSUME NEW i \in 1 .. n, NEW j \in 1 .. n, i < j PROVE all[i].id # all[j].id
  BY <1>2, <1>5, <1>7, <1>8
<1>9. \A i, j \in 1 .. n : i # j => i < j \/ j < i
  OBVIOUS
<1>10. QED
  BY <1>6, <1>8, <1>9 DEF Distinct

LEMMA SnapshotSmall ==
  ASSUME TypeOK, NEW all \in Listings
  PROVE  Snapshot(all) \in Seq(Row) /\ Small(Snapshot(all))
<1>1. all \in Seq(Row) /\ Distinct(all)
  BY ListingRows
<1>2. CASE Len(all) > MaxConns
  <2>1. MaxConns \in 0 .. Len(all)
    BY <1>1, <1>2, StoreAssumption
  <2>2. QED
    BY <1>1, <1>2, <2>1, Cut, StoreAssumption DEF Snapshot, Small
<1>3. CASE ~(Len(all) > MaxConns)
  BY <1>1, <1>3, StoreAssumption DEF Snapshot, Small
<1>4. QED
  BY <1>2, <1>3

-----------------------------------------------------------------------------
(* What a message adds to the history. *)

LEMMA FindRow ==
  ASSUME NEW data \in Seq(Row), NEW id, NEW c \in Find(data, id)
  PROVE  c \in Row /\ c.id = id /\ id \in IdsOf(data)
BY DEF Find, IdsOf

LEMMA VanishedRows ==
  ASSUME TypeOK, Small(shown), NEW data \in Seq(Row)
  PROVE  /\ Vanished(data) \in Seq(Row) /\ Len(Vanished(data)) <= Len(shown)
         /\ Distinct(Vanished(data)) /\ IdsOf(Vanished(data)) \cap histSet = {}
<1>1. PICK old : old = Sift(shown, Ended(data))
  OBVIOUS
<1>2. /\ old \in Seq(Row) /\ Len(old) <= Len(shown) /\ Distinct(old)
      /\ \A i \in 1 .. Len(old) : old[i] \in ToSet(shown) \cap Ended(data)
  BY <1>1, SiftRows DEF TypeOK, Small
<1>3. PICK v : v = Vanished(data)
  OBVIOUS
<1>4. v = [i \in 1 .. Len(old) |->
             IF Find(data, old[i].id) = {} THEN Filed(old[i])
             ELSE CHOOSE c \in Find(data, old[i].id) : TRUE]
  BY <1>1, <1>3 DEF Vanished
<1>5. ASSUME NEW i \in 1 .. Len(old) PROVE v[i] \in Row /\ v[i].id = old[i].id
  <2>1. old[i] \in Row
    BY <1>2
  <2>2. CASE Find(data, old[i].id) = {}
    <3>1. v[i] = Filed(old[i])
      BY <1>4, <2>2
    <3>2. QED
      BY <2>1, <3>1 DEF Filed, Row
  <2>3. CASE Find(data, old[i].id) # {}
    <3>1. v[i] \in Find(data, old[i].id)
      BY <1>4, <2>3
    <3>2. QED
      BY <3>1, FindRow
  <2>4. QED
    BY <2>2, <2>3
<1>6. v \in Seq(Row) /\ Len(v) = Len(old)
  <2>1. v = [i \in 1 .. Len(old) |-> v[i]]
    BY <1>4
  <2>2. v \in [1 .. Len(old) -> Row]
    BY <1>5, <2>1
  <2>3. Len(old) \in Nat
    BY <1>2
  <2>4. QED
    BY <2>2, <2>3
<1>7. Distinct(v)
  BY <1>2, <1>5, <1>6 DEF Distinct
<1>8. \A i \in 1 .. Len(v) : v[i].id \notin histSet
  BY <1>2, <1>5, <1>6 DEF Ended
<1>9. IdsOf(v) \cap histSet = {}
  BY <1>8 DEF IdsOf
<1>10. QED
  BY <1>2, <1>3, <1>6, <1>7, <1>9

LEMMA NewClosedRows ==
  ASSUME NEW data \in Seq(Row), Distinct(data)
  PROVE  /\ NewClosed(data) \in Seq(Row) /\ Len(NewClosed(data)) <= Len(data)
         /\ Distinct(NewClosed(data))
         /\ IdsOf(NewClosed(data)) \cap (histSet \cup IdsOf(Vanished(data))) = {}
<1>1. PICK told : told = histSet \cup IdsOf(Vanished(data))
  OBVIOUS
<1>2. PICK T : T = {r \in ToSet(data) : r.status = "Closed" /\ r.id \notin told}
  OBVIOUS
<1>3. PICK v : v = NewClosed(data)
  OBVIOUS
<1>4. v = Sift(data, T)
  BY <1>1, <1>2, <1>3 DEF NewClosed
<1>5. /\ v \in Seq(Row) /\ Len(v) <= Len(data) /\ Distinct(v)
      /\ \A i \in 1 .. Len(v) : v[i] \in ToSet(data) \cap T
  BY <1>4, SiftRows
<1>6. IdsOf(v) \cap told = {}
  BY <1>2, <1>5 DEF IdsOf
<1>7. QED
  BY <1>1, <1>3, <1>5, <1>6

News(data) == Vanished(data) \o NewClosed(data)

LEMMA NewsRows ==
  ASSUME TypeOK, Small(shown), NEW data \in Seq(Row), Small(data)
  PROVE  /\ News(data) \in Seq(Row) /\ Len(News(data)) <= MaxHist
         /\ Distinct(News(data)) /\ IdsOf(News(data)) \cap histSet = {}
<1>1. PICK v \in Seq(Row) : v = Vanished(data) /\ Len(v) <= Len(shown)
                            /\ Distinct(v) /\ IdsOf(v) \cap histSet = {}
  BY VanishedRows
<1>2. PICK c \in Seq(Row) : c = NewClosed(data) /\ Len(c) <= Len(data) /\ Distinct(c)
                            /\ IdsOf(c) \cap (histSet \cup IdsOf(v)) = {}
  BY <1>1, NewClosedRows DEF Small
<1>3. v \o c \in Seq(Row) /\ Len(v \o c) = Len(v) + Len(c)
  BY ConcatProperties
<1>4. Len(v) <= MaxConns /\ Len(c) <= MaxConns
  BY <1>1, <1>2, StoreAssumption DEF TypeOK, Small
<1>5. Len(v \o c) <= MaxHist
  <2>1. Len(v) \in Nat /\ Len(c) \in Nat
    OBVIOUS
  <2>2. QED
    BY <1>3, <1>4, <2>1, StoreAssumption
<1>6. Distinct(v \o c)
  BY <1>1, <1>2, DistinctConcat
<1>7. IdsOf(v \o c) \cap histSet = {}
  BY <1>1, <1>2, IdsConcat
<1>8. QED
  BY <1>1, <1>2, <1>3, <1>5, <1>6, <1>7 DEF News

LEMMA FileRows ==
  ASSUME TypeOK, HistInv, NEW news \in Seq(Row), Distinct(news), IdsOf(news) \cap histSet = {},
         File(news)
  PROVE  /\ hist' \in Seq(Row) /\ Len(hist') <= MaxHist /\ histSet' \subseteq Sess
         /\ HistInv'
<1>1. PICK all \in Seq(Row) : all = news \o hist
  BY ConcatProperties DEF TypeOK
<1>2. Distinct(all) /\ IdsOf(all) = IdsOf(news) \cup histSet
  BY <1>1, DistinctConcat, IdsConcat DEF TypeOK, HistInv
<1>3. PICK n \in 0 .. Len(all) : n = IF Len(all) > MaxHist THEN MaxHist ELSE Len(all)
  BY StoreAssumption
<1>4. n <= MaxHist
  BY <1>1, <1>3, StoreAssumption
<1>5. PICK kept : kept = SubSeq(all, 1, n)
  OBVIOUS
<1>6. /\ kept \in Seq(Row) /\ Len(kept) = n /\ Distinct(kept)
      /\ IdsOf(kept) = IdsOf(all) \ IdsOf(SubSeq(all, n + 1, Len(all)))
  BY <1>2, <1>5, Cut
<1>7. hist' = kept
  BY <1>1, <1>3, <1>5 DEF File
<1>8. histSet' = IdsOf(kept)
  <2>1. kept = IF Len(all) > MaxHist THEN SubSeq(all, 1, MaxHist) ELSE all
    BY <1>3, <1>5
  <2>2. histSet' = (histSet \cup IdsOf(news)) \ IdsOf(SubSeq(all, Len(kept) + 1, Len(all)))
    BY <1>1, <2>1 DEF File
  <2>3. QED
    BY <1>2, <1>6, <2>2
<1>9. IdsOf(kept) \subseteq Sess
  <2>1. \A i \in 1 .. Len(kept) : kept[i] \in Row
    BY <1>6
  <2>2. \A i \in 1 .. Len(kept) : kept[i].id \in Sess
    BY <2>1 DEF Row
  <2>3. QED
    BY <2>2 DEF IdsOf
<1>10. QED
  BY <1>4, <1>6, <1>7, <1>8, <1>9 DEF HistInv

-----------------------------------------------------------------------------
(* The steps. *)

LEMMA InitIInv == Init => IInv
<1> SUFFICES ASSUME Init PROVE IInv
    OBVIOUS
<1> USE StoreAssumption DEF Init
<1>1. <<>> \in Seq(Row) /\ Len(<<>>) = 0 /\ <<>> \in Seq(Seq(Row)) /\ 1 .. 0 = {}
  OBVIOUS
<1>2. TypeOK
  <2>1. run \in 0 .. MaxRestarts /\ timers \in 0 .. MaxLogins
    OBVIOUS
  <2>2. breaks \in 0 .. MaxBreaks /\ clears \in 0 .. MaxClears /\ logins \in 0 .. MaxLogins
    OBVIOUS
  <2>3. rec \in [Sess -> {"none", "Active", "Closed", "gone"}]
    OBVIOUS
  <2>4. /\ sock \in [Slots -> {"closed", "connecting", "open", "closing"}]
        /\ topic \in [Slots -> BOOLEAN] /\ wire \in [Slots -> Seq(Seq(Row))]
    BY <1>1
  <2>5. shown \in Seq(Row) /\ Len(shown) <= MaxConns
    BY <1>1
  <2>6. hist \in Seq(Row) /\ Len(hist) <= MaxHist
    BY <1>1
  <2>7. current \in Slots \cup {0} /\ isConnected \in BOOLEAN /\ histSet \subseteq Sess
    OBVIOUS
  <2>8. QED
    BY <2>1, <2>2, <2>3, <2>4, <2>5, <2>6, <2>7 DEF TypeOK
<1>3. WireInv /\ Small(shown) /\ HistInv
  BY <1>1 DEF WireInv, Small, Distinct, HistInv, IdsOf
<1>4. TimersFromLogins
  BY DEF TimersFromLogins, Busy, Slots
<1>5. QED
  BY <1>2, <1>3, <1>4 DEF IInv

LEMMA ViewKept ==
  ASSUME IInv, UNCHANGED viewVars
  PROVE  Small(shown)' /\ HistInv'
BY DEF IInv, viewVars, Small, Distinct, HistInv, IdsOf

(* Snapshots are lost or stay as they are. *)
LEMMA WireKept ==
  ASSUME TypeOK, WireInv, wire' \in [Slots -> Seq(Seq(Row))],
         \A i \in Slots : wire'[i] = wire[i] \/ wire'[i] = <<>>
  PROVE  WireInv'
<1> SUFFICES ASSUME NEW i \in Slots, NEW k \in 1 .. Len(wire'[i]) PROVE Small(wire'[i][k])
    BY DEF WireInv, Small, Distinct
<1>1. wire'[i] = wire[i]
  <2>1. Len(<<>>) = 0 /\ 1 .. 0 = {}
    OBVIOUS
  <2>2. QED
    BY <2>1
<1>2. QED
  BY <1>1 DEF WireInv

LEMMA WireSame ==
  ASSUME IInv, UNCHANGED wire
  PROVE  WireInv'
BY WireKept DEF IInv, TypeOK

LEMMA ConnectStep ==
  ASSUME TypeOK, WireInv, Connect
  PROVE  /\ sock' \in [Slots -> {"closed", "connecting", "open", "closing"}]
         /\ topic' \in [Slots -> BOOLEAN] /\ wire' \in [Slots -> Seq(Seq(Row))]
         /\ current' \in Slots /\ isConnected' \in BOOLEAN
         /\ WireInv'
         /\ Busy(1)' + Busy(2)' + Busy(3)' <= Busy(1) + Busy(2) + Busy(3) + 1
<1>1. PICK spare : spare = {j \in Slots \ {current} : sock[j] = "closed"}
  OBVIOUS
<1>2. spare # {} /\ spare \subseteq Nat
  BY <1>1 DEF Connect, Slots
<1>3. PICK new : new = Min(spare)
  OBVIOUS
<1>4. new \in spare
  BY <1>2, <1>3, LeastNatural DEF Min
<1>5. new \in Slots /\ new # current /\ sock[new] = "closed"
  BY <1>1, <1>4
<1>6. /\ sock' = [j \in Slots |->
           IF j = new THEN "connecting"
           ELSE IF j = current /\ sock[j] # "closed" THEN "closing" ELSE sock[j]]
      /\ topic' = [topic EXCEPT ![new] = FALSE]
      /\ wire' = [j \in Slots |-> IF j \in {new, current} THEN <<>> ELSE wire[j]]
      /\ current' = new
      /\ isConnected' = FALSE
  BY <1>1, <1>3 DEF Connect
<1>7. /\ sock' \in [Slots -> {"closed", "connecting", "open", "closing"}]
      /\ topic' \in [Slots -> BOOLEAN]
      /\ current' \in Slots /\ isConnected' \in BOOLEAN
  BY <1>5, <1>6 DEF TypeOK
<1>8. wire' \in [Slots -> Seq(Seq(Row))]
  <2>1. <<>> \in Seq(Seq(Row))
    OBVIOUS
  <2>2. QED
    BY <1>6, <2>1 DEF TypeOK
<1>9. WireInv'
  <2>1. \A i \in Slots : wire'[i] = wire[i] \/ wire'[i] = <<>>
    BY <1>6
  <2>2. QED
    BY <1>8, <2>1, WireKept
<1>10. \A j \in Slots \ {new} : Busy(j)' <= Busy(j) /\ Busy(j) \in 0 .. 1 /\ Busy(j)' \in 0 .. 1
  BY <1>6 DEF Busy
<1>11. Busy(new) = 0 /\ Busy(new)' = 1
  <2>1. sock'[new] = "connecting"
    BY <1>5, <1>6
  <2>2. new' = new => Busy(new)' = 1
    BY <2>1 DEF Busy
  <2>3. QED
    BY <1>5, <2>1 DEF Busy
<1>12. new = 1 \/ new = 2 \/ new = 3
  BY <1>5 DEF Slots
<1>13. 1 \in Slots /\ 2 \in Slots /\ 3 \in Slots
  BY DEF Slots
<1>14. Busy(1)' + Busy(2)' + Busy(3)' <= Busy(1) + Busy(2) + Busy(3) + 1
  BY <1>10, <1>11, <1>12, <1>13
<1>15. QED
  BY <1>7, <1>8, <1>9, <1>14

LEMMA BusyRange ==
  Busy(1) \in 0 .. 1 /\ Busy(2) \in 0 .. 1 /\ Busy(3) \in 0 .. 1
BY DEF Busy

LEMMA BusyRangeNext == Busy(1)' \in 0 .. 1 /\ Busy(2)' \in 0 .. 1 /\ Busy(3)' \in 0 .. 1
BY DEF Busy

(* A step that moves no websocket and no timer. *)
LEMMA SocketsKept ==
  ASSUME IInv, UNCHANGED <<sock, timers>>, logins' = logins
  PROVE  TimersFromLogins'
BY DEF IInv, TimersFromLogins, Busy

(* A step that moves websocket i only, and not to nor from closed. *)
LEMMA SocketMoves ==
  ASSUME IInv, NEW i \in Slots, sock[i] # "closed", NEW st, st # "closed",
         sock' = [sock EXCEPT ![i] = st], UNCHANGED <<timers, logins>>
  PROVE  TimersFromLogins'
<1>1. Busy(1)' = Busy(1) /\ Busy(2)' = Busy(2) /\ Busy(3)' = Busy(3)
  BY DEF IInv, TypeOK, Slots, Busy
<1>2. QED
  BY <1>1 DEF IInv, TimersFromLogins

LEMMA RegistryStep ==
  ASSUME IInv, NEW s \in Sess, Open(s) \/ Close(s)
  PROVE  IInv'
<1>1. UNCHANGED <<run, sockVars, viewVars, boundVars>>
      /\ rec' \in [Sess -> {"none", "Active", "Closed", "gone"}]
  BY DEF IInv, TypeOK, Open, Close
<1> HIDE DEF Open, Close
<1>2. TypeOK'
  BY <1>1 DEF IInv, TypeOK, sockVars, viewVars, boundVars
<1>3. WireInv'
  BY <1>1, WireSame DEF sockVars
<1>4. TimersFromLogins'
  BY <1>1, SocketsKept DEF sockVars, boundVars
<1>5. QED
  BY <1>1, <1>2, <1>3, <1>4, ViewKept DEF IInv

LEMMA RestartStep ==
  ASSUME IInv, Restart
  PROVE  IInv'
<1>1. wire' \in [Slots -> Seq(Seq(Row))]
  <2>1. <<>> \in Seq(Seq(Row))
    OBVIOUS
  <2>2. QED
    BY <2>1 DEF Restart
<1>2. /\ run' \in 0 .. MaxRestarts
      /\ rec' \in [Sess -> {"none", "Active", "Closed", "gone"}]
      /\ sock' \in [Slots -> {"closed", "connecting", "open", "closing"}]
      /\ topic' \in [Slots -> BOOLEAN]
  BY StoreAssumption DEF IInv, TypeOK, Restart
<1>3. TypeOK'
  BY <1>1, <1>2 DEF IInv, TypeOK, Restart, viewVars, boundVars
<1>4. WireInv'
  BY <1>1, WireKept DEF IInv, Restart
<1>5. TimersFromLogins'
  <2>1. Busy(1)' = Busy(1) /\ Busy(2)' = Busy(2) /\ Busy(3)' = Busy(3)
    BY DEF Restart, Busy, Slots
  <2>2. QED
    BY <2>1 DEF IInv, TimersFromLogins, Restart, boundVars
<1>6. QED
  BY <1>3, <1>4, <1>5, ViewKept DEF IInv, Restart

LEMMA LoginStep ==
  ASSUME IInv, Login
  PROVE  IInv'
<1>1. Connect /\ logins' = logins + 1 /\ logins' <= MaxLogins
      /\ UNCHANGED <<serverVars, timers, viewVars, breaks, clears>>
  BY StoreAssumption DEF IInv, TypeOK, Login
<1> HIDE DEF Login, Connect
<1>2. /\ sock' \in [Slots -> {"closed", "connecting", "open", "closing"}]
      /\ topic' \in [Slots -> BOOLEAN] /\ wire' \in [Slots -> Seq(Seq(Row))]
      /\ current' \in Slots /\ isConnected' \in BOOLEAN
      /\ WireInv'
      /\ Busy(1)' + Busy(2)' + Busy(3)' <= Busy(1) + Busy(2) + Busy(3) + 1
  BY <1>1, ConnectStep DEF IInv
<1>3. logins' \in 0 .. MaxLogins
  BY <1>1, StoreAssumption DEF IInv, TypeOK
<1>4. TypeOK'
  BY <1>1, <1>2, <1>3 DEF IInv, TypeOK, serverVars, viewVars
<1>5. TimersFromLogins'
  <2>1. timers' + Busy(1)' + Busy(2)' + Busy(3)' <= logins'
    <3>1. timers \in Nat /\ logins \in Nat /\ timers' = timers /\ logins' = logins + 1
      BY <1>1, StoreAssumption DEF IInv, TypeOK
    <3>2. timers + Busy(1) + Busy(2) + Busy(3) <= logins
      BY DEF IInv, TimersFromLogins
    <3>3. QED
      BY <1>2, <3>1, <3>2, BusyRange, BusyRangeNext
  <2>2. QED
    BY <2>1 DEF TimersFromLogins
<1>6. QED
  BY <1>1, <1>2, <1>4, <1>5, ViewKept DEF IInv

LEMMA TimerStep ==
  ASSUME IInv, Timer
  PROVE  IInv'
<1>1. /\ timers > 0 /\ timers' = timers - 1 /\ timers' \in 0 .. MaxLogins
      /\ UNCHANGED <<serverVars, viewVars, boundVars>>
  BY StoreAssumption DEF IInv, TypeOK, Timer
<1>2. CASE isConnected
  <2>1. UNCHANGED <<sock, topic, wire, current, isConnected>>
    BY <1>2 DEF Timer
  <2>2. TypeOK'
    BY <1>1, <2>1 DEF IInv, TypeOK, serverVars, viewVars, boundVars
  <2>3. WireInv'
    BY <2>1, WireSame
  <2>4. Busy(1)' = Busy(1) /\ Busy(2)' = Busy(2) /\ Busy(3)' = Busy(3)
    BY <2>1 DEF Busy
  <2>5. TimersFromLogins'
    BY <1>1, <2>4, BusyRange DEF IInv, TypeOK, TimersFromLogins, boundVars
  <2>6. QED
    BY <1>1, <2>2, <2>3, <2>5, ViewKept DEF IInv
<1>3. CASE ~isConnected
  <2>1. Connect
    BY <1>3 DEF Timer
  <2>2. /\ sock' \in [Slots -> {"closed", "connecting", "open", "closing"}]
        /\ topic' \in [Slots -> BOOLEAN] /\ wire' \in [Slots -> Seq(Seq(Row))]
        /\ current' \in Slots /\ isConnected' \in BOOLEAN
        /\ WireInv'
        /\ Busy(1)' + Busy(2)' + Busy(3)' <= Busy(1) + Busy(2) + Busy(3) + 1
    BY <2>1, ConnectStep DEF IInv
  <2>3. TypeOK'
    BY <1>1, <2>2 DEF IInv, TypeOK, serverVars, viewVars, boundVars
  <2>4. timers' + Busy(1)' + Busy(2)' + Busy(3)' <= logins'
    <3>1. timers \in Nat /\ logins \in Nat /\ timers' = timers - 1 /\ logins' = logins
      BY <1>1, StoreAssumption DEF IInv, TypeOK, boundVars
    <3>2. timers + Busy(1) + Busy(2) + Busy(3) <= logins
      BY DEF IInv, TimersFromLogins
    <3>3. QED
      BY <2>2, <3>1, <3>2, BusyRange, BusyRangeNext
  <2>5. TimersFromLogins'
    BY <2>4 DEF TimersFromLogins
  <2>6. QED
    BY <1>1, <2>2, <2>3, <2>5, ViewKept DEF IInv
<1>4. QED
  BY <1>2, <1>3

LEMMA ClearStep ==
  ASSUME IInv, ClearHistory
  PROVE  IInv'
<1>1. /\ clears' \in 0 .. MaxClears /\ hist' = <<>> /\ histSet' = {}
      /\ UNCHANGED <<serverVars, sockVars, shown, breaks, logins>>
  BY StoreAssumption DEF IInv, TypeOK, ClearHistory
<1>2. hist' \in Seq(Row) /\ Len(hist') = 0 /\ 1 .. 0 = {}
  BY <1>1
<1>3. TypeOK'
  BY <1>1, <1>2, StoreAssumption DEF IInv, TypeOK, serverVars, sockVars
<1>4. HistInv'
  <2>1. Len(hist)' = 0
    BY <1>2
  <2>2. QED
    BY <1>1, <1>2, <2>1 DEF HistInv, Distinct, IdsOf
<1>5. WireInv' /\ Small(shown)'
  BY <1>1 DEF IInv, WireInv, Small, Distinct, sockVars
<1>6. TimersFromLogins'
  BY <1>1, SocketsKept DEF sockVars
<1>7. QED
  BY <1>3, <1>4, <1>5, <1>6 DEF IInv

LEMMA OpenStep ==
  ASSUME IInv, NEW i \in Slots, OnOpen(i) \/ Subscribed(i)
  PROVE  IInv'
<1>1. UNCHANGED <<serverVars, wire, current, timers, viewVars, boundVars>>
  BY DEF OnOpen, Subscribed
<1>2. TypeOK'
  <2>1. /\ sock' \in [Slots -> {"closed", "connecting", "open", "closing"}]
        /\ topic' \in [Slots -> BOOLEAN] /\ isConnected' \in BOOLEAN
    BY DEF IInv, TypeOK, OnOpen, Subscribed
  <2>2. QED
    BY <1>1, <2>1 DEF IInv, TypeOK, serverVars, viewVars, boundVars
<1>3. WireInv'
  BY <1>1, WireSame
<1>4. TimersFromLogins'
  <2>1. CASE OnOpen(i)
    BY <1>1, <2>1, SocketMoves DEF OnOpen, boundVars
  <2>2. CASE Subscribed(i)
    BY <1>1, <2>2, SocketsKept DEF Subscribed, boundVars
  <2>3. QED
    BY <2>1, <2>2
<1>5. QED
  BY <1>1, <1>2, <1>3, <1>4, ViewKept DEF IInv

LEMMA PushStep ==
  ASSUME IInv, NEW i \in Slots, Push(i)
  PROVE  IInv'
<1>1. PICK all \in Listings : wire' = [wire EXCEPT ![i] = <<Snapshot(all)>>]
  BY DEF Push
<1>2. PICK data : data = Snapshot(all)
  OBVIOUS
<1>3. data \in Seq(Row) /\ Small(data)
  BY <1>2, SnapshotSmall DEF IInv
<1>4. wire' = [wire EXCEPT ![i] = <<data>>]
  BY <1>1, <1>2
<1>5. UNCHANGED <<serverVars, sock, topic, current, isConnected, timers, viewVars, boundVars>>
  BY DEF Push
<1>6. <<data>> \in Seq(Seq(Row)) /\ Len(<<data>>) = 1 /\ <<data>>[1] = data
  BY <1>3
<1>7. wire' \in [Slots -> Seq(Seq(Row))]
  BY <1>4, <1>6 DEF IInv, TypeOK
<1>8. TypeOK'
  BY <1>5, <1>7 DEF IInv, TypeOK, serverVars, viewVars, boundVars
<1>9. WireInv'
  <2> SUFFICES ASSUME NEW j \in Slots, NEW k \in 1 .. Len(wire'[j]) PROVE Small(wire'[j][k])
      BY DEF WireInv, Small, Distinct
  <2>1. CASE j = i
    <3>1. wire'[j] = <<data>>
      BY <1>4, <2>1 DEF IInv, TypeOK
    <3>2. k = 1
      BY <1>6, <3>1
    <3>3. QED
      BY <1>3, <1>6, <3>1, <3>2
  <2>2. CASE j # i
    BY <1>4, <2>2 DEF IInv, TypeOK, WireInv
  <2>3. QED
    BY <2>1, <2>2
<1>10. TimersFromLogins'
  BY <1>5, SocketsKept DEF boundVars
<1>11. QED
  BY <1>5, <1>8, <1>9, <1>10, ViewKept DEF IInv

LEMMA BreakStep ==
  ASSUME IInv, NEW i \in Slots, Break(i)
  PROVE  IInv'
<1>1. /\ breaks' \in 0 .. MaxBreaks
      /\ sock[i] # "closed" /\ sock' = [sock EXCEPT ![i] = "closing"]
      /\ topic' = [topic EXCEPT ![i] = FALSE] /\ wire' = [wire EXCEPT ![i] = <<>>]
      /\ UNCHANGED <<serverVars, current, isConnected, timers, viewVars, clears, logins>>
  BY StoreAssumption DEF IInv, TypeOK, Break
<1>2. wire' \in [Slots -> Seq(Seq(Row))]
  <2>1. <<>> \in Seq(Seq(Row))
    OBVIOUS
  <2>2. QED
    BY <1>1, <2>1 DEF IInv, TypeOK
<1>3. TypeOK'
  BY <1>1, <1>2 DEF IInv, TypeOK, serverVars, viewVars
<1>4. WireInv'
  <2>1. \A j \in Slots : wire'[j] = wire[j] \/ wire'[j] = <<>>
    BY <1>1 DEF IInv, TypeOK
  <2>2. QED
    BY <1>2, <2>1, WireKept DEF IInv
<1>5. TimersFromLogins'
  BY <1>1, SocketMoves
<1>6. QED
  BY <1>1, <1>3, <1>4, <1>5, ViewKept DEF IInv

LEMMA CloseStep ==
  ASSUME IInv, NEW i \in Slots, OnClose(i)
  PROVE  IInv'
<1>1. /\ sock[i] # "closed" /\ sock' = [sock EXCEPT ![i] = "closed"]
      /\ isConnected' = FALSE /\ timers' = timers + 1
      /\ UNCHANGED <<serverVars, topic, wire, current, viewVars, boundVars>>
  BY DEF OnClose
<1>2. Busy(1)' + Busy(2)' + Busy(3)' = Busy(1) + Busy(2) + Busy(3) - 1
  <2>1. \A j \in Slots : Busy(j) = IF sock[j] = "closed" THEN 0 ELSE 1
    BY DEF Busy
  <2>2. \A j \in Slots : sock'[j] = IF j = i THEN "closed" ELSE sock[j]
    BY <1>1 DEF IInv, TypeOK
  <2>3. /\ Busy(1)' = IF sock'[1] = "closed" THEN 0 ELSE 1
        /\ Busy(2)' = IF sock'[2] = "closed" THEN 0 ELSE 1
        /\ Busy(3)' = IF sock'[3] = "closed" THEN 0 ELSE 1
    BY DEF Busy
  <2>4. i = 1 \/ i = 2 \/ i = 3
    BY DEF Slots
  <2>5. 1 \in Slots /\ 2 \in Slots /\ 3 \in Slots
    BY DEF Slots
  <2>6. QED
    BY <1>1, <2>1, <2>2, <2>3, <2>4, <2>5
<1>3. timers' + Busy(1)' + Busy(2)' + Busy(3)' <= logins'
  <2>1. timers \in Nat /\ logins \in Nat /\ timers' = timers + 1 /\ logins' = logins
    BY <1>1, StoreAssumption DEF IInv, TypeOK, boundVars
  <2>2. timers + Busy(1) + Busy(2) + Busy(3) <= logins
    BY DEF IInv, TimersFromLogins
  <2>3. QED
    BY <1>2, <2>1, <2>2, BusyRange, BusyRangeNext
<1>4. timers' \in 0 .. MaxLogins
  <2>1. Busy(1) + Busy(2) + Busy(3) >= 1
    <3>1. i = 1 \/ i = 2 \/ i = 3
      BY DEF Slots
    <3>2. Busy(i) = 1
      BY <1>1 DEF Busy
    <3>3. QED
      BY <3>1, <3>2, BusyRange DEF IInv
  <2>2. timers + 1 <= logins
    BY <2>1, BusyRange DEF IInv, TypeOK, TimersFromLogins
  <2>3. QED
    BY <1>1, <2>2, StoreAssumption DEF IInv, TypeOK
<1>5. TypeOK'
  <2>1. sock' \in [Slots -> {"closed", "connecting", "open", "closing"}]
    BY <1>1 DEF IInv, TypeOK
  <2>2. QED
    BY <1>1, <1>4, <2>1 DEF IInv, TypeOK, serverVars, viewVars, boundVars
<1>6. WireInv'
  BY <1>1, WireSame
<1>7. TimersFromLogins'
  BY <1>3 DEF TimersFromLogins
<1>8. QED
  BY <1>1, <1>5, <1>6, <1>7, ViewKept DEF IInv

(* The message that HandleConnections takes, and what it files. *)
LEMMA Handled ==
  ASSUME IInv, NEW i \in Slots, HandleConnections(i)
  PROVE  \E data \in Seq(Row) :
           /\ Small(data) /\ shown' = data /\ File(News(data))
           /\ News(data) \in Seq(Row) /\ Len(News(data)) <= MaxHist
           /\ Distinct(News(data)) /\ IdsOf(News(data)) \cap histSet = {}
<1>1. PICK data : data = Head(wire[i])
  OBVIOUS
<1>2. wire[i] \in Seq(Seq(Row)) /\ wire[i] # <<>>
  BY DEF IInv, TypeOK, HandleConnections
<1>3. data = wire[i][1] /\ 1 \in 1 .. Len(wire[i]) /\ data \in Seq(Row)
  BY <1>1, <1>2
<1>4. Small(data)
  BY <1>3 DEF IInv, WireInv
<1>5. File(News(data)) /\ shown' = data
  <2>1. PICK d \in {Head(wire[i])} : \E news \in {Vanished(d) \o NewClosed(d)} :
          File(news) /\ shown' = d
    BY DEF HandleConnections
  <2>2. d = data
    BY <1>1, <2>1
  <2>3. QED
    BY <2>1, <2>2 DEF News
<1>6. QED
  BY <1>3, <1>4, <1>5, NewsRows DEF IInv

LEMMA HandleStep ==
  ASSUME IInv, NEW i \in Slots, HandleConnections(i)
  PROVE  IInv'
<1>1. PICK data \in Seq(Row) :
        /\ Small(data) /\ shown' = data /\ File(News(data))
        /\ News(data) \in Seq(Row) /\ Len(News(data)) <= MaxHist
        /\ Distinct(News(data)) /\ IdsOf(News(data)) \cap histSet = {}
  BY Handled
<1>2. hist' \in Seq(Row) /\ Len(hist') <= MaxHist /\ histSet' \subseteq Sess /\ HistInv'
  BY <1>1, FileRows DEF IInv
<1>3. /\ wire' = [wire EXCEPT ![i] = Tail(@)] /\ wire[i] # <<>>
      /\ UNCHANGED <<serverVars, sock, topic, current, isConnected, timers, boundVars>>
  BY DEF HandleConnections
<1>4. wire[i] \in Seq(Seq(Row))
  BY DEF IInv, TypeOK
<1>5. PICK rest : rest = Tail(wire[i])
  OBVIOUS
<1>6. /\ rest \in Seq(Seq(Row))
      /\ \A k \in 1 .. Len(rest) : k + 1 \in 1 .. Len(wire[i]) /\ rest[k] = wire[i][k + 1]
  BY <1>3, <1>4, <1>5
<1>7. wire' = [wire EXCEPT ![i] = rest]
  BY <1>3, <1>5
<1>8. wire' \in [Slots -> Seq(Seq(Row))]
  BY <1>6, <1>7 DEF IInv, TypeOK
<1>9. shown' \in Seq(Row) /\ Len(shown') <= MaxConns /\ Small(shown)'
  BY <1>1 DEF Small, Distinct
<1>10. TypeOK'
  BY <1>2, <1>3, <1>8, <1>9 DEF IInv, TypeOK, serverVars, boundVars
<1>11. WireInv'
  <2> SUFFICES ASSUME NEW j \in Slots, NEW k \in 1 .. Len(wire'[j]) PROVE Small(wire'[j][k])
      BY DEF WireInv, Small, Distinct
  <2>1. CASE j = i
    <3>1. wire'[j] = rest
      BY <1>7, <2>1 DEF IInv, TypeOK
    <3>2. k + 1 \in 1 .. Len(wire[i]) /\ wire'[j][k] = wire[i][k + 1]
      BY <1>6, <3>1
    <3>3. QED
      BY <3>2 DEF IInv, WireInv
  <2>2. CASE j # i
    BY <1>7, <2>2 DEF IInv, TypeOK, WireInv
  <2>3. QED
    BY <2>1, <2>2
<1>12. TimersFromLogins'
  BY <1>3, SocketsKept DEF boundVars
<1>13. QED
  BY <1>2, <1>9, <1>10, <1>11, <1>12 DEF IInv

LEMMA NextIInv == IInv /\ [Next]_vars => IInv'
<1> SUFFICES ASSUME IInv, [Next]_vars PROVE IInv'
    OBVIOUS
<1>1. CASE \E s \in Sess : Open(s) \/ Close(s)
  BY <1>1, RegistryStep
<1>2. CASE Restart
  BY <1>2, RestartStep
<1>3. CASE Login
  BY <1>3, LoginStep
<1>4. CASE Timer
  BY <1>4, TimerStep
<1>5. CASE ClearHistory
  BY <1>5, ClearStep
<1>6. CASE \E i \in Slots : Page(i) \/ Hub(i) \/ Break(i)
  BY <1>6, OpenStep, CloseStep, HandleStep, PushStep, BreakStep DEF Page, Hub
<1>7. CASE UNCHANGED vars
  <2>1. UNCHANGED <<run, rec, sockVars, viewVars, boundVars>>
    BY <1>7 DEF vars, serverVars
  <2>2. TypeOK'
    BY <2>1 DEF IInv, TypeOK, sockVars, viewVars, boundVars
  <2>3. WireInv'
    BY <2>1, WireSame DEF sockVars
  <2>4. TimersFromLogins'
    BY <2>1, SocketsKept DEF sockVars, boundVars
  <2>5. QED
    BY <2>1, <2>2, <2>3, <2>4, ViewKept DEF IInv
<1>8. QED
  BY <1>1, <1>2, <1>3, <1>4, <1>5, <1>6, <1>7 DEF Next

-----------------------------------------------------------------------------
(* What the store promises. *)

(* The inductive invariant holds in every reachable state. *)
THEOREM Inductive == Spec => []IInv
BY InitIInv, NextIInv, PTL DEF Spec

(* The history and its set stay in step over every message, trimming and     *)
(* clearing (handleConnections, clearHistory).                               *)
THEOREM HistoryInStep == Spec => []HistoryMatchesSet
<1>1. IInv => HistoryMatchesSet
  BY DEF IInv, HistInv, Distinct, HistoryMatchesSet
<1>2. QED
  BY <1>1, Inductive, PTL

(* What is filed goes to the front of the history and is not cut off. *)
LEMMA NewsKept ==
  ASSUME TypeOK, NEW news \in Seq(Row), Len(news) <= MaxHist, File(news),
         NEW j \in 1 .. Len(news)
  PROVE  j \in 1 .. Len(hist') /\ hist'[j] = news[j]
<1>1. PICK all \in Seq(Row) : all = news \o hist
  BY ConcatProperties DEF TypeOK
<1>2. Len(all) = Len(news) + Len(hist) /\ all[j] = news[j]
  BY <1>1 DEF TypeOK
<1>3. hist' = IF Len(all) > MaxHist THEN SubSeq(all, 1, MaxHist) ELSE all
  BY <1>1 DEF File
<1>4. /\ Len(news) \in Nat /\ Len(hist) \in Nat /\ MaxHist \in Nat
      /\ j \in Nat /\ 1 <= j /\ j <= Len(news)
  BY StoreAssumption DEF TypeOK
<1>5. CASE Len(all) > MaxHist
  <2>1. PICK kept : kept = SubSeq(all, 1, MaxHist)
    OBVIOUS
  <2>2. Len(kept) = MaxHist /\ \A i \in 1 .. MaxHist : kept[i] = all[i]
    BY <1>2, <1>4, <1>5, <2>1
  <2>3. j \in 1 .. MaxHist
    BY <1>4
  <2>4. QED
    BY <1>2, <1>3, <1>5, <2>1, <2>2, <2>3
<1>6. CASE ~(Len(all) > MaxHist)
  <2>1. j \in 1 .. Len(all)
    BY <1>2, <1>4
  <2>2. QED
    BY <1>2, <1>3, <1>6, <2>1
<1>7. QED
  BY <1>5, <1>6

(* A connection that has ended by data is among the news, with its run. *)
LEMMA EndedIsNews ==
  ASSUME IInv, NEW data \in Seq(Row), Small(data), NEW k \in 1 .. Len(shown),
         shown[k].id \notin histSet,
         \A r \in Find(data, shown[k].id) : r.status = "Closed" /\ r.run = shown[k].run
  PROVE  \E j \in 1 .. Len(News(data)) :
           News(data)[j].id = shown[k].id /\ News(data)[j].run = shown[k].run
<1>1. PICK c \in Row : c = shown[k]
  BY DEF IInv, TypeOK
<1>2. c \in ToSet(shown) /\ c \in Ended(data)
  BY <1>1 DEF Ended, ToSet
<1>3. PICK old : old = Sift(shown, Ended(data))
  OBVIOUS
<1>4. old \in Seq(Row) /\ ToSet(old) = ToSet(shown) \cap Ended(data)
  BY <1>3, SiftElements DEF IInv, TypeOK
<1>5. PICK j \in 1 .. Len(old) : old[j] = c
  BY <1>2, <1>4 DEF ToSet
<1>6. PICK v \in Seq(Row) : v = Vanished(data)
  BY VanishedRows DEF IInv
<1>7. v = [i \in 1 .. Len(old) |->
             IF Find(data, old[i].id) = {} THEN Filed(old[i])
             ELSE CHOOSE r \in Find(data, old[i].id) : TRUE]
  BY <1>3, <1>6 DEF Vanished
<1>8. Len(v) = Len(old)
  BY <1>4, <1>6, <1>7
<1>9. v[j].id = c.id /\ v[j].run = c.run
  <2>1. CASE Find(data, c.id) = {}
    <3>1. v[j] = Filed(c)
      BY <1>5, <1>7, <2>1
    <3>2. QED
      BY <3>1 DEF Filed, Row
  <2>2. CASE Find(data, c.id) # {}
    <3>1. v[j] = CHOOSE r \in Find(data, c.id) : TRUE
      BY <1>5, <1>7, <2>2
    <3>2. v[j] \in Find(data, c.id)
      BY <2>2, <3>1
    <3>3. QED
      BY <1>1, <3>2, FindRow
  <2>3. QED
    BY <2>1, <2>2
<1>10. PICK n \in Seq(Row) : n = NewClosed(data)
  BY NewClosedRows DEF Small
<1>11. News(data) = v \o n
  BY <1>6, <1>10 DEF News
<1>12. j \in 1 .. Len(v \o n) /\ (v \o n)[j] = v[j]
  BY <1>6, <1>8, <1>10
<1>13. QED
  BY <1>1, <1>9, <1>11, <1>12

(* What the page showed as Active and shows so no longer is filed with the   *)
(* same message: nothing that the page derives its history from is dropped,  *)
(* not by the filter for duplicates nor by the limit (handleConnections).    *)
THEOREM NothingUnfiled == Spec => FiledWhenGone
<1> DEFINE Gone(c) ==
      /\ c.status = "Active" /\ c.id \notin IdsOf(hist) /\ shown' # shown
      /\ \A r \in Find(shown', c.id) : r.status = "Closed" /\ r.run = c.run
<1>1. ASSUME IInv, [Next]_vars, NEW k \in 1 .. Len(shown), Gone(shown[k])
      PROVE  \E h \in Find(hist', shown[k].id) : h.run = shown[k].run
  <2>1. PICK i \in Slots : HandleConnections(i)
    BY <1>1 DEF Next, vars, viewVars, Open, Close, Restart, Login, Timer, ClearHistory,
                Page, Hub, OnOpen, OnClose, Subscribed, Push, Break
  <2>2. PICK data \in Seq(Row) :
          /\ Small(data) /\ shown' = data /\ File(News(data))
          /\ News(data) \in Seq(Row) /\ Len(News(data)) <= MaxHist
    BY <1>1, <2>1, Handled
  <2>3. /\ shown[k].id \notin histSet
        /\ \A r \in Find(data, shown[k].id) : r.status = "Closed" /\ r.run = shown[k].run
    BY <1>1, <2>2 DEF IInv, HistInv
  <2>4. PICK j \in 1 .. Len(News(data)) :
          News(data)[j].id = shown[k].id /\ News(data)[j].run = shown[k].run
    BY <1>1, <2>2, <2>3, EndedIsNews
  <2>5. j \in 1 .. Len(hist') /\ hist'[j] = News(data)[j]
    BY <1>1, <2>2, NewsKept DEF IInv
  <2>6. hist'[j] \in Find(hist', shown[k].id)
    BY <2>4, <2>5 DEF Find
  <2>7. QED
    BY <2>4, <2>5, <2>6
<1>2. IInv /\ [Next]_vars =>
        [\A i \in 1 .. Len(shown) :
           LET c == shown[i] IN
             /\ c.status = "Active" /\ c.id \notin IdsOf(hist) /\ shown' # shown
             /\ \A r \in Find(shown', c.id) : r.status = "Closed" /\ r.run = c.run
             => \E h \in Find(hist', c.id) : h.run = c.run]_vars
  BY <1>1
<1>3. QED
  BY <1>2, Inductive, PTL DEF Spec, FiledWhenGone

(* A user who logs in once never loses a live websocket to a timer: the one  *)
(* login left one websocket or one timer, never both (connect, onclose).     *)
THEOREM LiveSocketSpared == ASSUME MaxLogins <= 1 PROVE Spec => LiveSocketKept
<1>1. ASSUME IInv, [Next]_vars, timers' < timers, current # 0
      PROVE  sock[current] \in {"closed", "closing"}
  <2>1. timers \in Nat /\ timers' # timers /\ timers' # timers + 1
    BY <1>1, StoreAssumption DEF IInv, TypeOK
  <2>2. timers > 0
    <3>1. Timer
      BY <1>1, <2>1 DEF Next, vars, sockVars, Open, Close, Restart, Login, ClearHistory,
                  Page, Hub, OnOpen, OnClose, Subscribed, Push, Break, HandleConnections
    <3>2. QED
      BY <3>1 DEF Timer
  <2>3. timers + Busy(1) + Busy(2) + Busy(3) <= logins
    BY <1>1 DEF IInv, TimersFromLogins
  <2>4. logins <= 1 /\ logins \in Nat
    BY <1>1, StoreAssumption DEF IInv, TypeOK
  <2>5. Busy(1) = 0 /\ Busy(2) = 0 /\ Busy(3) = 0
    BY <2>1, <2>2, <2>3, <2>4, BusyRange
  <2>6. current = 1 \/ current = 2 \/ current = 3
    BY <1>1 DEF IInv, TypeOK, Slots
  <2>7. QED
    BY <2>5, <2>6 DEF Busy
<1>2. IInv /\ [Next]_vars =>
        [timers' < timers /\ current # 0 => sock[current] \in {"closed", "closing"}]_vars
  BY <1>1
<1>3. QED
  BY <1>2, Inductive, PTL DEF Spec, LiveSocketKept
=============================================================================
