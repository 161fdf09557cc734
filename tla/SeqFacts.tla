------------------------------ MODULE SeqFacts ------------------------------
(* Facts about sequences that the proofs of several components need.  The    *)
(* induction they rest on is the least element of a set of numbers.          *)
EXTENDS Subsequence, SequencesExt, SequenceTheorems, WellFoundedInduction, TLAPS

-----------------------------------------------------------------------------
(* Induction with a set in place of the predicate. *)

LEMMA LeastNatural ==
  ASSUME NEW T, T \subseteq Nat, T # {}
  PROVE  \E x \in T : \A y \in T : x <= y
<1> DEFINE R == {ss \in Nat \X Nat : ss[1] < ss[2]}
<1>1. IsWellFoundedOn(R, Nat)
  BY NatLessThanWellFounded DEF OpToRel
<1> HIDE DEF R
<1>2. PICK x \in T : \A y \in T : ~ (<<y, x>> \in R)
  BY <1>1, WFMin
<1>3. \A y \in T : ~(y < x)
  BY <1>2 DEF R
<1>4. QED
  BY <1>3

LEMMA SetInduction ==
  ASSUME NEW S, 0 \in S, \A n \in Nat : n \in S => n + 1 \in S
  PROVE  \A n \in Nat : n \in S
<1> SUFFICES ASSUME Nat \ S # {} PROVE FALSE
    OBVIOUS
<1>1. PICK x \in Nat \ S : \A y \in Nat \ S : x <= y
  BY LeastNatural
<1>2. x - 1 \in Nat \ S
  BY <1>1
<1>3. QED
  BY <1>1, <1>2

(* There is a function that begins with f0 and goes on with F.               *)
Unrolls(S, N, f0, F) ==
  \E g \in [0 .. N -> S] : g[0] = f0 /\ \A i \in 1 .. N : g[i] = F[i][g[i - 1]]

(* A function may be defined by what it is at 0 and how it goes on.          *)
LEMMA RecursiveFunction ==
  ASSUME NEW S, NEW N \in Nat, NEW f0 \in S, NEW F \in [1 .. N -> [S -> S]]
  PROVE  Unrolls(S, N, f0, F)
<1> DEFINE Upto(m, g) == g[0] = f0 /\ \A i \in 1 .. m : g[i] = F[i][g[i - 1]]
           P == {m \in Nat : m <= N => \E g \in [0 .. m -> S] : Upto(m, g)}
<1>1. 0 \in P
  <2>1. [i \in 0 .. 0 |-> f0] \in [0 .. 0 -> S] /\ Upto(0, [i \in 0 .. 0 |-> f0])
    OBVIOUS
  <2>2. QED
    BY <2>1
<1>2. ASSUME NEW m \in Nat, m \in P PROVE m + 1 \in P
  <2> SUFFICES ASSUME m + 1 <= N PROVE \E g \in [0 .. m + 1 -> S] : Upto(m + 1, g)
      OBVIOUS
  <2>1. PICK g \in [0 .. m -> S] : Upto(m, g)
    BY <1>2
  <2> DEFINE h == [i \in 0 .. m + 1 |-> IF i <= m THEN g[i] ELSE F[m + 1][g[m]]]
  <2>2. g[m] \in S /\ F[m + 1] \in [S -> S]
    OBVIOUS
  <2>3. F[m + 1][g[m]] \in S
    BY <2>2
  <2>4. h \in [0 .. m + 1 -> S]
    BY <2>3
  <2>5. Upto(m + 1, h)
    <3>1. h[0] = f0
      BY <2>1
    <3>2. ASSUME NEW i \in 1 .. m PROVE h[i] = F[i][h[i - 1]]
      BY <2>1
    <3>3. h[m + 1] = F[m + 1][h[m]]
      OBVIOUS
    <3>4. \A i \in 1 .. m + 1 : i \in 1 .. m \/ i = m + 1
      OBVIOUS
    <3>5. (m + 1) - 1 = m
      OBVIOUS
    <3>6. QED
      <4> HIDE DEF h
      <4>1. QED
        BY <3>1, <3>2, <3>3, <3>4, <3>5
  <2>6. QED
    BY <2>4, <2>5
<1>3. N \in P
  <2> HIDE DEF P
  <2>1. QED
    BY <1>1, <1>2, SetInduction
<1>4. QED
  BY <1>3 DEF Unrolls

-----------------------------------------------------------------------------
(* Sift. *)

LEMMA SiftingDef ==
  ASSUME NEW X, NEW s \in Seq(X), NEW T
  PROVE  /\ Sifting(s, T) \in [0 .. Len(s) -> Seq(X)]
         /\ Sifting(s, T)[0] = <<>>
         /\ \A n \in 1 .. Len(s) :
              Sifting(s, T)[n] = IF s[n] \in T THEN Append(Sifting(s, T)[n - 1], s[n])
                                 ELSE Sifting(s, T)[n - 1]
<1> DEFINE Step(g, n) == IF s[n] \in T THEN Append(g[n - 1], s[n]) ELSE g[n - 1]
           Is(g) == g = [n \in 0 .. Len(s) |-> IF n = 0 THEN <<>> ELSE Step(g, n)]
           F == [n \in 1 .. Len(s) |->
                   [t \in Seq(X) |-> IF s[n] \in T THEN Append(t, s[n]) ELSE t]]
<1>1. Len(s) \in Nat /\ <<>> \in Seq(X)
  OBVIOUS
<1>2. F \in [1 .. Len(s) -> [Seq(X) -> Seq(X)]]
  OBVIOUS
<1>3. PICK g \in [0 .. Len(s) -> Seq(X)] :
        g[0] = <<>> /\ \A i \in 1 .. Len(s) : g[i] = F[i][g[i - 1]]
  <2> HIDE DEF F
  <2>1. Unrolls(Seq(X), Len(s), <<>>, F)
    BY <1>1, <1>2, RecursiveFunction
  <2>2. QED
    BY <2>1 DEF Unrolls
<1>4. \A i \in 1 .. Len(s) : g[i] = Step(g, i)
  <2>1. ASSUME NEW i \in 1 .. Len(s)
        PROVE  g[i] = Step(g, i)
    <3>1. g[i - 1] \in Seq(X) /\ s[i] \in X
      BY <1>3
    <3>2. g[i] = F[i][g[i - 1]]
      BY <1>3
    <3>3. QED
      BY <3>1, <3>2
  <2>2. QED
    BY <2>1
<1>5. Is(g)
  <2> HIDE DEF Step
  <2>1. \A n \in 0 .. Len(s) : g[n] = IF n = 0 THEN <<>> ELSE Step(g, n)
    BY <1>1, <1>3, <1>4
  <2>2. QED
    BY <2>1, <1>3
<1>6. Is(Sifting(s, T))
  <2>1. Sifting(s, T) = CHOOSE h : Is(h)
    BY DEF Sifting
  <2>2. QED
    BY <1>5, <2>1
<1> DEFINE h == Sifting(s, T)
<1>7. /\ h = [n \in 0 .. Len(s) |-> h[n]] /\ h[0] = <<>>
      /\ \A n \in 1 .. Len(s) : h[n] = Step(h, n)
  <2> HIDE DEF h, Step
  <2>1. Is(h)
    BY <1>6 DEF h
  <2>2. \A n \in 0 .. Len(s) : h[n] = IF n = 0 THEN <<>> ELSE Step(h, n)
    BY <2>1
  <2>3. DOMAIN h = 0 .. Len(s)
    BY <2>1
  <2>4. QED
    BY <1>1, <2>1, <2>2, <2>3
<1>8. \A n \in 0 .. Len(s) : h[n] \in Seq(X)
  <2> HIDE DEF h
  <2> DEFINE P == {n \in Nat : n <= Len(s) => h[n] \in Seq(X)}
  <2>1. 0 \in P
    BY <1>1, <1>7
  <2>2. ASSUME NEW n \in Nat, n \in P PROVE n + 1 \in P
    <3> SUFFICES ASSUME n + 1 <= Len(s) PROVE h[n + 1] \in Seq(X)
        OBVIOUS
    <3>1. h[n] \in Seq(X) /\ n + 1 \in 1 .. Len(s) /\ (n + 1) - 1 = n /\ s[n + 1] \in X
      BY <2>2, <1>1
    <3>2. h[n + 1] = Step(h, n + 1)
      BY <3>1, <1>7
    <3>3. QED
      BY <3>1, <3>2
  <2>3. QED
    <3> HIDE DEF P
    <3>1. \A n \in Nat : n \in P
      BY <2>1, <2>2, SetInduction
    <3>2. QED
      BY <3>1, <1>1 DEF P
<1>9. QED
  BY <1>7, <1>8

LEMMA ToSetAppend ==
  ASSUME NEW X, NEW s \in Seq(X), NEW x \in X
  PROVE  ToSet(Append(s, x)) = ToSet(s) \cup {x}
<1> DEFINE t == Append(s, x)
<1>1. /\ t \in Seq(X) /\ Len(t) = Len(s) + 1 /\ Len(s) \in Nat /\ t[Len(s) + 1] = x
      /\ \A i \in 1 .. Len(s) : t[i] = s[i]
  OBVIOUS
<1> HIDE DEF t
<1>2. \A y : y \in ToSet(t) <=> \E i \in 1 .. Len(s) + 1 : t[i] = y
  BY <1>1 DEF ToSet
<1>3. \A y : y \in ToSet(s) <=> \E i \in 1 .. Len(s) : s[i] = y
  BY DEF ToSet
<1>4. ASSUME NEW y PROVE y \in ToSet(t) <=> y \in ToSet(s) \/ y = x
  BY <1>1, <1>2, <1>3
<1>5. QED
  BY <1>4 DEF t

LEMMA ToSetTail ==
  ASSUME NEW X, NEW s \in Seq(X), s # <<>>
  PROVE  ToSet(s) = {Head(s)} \cup ToSet(Tail(s))
<1> DEFINE t == Tail(s)
<1>1. /\ Len(s) \in Nat /\ Len(s) > 0 /\ Len(t) = Len(s) - 1 /\ Head(s) = s[1] /\ t \in Seq(X)
      /\ \A i \in 1 .. Len(t) : t[i] = s[i + 1]
  OBVIOUS
<1> HIDE DEF t
<1>2. \A y : y \in ToSet(s) <=> \E i \in 1 .. Len(s) : s[i] = y
  BY DEF ToSet
<1>3. \A y : y \in ToSet(t) <=> \E i \in 1 .. Len(t) : t[i] = y
  BY <1>1 DEF ToSet
<1>4. ASSUME NEW y PROVE y \in ToSet(s) <=> y = Head(s) \/ y \in ToSet(t)
  <2>1. ASSUME NEW i \in 1 .. Len(s), s[i] = y PROVE y = Head(s) \/ y \in ToSet(t)
    <3>1. CASE i = 1
      BY <1>1, <2>1, <3>1
    <3>2. CASE i > 1
      <4>1. i - 1 \in 1 .. Len(t) /\ t[i - 1] = s[i]
        BY <1>1, <3>2
      <4>2. QED
        BY <1>3, <2>1, <4>1
    <3>3. QED
      BY <3>1, <3>2
  <2>2. ASSUME NEW i \in 1 .. Len(t), t[i] = y PROVE y \in ToSet(s)
    <3>1. i + 1 \in 1 .. Len(s) /\ s[i + 1] = y
      BY <1>1, <2>2
    <3>2. QED
      BY <1>2, <3>1
  <2>3. Head(s) \in ToSet(s)
    BY <1>1, <1>2
  <2>4. QED
    BY <1>2, <1>3, <2>1, <2>2, <2>3
<1>5. QED
  BY <1>4 DEF t

LEMMA ToSetConcat ==
  ASSUME NEW X, NEW s \in Seq(X), NEW t \in Seq(X)
  PROVE  ToSet(s \o t) = ToSet(s) \cup ToSet(t)
<1> DEFINE u == s \o t
<1>1. /\ u \in Seq(X) /\ Len(u) = Len(s) + Len(t) /\ Len(s) \in Nat /\ Len(t) \in Nat
      /\ \A i \in 1 .. Len(s) : u[i] = s[i]
      /\ \A i \in 1 .. Len(t) : u[Len(s) + i] = t[i]
  OBVIOUS
<1> HIDE DEF u
<1>2. \A y : y \in ToSet(s) <=> \E i \in 1 .. Len(s) : s[i] = y
  BY DEF ToSet
<1>3. \A y : y \in ToSet(t) <=> \E i \in 1 .. Len(t) : t[i] = y
  BY DEF ToSet
<1>4. \A y : y \in ToSet(u) <=> \E i \in 1 .. Len(u) : u[i] = y
  <2>1. u \in Seq(X)
    BY <1>1
  <2>2. DOMAIN u = 1 .. Len(u)
    BY <2>1
  <2>3. ToSet(u) = {u[i] : i \in 1 .. Len(u)}
    BY <2>2 DEF ToSet
  <2>4. QED
    BY <2>3
<1>5. ASSUME NEW y PROVE y \in ToSet(u) <=> y \in ToSet(s) \/ y \in ToSet(t)
  <2>1. ASSUME NEW i \in 1 .. Len(u), u[i] = y PROVE y \in ToSet(s) \/ y \in ToSet(t)
    <3>1. CASE i \in 1 .. Len(s)
      BY <1>1, <1>2, <2>1, <3>1
    <3>2. CASE i \notin 1 .. Len(s)
      <4> DEFINE j == i - Len(s)
      <4>1. j \in 1 .. Len(t) /\ Len(s) + j = i
        BY <1>1, <3>2
      <4> HIDE DEF j
      <4>2. t[j] = y
        BY <1>1, <2>1, <4>1
      <4>3. QED
        BY <1>3, <4>1, <4>2
    <3>3. QED
      BY <3>1, <3>2
  <2>2. \A i \in 1 .. Len(s) : i \in 1 .. Len(u)
    BY <1>1
  <2>3. \A i \in 1 .. Len(t) : Len(s) + i \in 1 .. Len(u)
    BY <1>1
  <2>4. y \in ToSet(s) => y \in ToSet(u)
    BY <1>1, <1>2, <1>4, <2>2
  <2>5. y \in ToSet(t) => y \in ToSet(u)
    BY <1>1, <1>3, <1>4, <2>3
  <2>6. QED
    BY <1>4, <2>1, <2>4, <2>5
<1>6. QED
  BY <1>5 DEF u

(* Sift returns the elements of s that are in T, and no others.              *)
LEMMA SiftElements ==
  ASSUME NEW X, NEW s \in Seq(X), NEW T
  PROVE  /\ Sift(s, T) \in Seq(X)
         /\ ToSet(Sift(s, T)) = ToSet(s) \cap T
<1> DEFINE h == Sifting(s, T)
           P == {n \in Nat : n <= Len(s) => ToSet(h[n]) = {s[i] : i \in 1 .. n} \cap T}
<1>1. /\ Len(s) \in Nat
      /\ h \in [0 .. Len(s) -> Seq(X)] /\ h[0] = <<>>
      /\ \A n \in 1 .. Len(s) : h[n] = IF s[n] \in T THEN Append(h[n - 1], s[n]) ELSE h[n - 1]
  BY SiftingDef
<1> HIDE DEF h
<1>2. 0 \in P
  BY <1>1 DEF ToSet
<1>3. ASSUME NEW n \in Nat, n \in P PROVE n + 1 \in P
  <2> SUFFICES ASSUME n + 1 <= Len(s)
               PROVE  ToSet(h[n + 1]) = {s[i] : i \in 1 .. n + 1} \cap T
      OBVIOUS
  <2>1. /\ h[n] \in Seq(X) /\ n + 1 \in 1 .. Len(s) /\ (n + 1) - 1 = n /\ s[n + 1] \in X
        /\ ToSet(h[n]) = {s[i] : i \in 1 .. n} \cap T
    <3>1. n \in 0 .. Len(s) /\ n + 1 \in 1 .. Len(s) /\ (n + 1) - 1 = n
      BY <1>1
    <3>2. ToSet(h[n]) = {s[i] : i \in 1 .. n} \cap T
      BY <1>1, <1>3
    <3>3. h[n] \in Seq(X)
      BY <1>1, <3>1
    <3>4. s[n + 1] \in X
      BY <3>1
    <3>5. QED
      BY <3>1, <3>2, <3>3, <3>4
  <2>2. {s[i] : i \in 1 .. n + 1} = {s[i] : i \in 1 .. n} \cup {s[n + 1]}
    OBVIOUS
  <2>3. CASE s[n + 1] \in T
    <3>1. h[n + 1] = Append(h[n], s[n + 1])
      BY <1>1, <2>1, <2>3
    <3>2. ToSet(h[n + 1]) = ToSet(h[n]) \cup {s[n + 1]}
      BY <2>1, <3>1, ToSetAppend
    <3>3. QED
      BY <2>1, <2>2, <2>3, <3>2
  <2>4. CASE s[n + 1] \notin T
    BY <1>1, <2>1, <2>2, <2>4
  <2>5. QED
    BY <2>3, <2>4
<1>4. Len(s) \in P
  <2> HIDE DEF P
  <2>1. QED
    BY <1>1, <1>2, <1>3, SetInduction
<1>5. ToSet(s) = {s[i] : i \in 1 .. Len(s)}
  BY DEF ToSet
<1>6. QED
  BY <1>1, <1>4, <1>5 DEF Sift, h

-----------------------------------------------------------------------------
(* Sequences of numbers that grow. *)

Increasing(s) == \A i, j \in 1 .. Len(s) : i < j => s[i] < s[j]

(* All of s comes before all of t. *)
Below(s, t) == \A x \in ToSet(s), y \in ToSet(t) : x < y

LEMMA IncreasingAppend ==
  ASSUME NEW s \in Seq(Nat), NEW x \in Nat, Increasing(s), \A y \in ToSet(s) : y < x
  PROVE  Increasing(Append(s, x))
<1> SUFFICES ASSUME NEW i \in 1 .. Len(s) + 1, NEW j \in 1 .. Len(s) + 1, i < j
             PROVE  Append(s, x)[i] < Append(s, x)[j]
    BY DEF Increasing
<1>1. i \in 1 .. Len(s) /\ Append(s, x)[i] = s[i]
  OBVIOUS
<1>2. CASE j \in 1 .. Len(s)
  BY <1>1, <1>2 DEF Increasing
<1>3. CASE j = Len(s) + 1
  BY <1>1, <1>3 DEF ToSet
<1>4. QED
  BY <1>2, <1>3

LEMMA IncreasingTail ==
  ASSUME NEW s \in Seq(Nat), s # <<>>, Increasing(s)
  PROVE  /\ Tail(s) \in Seq(Nat) /\ Increasing(Tail(s))
         /\ Head(s) \in Nat /\ \A y \in ToSet(Tail(s)) : Head(s) < y
<1>1. /\ Tail(s) \in Seq(Nat) /\ Len(Tail(s)) = Len(s) - 1 /\ Head(s) = s[1] /\ Head(s) \in Nat
      /\ \A i \in 1 .. Len(Tail(s)) : Tail(s)[i] = s[i + 1]
  OBVIOUS
<1>2. \A i \in 1 .. Len(Tail(s)) : i + 1 \in 1 .. Len(s) /\ 1 \in 1 .. Len(s)
  BY <1>1
<1>3. \A i \in 1 .. Len(Tail(s)) : Head(s) < Tail(s)[i]
  BY <1>1, <1>2 DEF Increasing
<1>4. Increasing(Tail(s))
  BY <1>1, <1>2 DEF Increasing
<1>5. \A y \in ToSet(Tail(s)) : Head(s) < y
  BY <1>1, <1>3 DEF ToSet
<1>6. QED
  BY <1>1, <1>4, <1>5

LEMMA IncreasingConcat ==
  ASSUME NEW s \in Seq(Nat), NEW t \in Seq(Nat), Increasing(s), Increasing(t), Below(s, t)
  PROVE  Increasing(s \o t)
<1> SUFFICES ASSUME NEW i \in 1 .. Len(s) + Len(t), NEW j \in 1 .. Len(s) + Len(t), i < j
             PROVE  (s \o t)[i] < (s \o t)[j]
    BY DEF Increasing
<1>1. CASE j <= Len(s)
  BY <1>1 DEF Increasing
<1>2. CASE i <= Len(s) /\ j > Len(s)
  <2>1. j - Len(s) \in 1 .. Len(t) /\ (s \o t)[i] = s[i] /\ (s \o t)[j] = t[j - Len(s)]
    BY <1>2
  <2>2. s[i] \in ToSet(s) /\ t[j - Len(s)] \in ToSet(t)
    BY <1>2, <2>1 DEF ToSet
  <2>3. QED
    BY <2>1, <2>2 DEF Below
<1>3. CASE i > Len(s)
  <2>1. i - Len(s) \in 1 .. Len(t) /\ j - Len(s) \in 1 .. Len(t)
    BY <1>3
  <2>2. (s \o t)[i] = t[i - Len(s)] /\ (s \o t)[j] = t[j - Len(s)] /\ i - Len(s) < j - Len(s)
    BY <1>3
  <2>3. QED
    BY <2>1, <2>2 DEF Increasing
<1>4. QED
  BY <1>1, <1>2, <1>3

(* Sift keeps the order. *)
LEMMA SiftIncreasing ==
  ASSUME NEW s \in Seq(Nat), NEW T, Increasing(s)
  PROVE  Increasing(Sift(s, T))
<1> DEFINE h == Sifting(s, T)
           P == {n \in Nat : n <= Len(s) =>
                   /\ Increasing(h[n])
                   /\ \A i \in 1 .. Len(h[n]), j \in n + 1 .. Len(s) : h[n][i] < s[j]}
<1>1. /\ Len(s) \in Nat
      /\ h \in [0 .. Len(s) -> Seq(Nat)] /\ h[0] = <<>>
      /\ \A n \in 1 .. Len(s) : h[n] = IF s[n] \in T THEN Append(h[n - 1], s[n]) ELSE h[n - 1]
  BY SiftingDef
<1> HIDE DEF h
<1>2. 0 \in P
  BY <1>1 DEF Increasing
<1>3. ASSUME NEW n \in Nat, n \in P PROVE n + 1 \in P
  <2> SUFFICES ASSUME n + 1 <= Len(s)
               PROVE  /\ Increasing(h[n + 1])
                      /\ \A i \in 1 .. Len(h[n + 1]), j \in n + 2 .. Len(s) : h[n + 1][i] < s[j]
      OBVIOUS
  <2>1. /\ h[n] \in Seq(Nat) /\ n + 1 \in 1 .. Len(s) /\ (n + 1) - 1 = n /\ s[n + 1] \in Nat
        /\ Increasing(h[n])
        /\ \A i \in 1 .. Len(h[n]), j \in n + 1 .. Len(s) : h[n][i] < s[j]
    BY <1>1, <1>3
  <2>2. CASE s[n + 1] \in T
    <3>1. h[n + 1] = Append(h[n], s[n + 1])
      BY <1>1, <2>1, <2>2
    <3>2. \A y \in ToSet(h[n]) : y < s[n + 1]
      <4>1. n + 1 \in n + 1 .. Len(s)
        BY <2>1
      <4>2. \A i \in 1 .. Len(h[n]) : h[n][i] < s[n + 1]
        BY <2>1, <4>1
      <4>3. ToSet(h[n]) = {h[n][i] : i \in 1 .. Len(h[n])}
        BY <2>1 DEF ToSet
      <4>4. QED
        BY <4>2, <4>3
    <3>3. Increasing(h[n + 1])
      BY <2>1, <3>1, <3>2, IncreasingAppend
    <3>4. ASSUME NEW i \in 1 .. Len(h[n + 1]), NEW j \in n + 2 .. Len(s)
          PROVE  h[n + 1][i] < s[j]
      <4>1. CASE i \in 1 .. Len(h[n])
        BY <2>1, <3>1, <4>1
      <4>2. CASE i = Len(h[n]) + 1
        BY <2>1, <3>1, <4>2 DEF Increasing
      <4>3. QED
        BY <2>1, <3>1, <4>1, <4>2
    <3>5. QED
      BY <3>3, <3>4
  <2>3. CASE s[n + 1] \notin T
    BY <1>1, <2>1, <2>3
  <2>4. QED
    BY <2>2, <2>3
<1>4. Len(s) \in P
  <2> HIDE DEF P
  <2>1. QED
    BY <1>1, <1>2, <1>3, SetInduction
<1>5. QED
  BY <1>1, <1>4 DEF Sift, h

-----------------------------------------------------------------------------
(* FlattenSeq, on the sequences of a family. *)

Flattening(ss, g) ==
  /\ g[1] = ss[1]
  /\ \A i \in 2 .. Len(ss) : g[i] = g[i - 1] \o ss[i]

LEMMA FlattenSeqDef ==
  ASSUME NEW X, NEW ss \in Seq(Seq(X)), ss # <<>>
  PROVE  \E g \in [1 .. Len(ss) -> Seq(X)] : Flattening(ss, g) /\ FlattenSeq(ss) = g[Len(ss)]
<1> DEFINE N == Len(ss)
           Is(g) == g = [i \in 1 .. N |-> IF i = 1 THEN ss[i] ELSE g[i - 1] \o ss[i]]
           F == [i \in 1 .. N |-> [t \in Seq(X) |-> IF i = 1 THEN ss[i] ELSE t \o ss[i]]]
<1>1. N \in Nat /\ N > 0 /\ <<>> \in Seq(X) /\ \A i \in 1 .. N : ss[i] \in Seq(X)
  OBVIOUS
<1>2. F \in [1 .. N -> [Seq(X) -> Seq(X)]]
  BY <1>1
<1>3. PICK f \in [0 .. N -> Seq(X)] : \A i \in 1 .. N : f[i] = F[i][f[i - 1]]
  <2> HIDE DEF F, N
  <2>1. Unrolls(Seq(X), N, <<>>, F)
    BY <1>1, <1>2, RecursiveFunction
  <2>2. QED
    BY <2>1 DEF Unrolls
<1> DEFINE e == [i \in 1 .. N |-> f[i]]
<1>4. e \in [1 .. N -> Seq(X)]
  BY <1>1, <1>3
<1>5. \A i \in 1 .. N : e[i] = IF i = 1 THEN ss[i] ELSE e[i - 1] \o ss[i]
  <2>1. ASSUME NEW i \in 1 .. N PROVE e[i] = IF i = 1 THEN ss[i] ELSE e[i - 1] \o ss[i]
    <3>1. f[i] = F[i][f[i - 1]] /\ f[i - 1] \in Seq(X)
      <4> HIDE DEF F, N
      <4>1. i - 1 \in 0 .. N
        BY <1>1
      <4>2. QED
        BY <1>3, <4>1
    <3>2. F[i][f[i - 1]] = IF i = 1 THEN ss[i] ELSE f[i - 1] \o ss[i]
      BY <3>1
    <3>3. CASE i = 1
      BY <3>1, <3>2, <3>3
    <3>4. CASE i # 1
      <4>1. i - 1 \in 1 .. N
        BY <3>4
      <4>2. e[i - 1] = f[i - 1] /\ e[i] = f[i]
        BY <4>1
      <4>3. QED
        BY <3>1, <3>2, <3>4, <4>2
    <3>5. QED
      BY <3>3, <3>4
  <2>2. QED
    BY <2>1
<1>6. Is(e)
  <2> HIDE DEF e
  <2>1. QED
    BY <1>4, <1>5
<1> DEFINE g == CHOOSE h : Is(h)
<1>7. Is(g)
  <2> HIDE DEF Is, e
  <2>1. QED
    BY <1>6
<1>8. FlattenSeq(ss) = g[N]
  BY <1>1 DEF FlattenSeq
<1> HIDE DEF g
<1>9. \A i \in 1 .. N : g[i] = IF i = 1 THEN ss[i] ELSE g[i - 1] \o ss[i]
  BY <1>7
<1>10. Flattening(ss, g)
  <2>1. g[1] = ss[1]
    BY <1>1, <1>9
  <2>2. ASSUME NEW i \in 2 .. N PROVE g[i] = g[i - 1] \o ss[i]
    <3>1. i \in 1 .. N /\ i # 1
      OBVIOUS
    <3>2. QED
      BY <1>9, <3>1
  <2>3. QED
    BY <2>1, <2>2 DEF Flattening
<1>11. g \in [1 .. N -> Seq(X)]
  <2> DEFINE P == {n \in Nat : n \in 1 .. N => g[n] \in Seq(X)}
  <2>1. 0 \in P
    OBVIOUS
  <2>2. ASSUME NEW n \in Nat, n \in P PROVE n + 1 \in P
    <3> SUFFICES ASSUME n + 1 \in 1 .. N PROVE g[n + 1] \in Seq(X)
        OBVIOUS
    <3>1. CASE n = 0
      BY <1>1, <1>9, <3>1
    <3>2. CASE n # 0
      <4>1. n \in 1 .. N /\ (n + 1) - 1 = n /\ n + 1 # 1
        BY <3>2
      <4>2. g[n] \in Seq(X) /\ ss[n + 1] \in Seq(X)
        BY <1>1, <2>2, <4>1
      <4>3. g[n + 1] = g[n] \o ss[n + 1]
        BY <1>9, <4>1
      <4>4. QED
        BY <4>2, <4>3
    <3>3. QED
      BY <3>1, <3>2
  <2>3. \A n \in Nat : n \in P
    <3> HIDE DEF P
    <3>1. QED
      BY <2>1, <2>2, SetInduction
  <2>4. \A n \in 1 .. N : g[n] \in Seq(X)
    BY <2>3
  <2>5. g = [n \in 1 .. N |-> g[n]]
    BY <1>7
  <2>6. QED
    BY <2>4, <2>5
<1>12. QED
  BY <1>8, <1>10, <1>11

(* The first n sequences of a family, one behind the other.                  *)
Flat(B, n) == FlattenSeq([i \in 1 .. n |-> B[i]])

LEMMA FlatEmpty == ASSUME NEW B PROVE Flat(B, 0) = <<>>
<1> DEFINE s == [i \in 1 .. 0 |-> B[i]]
<1>1. s = <<>>
  OBVIOUS
<1>2. QED
  BY <1>1 DEF Flat, FlattenSeq

LEMMA FlatNext ==
  ASSUME NEW X, NEW N \in Nat, NEW B \in [1 .. N -> Seq(X)], NEW n \in 0 .. N - 1
  PROVE  Flat(B, n + 1) = Flat(B, n) \o B[n + 1]
<1> DEFINE s == [i \in 1 .. n |-> B[i]]
           t == [i \in 1 .. n + 1 |-> B[i]]
<1>1. t \in Seq(Seq(X)) /\ Len(t) = n + 1 /\ t # <<>> /\ \A i \in 1 .. n + 1 : t[i] = B[i]
  <2>1. n + 1 \in Nat /\ n + 1 > 0 /\ \A i \in 1 .. n + 1 : B[i] \in Seq(X)
    OBVIOUS
  <2>2. t \in Seq(Seq(X))
    BY <2>1
  <2>3. Len(t) = n + 1
    BY <2>1
  <2>4. t # <<>>
    <3> HIDE DEF t
    <3>1. QED
      BY <2>1, <2>3
  <2>5. QED
    BY <2>2, <2>3, <2>4
<1>2. s \in Seq(Seq(X)) /\ Len(s) = n /\ \A i \in 1 .. n : s[i] = B[i]
  OBVIOUS
<1>3. Flat(B, n + 1) = FlattenSeq(t) /\ Flat(B, n) = FlattenSeq(s)
  BY DEF Flat
<1> HIDE DEF s, t
<1>4. PICK g \in [1 .. n + 1 -> Seq(X)] : Flattening(t, g) /\ FlattenSeq(t) = g[n + 1]
  BY <1>1, FlattenSeqDef
<1>5. CASE n = 0
  <2>1. g[1] = B[1] /\ B[1] \in Seq(X)
    BY <1>1, <1>4, <1>5 DEF Flattening
  <2>2. Flat(B, 0) = <<>>
    BY FlatEmpty
  <2>3. QED
    BY <1>3, <1>4, <1>5, <2>1, <2>2
<1>6. CASE n # 0
  <2>1. s # <<>>
    BY <1>2, <1>6
  <2>2. PICK h \in [1 .. n -> Seq(X)] : Flattening(s, h) /\ FlattenSeq(s) = h[n]
    BY <1>2, <2>1, FlattenSeqDef
  <2> DEFINE P == {m \in Nat : m \in 1 .. n => g[m] = h[m]}
  <2>3. 0 \in P
    OBVIOUS
  <2>4. ASSUME NEW m \in Nat, m \in P PROVE m + 1 \in P
    <3> SUFFICES ASSUME m + 1 \in 1 .. n PROVE g[m + 1] = h[m + 1]
        OBVIOUS
    <3>1. CASE m = 0
      BY <1>1, <1>2, <1>4, <2>2, <3>1 DEF Flattening
    <3>2. CASE m # 0
      <4>1. m \in 1 .. n /\ (m + 1) - 1 = m /\ m + 1 \in 2 .. n /\ m + 1 \in 2 .. n + 1
        BY <3>2
      <4>2. g[m] = h[m]
        BY <2>4, <4>1
      <4>3. g[m + 1] = g[m] \o t[m + 1]
        BY <1>1, <1>4, <4>1 DEF Flattening
      <4>4. h[m + 1] = h[m] \o s[m + 1]
        BY <1>2, <2>2, <4>1 DEF Flattening
      <4>5. t[m + 1] = s[m + 1]
        BY <1>1, <1>2, <4>1
      <4>6. QED
        BY <4>2, <4>3, <4>4, <4>5
    <3>3. QED
      BY <3>1, <3>2
  <2>5. n \in P
    <3> HIDE DEF P
    <3>1. \A m \in Nat : m \in P
      BY <2>3, <2>4, SetInduction
    <3>2. QED
      BY <3>1
  <2>6. g[n] = h[n]
    BY <1>6, <2>5
  <2>7. g[n + 1] = g[n] \o B[n + 1]
    <3>1. n + 1 \in 2 .. n + 1 /\ n + 1 \in 1 .. n + 1 /\ (n + 1) - 1 = n
      BY <1>6
    <3>2. g[n + 1] = g[(n + 1) - 1] \o t[n + 1]
      BY <1>1, <1>4, <3>1 DEF Flattening
    <3>3. t[n + 1] = B[n + 1]
      BY <1>1, <3>1
    <3>4. QED
      BY <3>1, <3>2, <3>3
  <2>8. QED
    BY <1>3, <1>4, <2>2, <2>6, <2>7
<1>7. QED
  BY <1>5, <1>6

LEMMA FlatType ==
  ASSUME NEW X, NEW N \in Nat, NEW B \in [1 .. N -> Seq(X)], NEW n \in 0 .. N
  PROVE  Flat(B, n) \in Seq(X)
<1> DEFINE P == {m \in Nat : m <= N => Flat(B, m) \in Seq(X)}
<1>1. 0 \in P
  <2>1. Flat(B, 0) = <<>>
    BY FlatEmpty
  <2>2. <<>> \in Seq(X)
    OBVIOUS
  <2>3. QED
    BY <2>1, <2>2
<1>2. ASSUME NEW m \in Nat, m \in P PROVE m + 1 \in P
  <2> SUFFICES ASSUME m + 1 <= N PROVE Flat(B, m + 1) \in Seq(X)
      OBVIOUS
  <2>1. m \in 0 .. N - 1 /\ Flat(B, m) \in Seq(X) /\ B[m + 1] \in Seq(X)
    <3>1. m \in 0 .. N - 1 /\ m <= N /\ m + 1 \in 1 .. N
      OBVIOUS
    <3>2. QED
      BY <1>2, <3>1
  <2>2. Flat(B, m + 1) = Flat(B, m) \o B[m + 1]
    BY <2>1, FlatNext
  <2>3. \A u, v \in Seq(X) : u \o v \in Seq(X)
    OBVIOUS
  <2>4. QED
    BY <2>1, <2>2, <2>3
<1>3. \A m \in Nat : m \in P
  <2> HIDE DEF P
  <2>1. QED
    BY <1>1, <1>2, SetInduction
<1>4. QED
  BY <1>3

(* Each sequence of the family is found behind those before it.              *)
Placed(B, N) ==
  \A i \in 1 .. N : \A j \in 1 .. Len(B[i]), n \in i .. N :
    Flat(B, n)[Len(Flat(B, i - 1)) + j] = B[i][j]

LEMMA FlatAt ==
  ASSUME NEW X, NEW N \in Nat, NEW B \in [1 .. N -> Seq(X)]
  PROVE  Placed(B, N)
<1> SUFFICES ASSUME NEW i \in 1 .. N, NEW j \in 1 .. Len(B[i]), NEW n \in i .. N
             PROVE  Flat(B, n)[Len(Flat(B, i - 1)) + j] = B[i][j]
    BY DEF Placed
<1> DEFINE x == Len(Flat(B, i - 1)) + j
           At(m) == x \in 1 .. Len(Flat(B, m)) /\ Flat(B, m)[x] = B[i][j]
           P == {m \in Nat : m \in i .. N => At(m)}
<1>0. \A m \in 0 .. N : Flat(B, m) \in Seq(X)
  BY FlatType
<1>1. \A m \in 0 .. N - 1 : Flat(B, m + 1) = Flat(B, m) \o B[m + 1]
  BY FlatNext
<1>2. At(i)
  <2>1. i - 1 \in 0 .. N - 1 /\ i - 1 \in 0 .. N /\ (i - 1) + 1 = i /\ B[i] \in Seq(X)
    OBVIOUS
  <2>2. Flat(B, i) = Flat(B, i - 1) \o B[i] /\ Flat(B, i - 1) \in Seq(X)
    BY <1>0, <1>1, <2>1
  <2> DEFINE u == Flat(B, i - 1)
             v == B[i]
  <2>3. Len(u) + j \in 1 .. Len(u \o v) /\ (u \o v)[Len(u) + j] = v[j]
    <3>1. u \in Seq(X) /\ v \in Seq(X) /\ j \in 1 .. Len(v)
      BY <2>1, <2>2
    <3> HIDE DEF u, v
    <3>2. QED
      BY <3>1
  <2>4. QED
    BY <2>2, <2>3
<1>3. 0 \in P
  OBVIOUS
<1>4. ASSUME NEW m \in Nat, m \in P PROVE m + 1 \in P
  <2> SUFFICES ASSUME m + 1 \in i .. N PROVE At(m + 1)
      OBVIOUS
  <2>1. CASE m + 1 = i
    BY <1>2, <2>1
  <2>2. CASE m + 1 # i
    <3>1. m \in i .. N /\ m \in 0 .. N /\ m \in 0 .. N - 1 /\ B[m + 1] \in Seq(X)
      BY <2>2
    <3>2. At(m)
      BY <1>4, <3>1
    <3>3. Flat(B, m + 1) = Flat(B, m) \o B[m + 1] /\ Flat(B, m) \in Seq(X)
      BY <1>0, <1>1, <3>1
    <3> DEFINE u == Flat(B, m)
               v == B[m + 1]
    <3>4. x \in 1 .. Len(u \o v) /\ (u \o v)[x] = u[x]
      <4>1. u \in Seq(X) /\ v \in Seq(X) /\ x \in 1 .. Len(u)
        BY <3>1, <3>2, <3>3
      <4> HIDE DEF u, v, x
      <4>2. QED
        BY <4>1
    <3>5. QED
      BY <3>2, <3>3, <3>4
  <2>3. QED
    BY <2>1, <2>2
<1>5. \A m \in Nat : m \in P
  <2> HIDE DEF P
  <2>1. QED
    BY <1>3, <1>4, SetInduction
<1>6. n \in Nat
  OBVIOUS
<1>7. QED
  BY <1>5, <1>6

-----------------------------------------------------------------------------
(* More of Sift. *)

LEMMA SiftInto ==
  ASSUME NEW X, NEW s \in Seq(X), NEW T
  PROVE  Sift(s, T) \in Seq(T)
<1> DEFINE t == Sift(s, T)
<1>1. t \in Seq(X) /\ ToSet(t) = ToSet(s) \cap T
  BY SiftElements
<1> HIDE DEF t
<1>2. \A i \in 1 .. Len(t) : t[i] \in ToSet(t)
  BY <1>1 DEF ToSet
<1>3. \A i \in 1 .. Len(t) : t[i] \in T
  BY <1>1, <1>2
<1>4. t = [i \in 1 .. Len(t) |-> t[i]] /\ Len(t) \in Nat
  BY <1>1
<1>5. [i \in 1 .. Len(t) |-> t[i]] \in Seq(T)
  BY <1>3, <1>4
<1>6. t \in Seq(T)
  BY <1>4, <1>5
<1>7. QED
  BY <1>6 DEF t

LEMMA SiftNone ==
  ASSUME NEW X, NEW s \in Seq(X), NEW T, ToSet(s) \cap T = {}
  PROVE  Sift(s, T) = <<>>
<1> DEFINE t == Sift(s, T)
<1>1. t \in Seq(X) /\ ToSet(t) = {}
  BY SiftElements
<1> HIDE DEF t
<1>2. \A i \in 1 .. Len(t) : t[i] \in ToSet(t)
  BY <1>1 DEF ToSet
<1>3. t = <<>>
  BY <1>1, <1>2
<1>4. QED
  BY <1>3 DEF t

LEMMA SiftAll ==
  ASSUME NEW X, NEW s \in Seq(X), NEW T, ToSet(s) \subseteq T
  PROVE  Sift(s, T) = s
<1> DEFINE h == Sifting(s, T)
           P == {n \in Nat : n <= Len(s) =>
                   Len(h[n]) = n /\ \A i \in 1 .. n : h[n][i] = s[i]}
<1>1. /\ Len(s) \in Nat
      /\ h \in [0 .. Len(s) -> Seq(X)] /\ h[0] = <<>>
      /\ \A n \in 1 .. Len(s) : h[n] = IF s[n] \in T THEN Append(h[n - 1], s[n]) ELSE h[n - 1]
  BY SiftingDef
<1> HIDE DEF h
<1>2. 0 \in P
  BY <1>1
<1>3. ASSUME NEW n \in Nat, n \in P PROVE n + 1 \in P
  <2> SUFFICES ASSUME n + 1 <= Len(s)
               PROVE  Len(h[n + 1]) = n + 1 /\ \A i \in 1 .. n + 1 : h[n + 1][i] = s[i]
      OBVIOUS
  <2>1. n \in 0 .. Len(s) /\ n + 1 \in 1 .. Len(s) /\ (n + 1) - 1 = n
    BY <1>1
  <2>2. h[n] \in Seq(X) /\ Len(h[n]) = n /\ \A i \in 1 .. n : h[n][i] = s[i]
    BY <1>1, <1>3, <2>1
  <2>3. s[n + 1] \in T
    BY <2>1 DEF ToSet
  <2>4. h[n + 1] = Append(h[n], s[n + 1])
    BY <1>1, <2>1, <2>3
  <2>5. QED
    BY <2>2, <2>4
<1>4. Len(s) \in P
  <2> HIDE DEF P
  <2>1. \A n \in Nat : n \in P
    BY <1>2, <1>3, SetInduction
  <2>2. QED
    BY <1>1, <2>1
<1>5. h[Len(s)] \in Seq(X) /\ Len(h[Len(s)]) = Len(s) /\ \A i \in 1 .. Len(s) : h[Len(s)][i] = s[i]
  BY <1>1, <1>4
<1>6. h[Len(s)] = s
  BY <1>5
<1>7. QED
  BY <1>6 DEF Sift, h

AppendsBehind(X) ==
  \A s, t \in Seq(X), x \in X : Append(s \o t, x) = s \o Append(t, x)

LEMMA AppendConcat == ASSUME NEW X PROVE AppendsBehind(X)
<1> SUFFICES ASSUME NEW s \in Seq(X), NEW t \in Seq(X), NEW x \in X
             PROVE  Append(s \o t, x) = s \o Append(t, x)
    BY DEF AppendsBehind
<1> DEFINE a == Append(s \o t, x)
           b == s \o Append(t, x)
<1>1. a \in Seq(X) /\ b \in Seq(X) /\ Len(a) = Len(s) + Len(t) + 1 /\ Len(b) = Len(s) + Len(t) + 1
  OBVIOUS
<1>2. ASSUME NEW i \in 1 .. Len(s) + Len(t) + 1 PROVE a[i] = b[i]
  <2>1. CASE i \in 1 .. Len(s)
    BY <2>1
  <2>2. CASE i \in Len(s) + 1 .. Len(s) + Len(t)
    BY <2>2
  <2>3. CASE i = Len(s) + Len(t) + 1
    BY <2>3
  <2>4. QED
    BY <2>1, <2>2, <2>3
<1> HIDE DEF a, b
<1>3. a = b
  BY <1>1, <1>2
<1>4. QED
  BY <1>3 DEF a, b

Associates(X) ==
  \A s, t, u \in Seq(X) : (s \o t) \o u = s \o (t \o u)

LEMMA ConcatAssociates == ASSUME NEW X PROVE Associates(X)
<1> SUFFICES ASSUME NEW s \in Seq(X), NEW t \in Seq(X), NEW u \in Seq(X)
             PROVE  (s \o t) \o u = s \o (t \o u)
    BY DEF Associates
<1>1. QED
  BY ConcatAssociative

LEMMA SiftConcat ==
  ASSUME NEW X, NEW s \in Seq(X), NEW t \in Seq(X), NEW T
  PROVE  Sift(s \o t, T) = Sift(s, T) \o Sift(t, T)
<1> DEFINE u == s \o t
           f == Sifting(s, T)
           g == Sifting(t, T)
           h == Sifting(u, T)
           P == {n \in Nat : n <= Len(s) => h[n] = f[n]}
           R(n) == h[Len(s) + n] = f[Len(s)] \o g[n]
           Q == {n \in Nat : n <= Len(t) => R(n)}
<1>1. /\ u \in Seq(X) /\ Len(u) = Len(s) + Len(t) /\ Len(s) \in Nat /\ Len(t) \in Nat
      /\ \A i \in 1 .. Len(s) : u[i] = s[i]
      /\ \A i \in 1 .. Len(t) : u[Len(s) + i] = t[i]
  OBVIOUS
<1> HIDE DEF u
<1>2. /\ f \in [0 .. Len(s) -> Seq(X)] /\ f[0] = <<>>
      /\ \A n \in 1 .. Len(s) : f[n] = IF s[n] \in T THEN Append(f[n - 1], s[n]) ELSE f[n - 1]
  BY SiftingDef
<1>3. /\ g \in [0 .. Len(t) -> Seq(X)] /\ g[0] = <<>>
      /\ \A n \in 1 .. Len(t) : g[n] = IF t[n] \in T THEN Append(g[n - 1], t[n]) ELSE g[n - 1]
  BY SiftingDef
<1>4. /\ h \in [0 .. Len(u) -> Seq(X)] /\ h[0] = <<>>
      /\ \A n \in 1 .. Len(u) : h[n] = IF u[n] \in T THEN Append(h[n - 1], u[n]) ELSE h[n - 1]
  <2>1. u \in Seq(X)
    BY <1>1
  <2>2. QED
    BY <2>1, SiftingDef
<1>5. Sift(s, T) = f[Len(s)] /\ Sift(t, T) = g[Len(t)] /\ Sift(u, T) = h[Len(u)]
  BY DEF Sift
<1> HIDE DEF f, g, h
<1>6. 0 \in P
  BY <1>2, <1>4
<1>7. ASSUME NEW n \in Nat, n \in P PROVE n + 1 \in P
  <2> SUFFICES ASSUME n + 1 <= Len(s) PROVE h[n + 1] = f[n + 1]
      OBVIOUS
  <2>1. n + 1 \in 1 .. Len(s) /\ n + 1 \in 1 .. Len(u) /\ (n + 1) - 1 = n /\ h[n] = f[n]
    BY <1>1, <1>7
  <2>2. u[n + 1] = s[n + 1]
    BY <1>1, <2>1
  <2>3. QED
    BY <1>2, <1>4, <2>1, <2>2
<1>8. h[Len(s)] = f[Len(s)]
  <2> HIDE DEF P
  <2>1. \A n \in Nat : n \in P
    BY <1>6, <1>7, SetInduction
  <2>2. Len(s) \in P
    BY <1>1, <2>1
  <2>3. QED
    BY <1>1, <2>2 DEF P
<1>9. f[Len(s)] \in Seq(X)
  BY <1>1, <1>2
<1>10. 0 \in Q
  <2>1. f[Len(s)] \o <<>> = f[Len(s)]
    BY <1>9
  <2>2. Len(s) + 0 = Len(s)
    BY <1>1
  <2>3. h[Len(s) + 0] = f[Len(s)] \o g[0]
    BY <1>3, <1>8, <2>1, <2>2
  <2>4. QED
    BY <2>3
<1>11. ASSUME NEW n \in Nat, n \in Q PROVE n + 1 \in Q
  <2> DEFINE m == Len(s) + (n + 1)
  <2> SUFFICES ASSUME n + 1 <= Len(t) PROVE R(n + 1)
    <3> HIDE DEF R
    <3>1. QED
      OBVIOUS
  <2> SUFFICES h[m] = f[Len(s)] \o g[n + 1]
    OBVIOUS
  <2>0. R(n)
    <3> HIDE DEF R
    <3>1. n <= Len(t)
      BY <1>1
    <3>2. QED
      BY <1>11, <3>1
  <2>1. /\ n \in 0 .. Len(t) /\ n + 1 \in 1 .. Len(t) /\ (n + 1) - 1 = n
        /\ m \in 1 .. Len(u) /\ m - 1 = Len(s) + n
    BY <1>1
  <2>2. h[m - 1] = f[Len(s)] \o g[n]
    <3> HIDE DEF m
    <3>1. QED
      BY <2>0, <2>1
  <2>3. u[m] = t[n + 1] /\ t[n + 1] \in X /\ g[n] \in Seq(X)
    <3>1. u[m] = t[n + 1]
      BY <1>1, <2>1
    <3>2. t[n + 1] \in X
      BY <2>1
    <3>3. g[n] \in Seq(X)
      BY <1>3, <2>1
    <3>4. QED
      BY <3>1, <3>2, <3>3
  <2> HIDE DEF m
  <2>4. CASE t[n + 1] \in T
    <3>1. g[n + 1] = Append(g[n], t[n + 1])
      BY <1>3, <2>1, <2>4
    <3>2. h[m] = Append(f[Len(s)] \o g[n], t[n + 1])
      BY <1>4, <2>1, <2>2, <2>3, <2>4
    <3>4. Append(f[Len(s)] \o g[n], t[n + 1]) = f[Len(s)] \o Append(g[n], t[n + 1])
      <4>1. AppendsBehind(X)
        BY AppendConcat
      <4>2. QED
        BY <1>9, <2>3, <4>1 DEF AppendsBehind
    <3>5. QED
      BY <3>1, <3>2, <3>4 DEF m
  <2>5. CASE t[n + 1] \notin T
    <3>1. g[n + 1] = g[n] /\ h[m] = h[m - 1]
      BY <1>3, <1>4, <2>1, <2>3, <2>5
    <3>2. QED
      BY <2>2, <3>1 DEF m
  <2>6. QED
    BY <2>4, <2>5
<1>12. h[Len(u)] = f[Len(s)] \o g[Len(t)]
  <2> HIDE DEF Q
  <2>1. \A n \in Nat : n \in Q
    BY <1>10, <1>11, SetInduction
  <2>2. Len(t) \in Q /\ Len(t) <= Len(t)
    BY <1>1, <2>1
  <2>3. h[Len(s) + Len(t)] = f[Len(s)] \o g[Len(t)]
    BY <2>2 DEF Q
  <2>4. QED
    BY <1>1, <2>3
<1>13. QED
  BY <1>5, <1>12 DEF u

-----------------------------------------------------------------------------
(* Sift picks elements at distinct places.                                   *)

Picks(t, s, n) ==
  \E m \in [1 .. Len(t) -> 1 .. n] :
    /\ \A i, j \in 1 .. Len(t) : i < j => m[i] < m[j]
    /\ \A i \in 1 .. Len(t) : t[i] = s[m[i]]

LEMMA PicksNext ==
  ASSUME NEW X, NEW s \in Seq(X), NEW n \in Nat, n + 1 <= Len(s), NEW t \in Seq(X),
         Picks(t, s, n)
  PROVE  Picks(t, s, n + 1) /\ Picks(Append(t, s[n + 1]), s, n + 1)
<1>1. PICK m \in [1 .. Len(t) -> 1 .. n] :
        /\ \A i, j \in 1 .. Len(t) : i < j => m[i] < m[j]
        /\ \A i \in 1 .. Len(t) : t[i] = s[m[i]]
  BY DEF Picks
<1>2. Picks(t, s, n + 1)
  <2>1. m \in [1 .. Len(t) -> 1 .. n + 1]
    BY <1>1
  <2>2. QED
    BY <1>1, <2>1 DEF Picks
<1>3. PICK u \in Seq(X) : u = Append(t, s[n + 1])
  <2>1. n + 1 \in 1 .. Len(s) /\ s[n + 1] \in X
    OBVIOUS
  <2>2. Append(t, s[n + 1]) \in Seq(X)
    BY <2>1
  <2>3. QED
    BY <2>2
<1>4. /\ Len(t) \in Nat /\ Len(u) = Len(t) + 1 /\ u[Len(t) + 1] = s[n + 1]
      /\ \A i \in 1 .. Len(t) : u[i] = t[i]
  BY <1>3
<1> DEFINE k == [i \in 1 .. Len(t) + 1 |-> IF i <= Len(t) THEN m[i] ELSE n + 1]
<1>5. /\ \A i \in 1 .. Len(t) : k[i] = m[i] /\ m[i] \in 1 .. n
      /\ k[Len(t) + 1] = n + 1
      /\ k \in [1 .. Len(t) + 1 -> 1 .. n + 1]
  <2>1. PICK l \in Nat : l = Len(t)
    BY <1>4
  <2>2. m \in [1 .. l -> 1 .. n]
    BY <1>1, <2>1
  <2>3. PICK f : f = [i \in 1 .. l + 1 |-> IF i <= l THEN m[i] ELSE n + 1]
    OBVIOUS
  <2>4. \A i \in 1 .. l : i \in 1 .. l + 1 /\ i <= l /\ m[i] \in 1 .. n
    BY <2>1, <2>2
  <2>5. \A i \in 1 .. l : f[i] = m[i]
    BY <2>3, <2>4
  <2>6. f[l + 1] = n + 1
    BY <2>3
  <2>7. \A i \in 1 .. l + 1 : f[i] \in 1 .. n + 1
    <3>1. ASSUME NEW i \in 1 .. l PROVE f[i] \in 1 .. n + 1
      <4>1. f[i] = m[i] /\ m[i] \in 1 .. n
        BY <2>4, <2>5
      <4>2. QED
        BY <4>1
    <3>2. f[l + 1] \in 1 .. n + 1
      BY <2>6
    <3>3. \A i \in 1 .. l + 1 : i \in 1 .. l \/ i = l + 1
      OBVIOUS
    <3>4. QED
      BY <3>1, <3>2, <3>3
  <2>8. f \in [1 .. l + 1 -> 1 .. n + 1]
    BY <2>3, <2>7
  <2>9. f = k
    BY <2>1, <2>3
  <2>10. QED
    BY <2>1, <2>4, <2>5, <2>6, <2>8, <2>9
<1> HIDE DEF k
<1>6. \A i, j \in 1 .. Len(t) + 1 : i < j => k[i] < k[j]
  <2> SUFFICES ASSUME NEW i \in 1 .. Len(t) + 1, NEW j \in 1 .. Len(t) + 1, i < j
               PROVE  k[i] < k[j]
      OBVIOUS
  <2>1. i \in 1 .. Len(t) /\ k[i] = m[i] /\ m[i] \in 1 .. n
    BY <1>4, <1>5
  <2>2. CASE j \in 1 .. Len(t)
    BY <1>1, <1>5, <2>1, <2>2
  <2>3. CASE j = Len(t) + 1
    BY <1>5, <2>1, <2>3
  <2>4. QED
    BY <1>4, <2>2, <2>3
<1>7. \A i \in 1 .. Len(t) + 1 : u[i] = s[k[i]]
  <2>1. ASSUME NEW i \in 1 .. Len(t) PROVE u[i] = s[k[i]]
    BY <1>1, <1>4, <1>5
  <2>2. u[Len(t) + 1] = s[k[Len(t) + 1]]
    BY <1>4, <1>5
  <2>3. QED
    BY <1>4, <2>1, <2>2
<1>8. Picks(u, s, n + 1)
  BY <1>4, <1>5, <1>6, <1>7 DEF Picks
<1>9. QED
  BY <1>2, <1>3, <1>8

LEMMA SiftPicks ==
  ASSUME NEW X, NEW s \in Seq(X), NEW T
  PROVE  Picks(Sift(s, T), s, Len(s)) /\ Len(Sift(s, T)) <= Len(s)
<1> DEFINE h == Sifting(s, T)
           P == {n \in Nat : n <= Len(s) => Picks(h[n], s, n) /\ Len(h[n]) <= n}
<1>1. /\ Len(s) \in Nat
      /\ h \in [0 .. Len(s) -> Seq(X)] /\ h[0] = <<>>
      /\ \A n \in 1 .. Len(s) : h[n] = IF s[n] \in T THEN Append(h[n - 1], s[n]) ELSE h[n - 1]
  BY SiftingDef
<1> HIDE DEF h
<1>2. 0 \in P
  <2>1. Picks(<<>>, s, 0)
    <3>1. Len(<<>>) = 0 /\ 1 .. 0 = {}
      OBVIOUS
    <3>2. [i \in {} |-> i] \in [{} -> {}]
      OBVIOUS
    <3>3. QED
      BY <3>1, <3>2 DEF Picks
  <2>2. QED
    BY <1>1, <2>1
<1>3. ASSUME NEW n \in Nat, n \in P PROVE n + 1 \in P
  <2> SUFFICES ASSUME n + 1 <= Len(s) PROVE Picks(h[n + 1], s, n + 1) /\ Len(h[n + 1]) <= n + 1
      OBVIOUS
  <2>1. /\ h[n] \in Seq(X) /\ n + 1 \in 1 .. Len(s) /\ (n + 1) - 1 = n /\ s[n + 1] \in X
        /\ Picks(h[n], s, n) /\ Len(h[n]) <= n
    BY <1>1, <1>3
  <2>2. Picks(h[n], s, n + 1) /\ Picks(Append(h[n], s[n + 1]), s, n + 1)
    BY <2>1, PicksNext
  <2>3. h[n + 1] = IF s[n + 1] \in T THEN Append(h[n], s[n + 1]) ELSE h[n]
    BY <1>1, <2>1
  <2>4. Len(Append(h[n], s[n + 1])) <= n + 1 /\ Len(h[n]) <= n + 1
    BY <2>1
  <2>5. QED
    BY <2>2, <2>3, <2>4
<1>4. Len(s) \in P
  <2> HIDE DEF P
  <2>1. QED
    BY <1>1, <1>2, <1>3, SetInduction
<1>5. QED
  BY <1>1, <1>4 DEF Sift, h
=============================================================================
