---------------------------- MODULE SqlStepProofs ---------------------------
(***************************************************************************)
(* The steps of a migration and the statements that SQLite gets for them,  *)
(* as sets and one by one, what a statement makes of a table and of its    *)
(* rows, and the facts about sequences this rests on.                      *)
(***************************************************************************)
EXTENDS SqlSteps, TLAPS

\* Time for the provers.
USE SMTT(60)

-----------------------------------------------------------------------------
(* Facts about sequences: the place of every element of FlattenSeq(ss), and what*)
(* a filter keeps.  Induction is over sets of numbers.                     *)

\* The recursive function behind FlattenSeq exists.
LEMMA FlattenDef ==
    ASSUME Inductive, NEW ss, Len(ss) \in Nat \ {0}
    PROVE  \E f : /\ f = [i \in 1 .. Len(ss) |-> IF i = 1 THEN ss[i] ELSE f[i - 1] \o ss[i]]
                  /\ FlattenSeq(ss) = f[Len(ss)]
<1> DEFINE Is(f, n) == f = [i \in 1 .. n |-> IF i = 1 THEN ss[i] ELSE f[i - 1] \o ss[i]]
           T == {n \in Nat : \E f : Is(f, n)}
<1>1. 0 \in T
  <2>1. Is([i \in 1 .. 0 |-> 0], 0)
    OBVIOUS
  <2> QED BY <2>1, Zenon
<1>2. ASSUME NEW n \in Nat, n \in T
      PROVE  n + 1 \in T
  <2>1. PICK f : Is(f, n)
    BY <1>2, Zenon
  <2> DEFINE g == [i \in 1 .. n + 1 |-> IF i = n + 1
                                          THEN IF i = 1 THEN ss[i] ELSE f[i - 1] \o ss[i]
                                          ELSE f[i]]
  <2>2. ASSUME NEW i \in 1 .. n + 1
        PROVE  g[i] = IF i = 1 THEN ss[i] ELSE g[i - 1] \o ss[i]
    <3>1. CASE i = n + 1
      BY <3>1
    <3>2. CASE i # n + 1
      <4>1. i \in 1 .. n /\ (i # 1 => i - 1 \in 1 .. n)
        BY <3>2
      <4>2. g[i] = f[i] /\ (i # 1 => g[i - 1] = f[i - 1])
        BY <4>1
      <4>3. f[i] = IF i = 1 THEN ss[i] ELSE f[i - 1] \o ss[i]
        BY <2>1, <4>1, Zenon
      <4> QED BY <4>1, <4>2, <4>3, Zenon
    <3> QED BY <3>1, <3>2, Zenon
  <2>3. g = [i \in 1 .. n + 1 |-> g[i]]
    BY Zenon
  <2> HIDE DEF g
  <2>4. Is(g, n + 1)
    BY <2>2, <2>3, Zenon
  <2> HIDE DEF Is
  <2> QED BY <2>4
<1>3. Len(ss) \in T
  <2> HIDE DEF T
  <2> QED BY <1>1, <1>2, Zenon DEF Inductive
<1> DEFINE flatten == CHOOSE flatten : Is(flatten, Len(ss))
<1>4. Is(flatten, Len(ss))
  BY <1>3, Zenon
<1>5. FlattenSeq(ss) = flatten[Len(ss)]
  BY Zenon DEF FlattenSeq
<1> QED BY <1>4, <1>5, Zenon

\* Its values, one after the other.
LEMMA FlattenRecurrence ==
    ASSUME Inductive, NEW ss, Len(ss) \in Nat \ {0}
    PROVE  \E f : /\ f[1] = ss[1]
                  /\ \A i \in 1 .. Len(ss) - 1 : f[i + 1] = f[i] \o ss[i + 1]
                  /\ FlattenSeq(ss) = f[Len(ss)]
<1> DEFINE N == Len(ss)
<1>1. PICK f : /\ f = [i \in 1 .. N |-> IF i = 1 THEN ss[i] ELSE f[i - 1] \o ss[i]]
               /\ FlattenSeq(ss) = f[N]
  BY FlattenDef, Zenon
<1>2. \A i \in 1 .. N : f[i] = IF i = 1 THEN ss[i] ELSE f[i - 1] \o ss[i]
  BY <1>1, Zenon
<1>3. 1 \in 1 .. N /\ \A i \in 1 .. N - 1 : i + 1 \in 1 .. N /\ i + 1 # 1 /\ (i + 1) - 1 = i
  OBVIOUS
<1>4. f[1] = ss[1]
  BY <1>2, <1>3, Zenon
<1>5. \A i \in 1 .. N - 1 : f[i + 1] = f[i] \o ss[i + 1]
  BY <1>2, <1>3, Zenon
<1> QED BY <1>1, <1>4, <1>5, Zenon

\* Every element of a flattened sequence has its place in one of the parts.
LEMMA FlattenPlaces ==
    ASSUME Inductive, NEW X, NEW ss \in Seq(Seq(X))
    PROVE  FlattenSeq(ss) \in Seq(X) /\ \E off : Places(ss, off)
<1>1. CASE Len(ss) = 0
  <2>1. FlattenSeq(ss) = <<>>
    BY <1>1 DEF FlattenSeq
  <2>2. Places(ss, [k \in 1 .. 1 |-> 0])
    BY <1>1, <2>1 DEF Places
  <2> QED BY <2>1, <2>2
<1>2. CASE Len(ss) # 0
  <2> DEFINE N == Len(ss)
  <2>0. N \in Nat \ {0} /\ \A k \in 1 .. N : ss[k] \in Seq(X)
    BY <1>2
  <2>1. PICK f : /\ f[1] = ss[1]
                 /\ \A i \in 1 .. N - 1 : f[i + 1] = f[i] \o ss[i + 1]
                 /\ FlattenSeq(ss) = f[N]
    BY <2>0, FlattenRecurrence, Zenon
  <2> DEFINE off == [k \in 1 .. N + 1 |-> IF k = 1 THEN 0 ELSE Len(f[k - 1])]
             Good(n) == /\ f[n] \in Seq(X)
                        /\ Len(f[n]) = off[n] + Len(ss[n])
                        /\ \A k \in 1 .. n : off[k] \in Nat /\ off[k] <= Len(f[n])
                        /\ \A k \in 1 .. n : \A j \in 1 .. Len(ss[k]) :
                              /\ off[k] + j \in 1 .. Len(f[n])
                              /\ f[n][off[k] + j] = ss[k][j]
                        /\ \A p \in 1 .. Len(f[n]) :
                              \E k \in 1 .. n : \E j \in 1 .. Len(ss[k]) : p = off[k] + j
             T == {n \in Nat : n + 1 \in 1 .. N => Good(n + 1)}
  <2> HIDE DEF N
  <2>3. off[1] = 0 /\ \A k \in 1 .. N : off[k + 1] = Len(f[k])
    BY <2>0
  <2>4. 0 \in T
    <3>1. Good(1)
      <4> HIDE DEF off
      <4>1. f[1] = ss[1] /\ ss[1] \in Seq(X) /\ off[1] = 0
        BY <2>0, <2>1, <2>3
      <4>2. \A k \in 1 .. 1 : k = 1
        OBVIOUS
      <4>3. \A p \in 1 .. Len(f[1]) :
              \E k \in 1 .. 1 : \E j \in 1 .. Len(ss[k]) : p = off[k] + j
        <5>1. 1 \in 1 .. 1 /\ \A p \in 1 .. Len(f[1]) : p = off[1] + p
          BY <4>1
        <5> QED BY <4>1, <5>1, Zenon
      <4> QED BY <4>1, <4>2, <4>3
    <3>2. 0 + 1 = 1
      OBVIOUS
    <3> HIDE DEF Good
    <3> QED BY <3>1, <3>2, Zenon
  <2>5. ASSUME NEW n \in Nat, n \in T
        PROVE  n + 1 \in T
    <3> SUFFICES ASSUME (n + 1) + 1 \in 1 .. N
                 PROVE  Good((n + 1) + 1)
      <4> HIDE DEF Good
      <4> QED OBVIOUS
    <3> DEFINE m == n + 1
    <3>1. Good(m) /\ m \in 1 .. N /\ m + 1 \in 1 .. N /\ m \in 1 .. N - 1
      <4> HIDE DEF Good
      <4> QED BY <2>0, <2>5
    <3>2. f[m + 1] = f[m] \o ss[m + 1] /\ off[m + 1] = Len(f[m]) /\ ss[m + 1] \in Seq(X)
      BY <2>0, <2>1, <2>3, <3>1, Zenon
    <3> HIDE DEF off, m
    <3> DEFINE a == f[m]
               b == ss[m + 1]
               c == f[m + 1]
    <3>3. a \in Seq(X) /\ b \in Seq(X) /\ c = a \o b
      BY <3>1, <3>2, Zenon
    <3>4. /\ c \in Seq(X)
          /\ Len(a) \in Nat /\ Len(b) \in Nat /\ Len(c) \in Nat /\ m \in Nat
          /\ Len(c) = Len(a) + Len(b)
          /\ \A i \in 1 .. Len(a) : c[i] = a[i]
          /\ \A i \in 1 .. Len(b) : c[Len(a) + i] = b[i]
      <4> HIDE DEF a, b, c
      <4>1. m \in Nat
        BY <3>1
      <4> QED BY <3>3, <4>1
    <3>a. /\ off[m + 1] = Len(a)
          /\ \A k \in 1 .. m : off[k] \in Nat /\ off[k] <= Len(a)
          /\ \A k \in 1 .. m : \A j \in 1 .. Len(ss[k]) :
                off[k] + j \in 1 .. Len(a) /\ a[off[k] + j] = ss[k][j]
          /\ \A p \in 1 .. Len(a) :
                \E k \in 1 .. m : \E j \in 1 .. Len(ss[k]) : p = off[k] + j
      BY <3>1, <3>2, Zenon
    <3>b. ss[m + 1] = b /\ \A k \in 1 .. m + 1 : k = m + 1 \/ k \in 1 .. m
      BY <3>4
    <3>5. \A k \in 1 .. m + 1 : off[k] \in Nat /\ off[k] <= Len(c)
      <4> SUFFICES ASSUME NEW k \in 1 .. m + 1
                   PROVE  off[k] \in Nat /\ off[k] <= Len(c)
        BY Zenon
      <4> HIDE DEF a, b, c
      <4>1. CASE k = m + 1
        BY <3>4, <3>a, <4>1
      <4>2. CASE k \in 1 .. m
        <5>1. off[k] \in Nat /\ off[k] <= Len(a)
          BY <3>a, <4>2, Zenon
        <5> QED BY <3>4, <5>1
      <4> QED BY <3>b, <4>1, <4>2, Zenon
    <3>6. ASSUME NEW k \in 1 .. m + 1, NEW j \in 1 .. Len(ss[k])
          PROVE  off[k] + j \in 1 .. Len(c) /\ c[off[k] + j] = ss[k][j]
      <4> HIDE DEF a, b, c
      <4>1. CASE k = m + 1
        <5>1. off[k] = Len(a) /\ ss[k] = b
          BY <3>a, <3>b, <4>1, Zenon
        <5>2. j \in 1 .. Len(b) /\ Len(a) + j \in 1 .. Len(c) /\ c[Len(a) + j] = b[j]
          BY <3>4, <5>1
        <5> QED BY <5>1, <5>2, Zenon
      <4>2. CASE k \in 1 .. m
        <5>1. off[k] + j \in 1 .. Len(a) /\ a[off[k] + j] = ss[k][j]
          BY <3>a, <4>2, Zenon
        <5> DEFINE q == off[k] + j
        <5>2. q \in 1 .. Len(a) /\ a[q] = ss[k][j]
          BY <5>1, Zenon
        <5> HIDE DEF q
        <5>3. q \in 1 .. Len(c) /\ c[q] = ss[k][j]
          BY <3>4, <5>2
        <5> QED BY <5>3, Zenon DEF q
      <4> QED BY <3>b, <4>1, <4>2, Zenon
    <3>7. ASSUME NEW p \in 1 .. Len(c)
          PROVE  \E k \in 1 .. m + 1 : \E j \in 1 .. Len(ss[k]) : p = off[k] + j
      <4> HIDE DEF a, b, c
      <4>1. CASE p \in 1 .. Len(a)
        <5>1. PICK k \in 1 .. m : \E j \in 1 .. Len(ss[k]) : p = off[k] + j
          BY <3>a, <4>1, Zenon
        <5>2. k \in 1 .. m + 1
          BY <3>4
        <5> QED BY <5>1, <5>2, Zenon
      <4>2. CASE p \notin 1 .. Len(a)
        <5>1. p - Len(a) \in 1 .. Len(b) /\ p = Len(a) + (p - Len(a))
          BY <3>4, <4>2
        <5>2. m + 1 \in 1 .. m + 1
          BY <3>4
        <5> QED BY <3>a, <3>b, <5>1, <5>2, Zenon
      <4> QED BY <4>1, <4>2, Zenon
    <3>8. Good(m + 1)
      BY <3>2, <3>4, <3>5, <3>6, <3>7, Zenon
    <3> QED BY <3>8, Zenon DEF m
  <2>6. \A n \in 1 .. N : Good(n)
    <3>1. \A n \in Nat : n \in T
      <4> HIDE DEF T
      <4> QED BY <2>4, <2>5, Zenon DEF Inductive
    <3>2. ASSUME NEW n \in 1 .. N
          PROVE  n - 1 \in Nat /\ (n - 1) + 1 = n
      BY <2>0
    <3> HIDE DEF Good
    <3> QED BY <3>1, <3>2, Zenon
  <2>7. off \in [1 .. N + 1 -> Nat]
    <3>1. \A k \in 1 .. N : Len(f[k]) \in Nat
      BY <2>6
    <3>2. \A k \in 1 .. N + 1 : k # 1 => k - 1 \in 1 .. N
      BY <2>0
    <3> QED BY <3>1, <3>2, Zenon
  <2> HIDE DEF off
  <2>8. \A k \in 1 .. N : off[k + 1] = off[k] + Len(ss[k])
    BY <2>3, <2>6, Zenon
  <2>9. \A k, l \in 1 .. N + 1 : k <= l => off[k] <= off[l]
    <3> SUFFICES ASSUME NEW k \in 1 .. N + 1, NEW l \in 1 .. N + 1, k <= l
                 PROVE  off[k] <= off[l]
      BY Zenon
    <3>1. CASE k = l
      BY <2>7, <3>1
    <3>2. CASE k # l
      <4>1. l - 1 \in 1 .. N /\ k \in 1 .. l - 1 /\ (l - 1) + 1 = l
        BY <2>0, <3>2
      <4>2. off[k] <= Len(f[l - 1])
        BY <2>6, <4>1, Zenon
      <4>3. off[(l - 1) + 1] = Len(f[l - 1])
        BY <2>3, <4>1, Zenon
      <4> QED BY <4>1, <4>2, <4>3, Zenon
    <3> QED BY <3>1, <3>2, Zenon
  <2>10. N \in 1 .. N /\ Good(N) /\ off[N + 1] = Len(f[N])
    <3>1. N \in 1 .. N
      BY <2>0
    <3>2. off[N + 1] = Len(f[N])
      BY <2>3, <3>1, Zenon
    <3> HIDE DEF Good
    <3> QED BY <2>6, <3>1, <3>2, Zenon
  <2>11. Places(ss, off)
    BY <2>1, <2>3, <2>7, <2>8, <2>9, <2>10 DEF Places, N
  <2> QED BY <2>1, <2>10, <2>11, Zenon
<1> QED BY <1>1, <1>2, Zenon

\* Concatenation: its elements, and when they differ.
LEMMA ConcatLists ==
    ASSUME NEW X, NEW s \in Seq(X), NEW t \in Seq(X)
    PROVE  /\ s \o t \in Seq(X)
           /\ Range(s \o t) = Range(s) \cup Range(t)
           /\ IsInjective(s) /\ IsInjective(t) /\ Range(s) \cap Range(t) = {}
                 => IsInjective(s \o t)
<1> DEFINE r == s \o t
<1>1. /\ r \in Seq(X) /\ Len(s) \in Nat /\ Len(t) \in Nat
      /\ DOMAIN s = 1 .. Len(s) /\ DOMAIN t = 1 .. Len(t)
      /\ DOMAIN r = 1 .. Len(s) + Len(t)
      /\ \A i \in 1 .. Len(s) : r[i] = s[i]
      /\ \A i \in 1 .. Len(t) : r[Len(s) + i] = t[i]
  OBVIOUS
<1> HIDE DEF r
<1>2. \A p \in DOMAIN r :
         \/ p \in DOMAIN s
         \/ p - Len(s) \in DOMAIN t /\ p = Len(s) + (p - Len(s)) /\ p \notin DOMAIN s
  BY <1>1
<1>3. \A p \in DOMAIN r :
         \/ p \in DOMAIN s /\ r[p] = s[p]
         \/ p \notin DOMAIN s /\ p - Len(s) \in DOMAIN t /\ r[p] = t[p - Len(s)]
  BY <1>1, <1>2, Zenon
<1>4. Range(r) = Range(s) \cup Range(t)
  <2>1. Range(r) \subseteq Range(s) \cup Range(t)
    BY <1>3, Zenon DEF Range
  <2>2. Range(s) \subseteq Range(r)
    BY <1>1 DEF Range
  <2>3. Range(t) \subseteq Range(r)
    <3>1. \A i \in DOMAIN t : Len(s) + i \in DOMAIN r /\ r[Len(s) + i] = t[i]
      BY <1>1
    <3> QED BY <3>1, Zenon DEF Range
  <2> QED BY <2>1, <2>2, <2>3, Zenon
<1>5. ASSUME IsInjective(s), IsInjective(t), Range(s) \cap Range(t) = {}
      PROVE  IsInjective(r)
  <2> SUFFICES ASSUME NEW p \in DOMAIN r, NEW q \in DOMAIN r, r[p] = r[q]
               PROVE  p = q
    BY Zenon DEF IsInjective
  <2>1. \A i \in DOMAIN s : \A j \in DOMAIN t : s[i] # t[j]
    BY <1>5, Zenon DEF Range
  <2>2. CASE p \in DOMAIN s /\ q \in DOMAIN s
    BY <1>1, <1>5, <2>2, Zenon DEF IsInjective
  <2>3. CASE p \notin DOMAIN s /\ q \notin DOMAIN s
    <3>1. p - Len(s) = q - Len(s)
      BY <1>3, <1>5, <2>3, Zenon DEF IsInjective
    <3> QED BY <1>1, <3>1
  <2>4. CASE (p \in DOMAIN s) # (q \in DOMAIN s)
    BY <1>3, <2>1, <2>4
  <2> QED BY <2>2, <2>3, <2>4, Zenon
<1> QED BY <1>1, <1>4, <1>5, Zenon DEF r

\* A flattened sequence has the elements of its parts; they differ if those of
\* every part do and no two parts share one.
LEMMA FlattenLists ==
    ASSUME Inductive, NEW X, NEW ss \in Seq(Seq(X))
    PROVE  /\ FlattenSeq(ss) \in Seq(X)
           /\ Range(FlattenSeq(ss)) = UNION {Range(ss[k]) : k \in DOMAIN ss}
           /\ (/\ \A k \in DOMAIN ss : IsInjective(ss[k])
               /\ \A k, l \in DOMAIN ss : k # l => Range(ss[k]) \cap Range(ss[l]) = {})
                 => IsInjective(FlattenSeq(ss))
<1> DEFINE r == FlattenSeq(ss)
<1>1. r \in Seq(X) /\ \E off : Places(ss, off)
  BY FlattenPlaces, Zenon
<1>2. PICK off : Places(ss, off)
  BY <1>1, Zenon
<1>3. /\ DOMAIN ss = 1 .. Len(ss) /\ Len(ss) \in Nat
      /\ \A k \in DOMAIN ss : ss[k] \in Seq(X) /\ DOMAIN ss[k] = 1 .. Len(ss[k]) /\ Len(ss[k]) \in Nat
      /\ DOMAIN r = 1 .. Len(r)
  <2>1. DOMAIN r = 1 .. Len(r)
    BY <1>1
  <2> HIDE DEF r
  <2> QED BY <2>1
<1>4. /\ \A k \in DOMAIN ss : \A j \in DOMAIN ss[k] : r[off[k] + j] = ss[k][j]
      /\ \A p \in DOMAIN r : \E k \in DOMAIN ss : \E j \in DOMAIN ss[k] : p = off[k] + j
  <2>1. /\ \A k \in 1 .. Len(ss) : \A j \in 1 .. Len(ss[k]) : r[off[k] + j] = ss[k][j]
        /\ \A p \in 1 .. Len(r) :
              \E k \in 1 .. Len(ss) : \E j \in 1 .. Len(ss[k]) : p = off[k] + j
    BY <1>2, Zenon DEF Places
  <2> HIDE DEF r
  <2>2. \A k \in DOMAIN ss : \A j \in DOMAIN ss[k] : r[off[k] + j] = ss[k][j]
    BY <1>3, <2>1, Zenon
  <2>3. ASSUME NEW p \in DOMAIN r
        PROVE  \E k \in DOMAIN ss : \E j \in DOMAIN ss[k] : p = off[k] + j
    <3>1. PICK k \in 1 .. Len(ss) : \E j \in 1 .. Len(ss[k]) : p = off[k] + j
      BY <1>3, <2>1, Zenon
    <3>2. k \in DOMAIN ss /\ DOMAIN ss[k] = 1 .. Len(ss[k])
      BY <1>3, Zenon
    <3> QED BY <3>1, <3>2, Zenon
  <2> QED BY <2>2, <2>3, Zenon
<1>5. \A k \in DOMAIN ss : \A j \in DOMAIN ss[k] : off[k] + j \in DOMAIN r
  <2>1. Len(r) = off[Len(ss) + 1] /\ off \in [1 .. Len(ss) + 1 -> Nat]
    BY <1>2, Zenon DEF Places
  <2> HIDE DEF r
  <2> SUFFICES ASSUME NEW k \in DOMAIN ss, NEW j \in DOMAIN ss[k]
               PROVE  off[k] + j \in DOMAIN r
    BY Zenon
  <2>2. k \in 1 .. Len(ss) /\ k + 1 \in 1 .. Len(ss) + 1 /\ Len(ss) + 1 \in 1 .. Len(ss) + 1
    BY <1>3
  <2>3. off[k + 1] = off[k] + Len(ss[k]) /\ off[k + 1] <= off[Len(ss) + 1]
    BY <1>2, <1>3, <2>2 DEF Places
  <2>4. off[k] \in Nat /\ off[k + 1] \in Nat /\ off[Len(ss) + 1] \in Nat
    BY <1>3, <2>1, <2>2
  <2>5. j \in 1 .. Len(ss[k]) /\ Len(ss[k]) \in Nat
    BY <1>3, Zenon
  <2> QED BY <1>3, <2>1, <2>3, <2>4, <2>5
<1>6. Range(r) = UNION {Range(ss[k]) : k \in DOMAIN ss}
  <2> HIDE DEF r
  <2>1. \A x \in Range(r) : \E k \in DOMAIN ss : x \in Range(ss[k])
    <3> SUFFICES ASSUME NEW p \in DOMAIN r
                 PROVE  \E k \in DOMAIN ss : r[p] \in Range(ss[k])
      BY Zenon DEF Range
    <3>1. PICK k \in DOMAIN ss : \E j \in DOMAIN ss[k] : p = off[k] + j
      BY <1>4, Zenon
    <3>2. PICK j \in DOMAIN ss[k] : p = off[k] + j
      BY <3>1, Zenon
    <3>3. r[p] = ss[k][j]
      BY <1>4, <3>2, Zenon
    <3> QED BY <3>3, Zenon DEF Range
  <2>2. \A k \in DOMAIN ss : \A x \in Range(ss[k]) : x \in Range(r)
    BY <1>4, <1>5, SMTT(30) DEF Range
  <2> QED BY <2>1, <2>2, Zenon
<1>7. ASSUME \A k \in DOMAIN ss : IsInjective(ss[k]),
             \A k, l \in DOMAIN ss : k # l => Range(ss[k]) \cap Range(ss[l]) = {}
      PROVE  IsInjective(r)
  <2> HIDE DEF r
  <2> SUFFICES ASSUME NEW p \in DOMAIN r, NEW q \in DOMAIN r, r[p] = r[q]
               PROVE  p = q
    BY Zenon DEF IsInjective
  <2>1. PICK k \in DOMAIN ss : \E j \in DOMAIN ss[k] : p = off[k] + j
    BY <1>4, Zenon
  <2>2. PICK j \in DOMAIN ss[k] : p = off[k] + j
    BY <2>1, Zenon
  <2>3. PICK l \in DOMAIN ss : \E i \in DOMAIN ss[l] : q = off[l] + i
    BY <1>4, Zenon
  <2>4. PICK i \in DOMAIN ss[l] : q = off[l] + i
    BY <2>3, Zenon
  <2>5. ss[k][j] = ss[l][i]
    BY <1>4, <2>2, <2>4, Zenon
  <2>6. k = l
    BY <1>7, <2>5, Zenon DEF Range
  <2>7. j = i
    BY <1>7, <2>5, <2>6, Zenon DEF IsInjective
  <2> QED BY <2>2, <2>4, <2>6, <2>7, Zenon
<1> QED BY <1>1, <1>6, <1>7, Zenon

\* A sequence cut into parts of one element, those outside of K left empty.
LEMMA FilterParts ==
    ASSUME NEW X, NEW s \in Seq(X), NEW K
    PROVE  LET ss == Parts(s, K)
           IN  /\ ss \in Seq(Seq(X)) /\ Len(ss) = Len(s) /\ DOMAIN ss = DOMAIN s
               /\ \A i \in DOMAIN s : Range(ss[i]) = {s[i]} \cap K /\ IsInjective(ss[i])
               /\ \A i \in DOMAIN s : \A j \in 1 .. Len(ss[i]) : j = 1 /\ ss[i][j] = s[i]
<1> DEFINE ss == Parts(s, K)
           N == Len(s)
<1>1. DOMAIN s = 1 .. N /\ N \in Nat /\ \A i \in 1 .. N : s[i] \in X
  OBVIOUS
<1>2. \A i \in 1 .. N : \/ s[i] \in K /\ ss[i] = <<s[i]>>
                        \/ s[i] \notin K /\ ss[i] = <<>>
  BY <1>1, Zenon DEF Parts
<1>3. DOMAIN ss = 1 .. N
  BY <1>1, Zenon DEF Parts
<1>4. \A i \in 1 .. N : ss[i] \in Seq(X)
  <2>1. \A i \in 1 .. N : <<s[i]>> \in Seq(X) /\ <<>> \in Seq(X)
    BY <1>1
  <2> HIDE DEF ss
  <2> QED BY <1>2, <2>1, Zenon
<1>5. ss = [i \in 1 .. N |-> ss[i]]
  BY <1>1, Zenon DEF Parts
<1> HIDE DEF ss, N
<1>6. ss \in Seq(Seq(X)) /\ Len(ss) = N
  <2>1. ss \in [1 .. N -> Seq(X)]
    BY <1>4, <1>5, Zenon
  <2> QED BY <1>1, <2>1
<1>7. ASSUME NEW i \in 1 .. N
      PROVE  /\ Range(ss[i]) = {s[i]} \cap K /\ IsInjective(ss[i])
             /\ \A j \in 1 .. Len(ss[i]) : j = 1 /\ ss[i][j] = s[i]
  <2>1. CASE s[i] \in K /\ ss[i] = <<s[i]>>
    <3> DEFINE one == ss[i]
    <3>1. DOMAIN one = {1} /\ one[1] = s[i] /\ Len(one) = 1
      BY <2>1
    <3>2. 1 .. 1 = {1}
      OBVIOUS
    <3> HIDE DEF one
    <3>3. Range(one) = {s[i]} \cap K
      BY <2>1, <3>1, Zenon DEF Range
    <3>4. IsInjective(one)
      BY <3>1, Zenon DEF IsInjective
    <3>5. \A j \in 1 .. Len(one) : j = 1 /\ one[j] = s[i]
      BY <3>1, <3>2, Zenon
    <3> QED BY <3>3, <3>4, <3>5, Zenon DEF one
  <2>2. CASE s[i] \notin K /\ ss[i] = <<>>
    <3>1. DOMAIN ss[i] = {} /\ Len(ss[i]) = 0
      BY <2>2
    <3>2. 1 .. 0 = {}
      OBVIOUS
    <3> QED BY <2>2, <3>1, <3>2, Zenon DEF Range, IsInjective
  <2> QED BY <1>2, <2>1, <2>2, Zenon
<1> QED BY <1>1, <1>3, <1>6, <1>7, Zenon DEF ss, N

\* A filter keeps the elements of s that lie in K, in their order.
LEMMA FilterLists ==
    ASSUME Inductive, NEW X, NEW s \in Seq(X), NEW K
    PROVE  LET r == FlattenSeq(Parts(s, K))
           IN  /\ r \in Seq(X)
               /\ Range(r) = Range(s) \cap K
               /\ IsInjective(s) => IsInjective(r)
               /\ \A p, q \in DOMAIN r : p < q =>
                     \E i, j \in DOMAIN s : i < j /\ r[p] = s[i] /\ r[q] = s[j]
<1> DEFINE ss == Parts(s, K)
           r == FlattenSeq(ss)
           N == Len(s)
<1>1. DOMAIN s = 1 .. N /\ N \in Nat
  OBVIOUS
<1>2. /\ ss \in Seq(Seq(X)) /\ Len(ss) = N /\ DOMAIN ss = DOMAIN s
      /\ \A i \in DOMAIN s : Range(ss[i]) = {s[i]} \cap K /\ IsInjective(ss[i])
      /\ \A i \in DOMAIN s : \A j \in 1 .. Len(ss[i]) : j = 1 /\ ss[i][j] = s[i]
  BY FilterParts
<1> HIDE DEF ss, N
<1>3. /\ r \in Seq(X)
      /\ Range(r) = UNION {Range(ss[k]) : k \in DOMAIN ss}
      /\ (/\ \A k \in DOMAIN ss : IsInjective(ss[k])
          /\ \A k, l \in DOMAIN ss : k # l => Range(ss[k]) \cap Range(ss[l]) = {})
            => IsInjective(r)
  BY <1>2, FlattenLists, Zenon
<1>4. PICK off : Places(ss, off)
  BY <1>2, FlattenPlaces, Zenon
<1>5. /\ off \in [1 .. N + 1 -> Nat]
      /\ \A k, l \in 1 .. N + 1 : k <= l => off[k] <= off[l]
      /\ \A k \in 1 .. N : \A j \in 1 .. Len(ss[k]) : r[off[k] + j] = ss[k][j]
      /\ \A p \in 1 .. Len(r) : \E k \in 1 .. N : \E j \in 1 .. Len(ss[k]) : p = off[k] + j
  BY <1>2, <1>4, Zenon DEF Places
<1> HIDE DEF r
<1>6. Range(r) = Range(s) \cap K
  <2>1. ASSUME NEW x \in Range(r)
        PROVE  x \in Range(s) \cap K
    <3>1. PICK k \in DOMAIN s : x \in Range(ss[k])
      BY <1>2, <1>3
    <3>2. x = s[k] /\ x \in K
      BY <1>2, <3>1
    <3> QED BY <3>2, Zenon DEF Range
  <2>2. ASSUME NEW x \in Range(s) \cap K
        PROVE  x \in Range(r)
    <3>1. PICK k \in DOMAIN s : x = s[k]
      BY Zenon DEF Range
    <3>2. x \in Range(ss[k])
      BY <1>2, <3>1, Zenon
    <3> QED BY <1>2, <1>3, <3>2
  <2> QED BY <2>1, <2>2, Zenon
<1>7. ASSUME IsInjective(s)
      PROVE  IsInjective(r)
  <2>1. \A k, l \in DOMAIN s : k # l => s[k] # s[l]
    BY <1>7, Zenon DEF IsInjective
  <2>2. ASSUME NEW k \in DOMAIN s, NEW l \in DOMAIN s, k # l
        PROVE  Range(ss[k]) \cap Range(ss[l]) = {}
    <3>1. Range(ss[k]) = {s[k]} \cap K /\ Range(ss[l]) = {s[l]} \cap K /\ s[k] # s[l]
      BY <1>2, <2>1, <2>2, Zenon
    <3> QED BY <3>1, Zenon
  <2> QED BY <1>2, <1>3, <2>2, Zenon
<1>8. ASSUME NEW p \in DOMAIN r, NEW q \in DOMAIN r, p < q
      PROVE  \E i, j \in DOMAIN s : i < j /\ r[p] = s[i] /\ r[q] = s[j]
  <2>1. DOMAIN r = 1 .. Len(r) /\ Len(r) \in Nat
    BY <1>3
  <2> DEFINE In(x, k) == x = off[k] + 1 /\ r[x] = s[k]
  <2>2. ASSUME NEW x \in DOMAIN r
        PROVE  \E k \in 1 .. N : In(x, k)
    <3>1. PICK k \in 1 .. N : \E j \in 1 .. Len(ss[k]) : x = off[k] + j
      BY <1>5, <2>1, Zenon
    <3>2. PICK j \in 1 .. Len(ss[k]) : x = off[k] + j
      BY <3>1, Zenon
    <3>3. j = 1 /\ ss[k][j] = s[k] /\ r[off[k] + j] = ss[k][j]
      BY <1>1, <1>2, <1>5, Zenon
    <3> QED BY <3>2, <3>3, Zenon
  <2>3. PICK i \in 1 .. N : In(p, i)
    BY <2>2, Zenon
  <2>4. PICK j \in 1 .. N : In(q, j)
    BY <2>2, Zenon
  <2>5. i < j
    <3>1. i \in 1 .. N + 1 /\ j \in 1 .. N + 1
      BY <1>1
    <3>2. off[i] \in Nat /\ off[j] \in Nat
      BY <1>5, <3>1, Zenon
    <3>3. off[i] < off[j]
      BY <1>8, <2>3, <2>4, <3>2
    <3>4. ~(j <= i)
      BY <1>5, <3>1, <3>2, <3>3
    <3> QED BY <1>1, <3>4
  <2> QED BY <1>1, <2>3, <2>4, <2>5, Zenon
<1> QED BY <1>3, <1>6, <1>7, <1>8, Zenon DEF r, ss

-----------------------------------------------------------------------------
(* Walking through a flattened sequence.                                   *)

\* Where the parts of a flattened sequence start.
LEMMA OffsetFacts ==
    ASSUME Inductive, NEW X, NEW ss \in Seq(Seq(X))
    PROVE  /\ Len(ss) \in Nat /\ DOMAIN ss = 1 .. Len(ss)
           /\ FlattenSeq(ss) \in Seq(X) /\ Len(FlattenSeq(ss)) \in Nat
           /\ \A k \in 1 .. Len(ss) : ss[k] \in Seq(X) /\ Len(ss[k]) \in Nat
           /\ \A k \in 1 .. Len(ss) : ss[k] # <<>> => Len(ss[k]) >= 1
           /\ \A k \in 1 .. Len(ss) + 1 : Offsets(ss)[k] \in Nat
           /\ Places(ss, Offsets(ss))
<1>1. \E off : Places(ss, off)
  BY FlattenPlaces, Zenon
<1>2. Places(ss, Offsets(ss))
  BY <1>1, Zenon DEF Offsets
<1>3. Offsets(ss) \in [1 .. Len(ss) + 1 -> Nat]
  BY <1>2, Zenon DEF Places
<1>4. FlattenSeq(ss) \in Seq(X)
  BY FlattenPlaces, Zenon
<1>5. \A k \in 1 .. Len(ss) : ss[k] \in Seq(X)
  OBVIOUS
<1>6. ASSUME NEW t \in Seq(X)
      PROVE  Len(t) \in Nat /\ (t # <<>> => Len(t) >= 1)
  OBVIOUS
<1>7. \A k \in 1 .. Len(ss) + 1 : Offsets(ss)[k] \in Nat
  BY <1>3, Zenon
<1>8. Len(ss) \in Nat /\ DOMAIN ss = 1 .. Len(ss)
  OBVIOUS
<1>9. \A k \in 1 .. Len(ss) : Len(ss[k]) \in Nat /\ (ss[k] # <<>> => Len(ss[k]) >= 1)
  BY <1>5, <1>6, Zenon
<1>10. Len(FlattenSeq(ss)) \in Nat
  BY <1>4, <1>6, Zenon
<1> QED BY <1>2, <1>4, <1>5, <1>7, <1>8, <1>9, <1>10, Zenon

\* Every element has its part and its place there, and only one.
LEMMA WalkAt ==
    ASSUME Inductive, NEW X, NEW ss \in Seq(Seq(X)), NEW n \in 1 .. Len(FlattenSeq(ss))
    PROVE  \E k \in DOMAIN ss : \E j \in 1 .. Len(ss[k]) : At(ss, n, k, j)
<1>1. \E k \in 1 .. Len(ss) : \E j \in 1 .. Len(ss[k]) : n = Offsets(ss)[k] + j
  <2>1. Places(ss, Offsets(ss))
    BY OffsetFacts, Zenon
  <2> QED BY <2>1, Zenon DEF Places
<1>2. DOMAIN ss = 1 .. Len(ss)
  OBVIOUS
<1> QED BY <1>1, <1>2, Zenon DEF At

\* Walking through a flattened sequence: the parts before the current one are done.
LEMMA WalkPlace ==
    ASSUME Inductive, NEW X, NEW ss \in Seq(Seq(X)), NEW n, NEW k, NEW j, At(ss, n, k, j)
    PROVE  /\ n \in 1 .. Len(FlattenSeq(ss))
           /\ FlattenSeq(ss)[n] = ss[k][j]
           /\ k \notin Walked(ss, n)
           /\ \A l \in Walked(ss, n) : l < k
           /\ \A l \in DOMAIN ss : l < k /\ ss[l] # <<>> => l \in Walked(ss, n)
           /\ \A l, i : At(ss, n, l, i) => l = k /\ i = j
<1> DEFINE off == Offsets(ss)
           r == FlattenSeq(ss)
           N == Len(ss)
           L(l) == Len(ss[l])
<1>1. /\ N \in Nat /\ DOMAIN ss = 1 .. N /\ Len(r) \in Nat
      /\ \A l \in 1 .. N : L(l) \in Nat
      /\ \A l \in 1 .. N + 1 : off[l] \in Nat
  BY OffsetFacts, Zenon
<1>2. /\ \A l \in 1 .. N : off[l + 1] = off[l] + L(l)
      /\ \A l, i \in 1 .. N + 1 : l <= i => off[l] <= off[i]
      /\ Len(r) = off[N + 1]
      /\ \A l \in 1 .. N : \A i \in 1 .. L(l) : r[off[l] + i] = ss[l][i]
  <2>1. Places(ss, off)
    BY OffsetFacts, Zenon
  <2> QED BY <2>1, Zenon DEF Places
<1>3. k \in 1 .. N /\ j \in 1 .. L(k) /\ n = off[k] + j
  BY <1>1, Zenon DEF At
<1>4. \A l, i : At(ss, n, l, i) => l \in 1 .. N /\ i \in 1 .. L(l) /\ n = off[l] + i
  BY <1>1, Zenon DEF At
<1>5. \A l \in Walked(ss, n) : l \in 1 .. N /\ ss[l] # <<>> /\ off[l + 1] < n
  BY <1>1, Zenon DEF Walked
<1>6. \A l \in 1 .. N : ss[l] # <<>> /\ off[l + 1] < n => l \in Walked(ss, n)
  BY <1>1, Zenon DEF Walked
<1> HIDE DEF off, r, N, L
<1>7. ASSUME NEW l \in 1 .. N
      PROVE  l \in 1 .. N + 1 /\ l + 1 \in 1 .. N + 1 /\ N + 1 \in 1 .. N + 1
  BY <1>1
<1>8. /\ k \in Nat /\ j \in Nat /\ j >= 1 /\ j <= L(k) /\ L(k) \in Nat
      /\ off[k] \in Nat /\ off[k + 1] = off[k] + L(k) /\ off[k + 1] <= off[N + 1]
      /\ off[N + 1] \in Nat
  <2>1. k \in 1 .. N + 1 /\ k + 1 \in 1 .. N + 1 /\ N + 1 \in 1 .. N + 1 /\ k + 1 <= N + 1
    BY <1>1, <1>3
  <2>2. L(k) \in Nat /\ off[k] \in Nat /\ off[N + 1] \in Nat /\ off[k + 1] = off[k] + L(k)
    BY <1>1, <1>2, <1>3, <2>1, Zenon
  <2>3. off[k + 1] <= off[N + 1]
    BY <1>2, <2>1, Zenon
  <2>4. k \in Nat /\ j \in Nat /\ j >= 1 /\ j <= L(k)
    BY <1>1, <1>3, <2>2
  <2> QED BY <2>2, <2>3, <2>4, Zenon
<1>9. n \in 1 .. Len(r)
  BY <1>2, <1>3, <1>8, SMTT(30)
<1>10. r[n] = ss[k][j]
  BY <1>2, <1>3, Zenon
<1>11. k \notin Walked(ss, n)
  BY <1>3, <1>5, <1>8
<1>12. ASSUME NEW l \in Walked(ss, n)
       PROVE  l < k
  <2>1. l \in 1 .. N /\ off[l + 1] < n /\ l \in Nat
    BY <1>5
  <2>2. ~(k + 1 <= l + 1)
    <3>1. off[l + 1] \in Nat /\ l + 1 \in 1 .. N + 1 /\ k + 1 \in 1 .. N + 1
      BY <1>1, <1>3, <1>7, <2>1, Zenon
    <3>2. ~(off[k + 1] <= off[l + 1])
      BY <1>3, <1>8, <2>1, <3>1, SMTT(30)
    <3> QED BY <1>2, <3>1, <3>2, Zenon
  <2> QED BY <1>8, <2>1, <2>2
<1>13. ASSUME NEW l \in 1 .. N, l < k, ss[l] # <<>>
       PROVE  l \in Walked(ss, n)
  <2>1. l + 1 <= k /\ l + 1 \in 1 .. N + 1 /\ k \in 1 .. N + 1
    BY <1>3, <1>7, <1>8, <1>13
  <2>2. off[l + 1] <= off[k] /\ off[l + 1] \in Nat
    BY <1>1, <1>2, <2>1, Zenon
  <2>3. off[l + 1] < n
    BY <1>3, <1>8, <2>2
  <2> QED BY <1>6, <1>13, <2>3, Zenon
<1>14. ASSUME NEW l, NEW i, At(ss, n, l, i)
       PROVE  l = k /\ i = j
  <2>1. l \in 1 .. N /\ i \in 1 .. L(l) /\ n = off[l] + i
    BY <1>4, <1>14, Zenon
  <2>2. /\ l \in Nat /\ i \in Nat /\ i >= 1 /\ i <= L(l) /\ L(l) \in Nat
        /\ off[l] \in Nat /\ off[l + 1] = off[l] + L(l)
    BY <1>1, <1>2, <1>7, <2>1
  <2>3. /\ k \in 1 .. N + 1 /\ l \in 1 .. N + 1
        /\ k + 1 \in 1 .. N + 1 /\ l + 1 \in 1 .. N + 1
    BY <1>3, <1>7, <2>1, Zenon
  <2>0. off[k] + j = off[l] + i
    BY <1>3, <2>1, Zenon
  <2>4. ~(l + 1 <= k)
    <3>1. ~(off[l + 1] <= off[k])
      BY <1>8, <2>0, <2>2, SMTT(30)
    <3> QED BY <1>2, <2>3, <3>1, Zenon
  <2>5. ~(k + 1 <= l)
    <3>1. ~(off[k + 1] <= off[l])
      BY <1>8, <2>0, <2>2, SMTT(30)
    <3> QED BY <1>2, <2>3, <3>1, Zenon
  <2>6. l = k
    BY <1>8, <2>2, <2>4, <2>5
  <2> QED BY <1>8, <2>0, <2>2, <2>6
<1> QED BY <1>1, <1>9, <1>10, <1>11, <1>12, <1>13, <1>14, Zenon DEF r

\* The next element is in the same part, or the part has been walked through.
LEMMA WalkStep ==
    ASSUME Inductive, NEW X, NEW ss \in Seq(Seq(X)), NEW n, NEW k, NEW j, At(ss, n, k, j)
    PROVE  /\ j < Len(ss[k]) => At(ss, n + 1, k, j + 1) /\ Walked(ss, n + 1) = Walked(ss, n)
           /\ j = Len(ss[k]) => Walked(ss, n + 1) = Walked(ss, n) \cup {k}
                                 /\ Between(ss, n + 1)
<1> DEFINE off == Offsets(ss)
           r == FlattenSeq(ss)
           N == Len(ss)
           L(l) == Len(ss[l])
<1>1. /\ N \in Nat /\ DOMAIN ss = 1 .. N /\ Len(r) \in Nat
      /\ \A l \in 1 .. N : L(l) \in Nat /\ (ss[l] # <<>> => L(l) >= 1)
      /\ \A l \in 1 .. N + 1 : off[l] \in Nat
  BY OffsetFacts, Zenon
<1>2. /\ \A l \in 1 .. N : off[l + 1] = off[l] + L(l)
      /\ \A l, i \in 1 .. N + 1 : l <= i => off[l] <= off[i]
      /\ Len(r) = off[N + 1]
  <2>1. Places(ss, off)
    BY OffsetFacts, Zenon
  <2> QED BY <2>1, Zenon DEF Places
<1>3. k \in 1 .. N /\ j \in 1 .. L(k) /\ n = off[k] + j
  BY <1>1, Zenon DEF At
<1>4. \A i \in 1 .. L(k) : n + 1 = off[k] + i => At(ss, n + 1, k, i)
  BY <1>1, <1>3, Zenon DEF At
<1>5. ss[k] # <<>>
  BY <1>1, <1>3
<1>6. n \in 1 .. Len(r)
  BY WalkPlace, Zenon
<1>a. ASSUME n + 1 \in 1 .. Len(r)
      PROVE  \E l \in 1 .. N : \E i \in 1 .. L(l) : At(ss, n + 1, l, i) /\ n + 1 = off[l] + i
  <2>1. PICK l \in DOMAIN ss : \E i \in 1 .. Len(ss[l]) : At(ss, n + 1, l, i)
    BY <1>a, WalkAt, Zenon
  <2>2. PICK i \in 1 .. Len(ss[l]) : At(ss, n + 1, l, i)
    BY <2>1, Zenon
  <2>3. n + 1 = off[l] + i
    BY <2>2, Zenon DEF At
  <2> QED BY <1>1, <2>2, <2>3, Zenon
<1>b. Walked(ss, n) = {l \in 1 .. N : ss[l] # <<>> /\ off[l + 1] < n}
  BY <1>1, Zenon DEF Walked
<1>c. Walked(ss, n + 1) = {l \in 1 .. N : ss[l] # <<>> /\ off[l + 1] < n + 1}
  BY <1>1, Zenon DEF Walked
<1>d. (\E l \in 1 .. N : At(ss, n + 1, l, 1)) \/ n + 1 = Len(r) + 1 => Between(ss, n + 1)
  BY <1>1, Zenon DEF Between
<1> HIDE DEF off, r, N, L
<1>7. k \in 1 .. N + 1 /\ k + 1 \in 1 .. N + 1
  BY <1>1, <1>3
<1>8. /\ k \in Nat /\ j \in Nat /\ j >= 1 /\ j <= L(k) /\ L(k) \in Nat /\ n \in Nat
      /\ off[k] \in Nat /\ off[k + 1] = off[k] + L(k) /\ off[k + 1] \in Nat
  BY <1>1, <1>2, <1>3, <1>6, <1>7, SMTT(30)
<1>9. \A l \in 1 .. N : l + 1 \in 1 .. N + 1 /\ off[l + 1] \in Nat /\ l \in Nat
  BY <1>1
\* A part that ends with the n-th element is the k-th one.
<1>10. ASSUME NEW l \in 1 .. N, ss[l] # <<>>, off[l + 1] = n
       PROVE  l = k /\ j = L(k)
  <2>1. off[l] \in Nat /\ L(l) \in Nat /\ L(l) >= 1 /\ off[l + 1] = off[l] + L(l)
        /\ l \in 1 .. N + 1 /\ l + 1 \in 1 .. N + 1 /\ l \in Nat
    BY <1>1, <1>2, <1>10
  <2>2. off[l] + L(l) = off[k] + j
    BY <1>3, <1>10, <2>1, Zenon
  <2>3. ~(l + 1 <= k)
    <3>0. off[l + 1] = off[k] + j
      BY <2>1, <2>2, Zenon
    <3>1. ~(off[l + 1] <= off[k])
      BY <1>8, <3>0
    <3> QED BY <1>2, <1>7, <2>1, <3>1, Zenon
  <2>4. ~(k + 1 <= l)
    <3>0. \A a, b, c, d, i \in Nat : b >= 1 /\ i <= d /\ a + b = c + i => ~(c + d <= a)
      OBVIOUS
    <3>1. ~(off[k] + L(k) <= off[l])
      BY <1>8, <2>1, <2>2, <3>0, Zenon
    <3>2. ~(off[k + 1] <= off[l])
      BY <1>8, <3>1, Zenon
    <3> QED BY <1>2, <1>7, <2>1, <3>2, Zenon
  <2>5. l = k
    BY <1>8, <2>1, <2>3, <2>4
  <2> QED BY <1>8, <2>1, <2>2, <2>5
<1>11. \A l \in 1 .. N : off[l + 1] < n + 1 <=> off[l + 1] < n \/ off[l + 1] = n
  <2>1. n \in Nat /\ \A l \in 1 .. N : off[l + 1] \in Nat
    BY <1>8, <1>9, Zenon
  <2>2. \A x \in Nat : x < n + 1 <=> x < n \/ x = n
    BY <2>1
  <2> QED BY <2>1, <2>2, Zenon
<1>12. ASSUME j < L(k)
       PROVE  At(ss, n + 1, k, j + 1) /\ Walked(ss, n + 1) = Walked(ss, n)
  <2>1. j + 1 \in 1 .. L(k) /\ n + 1 = off[k] + (j + 1)
    BY <1>3, <1>8, <1>12
  <2>2. \A l \in 1 .. N : ss[l] # <<>> => off[l + 1] # n
    BY <1>8, <1>10, <1>12
  <2>3. Walked(ss, n + 1) = Walked(ss, n)
    BY <1>b, <1>c, <1>11, <2>2, Zenon
  <2> QED BY <1>4, <2>1, <2>3, Zenon
<1>13. ASSUME j = L(k)
       PROVE  Walked(ss, n + 1) = Walked(ss, n) \cup {k} /\ Between(ss, n + 1)
  <2>1. off[k + 1] = n
    BY <1>3, <1>8, <1>13, Zenon
  <2>2. Walked(ss, n + 1) = Walked(ss, n) \cup {k}
    BY <1>3, <1>5, <1>b, <1>c, <1>10, <1>11, <2>1, SMTT(30)
  <2>3. CASE n + 1 \in 1 .. Len(r)
    <3>1. PICK l \in 1 .. N : \E i \in 1 .. L(l) : At(ss, n + 1, l, i) /\ n + 1 = off[l] + i
      BY <1>a, <2>3, Zenon
    <3>2. PICK i \in 1 .. L(l) : At(ss, n + 1, l, i) /\ n + 1 = off[l] + i
      BY <3>1, Zenon
    <3>3. /\ off[l] \in Nat /\ L(l) \in Nat /\ off[l + 1] = off[l] + L(l)
          /\ i \in Nat /\ i >= 1 /\ i <= L(l)
          /\ l \in 1 .. N + 1 /\ l + 1 \in 1 .. N + 1 /\ l \in Nat
      BY <1>1, <1>2
    <3>4. ~(l + 1 <= k + 1)
      <4>1. off[l + 1] > off[k + 1]
        BY <1>8, <2>1, <3>2, <3>3, SMTT(30)
      <4>2. ~(off[l + 1] <= off[k + 1])
        BY <1>8, <1>9, <4>1, SMTT(30)
      <4> QED BY <1>2, <1>7, <3>3, <4>2, Zenon
    <3>5. k + 1 <= l
      BY <1>8, <3>3, <3>4
    <3>6. off[k + 1] <= off[l]
      BY <1>2, <1>7, <3>3, <3>5, Zenon
    <3>7. i = 1
      <4>1. n <= off[l] /\ n + 1 = off[l] + i /\ n \in Nat /\ off[l] \in Nat /\ i \in Nat /\ i >= 1
        BY <1>8, <2>1, <3>2, <3>3, <3>6, Zenon
      <4> QED BY <4>1
    <3> QED BY <1>d, <2>2, <3>2, <3>7, Zenon
  <2>4. CASE n + 1 \notin 1 .. Len(r)
    <3>1. n + 1 = Len(r) + 1
      BY <1>1, <1>6, <2>4
    <3> QED BY <1>d, <2>2, <3>1, Zenon
  <2> QED BY <2>3, <2>4, Zenon
<1> QED BY <1>12, <1>13, Zenon DEF L

\* The walk starts before all parts and ends when all are behind it.
LEMMA WalkEnds ==
    ASSUME Inductive, NEW X, NEW ss \in Seq(Seq(X))
    PROVE  /\ Walked(ss, 1) = {} /\ Between(ss, 1)
           /\ Walked(ss, Len(FlattenSeq(ss)) + 1) = {k \in DOMAIN ss : ss[k] # <<>>}
<1> DEFINE off == Offsets(ss)
           r == FlattenSeq(ss)
           N == Len(ss)
<1>1. /\ N \in Nat /\ DOMAIN ss = 1 .. N /\ Len(r) \in Nat
      /\ \A l \in 1 .. N : Len(ss[l]) \in Nat /\ (ss[l] # <<>> => Len(ss[l]) >= 1)
      /\ \A l \in 1 .. N + 1 : off[l] \in Nat
  BY OffsetFacts, Zenon
<1>2. /\ \A l \in 1 .. N : off[l + 1] = off[l] + Len(ss[l])
      /\ \A l, i \in 1 .. N + 1 : l <= i => off[l] <= off[i]
      /\ Len(r) = off[N + 1]
  <2>1. Places(ss, off)
    BY OffsetFacts, Zenon
  <2> QED BY <2>1, Zenon DEF Places
<1>3. \A l \in 1 .. N : l \in 1 .. N + 1 /\ l + 1 \in 1 .. N + 1 /\ N + 1 \in 1 .. N + 1
                        /\ l + 1 <= N + 1
  BY <1>1
<1>4. \A l \in 1 .. N : ss[l] # <<>> => off[l + 1] >= 1
  <2> HIDE DEF off, N
  <2>1. SUFFICES ASSUME NEW l \in 1 .. N, ss[l] # <<>>
                 PROVE  off[l + 1] >= 1
    BY Zenon
  <2> DEFINE a == off[l]
             n == Len(ss[l])
             b == off[l + 1]
  <2>2. a \in Nat /\ n \in Nat /\ n >= 1
    BY <1>1, <1>3, <2>1, Zenon
  <2>3. b = a + n
    BY <1>2, Zenon
  <2> HIDE DEF a, n, b
  <2>4. b >= 1
    BY <2>2, <2>3
  <2> QED BY <2>4, Zenon DEF b
<1>5. \A l \in 1 .. N : off[l + 1] <= Len(r) /\ off[l + 1] \in Nat
  <2> HIDE DEF off, N, r
  <2> QED BY <1>1, <1>2, <1>3, Zenon
<1>6. \A l \in 1 .. N : off[l + 1] < Len(r) + 1 /\ (ss[l] # <<>> => ~(off[l + 1] < 1))
  <2> HIDE DEF off, N, r
  <2> QED BY <1>1, <1>4, <1>5
<1>7. Walked(ss, 1) = {} /\ Walked(ss, Len(r) + 1) = {k \in DOMAIN ss : ss[k] # <<>>}
  <2> HIDE DEF r
  <2> QED BY <1>1, <1>6, Zenon DEF Walked
<1>8. Between(ss, 1)
  <2>1. CASE Len(r) = 0
    BY <2>1 DEF Between
  <2>2. CASE Len(r) # 0
    <3>1. 1 \in 1 .. Len(r)
      BY <1>1, <2>2
    <3>2. PICK l \in DOMAIN ss : \E i \in 1 .. Len(ss[l]) : At(ss, 1, l, i)
      BY <3>1, WalkAt, Zenon
    <3>3. PICK i \in 1 .. Len(ss[l]) : At(ss, 1, l, i)
      BY <3>2, Zenon
    <3>4. 1 = off[l] + i /\ off[l] \in Nat /\ i \in Nat /\ i >= 1
      BY <1>1, <1>3, <3>3 DEF At
    <3>5. i = 1
      BY <3>4
    <3> QED BY <3>3, <3>5, Zenon DEF Between
  <2> QED BY <2>1, <2>2, Zenon
<1> QED BY <1>7, <1>8, Zenon

-----------------------------------------------------------------------------
(* Lists of sets that are made of other lists.                             *)

\* What remains of a list without repetitions when it is filtered.
LEMMA ListsFiltered ==
    ASSUME Inductive, NEW S, NEW s, Lists(s, S), NEW K
    PROVE  Lists(FlattenSeq(Parts(s, K)), S \cap K)
<1> DEFINE r == FlattenSeq(Parts(s, K))
<1>1. s \in Seq(S) /\ Range(s) = S /\ IsInjective(s)
  BY Zenon DEF Lists
<1>2. r \in Seq(S) /\ Range(r) = S \cap K /\ IsInjective(r)
  BY <1>1, FilterLists, Zenon
<1> HIDE DEF r
<1>3. r \in Seq(S \cap K)
  <2>1. \A i \in 1 .. Len(r) : r[i] \in S \cap K
    BY <1>2 DEF Range
  <2> QED BY <1>2, <2>1
<1> QED BY <1>2, <1>3, Zenon DEF Lists, r

\* Two lists of disjoint sets, one after the other.
LEMMA ListsConcat ==
    ASSUME NEW S, NEW T, NEW s, NEW t, Lists(s, S), Lists(t, T), S \cap T = {}
    PROVE  Lists(s \o t, S \cup T)
<1>1. /\ s \in Seq(S) /\ Range(s) = S /\ IsInjective(s)
      /\ t \in Seq(T) /\ Range(t) = T /\ IsInjective(t)
  BY Zenon DEF Lists
<1>2. s \in Seq(S \cup T) /\ t \in Seq(S \cup T)
  BY <1>1
<1>3. /\ s \o t \in Seq(S \cup T) /\ Range(s \o t) = Range(s) \cup Range(t)
      /\ (IsInjective(s) /\ IsInjective(t) /\ Range(s) \cap Range(t) = {}) => IsInjective(s \o t)
  BY <1>2, ConcatLists
<1> QED BY <1>1, <1>3, Zenon DEF Lists

\* The image of a list under a function that tells its elements apart.
LEMMA ListsImage ==
    ASSUME NEW S, NEW s, Lists(s, S), NEW f, \A x, y \in S : f[x] = f[y] => x = y
    PROVE  Lists([i \in DOMAIN s |-> f[s[i]]], {f[x] : x \in S})
<1> DEFINE r == [i \in DOMAIN s |-> f[s[i]]]
           R == {f[x] : x \in S}
<1>1. s \in Seq(S) /\ Range(s) = S /\ IsInjective(s)
  BY Zenon DEF Lists
<1>2. DOMAIN s = 1 .. Len(s) /\ Len(s) \in Nat /\ \A i \in DOMAIN s : s[i] \in S
  BY <1>1
<1>3. DOMAIN r = DOMAIN s /\ \A i \in DOMAIN s : r[i] = f[s[i]]
  BY Zenon
<1>4. r \in [1 .. Len(s) -> R]
  BY <1>2, Zenon
<1> HIDE DEF r
<1>5. r \in Seq(R)
  BY <1>2, <1>4
<1>6. Range(r) = R
  <2>1. \A x \in S : \E i \in DOMAIN s : x = s[i]
    BY <1>1, Zenon DEF Range
  <2> QED BY <1>2, <1>3, <2>1 DEF Range
<1>7. IsInjective(r)
  <2> SUFFICES ASSUME NEW i \in DOMAIN s, NEW j \in DOMAIN s, f[s[i]] = f[s[j]]
               PROVE  i = j
    BY <1>3, Zenon DEF IsInjective
  <2>1. s[i] = s[j]
    BY <1>2, Zenon
  <2> QED BY <1>1, <2>1, Zenon DEF IsInjective
<1> QED BY <1>5, <1>6, <1>7, Zenon DEF Lists, r

\* Lists of pairwise disjoint sets, one after the other.
LEMMA ListsFlattened ==
    ASSUME Inductive, NEW S, NEW s, Lists(s, S), NEW g, NEW ss, DOMAIN ss = DOMAIN s,
           ss = [i \in DOMAIN s |-> ss[i]],
           \A i \in DOMAIN s : Lists(ss[i], g[s[i]]),
           \A x, y \in S : x # y => g[x] \cap g[y] = {}
    PROVE  Lists(FlattenSeq(ss), UNION {g[x] : x \in S})
<1> DEFINE R == UNION {g[x] : x \in S}
           r == FlattenSeq(ss)
<1>1. s \in Seq(S) /\ Range(s) = S /\ IsInjective(s)
  BY Zenon DEF Lists
<1>2. DOMAIN s = 1 .. Len(s) /\ Len(s) \in Nat /\ \A i \in DOMAIN s : s[i] \in S
  BY <1>1
<1>3. \A x \in S : \E i \in DOMAIN s : x = s[i]
  BY <1>1, Zenon DEF Range
<1>4. \A i \in DOMAIN s : ss[i] \in Seq(g[s[i]]) /\ Range(ss[i]) = g[s[i]] /\ IsInjective(ss[i])
  BY Zenon DEF Lists
<1>5. \A i \in DOMAIN s : ss[i] \in Seq(R)
  <2> SUFFICES ASSUME NEW i \in DOMAIN s
               PROVE  ss[i] \in Seq(R)
    BY Zenon
  <2>1. g[s[i]] \subseteq R
    BY <1>2, Zenon
  <2> HIDE DEF R
  <2> QED BY <1>4, <2>1
<1> HIDE DEF R
<1>6. ss \in Seq(Seq(R))
  <2>1. ss \in [1 .. Len(s) -> Seq(R)]
    BY <1>2, <1>5, Zenon
  <2> QED BY <1>2, <2>1
<1>7. \A k, l \in DOMAIN ss : k # l => Range(ss[k]) \cap Range(ss[l]) = {}
  <2> SUFFICES ASSUME NEW k \in DOMAIN s, NEW l \in DOMAIN s, k # l
               PROVE  Range(ss[k]) \cap Range(ss[l]) = {}
    BY Zenon
  <2>1. s[k] # s[l]
    BY <1>1, Zenon DEF IsInjective
  <2> QED BY <1>2, <1>4, <2>1, Zenon
<1>8. /\ r \in Seq(R)
      /\ Range(r) = UNION {Range(ss[k]) : k \in DOMAIN ss}
      /\ IsInjective(r)
  BY <1>4, <1>6, <1>7, FlattenLists, Zenon
<1> HIDE DEF r
<1>9. Range(r) = R
  <2>1. \A x \in Range(r) : x \in R
    <3> SUFFICES ASSUME NEW k \in DOMAIN s, NEW x \in Range(ss[k])
                 PROVE  x \in R
      BY <1>8, Zenon
    <3> QED BY <1>2, <1>4, Zenon DEF R
  <2>2. \A x \in R : x \in Range(r)
    <3> SUFFICES ASSUME NEW y \in S, NEW x \in g[y]
                 PROVE  x \in Range(r)
      BY Zenon DEF R
    <3>1. PICK k \in DOMAIN s : y = s[k]
      BY <1>3, Zenon
    <3>2. x \in Range(ss[k])
      BY <1>4, <3>1, Zenon
    <3> QED BY <1>8, <3>2, Zenon
  <2> QED BY <2>1, <2>2, Zenon
<1> QED BY <1>8, <1>9, Zenon DEF Lists, r, R

-----------------------------------------------------------------------------
(* Walking through a plan.                                                 *)

\* Before the first element all is pending, after the last one nothing is.
LEMMA PlanEnds ==
    ASSUME Inductive, NEW X, NEW ss \in Seq(Seq(X)), NEW O
    PROVE  /\ Pending(O, ss, 1) = {O[k] : k \in {l \in DOMAIN ss : ss[l] # <<>>}}
           /\ Between(ss, 1)
           /\ Pending(O, ss, Len(FlattenSeq(ss)) + 1) = {}
<1>1. /\ Walked(ss, 1) = {} /\ Between(ss, 1)
      /\ Walked(ss, Len(FlattenSeq(ss)) + 1) = {k \in DOMAIN ss : ss[k] # <<>>}
  BY WalkEnds, Zenon
<1> QED BY <1>1, Zenon DEF Pending

\* Every element of the flattened list belongs to one step of the plan.
LEMMA PlanAt ==
    ASSUME Inductive, NEW X, NEW ss \in Seq(Seq(X)), NEW O, NEW n \in 1 .. Len(FlattenSeq(ss))
    PROVE  \E s, j : Doing(O, ss, n, s, j)
BY WalkAt, Zenon DEF Doing

\* The statement being executed belongs to a pending item, and no pending item
\* comes before that one in the plan.
LEMMA PlanDoing ==
    ASSUME Inductive, NEW X, NEW ss \in Seq(Seq(X)), NEW O, NEW n, NEW s, NEW j, Doing(O, ss, n, s, j)
    PROVE  \E k \in DOMAIN ss :
              /\ s = O[k] /\ j \in 1 .. Len(ss[k]) /\ ss[k] # <<>>
              /\ n \in 1 .. Len(FlattenSeq(ss))
              /\ FlattenSeq(ss)[n] = ss[k][j]
              /\ s \in Pending(O, ss, n)
              /\ \A x \in Pending(O, ss, n) : \E l \in DOMAIN ss : x = O[l] /\ ~(l < k)
              /\ Between(ss, n) => j = 1
<1>1. PICK k \in DOMAIN ss : At(ss, n, k, j) /\ s = O[k]
  BY Zenon DEF Doing
<1>2. /\ n \in 1 .. Len(FlattenSeq(ss))
      /\ FlattenSeq(ss)[n] = ss[k][j]
      /\ k \notin Walked(ss, n)
      /\ \A l \in DOMAIN ss : l < k /\ ss[l] # <<>> => l \in Walked(ss, n)
      /\ \A l, i : At(ss, n, l, i) => l = k /\ i = j
  BY <1>1, WalkPlace
<1>3. j \in 1 .. Len(ss[k])
  BY <1>1, Zenon DEF At
<1>4. ss[k] # <<>>
  BY <1>3
<1>5. s \in Pending(O, ss, n)
  BY <1>1, <1>2, <1>4, Zenon DEF Pending
<1>6. ASSUME NEW x \in Pending(O, ss, n)
      PROVE  \E l \in DOMAIN ss : x = O[l] /\ ~(l < k)
  BY <1>2, Zenon DEF Pending
<1>7. ASSUME Between(ss, n)
      PROVE  j = 1
  <2>1. n # Len(FlattenSeq(ss)) + 1
    <3>1. Len(FlattenSeq(ss)) \in Nat
      BY FlattenPlaces
    <3> QED BY <1>2, <3>1
  <2>2. PICK l \in DOMAIN ss : At(ss, n, l, 1)
    BY <1>7, <2>1, Zenon DEF Between
  <2> QED BY <1>2, <2>2, Zenon
<1> QED BY <1>1, <1>2, <1>3, <1>4, <1>5, <1>6, <1>7, Zenon

\* The next element belongs to the same step, or that step is done.
LEMMA PlanStep ==
    ASSUME Inductive, NEW X, NEW ss \in Seq(Seq(X)), NEW O, DOMAIN O = DOMAIN ss, IsInjective(O),
           NEW n, NEW k \in DOMAIN ss, NEW j, Doing(O, ss, n, O[k], j)
    PROVE  /\ j \in 1 .. Len(ss[k])
           /\ j < Len(ss[k]) => /\ Doing(O, ss, n + 1, O[k], j + 1)
                                /\ Pending(O, ss, n + 1) = Pending(O, ss, n)
           /\ j = Len(ss[k]) => /\ Pending(O, ss, n + 1) = Pending(O, ss, n) \ {O[k]}
                                /\ Between(ss, n + 1)
<1>1. PICK l \in DOMAIN ss : At(ss, n, l, j) /\ O[k] = O[l]
  BY Zenon DEF Doing
<1>2. l = k
  BY <1>1, Zenon DEF IsInjective
<1>3. At(ss, n, k, j)
  BY <1>1, <1>2, Zenon
<1>4. /\ j < Len(ss[k]) => At(ss, n + 1, k, j + 1) /\ Walked(ss, n + 1) = Walked(ss, n)
      /\ j = Len(ss[k]) => Walked(ss, n + 1) = Walked(ss, n) \cup {k} /\ Between(ss, n + 1)
  BY <1>3, WalkStep, Zenon
<1>5. ASSUME j < Len(ss[k])
      PROVE  /\ Doing(O, ss, n + 1, O[k], j + 1)
             /\ Pending(O, ss, n + 1) = Pending(O, ss, n)
  BY <1>4, <1>5, Zenon DEF Doing, Pending
<1>6. ASSUME j = Len(ss[k])
      PROVE  Pending(O, ss, n + 1) = Pending(O, ss, n) \ {O[k]}
  <2> DEFINE W == Walked(ss, n)
             V == Walked(ss, n + 1)
  <2>1. V = W \cup {k}
    BY <1>4, <1>6, Zenon
  <2> HIDE DEF W, V
  <2>2. \A i \in DOMAIN ss : O[i] = O[k] => i = k
    BY Zenon DEF IsInjective
  <2>3. {O[i] : i \in {x \in DOMAIN ss : ss[x] # <<>> /\ x \notin V}}
          = {O[i] : i \in {x \in DOMAIN ss : ss[x] # <<>> /\ x \notin W}} \ {O[k]}
    BY <2>1, <2>2, Zenon
  <2> QED BY <2>3, Zenon DEF Pending, W, V
<1>7. j \in 1 .. Len(ss[k])
  BY <1>3, Zenon DEF At
<1> QED BY <1>4, <1>5, <1>6, <1>7, Zenon

-----------------------------------------------------------------------------
(* Finite sets, schemas and steps.                                         *)

\* The finite sets of columns and indexes: none, one, some of them, and two
\* sets together.
LEMMA FiniteFew == IsFiniteSet({}) /\ \A x : IsFiniteSet({x})
<1>1. IsFiniteSet({})
  <2>1. <<>> \in Seq({}) /\ \A s \in {} : \E n \in 1 .. Len(<<>>) : <<>>[n] = s
    OBVIOUS
  <2> QED BY <2>1, Zenon DEF IsFiniteSet
<1>2. ASSUME NEW x
      PROVE  IsFiniteSet({x})
  <2>1. <<x>> \in Seq({x}) /\ \A s \in {x} : \E n \in 1 .. Len(<<x>>) : <<x>>[n] = s
    OBVIOUS
  <2> QED BY <2>1, Zenon DEF IsFiniteSet
<1> QED BY <1>1, <1>2, Zenon

\* Subsets of finite sets are finite.
LEMMA FiniteSubset ==
    ASSUME NEW S, IsFiniteSet(S), NEW T \in SUBSET S
    PROVE  IsFiniteSet(T)
<1>1. PICK q \in Seq(S) : \A s \in S : \E n \in 1 .. Len(q) : q[n] = s
  BY Zenon DEF IsFiniteSet
<1>2. CASE T = {}
  BY <1>2, FiniteFew, Zenon
<1>3. CASE T # {}
  <2>1. PICK x : x \in T
    BY <1>3, Zenon
  <2> DEFINE r == [i \in 1 .. Len(q) |-> IF q[i] \in T THEN q[i] ELSE x]
  <2>2. r \in Seq(T) /\ Len(r) = Len(q)
    BY <2>1
  <2>3. \A s \in T : \E n \in 1 .. Len(r) : r[n] = s
    BY <1>1, <2>2, SMTT(30)
  <2> HIDE DEF r
  <2> QED BY <2>2, <2>3, Zenon DEF IsFiniteSet
<1> QED BY <1>2, <1>3, Zenon

\* So are unions of two.
LEMMA FiniteUnion ==
    ASSUME NEW S, IsFiniteSet(S), NEW T, IsFiniteSet(T)
    PROVE  IsFiniteSet(S \cup T)
<1>1. PICK q \in Seq(S) : \A s \in S : \E n \in 1 .. Len(q) : q[n] = s
  BY Zenon DEF IsFiniteSet
<1>2. PICK r \in Seq(T) : \A s \in T : \E n \in 1 .. Len(r) : r[n] = s
  BY Zenon DEF IsFiniteSet
<1> DEFINE c == q \o r
<1>3. c \in Seq(S \cup T) /\ Len(c) = Len(q) + Len(r) /\ Len(q) \in Nat /\ Len(r) \in Nat
  OBVIOUS
<1>4. /\ \A n \in 1 .. Len(q) : n \in 1 .. Len(c) /\ c[n] = q[n]
      /\ \A n \in 1 .. Len(r) : n + Len(q) \in 1 .. Len(c) /\ c[n + Len(q)] = r[n]
  BY <1>3
<1> HIDE DEF c
<1>5. \A s \in S \cup T : \E n \in 1 .. Len(c) : c[n] = s
  BY <1>1, <1>2, <1>4, Zenon
<1> QED BY <1>3, <1>5, Zenon DEF IsFiniteSet

\* Three sequences one after the other.
LEMMA ThreeParts ==
    ASSUME NEW X, NEW a \in Seq(X), NEW b \in Seq(X), NEW c \in Seq(X)
    PROVE  /\ (a \o b) \o c \in Seq(X)
           /\ Len((a \o b) \o c) = Len(a) + Len(b) + Len(c)
           /\ \A i \in 1 .. Len(a) : ((a \o b) \o c)[i] = a[i]
           /\ \A i \in 1 .. Len(b) : ((a \o b) \o c)[i + Len(a)] = b[i]
           /\ \A i \in 1 .. Len(c) : ((a \o b) \o c)[i + Len(b) + Len(a)] = c[i]
<1>1. Len(a) \in Nat /\ Len(b) \in Nat /\ Len(c) \in Nat
  OBVIOUS
<1> DEFINE d == a \o b
           r == d \o c
<1>2. /\ d \in Seq(X) /\ Len(d) = Len(a) + Len(b)
      /\ \A i \in 1 .. Len(a) : d[i] = a[i]
      /\ \A i \in 1 .. Len(b) : d[i + Len(a)] = b[i]
  <2>1. d \in Seq(X) /\ Len(d) = Len(a) + Len(b)
    OBVIOUS
  <2>2. \A i \in 1 .. Len(a) : d[i] = a[i]
    BY <1>1
  <2>3. \A i \in 1 .. Len(b) : d[i + Len(a)] = b[i]
    BY <1>1
  <2> QED BY <2>1, <2>2, <2>3, Zenon
<1> HIDE DEF d
<1>0. d \in Seq(X)
  BY <1>2, Zenon
<1>3. r \in Seq(X) /\ Len(r) = Len(d) + Len(c)
  BY <1>0
<1>4. \A i \in 1 .. Len(d) : r[i] = d[i]
  BY <1>0
<1>5. \A i \in 1 .. Len(c) : r[i + Len(d)] = c[i]
  BY <1>0
<1> HIDE DEF r
<1>6. Len(r) = Len(a) + Len(b) + Len(c)
  BY <1>1, <1>2, <1>3, Zenon
<1>7. \A i \in 1 .. Len(a) : r[i] = a[i]
  BY <1>1, <1>2, <1>4
<1>8. \A i \in 1 .. Len(b) : r[i + Len(a)] = b[i]
  <2> SUFFICES ASSUME NEW i \in 1 .. Len(b)
               PROVE  r[i + Len(a)] = b[i]
    BY Zenon
  <2>1. i + Len(a) \in 1 .. Len(d)
    BY <1>1, <1>2
  <2> QED BY <1>2, <1>4, <2>1, Zenon
<1>9. \A i \in 1 .. Len(c) : r[i + Len(b) + Len(a)] = c[i]
  <2> SUFFICES ASSUME NEW i \in 1 .. Len(c)
               PROVE  r[i + Len(b) + Len(a)] = c[i]
    BY Zenon
  <2>1. i + Len(b) + Len(a) = i + Len(d)
    BY <1>1, <1>2
  <2> QED BY <1>5, <2>1, Zenon
<1> QED BY <1>3, <1>6, <1>7, <1>8, <1>9, Zenon DEF r, d

-----------------------------------------------------------------------------
(* Schemas.                                                                *)

\* The name of a table decides on its key and on the columns of its indexes.
LEMMA TableNamed ==
    ASSUME NEW t, NEW d, TableOK(t, d)
    PROVE  /\ d.pk = KeyOf(Base(t))
           /\ \A i \in DOMAIN d.indices : d.indices[i] = IndexOf(Base(t))
<1>1. d.pk = KeyOf(Base(t)) /\ d.indices \in [DOMAIN d.indices -> {IndexOf(Base(t))}]
  BY Zenon DEF TableOK
<1>2. ASSUME NEW f, NEW e, NEW i \in DOMAIN f, f \in [DOMAIN f -> {e}]
      PROVE  f[i] = e
  BY <1>2, Zenon
<1> QED BY ONLY <1>1, <1>2, Zenon

\* The names of the tables that fix() makes are apart from all others.
LEMMA FinalBase ==
    /\ \A t \in FinalTables : Base(t) = t /\ Base(Temporary(t)) = t
    /\ \A t \in FinalTables : Temporary(t) \in Temporaries /\ Temporary(t) \notin FinalTables
    /\ \A t, u \in FinalTables : Temporary(t) = Temporary(u) => t = u
    /\ \A t \in AllTables : Base(t) \in FinalTables
<1>1. \A t, u \in FinalTables : Temporary(t) = Temporary(u) => t = u
  BY Zenon DEF Temporary
<1>2. \A t \in FinalTables : Temporary(t) \in Temporaries /\ Temporary(t) \notin FinalTables
  BY TableAssumption DEF Temporaries
<1>3. \A t \in FinalTables : Base(t) = t
  BY Zenon DEF Base
<1>4. ASSUME NEW t \in FinalTables
      PROVE  Base(Temporary(t)) = t
  BY <1>1, <1>2, Zenon DEF Base
<1>5. \A t \in AllTables : Base(t) \in FinalTables
  BY <1>3, <1>4, Zenon DEF AllTables, Temporaries
<1> QED BY <1>1, <1>2, <1>3, <1>4, <1>5, Zenon

-----------------------------------------------------------------------------
(* SqlSchemaDiffer: the steps as sets.                                     *)

\* Tables of both schemas are none of fix()'s temporary ones.
LEMMA BothFinal ==
    ASSUME NEW from, NEW to, Paired(from, to)
    PROVE  Both(from, to) \subseteq FinalTables
BY Zenon DEF Paired, Both

\* The fields of the steps, and the kinds of the sets.
LEMMA StepFields ==
    ASSUME NEW from, NEW to
    PROVE  /\ \A s \in DropIndexSteps(from, to) :
                 /\ s.step = "DropIndex"
                 /\ \E t \in DOMAIN from.def : \E i \in OldIndexes(from, to, t) : s = DropIndex(t, i)
           /\ \A s \in DropSteps(from, to) :
                 /\ s.step = "DropTables"
                 /\ \E t \in DOMAIN from.def \ DOMAIN to.def : s = DropTables({t})
           /\ \A s \in CreateSteps(from, to) :
                 /\ s.step = "CreateTable"
                 /\ \E t \in DOMAIN to.def \ DOMAIN from.def : s = CreateTable(t, to.def[t])
           /\ \A s \in AlterSteps(from, to) :
                 /\ s.step = "AlterTable" /\ IsChange(s)
                 /\ \E t \in Both(from, to) : s = ChangeOf(from, to, t)
           /\ \A s \in CreateIndexSteps(from, to) :
                 /\ s.step = "CreateIndex"
                 /\ \E t \in DOMAIN to.def : \E i \in NewIndexes(from, to, t) :
                       s = CreateIndex(t, i, to.def[t].indices[i])
           /\ \A s \in RenameSteps(from, to) :
                 /\ s.step = "AlterIndex"
                 /\ \E t \in Both(from, to) : \E r \in Renamed(from, to, t) :
                       s = AlterIndex(t, r[1], r[2])
<1>1. \A s \in DropIndexSteps(from, to) :
         /\ s.step = "DropIndex"
         /\ \E t \in DOMAIN from.def : \E i \in OldIndexes(from, to, t) : s = DropIndex(t, i)
  BY DEF DropIndexSteps, DropIndexStepsOf, DropIndex
<1>2. \A s \in DropSteps(from, to) :
         /\ s.step = "DropTables"
         /\ \E t \in DOMAIN from.def \ DOMAIN to.def : s = DropTables({t})
  BY DEF DropSteps, DropTables
<1>3. \A s \in CreateSteps(from, to) :
         /\ s.step = "CreateTable"
         /\ \E t \in DOMAIN to.def \ DOMAIN from.def : s = CreateTable(t, to.def[t])
  BY DEF CreateSteps, CreateTable
<1>4. \A s \in AlterSteps(from, to) :
         /\ s.step = "AlterTable" /\ IsChange(s)
         /\ \E t \in Both(from, to) : s = ChangeOf(from, to, t)
  <2>1. \A t : ChangeOf(from, to, t).step = "AlterTable"
    BY Zenon DEF ChangeOf, AlterTable
  <2> QED BY <2>1, Zenon DEF AlterSteps
<1>5. \A s \in CreateIndexSteps(from, to) :
         /\ s.step = "CreateIndex"
         /\ \E t \in DOMAIN to.def : \E i \in NewIndexes(from, to, t) :
               s = CreateIndex(t, i, to.def[t].indices[i])
  BY DEF CreateIndexSteps, CreateIndexStepsOf, CreateIndex
<1>6. \A s \in RenameSteps(from, to) :
         /\ s.step = "AlterIndex"
         /\ \E t \in Both(from, to) : \E r \in Renamed(from, to, t) :
               s = AlterIndex(t, r[1], r[2])
  BY DEF RenameSteps, RenameStepsOf, AlterIndex
<1> QED BY <1>1, <1>2, <1>3, <1>4, <1>5, <1>6, Zenon

-----------------------------------------------------------------------------
(* delay_foreign_key_creation.                                             *)

\* The kinds of steps the differ makes.
LEMMA DiffKinds ==
    ASSUME NEW from, NEW to, NEW s \in DiffSteps(from, to) \cup DelayedSteps(from, to)
    PROVE  s.step \in {"DropIndex", "DropTables", "CreateTable", "AlterTable", "CreateIndex", "AlterIndex"}
<1>1. CASE s \in DiffSteps(from, to)
  BY <1>1, StepFields, SMTT(30) DEF DiffSteps
<1>2. CASE s \in TrimmedSteps(from, to)
  BY <1>2 DEF TrimmedSteps, CreateTable
<1>3. CASE s \in LaterSteps(from, to)
  BY <1>3 DEF LaterSteps, AlterTable
<1> QED BY <1>1, <1>2, <1>3, Zenon DEF DelayedSteps, DiffSteps

\* The fields of the steps.
LEMMA StepShapes ==
    /\ \A n : DropTables(n).step = "DropTables" /\ DropTables(n).names = n
    /\ \A t, d : CreateTable(t, d).step = "CreateTable" /\ CreateTable(t, d).table = t
                    /\ CreateTable(t, d).def = d
    /\ \A t, i : DropIndex(t, i).step = "DropIndex" /\ DropIndex(t, i).table = t /\ DropIndex(t, i).index = i
    /\ \A t, i, d : CreateIndex(t, i, d).step = "CreateIndex" /\ CreateIndex(t, i, d).table = t
                       /\ CreateIndex(t, i, d).index = i /\ CreateIndex(t, i, d).def = d
    /\ \A t, i, j : AlterIndex(t, i, j).step = "AlterIndex" /\ AlterIndex(t, i, j).table = t
                       /\ AlterIndex(t, i, j).index = i /\ AlterIndex(t, i, j).new = j
BY Zenon DEF DropTables, CreateTable, DropIndex, CreateIndex, AlterIndex

\* The fields of an ALTER TABLE of the differ.
LEMMA ChangeFields ==
    ASSUME NEW from, NEW to, NEW t
    PROVE  LET s == ChangeOf(from, to, t)
               p == from.def[t].columns
               n == to.def[t].columns
           IN  /\ s.step = "AlterTable" /\ s.table = t /\ s.def = to.def[t]
               /\ s.drop = DOMAIN p \ DOMAIN n /\ s.add = DOMAIN n \ DOMAIN p
               /\ s.alter = {c \in DOMAIN p \cap DOMAIN n : ColumnDiffers(p[c], n[c])}
BY Zenon DEF ChangeOf, AlterTable

-----------------------------------------------------------------------------
(* fix_stupid_sqlite: the statements of every step.                        *)

\* The PRAGMAs that switch foreign keys off and on.
LEMMA SwitchFields ==
    /\ SwitchOff.step = "ForeignKeys" /\ SwitchOff.on = FALSE /\ SwitchOff.on \in BOOLEAN
    /\ SwitchOn.step = "ForeignKeys" /\ SwitchOn.on = TRUE /\ SwitchOn.on \in BOOLEAN
BY Zenon DEF SwitchOn, SwitchOff, ForeignKeys

\* The statements of fix(): as many as the new table has indexes, and six more.
LEMMA FixShape ==
    ASSUME Enumerated, NEW current, NEW next, NEW t, IsFiniteSet(DOMAIN next.indices)
    PROVE  /\ \E X : Fix(current, next, t) \in Seq(X)
           /\ Lists(IndexList(next), DOMAIN next.indices) /\ Len(IndexList(next)) \in Nat
           /\ FixForm(Fix(current, next, t), current, next, t)
<1> DEFINE q == IndexList(next)
           f1 == SwitchOff
           f2 == CreateTable(Temporary(t), [next EXCEPT !.indices = NoIndices])
           f3 == CopyRows(t, Temporary(t), DOMAIN current.columns \cap DOMAIN next.columns)
           f4 == DropTables({t})
           f5 == RenameTable(Temporary(t), t)
           a == <<f1, f2, f3, f4, f5>>
           b == [i \in DOMAIN q |-> CreateIndex(t, q[i], next.indices[q[i]])]
           f6 == SwitchOn
           c == <<f6>>
           X == {f1, f2, f3, f4, f5, f6}
                   \cup {CreateIndex(t, i, next.indices[i]) : i \in DOMAIN next.indices}
<1>1. Fix(current, next, t) = (a \o b) \o c
  BY Zenon DEF Fix, MapSeq, IndexList, SwitchOff, SwitchOn
<1>2. Lists(q, DOMAIN next.indices)
  BY Zenon DEF Enumerated, IndexList
<1>3. q \in Seq(DOMAIN next.indices) /\ Len(q) \in Nat /\ DOMAIN q = 1 .. Len(q)
  BY <1>2 DEF Lists
<1>4. a \in Seq(X) /\ Len(a) = 5
  <2>1. \A f, g, h, k, l, S : f \in S /\ g \in S /\ h \in S /\ k \in S /\ l \in S
            => <<f, g, h, k, l>> \in Seq(S)
    OBVIOUS
  <2>2. f1 \in X /\ f2 \in X /\ f3 \in X /\ f4 \in X /\ f5 \in X
    BY Zenon
  <2> HIDE DEF X, f1, f2, f3, f4, f5
  <2> QED BY <2>1, <2>2, Zenon
<1>5. b \in Seq(X) /\ Len(b) = Len(q) /\ \A i \in 1 .. Len(q) : b[i] = CreateIndex(t, q[i], next.indices[q[i]])
  <2>1. \A i \in 1 .. Len(q) : q[i] \in DOMAIN next.indices
    BY <1>3
  <2>2. b \in [1 .. Len(q) -> X]
    <3> SUFFICES ASSUME NEW i \in 1 .. Len(q)
                 PROVE  CreateIndex(t, q[i], next.indices[q[i]]) \in X
      BY <1>3, Zenon
    <3> QED BY <2>1, Zenon
  <2> HIDE DEF X, q
  <2> QED BY <1>3, <2>2
<1>6. c \in Seq(X) /\ Len(c) = 1 /\ c[1] = f6
  <2>1. f6 \in X
    BY Zenon
  <2> HIDE DEF X, f6
  <2> QED BY <2>1
<1>7. a[1] = f1 /\ a[2] = f2 /\ a[3] = f3 /\ a[4] = f4 /\ a[5] = f5
  BY Zenon
<1> DEFINE F == Fix(current, next, t)
<1> HIDE DEF a, b, c, q, X, F, f1, f2, f3, f4, f5, f6
<1>8. /\ F \in Seq(X) /\ Len(F) = Len(a) + Len(b) + Len(c)
      /\ \A i \in 1 .. Len(a) : F[i] = a[i]
      /\ \A i \in 1 .. Len(b) : F[i + Len(a)] = b[i]
      /\ \A i \in 1 .. Len(c) : F[i + Len(b) + Len(a)] = c[i]
  <2>1. a \in Seq(X) /\ b \in Seq(X) /\ c \in Seq(X) /\ F = (a \o b) \o c
    BY <1>1, <1>4, <1>5, <1>6, Zenon DEF F
  <2> DEFINE r == (a \o b) \o c
  <2>2. /\ r \in Seq(X) /\ Len(r) = Len(a) + Len(b) + Len(c)
        /\ \A i \in 1 .. Len(a) : r[i] = a[i]
        /\ \A i \in 1 .. Len(b) : r[i + Len(a)] = b[i]
        /\ \A i \in 1 .. Len(c) : r[i + Len(b) + Len(a)] = c[i]
    BY ONLY <2>1, ThreeParts, SMTT(30)
  <2>3. F = r
    BY <2>1, Zenon
  <2> HIDE DEF r
  <2> QED BY ONLY <2>2, <2>3, Zenon
<1>9. /\ F \in Seq(X) /\ Len(F) = 5 + Len(q) + 1
      /\ \A i \in 1 .. 5 : F[i] = a[i]
      /\ \A i \in 1 .. Len(q) : F[i + 5] = b[i]
      /\ \A i \in 1 .. 1 : F[i + Len(q) + 5] = c[i]
  BY ONLY <1>4, <1>5, <1>6, <1>8, Zenon
<1>10. Len(F) = Len(q) + 6
  BY <1>3, <1>9
<1>11. F[Len(q) + 6] = c[1]
  <2>1. 1 + Len(q) + 5 = Len(q) + 6 /\ 1 \in 1 .. 1
    BY <1>3
  <2> QED BY <1>9, <2>1, Zenon
<1>15. F[1] = f1 /\ F[2] = f2 /\ F[3] = f3 /\ F[4] = f4 /\ F[5] = f5
  BY <1>7, <1>9
<1>16. \A i \in 1 .. Len(q) : F[i + 5] = CreateIndex(t, q[i], next.indices[q[i]])
  BY <1>5, <1>9, Zenon
<1>17. F[Len(q) + 6] = f6
  BY <1>6, <1>11, Zenon
<1>18. FixForm(F, current, next, t)
  BY <1>10, <1>15, <1>16, <1>17, Zenon DEF FixForm, q, f1, f2, f3, f4, f5, f6
<1> QED BY <1>2, <1>3, <1>9, <1>18, Zenon DEF F, q

\* Only a table of both schemas is rewritten.
LEMMA RewrittenTable ==
    ASSUME NEW from, NEW to, NEW s \in DiffSteps(from, to), Rewrites(s)
    PROVE  s.table \in Both(from, to)
<1>0. s.step \in {"AlterTable", "AlterIndex"}
  BY Zenon DEF Rewrites
<1>1. s \in AlterSteps(from, to) \cup RenameSteps(from, to)
  BY <1>0, StepFields DEF DiffSteps
<1>2. CASE s \in AlterSteps(from, to)
  BY <1>2, StepFields DEF ChangeOf, AlterTable
<1>3. CASE s \in RenameSteps(from, to)
  BY <1>3, StepFields DEF AlterIndex
<1> QED BY <1>1, <1>2, <1>3, Zenon

\* The statements of a step are a sequence.
LEMMA BlockShape ==
    ASSUME Enumerated, NEW from, NEW to, SchemaOK(from), SchemaOK(to), NEW s \in DiffSteps(from, to)
    PROVE  \E X : Block(from, to, s) \in Seq(X)
<1>1. CASE Rewrites(s)
  <2>1. IsFiniteSet(DOMAIN to.def[s.table].indices)
    BY <1>1, RewrittenTable, Zenon DEF Both, SchemaOK, DefOK, TableOK
  <2>2. \E X : Fix(from.def[s.table], to.def[s.table], s.table) \in Seq(X)
    BY <2>1, FixShape, Zenon
  <2> QED BY <1>1, <2>2, Zenon DEF Block
<1>2. CASE ~Rewrites(s) /\ s.step = "CreateIndex" /\ s.table \in FixedTables(from, to)
  <2>1. Block(from, to, s) = <<>>
    BY <1>2, Zenon DEF Block
  <2>2. <<>> \in Seq({s})
    OBVIOUS
  <2> QED BY <2>1, <2>2, Zenon
<1>3. CASE ~Rewrites(s) /\ ~(s.step = "CreateIndex" /\ s.table \in FixedTables(from, to))
  <2>1. Block(from, to, s) = <<s>>
    BY <1>3, Zenon DEF Block
  <2>2. <<s>> \in Seq({s})
    OBVIOUS
  <2> QED BY <2>1, <2>2, Zenon
<1> QED BY <1>1, <1>2, <1>3, Zenon

-----------------------------------------------------------------------------
(* apply_next_step: what a statement makes of the tables.                  *)

\* Rendering keeps the names of columns.
LEMMA RenderedColumns ==
    ASSUME NEW columns, columns \in [DOMAIN columns -> Column]
    PROVE  /\ RenderColumns(columns) \in [DOMAIN columns -> Column]
           /\ DOMAIN RenderColumns(columns) = DOMAIN columns
           /\ \A c \in DOMAIN columns : RenderColumns(columns)[c] = RenderColumn(columns[c])
<1>1. \A c \in Column : RenderColumn(c) \in Column
  BY Zenon DEF Column, RenderColumn, Arities
<1> QED BY <1>1, Zenon DEF RenderColumns

\* A table without indexes.
LEMMA FiniteNone ==
    /\ DOMAIN NoIndices = {} /\ IsFiniteSet({})
    /\ \A X : NoIndices \in [DOMAIN NoIndices -> X]
BY FiniteFew, Zenon DEF NoIndices

\* CREATE TABLE makes a proper table.
LEMMA CreatedTableOK ==
    ASSUME NEW t, NEW d, TableOK(t, d)
    PROVE  LET new == [d EXCEPT !.columns = RenderColumns(@), !.indices = NoIndices]
           IN  /\ TableOK(t, new)
               /\ new.columns = RenderColumns(d.columns) /\ new.pk = d.pk
               /\ new.indices = NoIndices
<1> DEFINE cols == RenderColumns(d.columns)
           new == [d EXCEPT !.columns = RenderColumns(@), !.indices = NoIndices]
<1>1. /\ d = [columns |-> d.columns, pk |-> d.pk, indices |-> d.indices]
      /\ d.columns \in [DOMAIN d.columns -> Column]
      /\ IsFiniteSet(DOMAIN d.columns)
      /\ d.pk = KeyOf(Base(t))
  BY Zenon DEF TableOK
<1>2. cols \in [DOMAIN d.columns -> Column] /\ DOMAIN cols = DOMAIN d.columns
  BY <1>1, RenderedColumns, Zenon
<1>3. new = [columns |-> cols, pk |-> d.pk, indices |-> NoIndices]
  <2> DEFINE mid == [d EXCEPT !.columns = cols]
  <2> HIDE DEF cols
  <2>1. mid = [columns |-> cols, pk |-> d.pk, indices |-> d.indices]
    BY <1>1
  <2> HIDE DEF mid
  <2>2. [mid EXCEPT !.indices = NoIndices] = [columns |-> cols, pk |-> d.pk, indices |-> NoIndices]
    BY <2>1
  <2>3. new = [mid EXCEPT !.indices = NoIndices]
    BY Zenon DEF mid, cols
  <2> QED BY <2>2, <2>3, Zenon
<1> HIDE DEF cols, new
<1>4. new.columns = cols /\ new.pk = d.pk /\ new.indices = NoIndices
  BY <1>3, Zenon
<1>5. NoIndices \in [DOMAIN NoIndices -> {IndexOf(Base(t))}] /\ DOMAIN NoIndices \subseteq NamesOf(Base(t))
  BY FiniteNone, Zenon
<1>6. IsFiniteSet(DOMAIN NoIndices)
  BY FiniteNone, Zenon
<1>7. new = [columns |-> new.columns, pk |-> new.pk, indices |-> new.indices]
  BY <1>3, <1>4, Zenon
<1>8. TableOK(t, new)
  BY <1>1, <1>2, <1>4, <1>5, <1>6, <1>7, Zenon DEF TableOK
<1> QED BY <1>4, <1>8, Zenon DEF new, cols

\* What every statement does to the live tables.
LEMMA TablesAfterIs ==
    ASSUME NEW STATE s, DefOK(tables), StepOK(s), Accepts(s)
    PROVE  /\ s.step = "CreateTable" =>
                TablesAfter(s) = With(tables, s.table,
                   [s.def EXCEPT !.columns = RenderColumns(@), !.indices = NoIndices])
           /\ s.step = "DropTables" => TablesAfter(s) = Without(tables, s.names)
           /\ s.step = "AlterTable" =>
                TablesAfter(s) = With(tables, s.table, Altered(tables[s.table], s))
           /\ s.step = "RenameTable" =>
                TablesAfter(s) = With(Without(tables, {s.table}), s.new, tables[s.table])
           /\ s.step = "CreateIndex" =>
                TablesAfter(s) = With(tables, s.table, [tables[s.table] EXCEPT
                    !.indices = With(tables[s.table].indices, s.index, s.def)])
           /\ s.step = "DropIndex" =>
                TablesAfter(s) = With(tables, s.table, [tables[s.table] EXCEPT
                    !.indices = Without(tables[s.table].indices, {s.index})])
           /\ s.step = "AlterIndex" =>
                TablesAfter(s) = With(tables, s.table, [tables[s.table] EXCEPT
                    !.indices = With(Without(tables[s.table].indices, {s.index}), s.new,
                                     tables[s.table].indices[s.index])])
           /\ s.step \in {"CopyRows", "ForeignKeys"} => TablesAfter(s) = tables
<1>1. CASE s.step = "AlterTable"
  <2> DEFINE old == tables[s.table]
             cols == AlteredColumns(old, s)
             inds == AlteredIndices(old, s)
             mid == [old EXCEPT !.columns = cols]
  <2>1. TableOK(s.table, old)
    BY <1>1, Zenon DEF Accepts, DefOK
  <2>2. old = [columns |-> old.columns, pk |-> old.pk, indices |-> old.indices]
    BY <2>1, Zenon DEF TableOK
  <2> HIDE DEF cols, inds
  <2>3. mid = [columns |-> cols, pk |-> old.pk, indices |-> old.indices]
    BY <2>2
  <2>4. TablesAfter(s) = With(tables, s.table, [mid EXCEPT !.indices =
            Without(mid.indices, {i \in DOMAIN mid.indices :
                Range(mid.indices[i].columns) \cap (s.drop \cup s.alter) # {}})])
    BY <1>1, Zenon DEF TablesAfter, cols, AlteredColumns
  <2> HIDE DEF mid
  <2>5. mid.indices = old.indices
    BY <2>3, Zenon
  <2>6. TablesAfter(s) = With(tables, s.table, [mid EXCEPT !.indices = inds])
    BY <2>4, <2>5, Zenon DEF inds, AlteredIndices
  <2>7. [mid EXCEPT !.indices = inds] = [columns |-> cols, pk |-> old.pk, indices |-> inds]
    BY <2>3
  <2>8. [columns |-> cols, pk |-> old.pk, indices |-> inds] = Altered(old, s)
    BY Zenon DEF Altered, cols, inds
  <2>9. TablesAfter(s) = With(tables, s.table, Altered(old, s))
    BY <2>6, <2>7, <2>8, Zenon
  <2> QED BY <1>1, <2>9, Zenon
<1>2. CASE s.step = "CreateTable"
  BY <1>2, Zenon DEF TablesAfter
<1>3. CASE s.step = "DropTables"
  BY <1>3, Zenon DEF TablesAfter
<1>4. CASE s.step = "RenameTable"
  BY <1>4, Zenon DEF TablesAfter
<1>5. CASE s.step = "CreateIndex"
  BY <1>5, Zenon DEF TablesAfter
<1>6. CASE s.step = "DropIndex"
  BY <1>6, Zenon DEF TablesAfter
<1>7. CASE s.step = "AlterIndex"
  BY <1>7, Zenon DEF TablesAfter
<1>8. CASE s.step \in {"CopyRows", "ForeignKeys"}
  BY <1>8, Zenon DEF TablesAfter
<1> QED BY <1>1, <1>2, <1>3, <1>4, <1>5, <1>6, <1>7, <1>8 DEF StepOK

-----------------------------------------------------------------------------
(* apply_next_step: the tables and the rows stay well-formed.              *)

\* What remains of a function when arguments are taken away.
LEMMA WithoutFunction ==
    ASSUME NEW f, NEW S
    PROVE  /\ DOMAIN Without(f, S) = DOMAIN f \ S
           /\ \A x \in DOMAIN f \ S : Without(f, S)[x] = f[x]
           /\ Without(f, S) = [x \in DOMAIN f \ S |-> f[x]]
BY Zenon DEF Without

\* A table of which only the indexes change.
LEMMA IndexedTableOK ==
    ASSUME NEW t, NEW d, TableOK(t, d), NEW f,
           f \in [DOMAIN f -> {IndexOf(Base(t))}], IsFiniteSet(DOMAIN f),
           DOMAIN f \subseteq NamesOf(Base(t))
    PROVE  /\ TableOK(t, [d EXCEPT !.indices = f])
           /\ [d EXCEPT !.indices = f].columns = d.columns
           /\ [d EXCEPT !.indices = f].pk = d.pk
           /\ [d EXCEPT !.indices = f].indices = f
<1> DEFINE new == [d EXCEPT !.indices = f]
<1>1. /\ d = [columns |-> d.columns, pk |-> d.pk, indices |-> d.indices]
      /\ d.columns \in [DOMAIN d.columns -> Column]
      /\ IsFiniteSet(DOMAIN d.columns)
      /\ d.pk = KeyOf(Base(t))
  BY Zenon DEF TableOK
<1>2. new = [columns |-> d.columns, pk |-> d.pk, indices |-> f]
  BY <1>1
<1> HIDE DEF new
<1>3. new.columns = d.columns /\ new.pk = d.pk /\ new.indices = f
  BY <1>2, Zenon
<1>4. new = [columns |-> new.columns, pk |-> new.pk, indices |-> new.indices]
  BY <1>2, <1>3, Zenon
<1>5. TableOK(t, new)
  BY <1>1, <1>3, <1>4, Zenon DEF TableOK
<1> QED BY <1>3, <1>5, Zenon DEF new

\* ALTER TABLE makes a proper table of a proper one.
LEMMA AlteredTableOK ==
    ASSUME NEW t, NEW old, NEW s, TableOK(t, old), TableOK(t, s.def),
           s.add \cup s.alter \subseteq DOMAIN s.def.columns
    PROVE  TableOK(t, Altered(old, s))
<1> DEFINE cols == AlteredColumns(old, s)
           inds == AlteredIndices(old, s)
<1>1. /\ old.columns \in [DOMAIN old.columns -> Column] /\ IsFiniteSet(DOMAIN old.columns)
      /\ old.pk = KeyOf(Base(t))
      /\ old.indices \in [DOMAIN old.indices -> {IndexOf(Base(t))}]
      /\ IsFiniteSet(DOMAIN old.indices) /\ DOMAIN old.indices \subseteq NamesOf(Base(t))
      /\ s.def.columns \in [DOMAIN s.def.columns -> Column] /\ IsFiniteSet(DOMAIN s.def.columns)
  BY Zenon DEF TableOK
<1>2. \A c \in Column : RenderColumn(c) \in Column
  BY Zenon DEF Column, RenderColumn, Arities
<1>3. cols \in [DOMAIN cols -> Column] /\ DOMAIN cols = (DOMAIN old.columns \ s.drop) \cup s.add
  BY <1>1, <1>2, Zenon DEF AlteredColumns
<1>4. IsFiniteSet(DOMAIN cols)
  <2>1. IsFiniteSet(DOMAIN old.columns \ s.drop)
    BY <1>1, FiniteSubset, Zenon
  <2>2. IsFiniteSet(s.add)
    BY <1>1, FiniteSubset, Zenon
  <2> QED BY <1>3, <2>1, <2>2, FiniteUnion, Zenon
<1>5. /\ inds \in [DOMAIN inds -> {IndexOf(Base(t))}] /\ DOMAIN inds \subseteq DOMAIN old.indices
  BY <1>1, Zenon DEF AlteredIndices, Without
<1>6. IsFiniteSet(DOMAIN inds) /\ DOMAIN inds \subseteq NamesOf(Base(t))
  BY <1>1, <1>5, FiniteSubset, Zenon
<1> DEFINE new == Altered(old, s)
<1>7. new = [columns |-> cols, pk |-> old.pk, indices |-> inds]
  BY Zenon DEF Altered
<1> HIDE DEF cols, inds, new
<1>8. new.columns = cols /\ new.pk = old.pk /\ new.indices = inds
  BY <1>7, Zenon
<1>9. new = [columns |-> new.columns, pk |-> new.pk, indices |-> new.indices]
  BY <1>7, <1>8, Zenon
<1>10. TableOK(t, new)
  BY <1>1, <1>3, <1>4, <1>5, <1>6, <1>8, <1>9, Zenon DEF TableOK
<1> QED BY <1>10, Zenon DEF new

\* Tables stay proper when one is added or replaced.
LEMMA DefWith ==
    ASSUME NEW def, NEW t, NEW d, DefOK(def), t \in AllTables, TableOK(t, d)
    PROVE  DefOK(With(def, t, d))
<1> DEFINE new == With(def, t, d)
<1>1. /\ DOMAIN new = DOMAIN def \cup {t} /\ new[t] = d
      /\ \A y \in DOMAIN def : y # t => new[y] = def[y]
  BY Zenon DEF With
<1> HIDE DEF new
<1>2. ASSUME NEW y \in DOMAIN new
      PROVE  TableOK(y, new[y])
  BY <1>1, Zenon DEF DefOK
<1>3. DOMAIN new \subseteq AllTables
  BY <1>1, Zenon DEF DefOK
<1> QED BY <1>2, <1>3, Zenon DEF DefOK, new

\* They stay proper when some are dropped.
LEMMA DefWithout ==
    ASSUME NEW def, NEW S, DefOK(def)
    PROVE  DefOK(Without(def, S))
<1> DEFINE new == Without(def, S)
<1>1. /\ DOMAIN new = DOMAIN def \ S
      /\ \A y \in DOMAIN def \ S : new[y] = def[y]
  BY WithoutFunction, Zenon
<1> HIDE DEF new
<1>2. ASSUME NEW y \in DOMAIN new
      PROVE  TableOK(y, new[y])
  BY <1>1, Zenon DEF DefOK
<1>3. DOMAIN new \subseteq AllTables
  BY <1>1, Zenon DEF DefOK
<1> QED BY <1>2, <1>3, Zenon DEF DefOK, new

\* Every statement that the database accepts leaves proper tables.
LEMMA TablesStayOK ==
    ASSUME NEW STATE s, DefOK(tables), StepOK(s), Accepts(s)
    PROVE  DefOK(TablesAfter(s))
<1> DEFINE t == s.table
           old == tables[t]
           B == Base(t)
<1>0. t \in DOMAIN tables => t \in AllTables /\ TableOK(t, old)
  BY Zenon DEF DefOK
<1>1. CASE s.step = "CreateTable"
  <2>1. t \in AllTables /\ TableOK(t, s.def)
    BY <1>1, Zenon DEF StepOK
  <2> DEFINE new == [s.def EXCEPT !.columns = RenderColumns(@), !.indices = NoIndices]
  <2>2. TableOK(t, new)
    BY <2>1, CreatedTableOK, Zenon
  <2>3. TablesAfter(s) = With(tables, t, new)
    BY <1>1, TablesAfterIs, Zenon
  <2> HIDE DEF new
  <2> QED BY <2>1, <2>2, <2>3, DefWith, Zenon
<1>2. CASE s.step = "DropTables"
  <2>1. TablesAfter(s) = Without(tables, s.names)
    BY <1>2, TablesAfterIs, Zenon
  <2> QED BY <2>1, DefWithout, Zenon
<1>3. CASE s.step = "AlterTable"
  <2>1. t \in AllTables /\ TableOK(t, s.def) /\ s.add \cup s.alter \subseteq DOMAIN s.def.columns
    BY <1>3, Zenon DEF StepOK
  <2>2. TableOK(t, old)
    BY <1>0, <1>3, Zenon DEF Accepts
  <2>3. TableOK(t, Altered(old, s))
    BY <2>1, <2>2, AlteredTableOK, Zenon
  <2>4. TablesAfter(s) = With(tables, t, Altered(old, s))
    BY <1>3, TablesAfterIs, Zenon
  <2> QED BY <2>1, <2>3, <2>4, DefWith, Zenon
<1>4. CASE s.step = "RenameTable"
  <2>1. s.new \in AllTables /\ Base(s.new) = Base(t)
    BY <1>4, Zenon DEF StepOK
  <2>2. TableOK(t, old)
    BY <1>0, <1>4, Zenon DEF Accepts
  <2>3. TableOK(s.new, old)
    BY <2>1, <2>2, Zenon DEF TableOK
  <2>4. TablesAfter(s) = With(Without(tables, {t}), s.new, old)
    BY <1>4, TablesAfterIs, Zenon
  <2>5. DefOK(Without(tables, {t}))
    BY DefWithout, Zenon
  <2> QED BY <2>1, <2>3, <2>4, <2>5, DefWith, Zenon
<1>5. CASE s.step = "CreateIndex"
  <2> DEFINE f == With(old.indices, s.index, s.def)
  <2>1. s.def = IndexOf(B) /\ s.index \in NamesOf(B)
    BY <1>5, Zenon DEF StepOK
  <2>2. TableOK(t, old) /\ t \in AllTables
    BY <1>0, <1>5, Zenon DEF Accepts
  <2>3. f \in [DOMAIN f -> {IndexOf(B)}] /\ DOMAIN f = DOMAIN old.indices \cup {s.index}
    BY <2>1, <2>2, Zenon DEF TableOK, With
  <2>4. IsFiniteSet(DOMAIN f) /\ DOMAIN f \subseteq NamesOf(B)
    <3>1. IsFiniteSet(DOMAIN old.indices) /\ DOMAIN old.indices \subseteq NamesOf(B)
      BY <2>2, Zenon DEF TableOK
    <3>2. IsFiniteSet({s.index})
      BY FiniteFew, Zenon
    <3>3. IsFiniteSet(DOMAIN old.indices \cup {s.index})
      BY ONLY <3>1, <3>2, FiniteUnion, Zenon
    <3> HIDE DEF f
    <3> QED BY <2>1, <2>3, <3>1, <3>3, Zenon
  <2>5. TablesAfter(s) = With(tables, t, [old EXCEPT !.indices = f])
    BY <1>5, TablesAfterIs, Zenon
  <2> HIDE DEF f
  <2>6. TableOK(t, [old EXCEPT !.indices = f])
    BY <2>2, <2>3, <2>4, IndexedTableOK, Zenon
  <2> QED BY <2>2, <2>5, <2>6, DefWith, Zenon
<1>6. CASE s.step = "DropIndex"
  <2> DEFINE f == Without(old.indices, {s.index})
  <2>2. TableOK(t, old) /\ t \in AllTables
    BY <1>0, <1>6, Zenon DEF Accepts
  <2>3. f \in [DOMAIN f -> {IndexOf(B)}] /\ DOMAIN f \subseteq DOMAIN old.indices
    BY <2>2, Zenon DEF TableOK, Without
  <2>4. IsFiniteSet(DOMAIN f) /\ DOMAIN f \subseteq NamesOf(B)
    BY <2>2, <2>3, FiniteSubset, Zenon DEF TableOK
  <2>5. TablesAfter(s) = With(tables, t, [old EXCEPT !.indices = f])
    BY <1>6, TablesAfterIs, Zenon
  <2> HIDE DEF f
  <2>6. TableOK(t, [old EXCEPT !.indices = f])
    BY <2>2, <2>3, <2>4, IndexedTableOK, Zenon
  <2> QED BY <2>2, <2>5, <2>6, DefWith, Zenon
<1>7. CASE s.step = "AlterIndex"
  <2> DEFINE g == Without(old.indices, {s.index})
             f == With(g, s.new, old.indices[s.index])
  <2>1. s.new \in NamesOf(B)
    BY <1>7, Zenon DEF StepOK
  <2>2. TableOK(t, old) /\ t \in AllTables /\ s.index \in DOMAIN old.indices
    BY <1>0, <1>7, Zenon DEF Accepts
  <2>3. g \in [DOMAIN g -> {IndexOf(B)}] /\ DOMAIN g \subseteq DOMAIN old.indices
        /\ old.indices[s.index] = IndexOf(B)
    BY <2>2, Zenon DEF TableOK, Without
  <2>4. IsFiniteSet(DOMAIN g) /\ DOMAIN g \subseteq NamesOf(B)
    BY <2>2, <2>3, FiniteSubset, Zenon DEF TableOK
  <2>5. TablesAfter(s) = With(tables, t, [old EXCEPT !.indices = f])
    BY <1>7, TablesAfterIs, Zenon
  <2> HIDE DEF g
  <2>6. f \in [DOMAIN f -> {IndexOf(B)}] /\ DOMAIN f = DOMAIN g \cup {s.new}
    BY <2>3, Zenon DEF With
  <2>7. IsFiniteSet(DOMAIN f) /\ DOMAIN f \subseteq NamesOf(B)
    <3>1. IsFiniteSet({s.new})
      BY FiniteFew, Zenon
    <3>2. IsFiniteSet(DOMAIN g \cup {s.new})
      BY ONLY <2>4, <3>1, FiniteUnion, Zenon
    <3> HIDE DEF f
    <3> QED BY <2>1, <2>4, <2>6, <3>2, Zenon
  <2> HIDE DEF f
  <2>8. TableOK(t, [old EXCEPT !.indices = f])
    BY <2>2, <2>6, <2>7, IndexedTableOK, Zenon
  <2> QED BY <2>2, <2>5, <2>8, DefWith, Zenon
<1>8. CASE s.step \in {"CopyRows", "ForeignKeys"}
  BY <1>8, TablesAfterIs, Zenon
<1> QED BY <1>1, <1>2, <1>3, <1>4, <1>5, <1>6, <1>7, <1>8, Zenon DEF StepOK

\* What every statement does to the rows.
LEMMA RowsAfterIs ==
    ASSUME NEW STATE s, StepOK(s)
    PROVE  /\ s.step = "CreateTable" => RowsAfter(s) = With(rows, s.table, NoRows)
           /\ s.step = "DropTables" =>
                RowsAfter(s) = [u \in DOMAIN rows \ s.names |-> AfterDelete(u, s.names)]
           /\ s.step = "AlterTable" =>
                RowsAfter(s) = With(rows, s.table,
                    AddedTo([values |-> rows[s.table].values \ (s.drop \cup s.alter),
                             nulls |-> rows[s.table].nulls \ (s.drop \cup s.alter)],
                            s.def, s.add \cup s.alter))
           /\ s.step = "RenameTable" =>
                RowsAfter(s) = With(Without(rows, {s.table}), s.new, rows[s.table])
           /\ s.step = "CopyRows" =>
                RowsAfter(s) = With(rows, s.new,
                    AddedTo([values |-> rows[s.table].values \cap s.columns,
                             nulls |-> rows[s.table].nulls \cap s.columns],
                            tables[s.new], DOMAIN tables[s.new].columns \ s.columns))
           /\ s.step \in {"CreateIndex", "DropIndex", "AlterIndex", "ForeignKeys"} =>
                RowsAfter(s) = rows
<1>1. CASE s.step = "CreateTable"
  BY <1>1, Zenon DEF RowsAfter
<1>2. CASE s.step = "DropTables"
  BY <1>2, Zenon DEF RowsAfter
<1>3. CASE s.step = "AlterTable"
  BY <1>3, Zenon DEF RowsAfter
<1>4. CASE s.step = "RenameTable"
  BY <1>4, Zenon DEF RowsAfter
<1>5. CASE s.step = "CopyRows"
  BY <1>5, Zenon DEF RowsAfter
<1>6. CASE s.step \in {"CreateIndex", "DropIndex", "AlterIndex", "ForeignKeys"}
  BY <1>6, Zenon DEF RowsAfter
<1> QED BY <1>1, <1>2, <1>3, <1>4, <1>5, <1>6, Zenon DEF StepOK

\* The values of added columns: the old ones stay, no others than theirs come.
LEMMA AddedValues ==
    ASSUME NEW v, NEW n, NEW def, NEW names
    PROVE  LET r == AddedTo([values |-> v, nulls |-> n], def, names)
           IN  v \subseteq r.values /\ r.values \subseteq v \cup names
BY Zenon DEF AddedTo

\* Rows never have values in columns that their table has not.
LEMMA RowsStayOK ==
    ASSUME NEW STATE s, DefOK(tables), RowsOK, StepOK(s), Accepts(s)
    PROVE  /\ DOMAIN RowsAfter(s) = DOMAIN TablesAfter(s)
           /\ \A t \in DOMAIN RowsAfter(s) : RowsAfter(s)[t].values \subseteq DOMAIN TablesAfter(s)[t].columns
<1> DEFINE t == s.table
           old == tables[t]
           R == RowsAfter(s)
           T == TablesAfter(s)
<1>0. /\ DOMAIN rows = DOMAIN tables
      /\ \A x \in DOMAIN tables : rows[x].values \subseteq DOMAIN tables[x].columns
      /\ NoRows.values = {}
  BY Zenon DEF RowsOK, NoRows
<1>00. \A x \in DOMAIN tables : TableOK(x, tables[x])
  BY Zenon DEF DefOK
<1>1. CASE s.step = "CreateTable"
  <2> DEFINE new == [s.def EXCEPT !.columns = RenderColumns(@), !.indices = NoIndices]
  <2>1. R = With(rows, t, NoRows) /\ T = With(tables, t, new)
    BY <1>1, RowsAfterIs, TablesAfterIs, Zenon
  <2> HIDE DEF new
  <2> QED BY <1>0, <2>1, Zenon DEF With
<1>2. CASE s.step = "DropTables"
  <2>1. R = [u \in DOMAIN rows \ s.names |-> AfterDelete(u, s.names)] /\ T = Without(tables, s.names)
    BY <1>2, RowsAfterIs, TablesAfterIs, Zenon
  <2>2. \A u : AfterDelete(u, s.names).values \subseteq rows[u].values
    BY <1>0, Zenon DEF AfterDelete
  <2> QED BY <1>0, <2>1, <2>2, Zenon DEF Without
<1>3. CASE s.step = "AlterTable"
  <2> DEFINE v == rows[t].values \ (s.drop \cup s.alter)
             n == rows[t].nulls \ (s.drop \cup s.alter)
             r == AddedTo([values |-> v, nulls |-> n], s.def, s.add \cup s.alter)
  <2>1. R = With(rows, t, r) /\ T = With(tables, t, Altered(old, s))
    BY <1>3, RowsAfterIs, TablesAfterIs, Zenon
  <2>2. /\ t \in DOMAIN tables /\ s.alter \subseteq DOMAIN old.columns /\ s.drop \cap s.alter = {}
    BY <1>3, Zenon DEF Accepts, StepOK
  <2>3. r.values \subseteq v \cup (s.add \cup s.alter)
    BY AddedValues
  <2>4. DOMAIN Altered(old, s).columns = (DOMAIN old.columns \ s.drop) \cup s.add
    BY Zenon DEF Altered, AlteredColumns
  <2>5. rows[t].values \subseteq DOMAIN old.columns
    BY <1>0, <2>2, Zenon
  <2>6. r.values \subseteq DOMAIN Altered(old, s).columns
    BY <2>2, <2>3, <2>4, <2>5, Zenon
  <2> HIDE DEF r
  <2> QED BY <1>0, <2>1, <2>6, Zenon DEF With
<1>4. CASE s.step = "RenameTable"
  <2>1. R = With(Without(rows, {t}), s.new, rows[t]) /\ T = With(Without(tables, {t}), s.new, old)
    BY <1>4, RowsAfterIs, TablesAfterIs, Zenon
  <2>2. t \in DOMAIN tables
    BY <1>4, Zenon DEF Accepts
  <2> QED BY <1>0, <2>1, <2>2 DEF With, Without
<1>5. CASE s.step = "CopyRows"
  <2> DEFINE v == rows[t].values \cap s.columns
             n == rows[t].nulls \cap s.columns
             r == AddedTo([values |-> v, nulls |-> n], tables[s.new],
                          DOMAIN tables[s.new].columns \ s.columns)
  <2>1. R = With(rows, s.new, r) /\ T = tables
    BY <1>5, RowsAfterIs, TablesAfterIs, Zenon
  <2>2. s.new \in DOMAIN tables /\ s.columns \subseteq DOMAIN tables[s.new].columns
    BY <1>5, Zenon DEF Accepts
  <2>3. r.values \subseteq v \cup (DOMAIN tables[s.new].columns \ s.columns)
    BY AddedValues
  <2>4. r.values \subseteq DOMAIN tables[s.new].columns
    BY <2>2, <2>3, Zenon
  <2> HIDE DEF r
  <2> QED BY <1>0, <2>1, <2>2, <2>4, Zenon DEF With
<1>6. CASE s.step \in {"CreateIndex", "DropIndex", "AlterIndex"}
  <2>1. R = rows
    BY <1>6, RowsAfterIs, Zenon
  <2>2. t \in DOMAIN tables /\ TableOK(t, old)
    BY <1>00, <1>6, Zenon DEF Accepts
  <2>3. old = [columns |-> old.columns, pk |-> old.pk, indices |-> old.indices]
    BY <2>2, Zenon DEF TableOK
  <2>4. \E f : T = With(tables, t, [old EXCEPT !.indices = f])
    BY <1>6, TablesAfterIs, Zenon
  <2>5. PICK f : T = With(tables, t, [old EXCEPT !.indices = f])
    BY <2>4, Zenon
  <2>6. [old EXCEPT !.indices = f].columns = old.columns
    BY <2>3, Zenon
  <2> QED BY <1>0, <2>1, <2>2, <2>5, <2>6, Zenon DEF With
<1>7. CASE s.step = "ForeignKeys"
  BY <1>0, <1>7, RowsAfterIs, TablesAfterIs, Zenon
<1> QED BY <1>1, <1>2, <1>3, <1>4, <1>5, <1>6, <1>7, Zenon DEF StepOK

=============================================================================
