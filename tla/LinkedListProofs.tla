---------------------------- MODULE LinkedListProofs ----------------------------
(***************************************************************************)
(* The lists, for any number of heads and entries.                         *)
(***************************************************************************)
EXTENDS LinkedList, NumberLemmas, FiniteSetTheorems

-----------------------------------------------------------------------------
(* Sequences without repetition. *)

Has(s, x) == \E k \in 1 .. Len(s) : s[k] = x
Once(s) == \A i, j \in 1 .. Len(s) : s[i] = s[j] => i = j

(* Elements of a sequence, as a set and by their places.                   *)
LEMMA HasIs ==
  ASSUME NEW S, NEW s \in Seq(S), NEW x
  PROVE  x \in ToSet(s) <=> Has(s, x)
BY DEF ToSet, Has

(* Sequences that agree at each place are the same.                        *)
LEMMA SameSeq ==
  ASSUME NEW S, NEW s \in Seq(S), NEW t \in Seq(S), Len(s) = Len(t),
         \A k \in 1 .. Len(s) : s[k] = t[k]
  PROVE  s = t
OBVIOUS

(* The concatenation of two sequences.                                     *)
LEMMA JoinIs ==
  ASSUME NEW S, NEW s \in Seq(S), NEW t \in Seq(S)
  PROVE  /\ s \o t \in Seq(S) /\ Len(s \o t) = Len(s) + Len(t)
         /\ \A j \in 1 .. Len(s) : (s \o t)[j] = s[j]
         /\ \A j \in 1 .. Len(t) : (s \o t)[Len(s) + j] = t[j]
         /\ \A x : Has(s \o t, x) <=> (Has(s, x) \/ Has(t, x))
<1>. DEFINE u == s \o t
<1>1. /\ u \in Seq(S) /\ Len(u) = Len(s) + Len(t)
      /\ \A j \in 1 .. Len(s) : u[j] = s[j]
      /\ \A j \in 1 .. Len(t) : u[Len(s) + j] = t[j]
  OBVIOUS
<1>2. ASSUME NEW x, Has(s, x) PROVE Has(u, x)
  BY <1>1, <1>2 DEF Has
<1>3. ASSUME NEW x, Has(t, x) PROVE Has(u, x)
  <2>1. PICK j \in 1 .. Len(t) : t[j] = x
    BY <1>3 DEF Has
  <2>2. Len(s) + j \in 1 .. Len(u)
    BY <1>1
  <2>. QED BY <2>1, <2>2, <1>1 DEF Has
<1>4. ASSUME NEW x, Has(u, x) PROVE Has(s, x) \/ Has(t, x)
  <2>1. PICK j \in 1 .. Len(u) : u[j] = x
    BY <1>4 DEF Has
  <2>2. CASE j <= Len(s)
    BY <2>1, <2>2, <1>1 DEF Has
  <2>3. CASE j > Len(s)
    <3>1. j - Len(s) \in 1 .. Len(t) /\ Len(s) + (j - Len(s)) = j
      BY <2>1, <2>3, <1>1
    <3>. QED BY <3>1, <2>1, <1>1 DEF Has
  <2>. QED BY <2>1, <2>2, <2>3, <1>1
<1>. QED BY <1>1, <1>2, <1>3, <1>4

(* Two sequences that share no element.                                    *)
LEMMA JoinOnce ==
  ASSUME NEW S, NEW s \in Seq(S), NEW t \in Seq(S), Once(s), Once(t),
         \A x : ~(Has(s, x) /\ Has(t, x))
  PROVE  Once(s \o t)
<1>. DEFINE joined == s \o t
<1>1. /\ joined \in Seq(S) /\ Len(joined) = Len(s) + Len(t)
      /\ \A j \in 1 .. Len(s) : joined[j] = s[j]
      /\ \A j \in 1 .. Len(t) : joined[Len(s) + j] = t[j]
  BY JoinIs
<1>2. PICK u : u = joined
  OBVIOUS
<1>. HIDE DEF joined
<1>3. PICK n \in Nat, m \in Nat : n = Len(s) /\ m = Len(t)
  OBVIOUS
<1>4. /\ u \in Seq(S) /\ Len(u) = n + m
      /\ \A j \in 1 .. n : u[j] = s[j]
      /\ \A j \in 1 .. m : u[n + j] = t[j]
  BY <1>1, <1>2, <1>3
<1>5. ASSUME NEW k \in 1 .. Len(u)
      PROVE  \/ k \in 1 .. n /\ u[k] = s[k]
             \/ k - n \in 1 .. m /\ u[k] = t[k - n]
  <2>1. CASE k <= n
    BY <2>1, <1>4
  <2>2. CASE k > n
    <3>1. k - n \in 1 .. m /\ n + (k - n) = k
      BY <2>2, <1>4
    <3>2. u[n + (k - n)] = t[k - n]
      BY <3>1, <1>4
    <3>. QED BY <3>1, <3>2
  <2>. QED BY <2>1, <2>2, <1>4
<1>6. \A j \in 1 .. n, k \in 1 .. m : s[j] # t[k]
  BY <1>3 DEF Has
<1>7. ASSUME NEW i \in 1 .. Len(u), NEW j \in 1 .. Len(u), u[i] = u[j] PROVE i = j
  <2>1. \/ i \in 1 .. n /\ j \in 1 .. n /\ s[i] = s[j]
        \/ i - n \in 1 .. m /\ j - n \in 1 .. m /\ t[i - n] = t[j - n]
    BY <1>5, <1>6, <1>7
  <2>2. i \in Int /\ j \in Int
    BY <1>4
  <2>3. CASE i \in 1 .. n /\ j \in 1 .. n /\ s[i] = s[j]
    BY <2>3, <1>3 DEF Once
  <2>4. CASE i - n \in 1 .. m /\ j - n \in 1 .. m /\ t[i - n] = t[j - n]
    <3>1. i - n = j - n
      BY <2>4, <1>3 DEF Once
    <3>. QED BY <3>1, <2>2
  <2>. QED BY <2>1, <2>3, <2>4
<1>8. Once(u)
  BY <1>7 DEF Once
<1>. QED BY <1>2, <1>8 DEF joined

(* An element put in front of the k-th.                                    *)
LEMMA InsertIs ==
  ASSUME NEW S, NEW s \in Seq(S), NEW e \in S, NEW k \in 1 .. Len(s) + 1
  PROVE  /\ InsertAt(s, k, e) \in Seq(S) /\ Len(InsertAt(s, k, e)) = Len(s) + 1 /\ InsertAt(s, k, e)[k] = e
         /\ \A j \in 1 .. k - 1 : InsertAt(s, k, e)[j] = s[j]
         /\ \A j \in k .. Len(s) : InsertAt(s, k, e)[j + 1] = s[j]
<1>. DEFINE t == InsertAt(s, k, e)
<1>. DEFINE a == SubSeq(s, 1, k - 1)
            b == SubSeq(s, k, Len(s))
<1>1. a \in Seq(S) /\ Len(a) = k - 1 /\ \A j \in 1 .. k - 1 : a[j] = s[j]
  OBVIOUS
<1>2. b \in Seq(S) /\ Len(b) = Len(s) - k + 1 /\ \A j \in 1 .. Len(s) - k + 1 : b[j] = s[j + k - 1]
  OBVIOUS
<1>. HIDE DEF a, b
<1>. DEFINE c == a \o <<e>>
<1>3. c \in Seq(S) /\ Len(c) = k /\ c[k] = e /\ \A j \in 1 .. k - 1 : c[j] = s[j]
  BY <1>1
<1>4. t = c \o b
  BY DEF InsertAt, a, b
<1>. HIDE DEF c
<1>5. t \in Seq(S) /\ Len(t) = Len(s) + 1
  BY <1>2, <1>3, <1>4
<1>6. /\ \A j \in 1 .. k : t[j] = c[j]
      /\ \A j \in 1 .. Len(b) : t[k + j] = b[j]
  BY <1>2, <1>3, <1>4
<1>7. ASSUME NEW j \in k .. Len(s) PROVE t[j + 1] = s[j]
  <2>. DEFINE i == j - k + 1
  <2>1. i \in 1 .. Len(b) /\ k + i = j + 1 /\ i + k - 1 = j /\ i \in 1 .. Len(s) - k + 1
    BY <1>2
  <2>. HIDE DEF i
  <2>2. t[k + i] = b[i] /\ b[i] = s[i + k - 1]
    BY <2>1, <1>2, <1>6
  <2>. QED BY <2>1, <2>2
<1>. QED BY <1>3, <1>5, <1>6, <1>7 DEF t

(* The k-th element taken out.                                             *)
LEMMA RemoveIs ==
  ASSUME NEW S, NEW s \in Seq(S), NEW k \in 1 .. Len(s)
  PROVE  /\ RemoveAt(s, k) \in Seq(S) /\ Len(RemoveAt(s, k)) = Len(s) - 1
         /\ \A j \in 1 .. k - 1 : RemoveAt(s, k)[j] = s[j]
         /\ \A j \in k .. Len(s) - 1 : RemoveAt(s, k)[j] = s[j + 1]
<1>. DEFINE t == RemoveAt(s, k)
<1>. DEFINE a == SubSeq(s, 1, k - 1)
            b == SubSeq(s, k + 1, Len(s))
<1>1. a \in Seq(S) /\ Len(a) = k - 1 /\ \A j \in 1 .. k - 1 : a[j] = s[j]
  OBVIOUS
<1>2. b \in Seq(S) /\ Len(b) = Len(s) - k /\ \A j \in 1 .. Len(s) - k : b[j] = s[j + k]
  OBVIOUS
<1>3. t = a \o b
  BY DEF RemoveAt
<1>. HIDE DEF a, b
<1>4. t \in Seq(S) /\ Len(t) = Len(s) - 1
  <2>0. a \in Seq(S) /\ b \in Seq(S)
    BY <1>1, <1>2
  <2>1. t \in Seq(S) /\ Len(t) = Len(a) + Len(b)
    BY <2>0, <1>3
  <2>2. k \in Int /\ Len(s) \in Int
    OBVIOUS
  <2>. QED BY <2>1, <2>2, <1>1, <1>2
<1>5. /\ \A j \in 1 .. k - 1 : t[j] = a[j]
      /\ \A j \in 1 .. Len(b) : t[k - 1 + j] = b[j]
  BY <1>1, <1>2, <1>3, JoinIs
<1>6. ASSUME NEW j \in k .. Len(s) - 1 PROVE t[j] = s[j + 1]
  <2>. DEFINE i == j - k + 1
  <2>1. i \in 1 .. Len(b) /\ k - 1 + i = j /\ i + k = j + 1 /\ i \in 1 .. Len(s) - k
    BY <1>2
  <2>. HIDE DEF i
  <2>2. t[k - 1 + i] = b[i] /\ b[i] = s[i + k]
    BY <2>1, <1>2, <1>5
  <2>. QED BY <2>1, <2>2
<1>. QED BY <1>1, <1>4, <1>5, <1>6 DEF t

(* What an insertion makes of the elements.                                *)
LEMMA InsertHas ==
  ASSUME NEW S, NEW s \in Seq(S), NEW e \in S, NEW k \in 1 .. Len(s) + 1
  PROVE  /\ \A x : Has(InsertAt(s, k, e), x) <=> (Has(s, x) \/ x = e)
         /\ Once(s) /\ ~Has(s, e) => Once(InsertAt(s, k, e))
<1>. DEFINE t == InsertAt(s, k, e)
<1>1. /\ t \in Seq(S) /\ Len(t) = Len(s) + 1 /\ t[k] = e
      /\ \A j \in 1 .. k - 1 : t[j] = s[j]
      /\ \A j \in k .. Len(s) : t[j + 1] = s[j]
  BY SMTT(30), InsertIs
<1>2. \A j \in 1 .. Len(t) : \/ j = k
                             \/ j \in 1 .. k - 1 /\ j \in 1 .. Len(s) /\ t[j] = s[j]
                             \/ j > k /\ j - 1 \in 1 .. Len(s) /\ t[j] = s[j - 1]
  <2>. SUFFICES ASSUME NEW j \in 1 .. Len(t), j > k PROVE j - 1 \in 1 .. Len(s) /\ t[j] = s[j - 1]
    BY <1>1
  <2>1. j - 1 \in k .. Len(s) /\ (j - 1) + 1 = j
    BY <1>1
  <2>. QED BY <2>1, <1>1
<1>3. ASSUME NEW x, Has(t, x) PROVE Has(s, x) \/ x = e
  BY <1>1, <1>2, <1>3 DEF Has
<1>4. ASSUME NEW x, Has(s, x) PROVE Has(t, x)
  <2>1. PICK j \in 1 .. Len(s) : s[j] = x
    BY <1>4 DEF Has
  <2>2. CASE j < k
    BY <2>1, <2>2, <1>1 DEF Has
  <2>3. CASE j >= k
    BY <2>1, <2>3, <1>1 DEF Has
  <2>. QED BY <2>2, <2>3
<1>5. Has(t, e)
  BY <1>1 DEF Has
<1>6. ASSUME Once(s), ~Has(s, e), NEW i \in 1 .. Len(t), NEW j \in 1 .. Len(t), t[i] = t[j]
      PROVE  i = j
  <2>1. Len(s) \in Nat /\ i \in Nat /\ j \in Nat
    BY <1>1
  <2>2. CASE i = k
    BY <1>1, <1>2, <1>6, <2>2 DEF Has
  <2>3. CASE j = k
    BY <1>1, <1>2, <1>6, <2>3 DEF Has
  <2>4. CASE i # k /\ j # k
    <3>1. PICK i0 \in 1 .. Len(s) : t[i] = s[i0] /\ ((i0 = i /\ i < k) \/ (i0 = i - 1 /\ i > k))
      BY <1>2, <2>4, <2>1
    <3>2. PICK j0 \in 1 .. Len(s) : t[j] = s[j0] /\ ((j0 = j /\ j < k) \/ (j0 = j - 1 /\ j > k))
      BY <1>2, <2>4, <2>1
    <3>3. i0 = j0
      BY <3>1, <3>2, <1>6 DEF Once
    <3>. QED BY <3>1, <3>2, <3>3, <2>1
  <2>. QED BY <2>2, <2>3, <2>4
<1>. QED BY <1>3, <1>4, <1>5, <1>6 DEF Once, t

(* What a removal makes of them.                                           *)
LEMMA RemoveHas ==
  ASSUME NEW S, NEW s \in Seq(S), NEW k \in 1 .. Len(s), Once(s)
  PROVE  /\ \A x : Has(RemoveAt(s, k), x) <=> (Has(s, x) /\ x # s[k])
         /\ Once(RemoveAt(s, k))
<1>. DEFINE t == RemoveAt(s, k)
<1>1. /\ t \in Seq(S) /\ Len(t) = Len(s) - 1
      /\ \A j \in 1 .. k - 1 : t[j] = s[j]
      /\ \A j \in k .. Len(s) - 1 : t[j] = s[j + 1]
  BY RemoveIs
<1>2. \A j \in 1 .. Len(t) : \/ j < k /\ j \in 1 .. Len(s) /\ t[j] = s[j]
                             \/ j >= k /\ j + 1 \in 1 .. Len(s) /\ t[j] = s[j + 1]
  BY <1>1
<1>3. ASSUME NEW x, Has(t, x) PROVE Has(s, x) /\ x # s[k]
  BY <1>1, <1>2, <1>3 DEF Has, Once
<1>4. ASSUME NEW x, Has(s, x), x # s[k] PROVE Has(t, x)
  <2>1. PICK j \in 1 .. Len(s) : s[j] = x
    BY <1>4 DEF Has
  <2>2. CASE j < k
    BY <2>1, <2>2, <1>1 DEF Has
  <2>3. CASE j > k
    <3>1. j - 1 \in k .. Len(s) - 1 /\ (j - 1) + 1 = j /\ j - 1 \in 1 .. Len(t)
      BY <2>1, <2>3, <1>1
    <3>. QED BY <3>1, <2>1, <1>1 DEF Has
  <2>. QED BY <2>1, <2>2, <2>3, <1>4
<1>5. Once(t)
  BY <1>1, <1>2 DEF Once
<1>. QED BY <1>3, <1>4, <1>5 DEF t

-----------------------------------------------------------------------------
(* What a ring shows: head h, then the elements of s, then the head again. *)

Cell(h, s, k) == IF k \in 1 .. Len(s) THEN s[k] ELSE h
Runs(next, h, s) == \A k \in 0 .. Len(s) : next[Cell(h, s, k)] = Cell(h, s, k + 1)
Shows(r, h, s) ==
  \A k \in 0 .. Len(s) : /\ r.next[Cell(h, s, k)] = Cell(h, s, k + 1)
                         /\ r.prev[Cell(h, s, k + 1)] = Cell(h, s, k)

(* Places in a ring.                                                       *)
LEMMA Cells ==
  ASSUME NEW S, NEW s \in Seq(S), NEW h
  PROVE  /\ Len(s) \in Nat
         /\ Cell(h, s, 0) = h /\ Cell(h, s, Len(s) + 1) = h
         /\ \A k \in 1 .. Len(s) : Cell(h, s, k) = s[k] /\ Has(s, s[k])
         /\ \A k \in Int : Cell(h, s, k) = h \/ Has(s, Cell(h, s, k))
         /\ Once(s) /\ ~Has(s, h) =>
              /\ \A i, j \in 0 .. Len(s) : Cell(h, s, i) = Cell(h, s, j) => i = j
              /\ \A i, j \in 1 .. Len(s) + 1 : Cell(h, s, i) = Cell(h, s, j) => i = j
<1>1. Len(s) \in Nat
  OBVIOUS
<1>. QED BY <1>1 DEF Cell, Has, Once

(* The definition of Met, unfolded: it exists whatever the pointers are.   *)
LEMMA MetIs ==
  ASSUME NEW next, NEW h
  PROVE  Met(next, h)[0] = h /\ \A k \in Nat : Met(next, h)[k + 1] = next[Met(next, h)[k]]
<1>. DEFINE Starts(g, n) == g = [k \in 0 .. n |-> IF k = 0 THEN h ELSE next[g[k - 1]]]
            T == {n \in Nat : \E g : Starts(g, n)}
<1>1. 0 \in T
  <2>. DEFINE g == [k \in 0 .. 0 |-> h]
  <2>1. Starts(g, 0)
    OBVIOUS
  <2>. QED BY <2>1
<1>2. ASSUME NEW n \in Nat, n \in T PROVE n + 1 \in T
  <2>1. PICK g : Starts(g, n)
    BY <1>2
  <2>. DEFINE f == [k \in 0 .. n + 1 |-> IF k = n + 1 THEN next[g[n]] ELSE g[k]]
  <2>2. ASSUME NEW k \in 0 .. n + 1 PROVE f[k] = IF k = 0 THEN h ELSE next[f[k - 1]]
    <3>1. CASE k = 0
      <4>1. f[0] = g[0] /\ g[0] = h
        BY <2>1
      <4>. QED BY <3>1, <4>1
    <3>2. CASE k \in 1 .. n
      <4>1. f[k] = g[k] /\ f[k - 1] = g[k - 1] /\ g[k] = next[g[k - 1]] /\ k # 0
        BY <2>1, <3>2
      <4>. QED BY <4>1
    <3>3. CASE k = n + 1
      <4>1. f[k] = next[g[n]] /\ f[k - 1] = g[n] /\ k # 0
        BY <3>3
      <4>. QED BY <4>1
    <3>. QED BY <3>1, <3>2, <3>3
  <2>3. Starts(f, n + 1)
    BY <2>2
  <2>. HIDE DEF f, Starts
  <2>. QED BY <2>3
<1>3. \A n \in Nat : n \in T
  <2>. HIDE DEF T
  <2>. QED BY <1>1, <1>2, NatInductive
<1>. DEFINE U == {n \in Nat : \A m \in Nat : \A g, f : n <= m /\ Starts(g, n) /\ Starts(f, m)
                                                     => g[n] = f[n]}
<1>4. \A n \in Nat : n \in U
  <2>1. 0 \in U
    <3>. SUFFICES ASSUME NEW m \in Nat, NEW g, NEW f, Starts(g, 0), Starts(f, m)
                  PROVE  g[0] = f[0]
      OBVIOUS
    <3>1. g[0] = h /\ f[0] = h
      OBVIOUS
    <3>. QED BY <3>1
  <2>2. ASSUME NEW n \in Nat, n \in U PROVE n + 1 \in U
    <3>. SUFFICES ASSUME NEW m \in Nat, NEW g, NEW f, n + 1 <= m, Starts(g, n + 1), Starts(f, m)
                  PROVE  g[n + 1] = f[n + 1]
      OBVIOUS
    <3>. DEFINE e == [k \in 0 .. n |-> g[k]]
    <3>1. Starts(e, n)
      <4>1. ASSUME NEW k \in 0 .. n PROVE e[k] = IF k = 0 THEN h ELSE next[e[k - 1]]
        <5>1. CASE k = 0
          <6>1. g[0] = h
            OBVIOUS
          <6>. QED BY <5>1, <6>1
        <5>2. CASE k > 0
          <6>1. g[k] = next[g[k - 1]] /\ e[k] = g[k] /\ e[k - 1] = g[k - 1]
            BY <5>2
          <6>. QED BY <5>2, <6>1
        <5>. QED BY <5>1, <5>2
      <4>. QED BY <4>1
    <3>2. e[n] = g[n] /\ n <= m
      OBVIOUS
    <3>. HIDE DEF e
    <3>3. g[n] = f[n]
      BY <2>2, <3>1, <3>2
    <3>4. g[n + 1] = next[g[n]] /\ f[n + 1] = next[f[n]]
      OBVIOUS
    <3>. QED BY <3>3, <3>4
  <2>. HIDE DEF U
  <2>. QED BY <2>1, <2>2, NatInductive
<1>. DEFINE G == [n \in Nat |-> (CHOOSE g : Starts(g, n))[n]]
<1>5. G = [k \in Nat |-> IF k = 0 THEN h ELSE next[G[k - 1]]]
  <2>1. ASSUME NEW k \in Nat PROVE G[k] = IF k = 0 THEN h ELSE next[G[k - 1]]
    <3>1. PICK g : Starts(g, k) /\ G[k] = g[k]
      <4>1. \E g : Starts(g, k)
        BY <1>3
      <4>. QED BY <4>1
    <3>2. CASE k = 0
      BY <3>1, <3>2
    <3>3. CASE k > 0
      <4>0. k - 1 \in Nat /\ k - 1 <= k
        BY <3>3
      <4>1. PICK f : Starts(f, k - 1) /\ G[k - 1] = f[k - 1]
        <5>0. k - 1 \in T
          BY <1>3, <4>0
        <5>1. \E f : Starts(f, k - 1)
          BY <5>0
        <5>2. G[k - 1] = (CHOOSE f : Starts(f, k - 1))[k - 1]
          BY <4>0
        <5>. HIDE DEF Starts, G
        <5>. QED BY <5>1, <5>2
      <4>2. f[k - 1] = g[k - 1]
        <5>1. k - 1 \in U
          BY <1>4, <4>0
        <5>. HIDE DEF Starts
        <5>. QED BY <5>1, <4>0, <4>1, <3>1
      <4>3. g[k] = next[g[k - 1]]
        BY <3>1, <3>3
      <4>. QED BY SMTT(30), <3>1, <3>3, <4>1, <4>2, <4>3
    <3>. QED BY <3>2, <3>3
  <2>. QED BY <2>1
<1>6. PICK m : m = [k \in Nat |-> IF k = 0 THEN h ELSE next[m[k - 1]]] /\ Met(next, h) = m
  <2>. HIDE DEF G
  <2>1. \E m : m = [k \in Nat |-> IF k = 0 THEN h ELSE next[m[k - 1]]]
    BY <1>5
  <2>. QED BY <2>1 DEF Met
<1>7. m[0] = h
  BY <1>6
<1>8. ASSUME NEW k \in Nat PROVE m[k + 1] = next[m[k]]
  <2>1. k + 1 \in Nat /\ k + 1 # 0 /\ (k + 1) - 1 = k
    OBVIOUS
  <2>. QED BY <1>6, <2>1
<1>. QED BY <1>6, <1>7, <1>8

(* No list is longer than there are entries.                               *)
LEMMA Short ==
  ASSUME NEW s \in Seq(Entries), Once(s)
  PROVE  EntryCount \in Nat /\ Len(s) \in Nat /\ Len(s) <= EntryCount
<1>1. IsFiniteSet(Entries)
  BY ListNodes
<1>2. EntryCount \in Nat
  BY <1>1, FS_CardinalityType DEF EntryCount
<1>. DEFINE f == [k \in 1 .. Len(s) |-> s[k]]
<1>3. f \in Injection(1 .. Len(s), Entries)
  BY DEF Once, Injection, IsInjective
<1>. HIDE DEF f
<1>4. Len(s) \in Nat
  OBVIOUS
<1>5. Cardinality(1 .. Len(s)) <= Cardinality(Entries)
  BY <1>1, <1>3, FS_Injection
<1>6. Cardinality(1 .. Len(s)) = Len(s)
  <2>1. PICK n \in Nat : n = Len(s)
    BY <1>4
  <2>2. Cardinality(1 .. n) = IF 1 > n THEN 0 ELSE n - 1 + 1
    BY ONLY FS_Interval
  <2>3. Cardinality(1 .. n) = n
    BY ONLY <2>2
  <2>. QED BY ONLY <2>1, <2>3
<1>. QED BY <1>2, <1>4, <1>5, <1>6 DEF EntryCount

(* Walking a ring shows its entries in order.                              *)
LEMMA RoundIs ==
  ASSUME NEW next, NEW h, NEW s \in Seq(Entries), Once(s), ~Has(s, h), Runs(next, h, s)
  PROVE  Round(next, h) = s
<1>. DEFINE met == Met(next, h)
            n == Len(s)
            ends == {k \in 0 .. EntryCount : met[k + 1] = h /\ \A j \in 1 .. k : met[j] # h}
<1>1. n \in Nat /\ EntryCount \in Nat /\ n <= EntryCount
  BY Short
<1>2. met[0] = h /\ \A k \in Nat : met[k + 1] = next[met[k]]
  BY MetIs
<1>3. Round(next, h) = [k \in 1 .. CHOOSE m \in ends : TRUE |-> met[k]]
  BY DEF Round
<1>. HIDE DEF met
<1>4. \A k \in 0 .. n + 1 : met[k] = Cell(h, s, k)
  <2>. DEFINE P == {k \in Nat : met[k] = Cell(h, s, k)}
  <2>1. 0 \in P
    BY <1>2, Cells
  <2>2. ASSUME NEW k \in 0 .. (n + 1) - 1, k \in P PROVE k + 1 \in P
    <3>1. k \in Nat /\ k \in 0 .. Len(s)
      BY <1>1
    <3>2. met[k + 1] = next[met[k]] /\ next[Cell(h, s, k)] = Cell(h, s, k + 1)
      BY <1>2, <3>1 DEF Runs
    <3>. QED BY <3>1, <3>2, <2>2
  <2>. HIDE DEF P, n
  <2>0. 0 \in Int /\ n + 1 \in Int
    BY <1>1
  <2>3. \A k \in 0 .. n + 1 : k \in P
    BY <2>0, <2>1, <2>2, UpTo
  <2>. QED BY <2>3 DEF P
<1>5. \A k \in 1 .. n : met[k] = s[k] /\ met[k] # h
  <2>. SUFFICES ASSUME NEW k \in 1 .. n PROVE met[k] = s[k] /\ met[k] # h
    OBVIOUS
  <2>1. k \in 0 .. n + 1
    BY <1>1
  <2>. QED BY <2>1, <1>4, Cells
<1>6. met[n + 1] = h
  BY <1>1, <1>4, Cells
<1>7. n \in ends
  BY <1>1, <1>5, <1>6
<1>8. ASSUME NEW k \in ends PROVE k = n
  <2>1. k \in Nat /\ met[k + 1] = h /\ \A j \in 1 .. k : met[j] # h
    BY <1>1
  <2>2. ~(k < n)
    <3>. SUFFICES ASSUME k < n PROVE FALSE
      OBVIOUS
    <3>1. k + 1 \in 1 .. n
      BY <1>1, <2>1
    <3>. QED BY <3>1, <2>1, <1>5
  <2>3. ~(k > n)
    <3>. SUFFICES ASSUME k > n PROVE FALSE
      OBVIOUS
    <3>1. n + 1 \in 1 .. k
      BY <1>1, <2>1
    <3>. QED BY <3>1, <2>1, <1>6
  <2>. QED BY <2>1, <2>2, <2>3, <1>1
<1>9. (CHOOSE m \in ends : TRUE) = n
  <2>. HIDE DEF ends, n
  <2>. QED BY <1>7, <1>8
<1>10. [k \in 1 .. n |-> met[k]] = s
  <2>. DEFINE t == [k \in 1 .. n |-> met[k]]
  <2>1. t \in Seq(Entries) /\ Len(t) = n /\ \A k \in 1 .. n : t[k] = s[k]
    BY <1>1, <1>5
  <2>. HIDE DEF t
  <2>2. t = s
    BY <2>1, SameSeq
  <2>. QED BY <2>2 DEF t
<1>. QED BY <1>3, <1>9, <1>10

(* A sequence turned round.                                                *)
LEMMA ReverseIs ==
  ASSUME NEW S, NEW s \in Seq(S), NEW t, t = Reverse(s)
  PROVE  /\ t \in Seq(S) /\ Len(t) = Len(s)
         /\ \A k \in 1 .. Len(s) : t[k] = s[Len(s) - k + 1]
         /\ \A x : Has(t, x) <=> Has(s, x)
         /\ Once(s) => Once(t)
         /\ \A h : \A k \in 0 .. Len(s) + 1 : Cell(h, t, k) = Cell(h, s, Len(s) + 1 - k)
<1>. DEFINE n == Len(s)
<1>1. n \in Nat /\ t = [k \in 1 .. n |-> s[n - k + 1]]
  BY DEF Reverse
<1>2. \A k \in 1 .. n : n - k + 1 \in 1 .. n /\ s[n - k + 1] \in S /\ n - (n - k + 1) + 1 = k
  BY <1>1
<1>3. t \in Seq(S) /\ Len(t) = n /\ \A k \in 1 .. n : t[k] = s[n - k + 1]
  BY <1>1, <1>2
<1>. HIDE DEF n
<1>4. \A k \in 1 .. n : s[k] = t[n - k + 1]
  BY <1>2, <1>3
<1>5. \A x : Has(t, x) <=> Has(s, x)
  <2>1. ASSUME NEW x, Has(t, x) PROVE Has(s, x)
    BY <2>1, <1>2, <1>3 DEF Has, n
  <2>2. ASSUME NEW x, Has(s, x) PROVE Has(t, x)
    <3>1. PICK k \in 1 .. n : s[k] = x
      BY <2>2 DEF Has, n
    <3>2. n - k + 1 \in 1 .. Len(t) /\ t[n - k + 1] = x
      BY <3>1, <1>2, <1>3, <1>4
    <3>. QED BY <3>2 DEF Has
  <2>. QED BY <2>1, <2>2
<1>6. Once(s) => Once(t)
  <2>. SUFFICES ASSUME Once(s), NEW i \in 1 .. n, NEW j \in 1 .. n, t[i] = t[j] PROVE i = j
    BY <1>3 DEF Once
  <2>1. n - i + 1 = n - j + 1
    BY ZenonT(40), <1>2, <1>3 DEF Once, n
  <2>. QED BY <2>1, <1>1
<1>7. ASSUME NEW h, NEW k \in 0 .. n + 1 PROVE Cell(h, t, k) = Cell(h, s, n + 1 - k)
  <2>1. CASE k \in 1 .. n
    <3>1. n + 1 - k = n - k + 1
      BY <1>1
    <3>. QED BY <2>1, <3>1, <1>2, <1>3 DEF Cell, n
  <2>2. CASE k \notin 1 .. n
    <3>1. n + 1 - k \notin 1 .. n
      BY <2>2, <1>1
    <3>. QED BY <2>2, <3>1, <1>3 DEF Cell, n
  <2>. QED BY <2>1, <2>2
<1>. QED BY <1>3, <1>5, <1>6, <1>7 DEF n

(* Both walks.                                                             *)
LEMMA WalksAre ==
  ASSUME NEW r, NEW h, NEW s \in Seq(Entries), Once(s), ~Has(s, h), Shows(r, h, s)
  PROVE  InOrder(r, h) = s /\ InReverse(r, h) = Reverse(s)
<1>1. Runs(r.next, h, s)
  BY DEF Shows, Runs
<1>2. PICK t : t = Reverse(s)
  OBVIOUS
<1>3. /\ t \in Seq(Entries) /\ Len(t) = Len(s) /\ Once(t) /\ ~Has(t, h) /\ Len(s) \in Nat
      /\ \A k \in 0 .. Len(s) + 1 : Cell(h, t, k) = Cell(h, s, Len(s) + 1 - k)
  BY <1>2, ReverseIs
<1>4. ASSUME NEW k \in 0 .. Len(t) PROVE r.prev[Cell(h, t, k)] = Cell(h, t, k + 1)
  <2>. DEFINE j == Len(s) - k
  <2>1. j \in 0 .. Len(s) /\ j + 1 = Len(s) + 1 - k /\ j = Len(s) + 1 - (k + 1)
        /\ k \in 0 .. Len(s) + 1 /\ k + 1 \in 0 .. Len(s) + 1
    BY <1>3
  <2>. HIDE DEF j
  <2>2. Cell(h, t, k) = Cell(h, s, j + 1) /\ Cell(h, t, k + 1) = Cell(h, s, j)
    BY <2>1, <1>3
  <2>. QED BY <2>1, <2>2 DEF Shows
<1>5. Runs(r.prev, h, t)
  BY <1>4 DEF Runs
<1>. QED BY <1>1, <1>2, <1>3, <1>5, RoundIs DEF InOrder, InReverse

-----------------------------------------------------------------------------
(* The pointer operations. *)

Pointers == [Nodes -> Nodes \cup {Poison}]
RingTyped(r) == r \in Rings

(* The nodes of a ring; a change of pointers that concerns only those of X. *)
On(h, s) == {x \in Nodes : x = h \/ Has(s, x)}
Aside(r, g, X) == \A x \in Nodes \ X : g.next[x] = r.next[x] /\ g.prev[x] = r.prev[x]

(* A ring of a head and entries.                                           *)
IsRing(r, h, s) ==
  /\ s \in Seq(Entries) /\ h \in Nodes /\ Once(s) /\ ~Has(s, h) /\ Shows(r, h, s)

(* The cells of a ring are nodes, each met once on the way.                *)
LEMMA RingCells ==
  ASSUME NEW r, NEW h, NEW s, IsRing(r, h, s)
  PROVE  /\ Len(s) \in Nat /\ Cell(h, s, 0) = h /\ Cell(h, s, Len(s) + 1) = h
         /\ \A k \in 1 .. Len(s) : Cell(h, s, k) = s[k] /\ Has(s, s[k]) /\ s[k] \in Entries /\ s[k] # h
         /\ \A k \in Int : Cell(h, s, k) \in On(h, s) /\ Cell(h, s, k) \in Nodes
         /\ \A i, j \in 0 .. Len(s) : Cell(h, s, i) = Cell(h, s, j) => i = j
         /\ \A i, j \in 1 .. Len(s) + 1 : Cell(h, s, i) = Cell(h, s, j) => i = j
         /\ \A x : Has(s, x) => x \in Entries /\ x \in Nodes
<1>1. s \in Seq(Entries) /\ h \in Nodes /\ Once(s) /\ ~Has(s, h)
  BY DEF IsRing
<1>2. \A x : Has(s, x) => x \in Entries /\ x \in Nodes
  BY <1>1 DEF Has, Nodes
<1>3. /\ Len(s) \in Nat
      /\ Cell(h, s, 0) = h /\ Cell(h, s, Len(s) + 1) = h
      /\ \A k \in 1 .. Len(s) : Cell(h, s, k) = s[k] /\ Has(s, s[k])
      /\ \A k \in Int : Cell(h, s, k) = h \/ Has(s, Cell(h, s, k))
      /\ \A i, j \in 0 .. Len(s) : Cell(h, s, i) = Cell(h, s, j) => i = j
      /\ \A i, j \in 1 .. Len(s) + 1 : Cell(h, s, i) = Cell(h, s, j) => i = j
  BY <1>1, Cells
<1>4. \A k \in Int : Cell(h, s, k) \in On(h, s) /\ Cell(h, s, k) \in Nodes
  BY <1>1, <1>2, <1>3 DEF On
<1>5. \A k \in 1 .. Len(s) : s[k] \in Entries /\ s[k] # h
  BY <1>1, <1>2, <1>3
<1>. QED BY <1>2, <1>3, <1>4, <1>5

(* A ring none of whose nodes is concerned stays.                          *)
LEMMA RingKept ==
  ASSUME NEW r, NEW g, NEW h, NEW s, IsRing(r, h, s), NEW X, Aside(r, g, X),
         X \cap On(h, s) = {}
  PROVE  IsRing(g, h, s)
<1>1. \A k \in Int : Cell(h, s, k) \in On(h, s) /\ Cell(h, s, k) \in Nodes
  BY RingCells
<1>2. \A k \in Int : /\ g.next[Cell(h, s, k)] = r.next[Cell(h, s, k)]
                     /\ g.prev[Cell(h, s, k)] = r.prev[Cell(h, s, k)]
  BY <1>1 DEF Aside
<1>3. Len(s) \in Nat
  BY RingCells
<1>4. Shows(g, h, s)
  BY <1>2, <1>3 DEF Shows, IsRing
<1>. QED BY <1>4 DEF IsRing

(* __list_add() between two neighbours of a ring.                          *)
LEMMA Inserted ==
  ASSUME NEW r, RingTyped(r), NEW h, NEW s, IsRing(r, h, s), NEW e \in Entries, ~Has(s, e), e # h,
         NEW m \in 1 .. Len(s) + 1, NEW g, g = LinkBetween(r, e, Cell(h, s, m - 1), Cell(h, s, m))
  PROVE  RingTyped(g) /\ IsRing(g, h, InsertAt(s, m, e)) /\ Aside(r, g, On(h, s) \cup {e})
<1>1. /\ Len(s) \in Nat /\ Cell(h, s, 0) = h /\ Cell(h, s, Len(s) + 1) = h
      /\ \A j \in Int : Cell(h, s, j) \in On(h, s) /\ Cell(h, s, j) \in Nodes
      /\ \A i, j \in 0 .. Len(s) : Cell(h, s, i) = Cell(h, s, j) => i = j
      /\ \A i, j \in 1 .. Len(s) + 1 : Cell(h, s, i) = Cell(h, s, j) => i = j
  BY RingCells
<1>2. s \in Seq(Entries) /\ h \in Nodes /\ Once(s) /\ ~Has(s, h) /\ e \in Nodes
  BY DEF IsRing, Nodes
<1>3. \A j \in Int : Cell(h, s, j) # e
  BY <1>1 DEF On
<1>0. PICK t : t = InsertAt(s, m, e)
  OBVIOUS
<1>a. PICK k \in 0 .. Len(s) : m = k + 1 /\ k = m - 1
  BY <1>1
<1>4. /\ t \in Seq(Entries) /\ Len(t) = Len(s) + 1 /\ t[k + 1] = e
      /\ \A j \in 1 .. k : t[j] = s[j]
      /\ \A j \in k + 1 .. Len(s) : t[j + 1] = s[j]
  <2>. DEFINE u == InsertAt(s, m, e)
  <2>1. s \in Seq(Entries)
    BY <1>2
  <2>2. /\ u \in Seq(Entries) /\ Len(u) = Len(s) + 1 /\ u[m] = e
        /\ \A j \in 1 .. m - 1 : u[j] = s[j]
        /\ \A j \in m .. Len(s) : u[j + 1] = s[j]
    BY <2>1, InsertIs
  <2>. HIDE DEF u
  <2>3. t = u
    BY <1>0 DEF u
  <2>. QED BY <2>2, <2>3, <1>a
<1>5. Once(t) /\ ~Has(t, h)
  BY <1>0, <1>2, InsertHas
<1>. DEFINE p == Cell(h, s, k)
            n == Cell(h, s, k + 1)
<1>6. p \in Nodes /\ n \in Nodes /\ p # e /\ n # e /\ p \in On(h, s) /\ n \in On(h, s)
  BY <1>1, <1>3
<1>7. /\ RingTyped(g)
      /\ \A x \in Nodes : g.next[x] = IF x = p THEN e ELSE IF x = e THEN n ELSE r.next[x]
      /\ \A x \in Nodes : g.prev[x] = IF x = e THEN p ELSE IF x = n THEN e ELSE r.prev[x]
  <2>. HIDE DEF p, n
  <2>1. g = LinkBetween(r, e, p, n)
    BY <1>a DEF p, n
  <2>2. g = [prev |-> [r.prev EXCEPT ![n] = e, ![e] = p], next |-> [r.next EXCEPT ![e] = n, ![p] = e]]
    BY <2>1 DEF LinkBetween
  <2>3. r.next \in Pointers /\ r.prev \in Pointers
    BY DEF Rings, RingTyped, Pointers
  <2>4. g.next = [r.next EXCEPT ![e] = n, ![p] = e] /\ g.prev = [r.prev EXCEPT ![n] = e, ![e] = p]
    BY <2>2
  <2>5. g.next \in Pointers /\ g.prev \in Pointers
    BY <1>2, <1>6, <2>3, <2>4 DEF Pointers
  <2>6. RingTyped(g)
    BY <2>2, <2>4, <2>5 DEF Rings, RingTyped, Pointers
  <2>. QED BY <1>2, <1>6, <2>3, <2>4, <2>6 DEF Pointers
<1>8. Aside(r, g, On(h, s) \cup {e})
  BY <1>6, <1>7 DEF Aside
<1>9. /\ \A j \in 0 .. k : Cell(h, t, j) = Cell(h, s, j)
      /\ Cell(h, t, k + 1) = e
      /\ \A j \in k + 2 .. Len(t) + 1 : Cell(h, t, j) = Cell(h, s, j - 1)
  <2>1. ASSUME NEW j \in 0 .. k PROVE Cell(h, t, j) = Cell(h, s, j)
    BY <1>1, <1>4 DEF Cell
  <2>2. Cell(h, t, k + 1) = e
    BY <1>1, <1>4 DEF Cell
  <2>3. ASSUME NEW j \in k + 2 .. Len(t) + 1 PROVE Cell(h, t, j) = Cell(h, s, j - 1)
    <3>1. CASE j = Len(t) + 1
      BY <3>1, <1>1, <1>4 DEF Cell
    <3>2. CASE j <= Len(t)
      <4>1. j - 1 \in k + 1 .. Len(s) /\ (j - 1) + 1 = j /\ j \in 1 .. Len(t) /\ j - 1 \in 1 .. Len(s)
        BY <3>2, <1>1, <1>4
      <4>. QED BY <4>1, <1>4 DEF Cell
    <3>3. j \in Int /\ Len(t) \in Int /\ j <= Len(t) + 1
      BY <1>1, <1>4
    <3>. QED BY <3>1, <3>2, <3>3
  <2>. QED BY <2>1, <2>2, <2>3
<1>10. ASSUME NEW j \in 0 .. Len(t)
       PROVE  g.next[Cell(h, t, j)] = Cell(h, t, j + 1) /\ g.prev[Cell(h, t, j + 1)] = Cell(h, t, j)
  <2>0. j \in Int /\ k \in Int /\ j >= 0 /\ j <= Len(s) + 1
    BY <1>1, <1>4
  <2>1. CASE j < k
    <3>1. j \in 0 .. Len(s) /\ j + 1 \in 1 .. Len(s) + 1 /\ k \in 0 .. Len(s) /\ k + 1 \in 1 .. Len(s) + 1
          /\ j \in 0 .. k /\ j + 1 \in 0 .. k /\ j # k /\ j + 1 # k + 1
      BY <2>0, <2>1, <1>1
    <3>2. Cell(h, s, j) # p /\ Cell(h, s, j + 1) # n
      BY <3>1, <1>1
    <3>3. r.next[Cell(h, s, j)] = Cell(h, s, j + 1) /\ r.prev[Cell(h, s, j + 1)] = Cell(h, s, j)
      BY <3>1 DEF IsRing, Shows
    <3>. QED BY <3>1, <3>2, <3>3, <1>1, <1>3, <1>7, <1>9
  <2>2. CASE j = k
    <3>1. Cell(h, t, j) = p /\ Cell(h, t, j + 1) = e
      BY <2>2, <2>0, <1>9
    <3>. HIDE DEF p, n
    <3>. QED BY <3>1, <1>2, <1>6, <1>7
  <2>3. CASE j = k + 1
    <3>1. Cell(h, t, k + 2) = n
      <4>1. k + 2 \in k + 2 .. Len(t) + 1 /\ (k + 2) - 1 = k + 1
        BY <1>1, <1>4
      <4>. QED BY <4>1, <1>9
    <3>2. j + 1 = k + 2
      BY <2>3
    <3>. QED BY <2>3, <3>1, <3>2, <1>2, <1>6, <1>7, <1>9
  <2>4. CASE j > k + 1
    <3>. DEFINE i == j - 1
    <3>1. /\ i \in 0 .. Len(s) /\ i + 1 \in 1 .. Len(s) + 1 /\ i # k /\ i + 1 # k + 1 /\ j - 1 = i
          /\ (j + 1) - 1 = i + 1 /\ k \in 0 .. Len(s) /\ k + 1 \in 1 .. Len(s) + 1
          /\ j \in k + 2 .. Len(t) + 1 /\ j + 1 \in k + 2 .. Len(t) + 1
      BY SMTT(30), <2>0, <2>4, <1>1, <1>4
    <3>. HIDE DEF i
    <3>2. Cell(h, s, i) # p /\ Cell(h, s, i + 1) # n
      BY <3>1, <1>1
    <3>3. r.next[Cell(h, s, i)] = Cell(h, s, i + 1) /\ r.prev[Cell(h, s, i + 1)] = Cell(h, s, i)
      BY <3>1 DEF IsRing, Shows
    <3>4. Cell(h, t, j) = Cell(h, s, i) /\ Cell(h, t, j + 1) = Cell(h, s, i + 1)
      BY <3>1, <1>9
    <3>. QED BY <3>1, <3>2, <3>3, <3>4, <1>1, <1>3, <1>7
  <2>. QED BY <2>0, <2>1, <2>2, <2>3, <2>4
<1>11. IsRing(g, h, t)
  BY <1>2, <1>4, <1>5, <1>10 DEF IsRing, Shows
<1>. QED BY <1>0, <1>7, <1>8, <1>11

(* __list_del() of the k-th entry.                                         *)
LEMMA Removed ==
  ASSUME NEW r, RingTyped(r), NEW h, NEW s, IsRing(r, h, s), NEW k \in 1 .. Len(s),
         NEW g, g = Unlink(r, s[k])
  PROVE  RingTyped(g) /\ IsRing(g, h, RemoveAt(s, k)) /\ Aside(r, g, On(h, s))
<1>1. /\ Len(s) \in Nat /\ Cell(h, s, 0) = h /\ Cell(h, s, Len(s) + 1) = h
      /\ \A j \in 1 .. Len(s) : Cell(h, s, j) = s[j] /\ s[j] # h
      /\ \A j \in Int : Cell(h, s, j) \in On(h, s) /\ Cell(h, s, j) \in Nodes
      /\ \A i, j \in 0 .. Len(s) : Cell(h, s, i) = Cell(h, s, j) => i = j
      /\ \A i, j \in 1 .. Len(s) + 1 : Cell(h, s, i) = Cell(h, s, j) => i = j
  BY RingCells
<1>2. s \in Seq(Entries) /\ h \in Nodes /\ Once(s) /\ ~Has(s, h)
  BY DEF IsRing
<1>3. PICK t : t = RemoveAt(s, k)
  OBVIOUS
<1>4. /\ t \in Seq(Entries) /\ Len(t) = Len(s) - 1
      /\ \A j \in 1 .. k - 1 : t[j] = s[j]
      /\ \A j \in k .. Len(s) - 1 : t[j] = s[j + 1]
  <2>. DEFINE u == RemoveAt(s, k)
  <2>1. s \in Seq(Entries)
    BY <1>2
  <2>2. /\ u \in Seq(Entries) /\ Len(u) = Len(s) - 1
        /\ \A j \in 1 .. k - 1 : u[j] = s[j]
        /\ \A j \in k .. Len(s) - 1 : u[j] = s[j + 1]
    BY <2>1, RemoveIs
  <2>. HIDE DEF u
  <2>3. t = u
    BY <1>3 DEF u
  <2>. QED BY <2>2, <2>3
<1>5. Once(t) /\ ~Has(t, h)
  BY <1>2, <1>3, RemoveHas
<1>. DEFINE x == s[k]
            p == Cell(h, s, k - 1)
            n == Cell(h, s, k + 1)
<1>6. /\ x \in Nodes /\ p \in Nodes /\ n \in Nodes /\ x # p /\ x # n
      /\ x \in On(h, s) /\ p \in On(h, s) /\ n \in On(h, s)
      /\ r.next[x] = n /\ r.prev[x] = p
  <2>1. x = Cell(h, s, k)
    BY <1>1
  <2>2. k - 1 \in 0 .. Len(s) /\ k \in 0 .. Len(s) /\ k + 1 \in 1 .. Len(s) + 1
        /\ k \in 1 .. Len(s) + 1 /\ (k - 1) + 1 = k /\ k - 1 # k /\ k # k + 1
    BY <1>1
  <2>3. r.next[Cell(h, s, k)] = n /\ r.prev[Cell(h, s, k)] = p
    BY <2>2 DEF IsRing, Shows
  <2>4. p # Cell(h, s, k) /\ n # Cell(h, s, k)
    BY <2>2, <1>1
  <2>. QED BY <2>1, <2>2, <2>3, <2>4, <1>1
<1>7. /\ RingTyped(g)
      /\ \A y \in Nodes : g.next[y] = IF y = p THEN n ELSE r.next[y]
      /\ \A y \in Nodes : g.prev[y] = IF y = n THEN p ELSE r.prev[y]
  <2>. HIDE DEF p, n, x
  <2>1. g = Unlink(r, x)
    BY DEF x
  <2>2. g = [prev |-> [r.prev EXCEPT ![n] = p], next |-> [r.next EXCEPT ![p] = n]]
    BY <1>6, <2>1 DEF Unlink
  <2>3. r.next \in Pointers /\ r.prev \in Pointers
    BY DEF Rings, RingTyped, Pointers
  <2>4. g.next = [r.next EXCEPT ![p] = n] /\ g.prev = [r.prev EXCEPT ![n] = p]
    BY <2>2
  <2>. QED BY <1>6, <2>2, <2>3, <2>4 DEF Rings, RingTyped, Pointers
<1>8. Aside(r, g, On(h, s))
  BY <1>6, <1>7 DEF Aside
<1>9. /\ \A j \in 0 .. k - 1 : Cell(h, t, j) = Cell(h, s, j)
      /\ \A j \in k .. Len(t) + 1 : Cell(h, t, j) = Cell(h, s, j + 1)
  <2>1. ASSUME NEW j \in 0 .. k - 1 PROVE Cell(h, t, j) = Cell(h, s, j)
    BY <1>1, <1>4 DEF Cell
  <2>2. ASSUME NEW j \in k .. Len(t) + 1 PROVE Cell(h, t, j) = Cell(h, s, j + 1)
    <3>1. CASE j = Len(t) + 1
      BY <3>1, <1>1, <1>4 DEF Cell
    <3>2. CASE j <= Len(t)
      <4>1. j \in k .. Len(s) - 1 /\ j \in 1 .. Len(t) /\ j + 1 \in 1 .. Len(s)
        BY <3>2, <1>1, <1>4
      <4>. QED BY <4>1, <1>4 DEF Cell
    <3>3. j \in Int /\ Len(t) \in Int /\ j <= Len(t) + 1
      BY <1>1, <1>4
    <3>. QED BY <3>1, <3>2, <3>3
  <2>. QED BY <2>1, <2>2
<1>10. ASSUME NEW j \in 0 .. Len(t)
       PROVE  g.next[Cell(h, t, j)] = Cell(h, t, j + 1) /\ g.prev[Cell(h, t, j + 1)] = Cell(h, t, j)
  <2>0. j \in Int /\ k \in Int /\ j >= 0 /\ j <= Len(s) - 1 /\ k >= 1 /\ k <= Len(s) /\ Len(s) \in Int
    BY <1>1, <1>4
  <2>1. CASE j < k - 1
    <3>1. j \in 0 .. Len(s) /\ j + 1 \in 1 .. Len(s) + 1 /\ k - 1 \in 0 .. Len(s)
          /\ k + 1 \in 1 .. Len(s) + 1 /\ j \in 0 .. k - 1 /\ j + 1 \in 0 .. k - 1
          /\ j # k - 1 /\ j + 1 # k + 1
      BY <2>0, <2>1
    <3>2. Cell(h, s, j) # p /\ Cell(h, s, j + 1) # n
      BY <3>1, <1>1
    <3>3. r.next[Cell(h, s, j)] = Cell(h, s, j + 1) /\ r.prev[Cell(h, s, j + 1)] = Cell(h, s, j)
      BY <3>1 DEF IsRing, Shows
    <3>4. Cell(h, t, j) = Cell(h, s, j) /\ Cell(h, t, j + 1) = Cell(h, s, j + 1)
      BY <3>1, <1>9
    <3>. QED BY <3>1, <3>2, <3>3, <3>4, <1>1, <1>7
  <2>2. CASE j = k - 1
    <3>1. Cell(h, t, j) = p
      <4>1. j \in 0 .. k - 1
        BY <2>0, <2>2
      <4>. QED BY <4>1, <2>2, <1>9
    <3>2. Cell(h, t, j + 1) = n
      <4>1. j + 1 = k /\ k \in k .. Len(t) + 1
        BY <2>0, <2>2, <1>4
      <4>. QED BY <4>1, <1>9
    <3>. HIDE DEF p, n
    <3>. QED BY <3>1, <3>2, <1>6, <1>7
  <2>3. CASE j > k - 1
    <3>. DEFINE i == j + 1
    <3>1. /\ i \in 0 .. Len(s) /\ i + 1 \in 1 .. Len(s) + 1 /\ k - 1 \in 0 .. Len(s)
          /\ k + 1 \in 1 .. Len(s) + 1 /\ j \in k .. Len(t) + 1 /\ i \in k .. Len(t) + 1
          /\ i # k - 1 /\ i + 1 # k + 1 /\ j + 1 = i
      BY <2>0, <2>3, <1>4
    <3>. HIDE DEF i
    <3>2. Cell(h, s, i) # p /\ Cell(h, s, i + 1) # n
      BY <3>1, <1>1
    <3>3. r.next[Cell(h, s, i)] = Cell(h, s, i + 1) /\ r.prev[Cell(h, s, i + 1)] = Cell(h, s, i)
      BY <3>1 DEF IsRing, Shows
    <3>4. Cell(h, t, j) = Cell(h, s, i) /\ Cell(h, t, i) = Cell(h, s, i + 1)
      BY <3>1, <1>9
    <3>5. Cell(h, s, i) \in Nodes /\ Cell(h, s, i + 1) \in Nodes
      BY <3>1, <1>1
    <3>. HIDE DEF p, n, x
    <3>. QED BY <3>1, <3>2, <3>3, <3>4, <3>5, <1>7
  <2>. QED BY <2>0, <2>1, <2>2, <2>3
<1>11. IsRing(g, h, t)
  BY <1>2, <1>4, <1>5, <1>10 DEF IsRing, Shows
<1>. QED BY <1>3, <1>7, <1>8, <1>11

(* A sequence with e where x was.                                          *)
Swapped(s, x, e) == [j \in DOMAIN s |-> IF s[j] = x THEN e ELSE s[j]]

(* list_replace() of the k-th entry by one that is in no list.             *)
LEMMA Replaced ==
  ASSUME NEW r, RingTyped(r), NEW h, NEW s, IsRing(r, h, s), NEW k \in 1 .. Len(s),
         NEW e \in Entries, ~Has(s, e), e # h, NEW g, g = ListReplace(r, s[k], e),
         NEW t, t = Swapped(s, s[k], e)
  PROVE  RingTyped(g) /\ IsRing(g, h, t) /\ Aside(r, g, On(h, s) \cup {e})
<1>1. /\ Len(s) \in Nat /\ Cell(h, s, 0) = h /\ Cell(h, s, Len(s) + 1) = h
      /\ \A j \in 1 .. Len(s) : Cell(h, s, j) = s[j] /\ s[j] # h /\ Has(s, s[j])
      /\ \A j \in Int : Cell(h, s, j) \in On(h, s) /\ Cell(h, s, j) \in Nodes
      /\ \A i, j \in 0 .. Len(s) : Cell(h, s, i) = Cell(h, s, j) => i = j
      /\ \A i, j \in 1 .. Len(s) + 1 : Cell(h, s, i) = Cell(h, s, j) => i = j
  BY RingCells
<1>2. s \in Seq(Entries) /\ h \in Nodes /\ Once(s) /\ ~Has(s, h) /\ e \in Nodes
  BY DEF IsRing, Nodes
<1>3. \A j \in Int : Cell(h, s, j) # e
  BY <1>1 DEF On
<1>4. t \in Seq(Entries) /\ Len(t) = Len(s) /\ \A j \in 1 .. Len(s) : t[j] = IF j = k THEN e ELSE s[j]
  <2>1. DOMAIN s = 1 .. Len(s) /\ \A j \in 1 .. Len(s) : s[j] \in Entries
    BY <1>2
  <2>2. \A j \in 1 .. Len(s) : t[j] = IF j = k THEN e ELSE s[j]
    BY <1>2, <2>1 DEF Once, Swapped
  <2>3. t = [j \in 1 .. Len(s) |-> IF s[j] = s[k] THEN e ELSE s[j]]
    BY <2>1 DEF Swapped
  <2>4. t \in Seq(Entries) /\ Len(t) = Len(s)
    BY <1>1, <2>1, <2>3
  <2>. QED BY <2>2, <2>4
<1>5. Once(t) /\ ~Has(t, h)
  BY <1>1, <1>2, <1>4 DEF Once, Has
<1>. DEFINE x == s[k]
            p == Cell(h, s, k - 1)
            n == Cell(h, s, k + 1)
<1>6. /\ x \in Nodes /\ p \in Nodes /\ n \in Nodes /\ x # p /\ x # n
      /\ x \in On(h, s) /\ p \in On(h, s) /\ n \in On(h, s)
      /\ r.next[x] = n /\ r.prev[x] = p /\ x # e /\ p # e /\ n # e
  <2>1. x = Cell(h, s, k)
    BY <1>1
  <2>2. k - 1 \in 0 .. Len(s) /\ k \in 0 .. Len(s) /\ k + 1 \in 1 .. Len(s) + 1
        /\ k \in 1 .. Len(s) + 1 /\ (k - 1) + 1 = k /\ k - 1 # k /\ k # k + 1
    BY <1>1
  <2>3. r.next[Cell(h, s, k)] = n /\ r.prev[Cell(h, s, k)] = p
    BY <2>2 DEF IsRing, Shows
  <2>4. p # Cell(h, s, k) /\ n # Cell(h, s, k)
    BY <2>2, <1>1
  <2>. QED BY <2>1, <2>2, <2>3, <2>4, <1>1, <1>3
<1>7. /\ RingTyped(g)
      /\ \A y \in Nodes : g.next[y] = IF y = p THEN e ELSE IF y = e THEN n ELSE r.next[y]
      /\ \A y \in Nodes : g.prev[y] = IF y = e THEN p ELSE IF y = n THEN e ELSE r.prev[y]
  <2>. HIDE DEF p, n, x
  <2>. DEFINE n1 == [r.next EXCEPT ![e] = n]
              p1 == [r.prev EXCEPT ![n] = e]
              p2 == [p1 EXCEPT ![e] = p]
              n2 == [n1 EXCEPT ![p] = e]
  <2>1. g = ListReplace(r, x, e)
    BY DEF x
  <2>2. r.next \in Pointers /\ r.prev \in Pointers
    BY DEF Rings, RingTyped, Pointers
  <2>3. n1[e] = n /\ p1[x] = p /\ p2[e] = p
    BY <2>2, <1>2, <1>6 DEF Pointers
  <2>4. g = [next |-> n2, prev |-> p2]
    <3>1. n1 = [r.next EXCEPT ![e] = r.next[x]]
      BY <1>6
    <3>2. p1 = [r.prev EXCEPT ![n1[e]] = e]
      BY <2>3
    <3>3. p2 = [p1 EXCEPT ![e] = p1[x]]
      BY <2>3
    <3>4. n2 = [n1 EXCEPT ![p2[e]] = e]
      BY <2>3
    <3>. HIDE DEF n1, p1, p2, n2
    <3>. QED BY <2>1, <3>1, <3>2, <3>3, <3>4 DEF ListReplace
  <2>5. n1 \in Pointers /\ \A y \in Nodes : n1[y] = IF y = e THEN n ELSE r.next[y]
    BY <1>2, <1>6, <2>2 DEF Pointers
  <2>6. p1 \in Pointers /\ \A y \in Nodes : p1[y] = IF y = n THEN e ELSE r.prev[y]
    BY <1>2, <1>6, <2>2 DEF Pointers
  <2>. HIDE DEF n1, p1
  <2>7. n2 \in Pointers /\ \A y \in Nodes : n2[y] = IF y = p THEN e ELSE n1[y]
    BY <1>2, <1>6, <2>5 DEF Pointers
  <2>8. p2 \in Pointers /\ \A y \in Nodes : p2[y] = IF y = e THEN p ELSE p1[y]
    BY <1>2, <1>6, <2>6 DEF Pointers
  <2>. HIDE DEF n2, p2
  <2>9. g.next = n2 /\ g.prev = p2 /\ RingTyped(g)
    BY <2>4, <2>7, <2>8 DEF Rings, RingTyped, Pointers
  <2>. QED BY <2>5, <2>6, <2>7, <2>8, <2>9
<1>8. Aside(r, g, On(h, s) \cup {e})
  BY <1>6, <1>7 DEF Aside
<1>9. \A j \in 0 .. Len(s) + 1 : Cell(h, t, j) = IF j = k THEN e ELSE Cell(h, s, j)
  BY <1>1, <1>4 DEF Cell
<1>10. ASSUME NEW j \in 0 .. Len(t)
       PROVE  g.next[Cell(h, t, j)] = Cell(h, t, j + 1) /\ g.prev[Cell(h, t, j + 1)] = Cell(h, t, j)
  <2>0. /\ j \in 0 .. Len(s) /\ j + 1 \in 1 .. Len(s) + 1 /\ j \in 0 .. Len(s) + 1 /\ j + 1 \in 0 .. Len(s) + 1
        /\ k - 1 \in 0 .. Len(s) /\ k + 1 \in 1 .. Len(s) + 1 /\ j \in Int /\ k \in Int /\ j + 1 \in Int
    BY <1>1, <1>4
  <2>1. CASE j = k - 1
    <3>1. j # k /\ j + 1 = k
      BY <2>0, <2>1
    <3>2. Cell(h, t, j) = p /\ Cell(h, t, j + 1) = e
      BY <2>0, <2>1, <3>1, <1>9
    <3>. HIDE DEF p, n, x
    <3>. QED BY <3>2, <1>2, <1>6, <1>7
  <2>2. CASE j = k
    <3>1. j + 1 # k
      BY <2>0, <2>2
    <3>2. Cell(h, t, j) = e /\ Cell(h, t, j + 1) = n
      BY <2>0, <2>2, <3>1, <1>9
    <3>. HIDE DEF p, n, x
    <3>. QED BY <3>2, <1>2, <1>6, <1>7
  <2>3. CASE j # k /\ j # k - 1
    <3>1. j + 1 # k /\ j + 1 # k + 1
      BY <2>0, <2>3
    <3>2. Cell(h, s, j) # p /\ Cell(h, s, j + 1) # n
      BY <2>0, <2>3, <3>1, <1>1
    <3>3. r.next[Cell(h, s, j)] = Cell(h, s, j + 1) /\ r.prev[Cell(h, s, j + 1)] = Cell(h, s, j)
      BY <2>0 DEF IsRing, Shows
    <3>4. Cell(h, t, j) = Cell(h, s, j) /\ Cell(h, t, j + 1) = Cell(h, s, j + 1)
      BY <2>0, <2>3, <3>1, <1>9
    <3>5. /\ Cell(h, s, j) \in Nodes /\ Cell(h, s, j + 1) \in Nodes
          /\ Cell(h, s, j) # e /\ Cell(h, s, j + 1) # e
      BY <2>0, <1>1, <1>3
    <3>. HIDE DEF p, n, x
    <3>. QED BY <3>2, <3>3, <3>4, <3>5, <1>7
  <2>. QED BY <2>1, <2>2, <2>3
<1>11. IsRing(g, h, t)
  BY <1>2, <1>4, <1>5, <1>10 DEF IsRing, Shows
<1>. QED BY <1>7, <1>8, <1>11

(* list_splice() of a ring with entries.                                   *)
LEMMA Spliced ==
  ASSUME NEW r, RingTyped(r), NEW a, NEW s, IsRing(r, a, s), NEW h, NEW t, IsRing(r, h, t),
         Len(s) > 0, On(a, s) \cap On(h, t) = {}, NEW g, g = ListSplice(r, a, h)
  PROVE  /\ ~ListEmpty(r, a) /\ RingTyped(g) /\ IsRing(g, h, s \o t)
         /\ Aside(r, g, On(a, s) \cup On(h, t))
<1>1. /\ Len(s) \in Nat /\ Cell(a, s, 0) = a /\ Cell(a, s, Len(s) + 1) = a
      /\ \A k \in 1 .. Len(s) : Cell(a, s, k) = s[k] /\ s[k] # a /\ Has(s, s[k])
      /\ \A k \in Int : Cell(a, s, k) \in On(a, s) /\ Cell(a, s, k) \in Nodes
      /\ \A i, j \in 0 .. Len(s) : Cell(a, s, i) = Cell(a, s, j) => i = j
      /\ \A i, j \in 1 .. Len(s) + 1 : Cell(a, s, i) = Cell(a, s, j) => i = j
  BY RingCells
<1>2. /\ Len(t) \in Nat /\ Cell(h, t, 0) = h /\ Cell(h, t, Len(t) + 1) = h
      /\ \A k \in 1 .. Len(t) : Cell(h, t, k) = t[k] /\ t[k] # h /\ Has(t, t[k])
      /\ \A k \in Int : Cell(h, t, k) \in On(h, t) /\ Cell(h, t, k) \in Nodes
      /\ \A i, j \in 0 .. Len(t) : Cell(h, t, i) = Cell(h, t, j) => i = j
      /\ \A i, j \in 1 .. Len(t) + 1 : Cell(h, t, i) = Cell(h, t, j) => i = j
  BY RingCells
<1>3. /\ s \in Seq(Entries) /\ t \in Seq(Entries) /\ a \in Nodes /\ h \in Nodes
      /\ Once(s) /\ Once(t) /\ ~Has(t, h)
  BY DEF IsRing
<1>4. \A j, k \in Int : Cell(a, s, j) # Cell(h, t, k)
  BY <1>1, <1>2
<1>. DEFINE n == Len(s)
            first == Cell(a, s, 1)
            last == Cell(a, s, n)
            c == Cell(h, t, 1)
<1>5. /\ r.next[a] = first /\ r.prev[a] = last /\ r.next[h] = c /\ first # a
      /\ first \in Nodes /\ last \in Nodes /\ c \in Nodes /\ first # c /\ last # h /\ first # h /\ last # c
      /\ first \in On(a, s) /\ last \in On(a, s) /\ c \in On(h, t) /\ h \in On(h, t)
  <2>1. 0 \in 0 .. Len(s) /\ Len(s) \in 0 .. Len(s) /\ 1 \in 1 .. Len(s) /\ Len(s) \in Int
        /\ 0 \in 0 .. Len(t) /\ 1 \in Int /\ 0 \in Int
    BY <1>1, <1>2
  <2>2. r.next[Cell(a, s, 0)] = Cell(a, s, 1) /\ r.prev[Cell(a, s, Len(s) + 1)] = Cell(a, s, Len(s))
    BY <2>1 DEF IsRing, Shows
  <2>3. r.next[Cell(h, t, 0)] = Cell(h, t, 0 + 1)
    BY <2>1 DEF IsRing, Shows
  <2>4. first # a
    BY <2>1, <1>1
  <2>. QED BY <2>1, <2>2, <2>3, <2>4, <1>1, <1>2, <1>4
<1>6. ~ListEmpty(r, a)
  BY <1>5 DEF ListEmpty
<1>7. /\ RingTyped(g)
      /\ \A y \in Nodes : g.next[y] = IF y = last THEN c ELSE IF y = h THEN first ELSE r.next[y]
      /\ \A y \in Nodes : g.prev[y] = IF y = c THEN last ELSE IF y = first THEN h ELSE r.prev[y]
  <2>. HIDE DEF n, first, last, c
  <2>1. r.next \in Pointers /\ r.prev \in Pointers
    BY DEF Rings, RingTyped, Pointers
  <2>2. g = [prev |-> [r.prev EXCEPT ![first] = h, ![c] = last],
             next |-> [r.next EXCEPT ![h] = first, ![last] = c]]
    BY <1>5, <1>6 DEF ListSplice
  <2>3. g.next = [r.next EXCEPT ![h] = first, ![last] = c] /\ g.prev = [r.prev EXCEPT ![first] = h, ![c] = last]
    BY <2>2
  <2>4. g.next \in Pointers /\ g.prev \in Pointers
    BY <1>3, <1>5, <2>1, <2>3 DEF Pointers
  <2>5. RingTyped(g)
    BY <2>2, <2>3, <2>4 DEF Rings, RingTyped, Pointers
  <2>. QED BY <1>3, <1>5, <2>1, <2>3, <2>5 DEF Pointers
<1>8. Aside(r, g, On(a, s) \cup On(h, t))
  BY <1>5, <1>7 DEF Aside
<1>. DEFINE joined == s \o t
<1>9. PICK u : u = joined
  OBVIOUS
<1>10. /\ u \in Seq(Entries) /\ Len(u) = n + Len(t)
       /\ \A j \in 1 .. n : u[j] = s[j]
       /\ \A j \in 1 .. Len(t) : u[n + j] = t[j]
       /\ \A x : Has(u, x) <=> (Has(s, x) \/ Has(t, x))
  <2>1. /\ joined \in Seq(Entries) /\ Len(joined) = Len(s) + Len(t)
        /\ \A j \in 1 .. Len(s) : joined[j] = s[j]
        /\ \A j \in 1 .. Len(t) : joined[Len(s) + j] = t[j]
        /\ \A x : Has(joined, x) <=> (Has(s, x) \/ Has(t, x))
    BY <1>3, JoinIs
  <2>. HIDE DEF joined
  <2>. QED BY <2>1, <1>9
<1>11. Once(u) /\ ~Has(u, h)
  <2>1. ~Has(s, h)
    BY <1>2, <1>3, <1>1 DEF On
  <2>2. \A j \in 1 .. n, k \in 1 .. Len(t) : s[j] # t[k]
    BY <1>1, <1>2, <1>4
  <2>3. ASSUME NEW i \in 1 .. Len(u), NEW j \in 1 .. Len(u), u[i] = u[j] PROVE i = j
    <3>0. i \in Int /\ j \in Int /\ n \in Int /\ Len(t) \in Int /\ i <= n + Len(t) /\ j <= n + Len(t)
      BY <1>1, <1>2, <1>10
    <3>1. \/ i \in 1 .. n /\ u[i] = s[i]
          \/ i - n \in 1 .. Len(t) /\ n + (i - n) = i /\ u[i] = t[i - n]
      <4>1. CASE i <= n
        BY <3>0, <4>1, <1>10
      <4>2. CASE i > n
        <5>1. i - n \in 1 .. Len(t) /\ n + (i - n) = i
          BY <3>0, <4>2
        <5>. QED BY <5>1, <1>10
      <4>. QED BY <3>0, <4>1, <4>2
    <3>2. \/ j \in 1 .. n /\ u[j] = s[j]
          \/ j - n \in 1 .. Len(t) /\ n + (j - n) = j /\ u[j] = t[j - n]
      <4>1. CASE j <= n
        BY <3>0, <4>1, <1>10
      <4>2. CASE j > n
        <5>1. j - n \in 1 .. Len(t) /\ n + (j - n) = j
          BY <3>0, <4>2
        <5>. QED BY <5>1, <1>10
      <4>. QED BY <3>0, <4>1, <4>2
    <3>3. CASE i \in 1 .. n /\ u[i] = s[i] /\ j \in 1 .. n /\ u[j] = s[j]
      BY <3>3, <2>3, <1>3 DEF Once
    <3>4. CASE i - n \in 1 .. Len(t) /\ u[i] = t[i - n] /\ j - n \in 1 .. Len(t) /\ u[j] = t[j - n]
      <4>1. i - n = j - n
        BY <3>4, <2>3, <1>3 DEF Once
      <4>. QED BY <4>1, <3>0
    <3>. QED BY <3>1, <3>2, <3>3, <3>4, <2>2, <2>3
  <2>. QED BY <2>1, <2>3, <1>3, <1>10 DEF Once
<1>12. /\ Cell(h, u, 0) = h
       /\ \A j \in 1 .. n : Cell(h, u, j) = Cell(a, s, j)
       /\ \A j \in n + 1 .. Len(u) + 1 : Cell(h, u, j) = Cell(h, t, j - n)
  <2>1. Cell(h, u, 0) = h
    BY DEF Cell
  <2>2. ASSUME NEW j \in 1 .. n PROVE Cell(h, u, j) = Cell(a, s, j)
    BY <1>1, <1>2, <1>10 DEF Cell
  <2>3. ASSUME NEW j \in n + 1 .. Len(u) + 1 PROVE Cell(h, u, j) = Cell(h, t, j - n)
    <3>0. j \in Int /\ n \in Int /\ Len(t) \in Int /\ n >= 0 /\ j <= n + Len(t) + 1 /\ j > n
      BY <1>1, <1>2, <1>10
    <3>1. CASE j = Len(u) + 1
      BY <3>0, <3>1, <1>2, <1>10 DEF Cell
    <3>2. CASE j <= Len(u)
      <4>1. j - n \in 1 .. Len(t) /\ n + (j - n) = j /\ j \in 1 .. Len(u)
        BY <3>0, <3>2, <1>10
      <4>2. u[n + (j - n)] = t[j - n]
        BY <4>1, <1>10
      <4>. QED BY <4>1, <4>2 DEF Cell
    <3>. QED BY <3>0, <3>1, <3>2, <1>10
  <2>. QED BY <2>1, <2>2, <2>3
<1>13. ASSUME NEW j \in 0 .. Len(u)
       PROVE  g.next[Cell(h, u, j)] = Cell(h, u, j + 1) /\ g.prev[Cell(h, u, j + 1)] = Cell(h, u, j)
  <2>0. j \in Int /\ n \in Int /\ Len(t) \in Int /\ n >= 1 /\ j >= 0 /\ j <= n + Len(t) /\ Len(t) >= 0
        /\ Len(u) = n + Len(t)
    BY <1>1, <1>2, <1>10
  <2>1. CASE j = 0
    <3>1. Cell(h, u, j) = h /\ Cell(h, u, j + 1) = first
      BY <2>0, <2>1, <1>12
    <3>. HIDE DEF n, first, last, c
    <3>. QED BY <3>1, <1>3, <1>5, <1>7
  <2>2. CASE j > 0 /\ j < n
    <3>1. /\ j \in 1 .. n /\ j + 1 \in 1 .. n /\ j \in 0 .. Len(s) /\ n \in 0 .. Len(s)
          /\ j # n /\ j + 1 # 1 /\ 1 \in 1 .. Len(s) + 1 /\ j + 1 \in 1 .. Len(s) + 1
          /\ j \in Int /\ j + 1 \in Int /\ 0 \in Int /\ 1 \in Int
      BY <2>0, <2>2
    <3>2. Cell(h, u, j) = Cell(a, s, j) /\ Cell(h, u, j + 1) = Cell(a, s, j + 1)
      BY <3>1, <1>12
    <3>3. Cell(a, s, j) # last /\ Cell(a, s, j + 1) # first
      BY <3>1, <1>1
    <3>4. Cell(a, s, j) # h /\ Cell(a, s, j + 1) # c
      BY <3>1, <1>2, <1>4
    <3>5. r.next[Cell(a, s, j)] = Cell(a, s, j + 1) /\ r.prev[Cell(a, s, j + 1)] = Cell(a, s, j)
      BY <3>1 DEF IsRing, Shows
    <3>6. Cell(a, s, j) \in Nodes /\ Cell(a, s, j + 1) \in Nodes
      BY <3>1, <1>1
    <3>. HIDE DEF n, first, last, c
    <3>. QED BY <3>2, <3>3, <3>4, <3>5, <3>6, <1>7
  <2>3. CASE j = n
    <3>1. Cell(h, u, j) = last
      BY <2>0, <2>3, <1>12
    <3>2. Cell(h, u, j + 1) = c
      <4>1. j + 1 \in n + 1 .. Len(u) + 1 /\ (j + 1) - n = 1
        BY <2>0, <2>3
      <4>. QED BY <4>1, <1>12
    <3>. HIDE DEF n, first, last, c
    <3>. QED BY <3>1, <3>2, <1>5, <1>7
  <2>4. CASE j > n
    <3>. DEFINE i == j - n
    <3>1. /\ i \in 1 .. Len(t) /\ i \in 0 .. Len(t) /\ i + 1 \in 1 .. Len(t) + 1 /\ i # 0 /\ i + 1 # 1
          /\ j \in n + 1 .. Len(u) + 1 /\ j + 1 \in n + 1 .. Len(u) + 1 /\ (j + 1) - n = i + 1
          /\ i \in Int /\ i + 1 \in Int /\ n \in Int /\ 1 \in Int /\ 0 \in 0 .. Len(t) /\ 1 \in 1 .. Len(t) + 1
      BY <2>0, <2>4
    <3>2. Cell(h, u, j) = Cell(h, t, i) /\ Cell(h, u, j + 1) = Cell(h, t, i + 1)
      BY <3>1, <1>12
    <3>. HIDE DEF i
    <3>3. Cell(h, t, i) # h /\ Cell(h, t, i + 1) # c
      BY <3>1, <1>2
    <3>4. Cell(h, t, i) # last /\ Cell(h, t, i + 1) # first
      BY <3>1, <1>4
    <3>5. r.next[Cell(h, t, i)] = Cell(h, t, i + 1) /\ r.prev[Cell(h, t, i + 1)] = Cell(h, t, i)
      BY <3>1 DEF IsRing, Shows
    <3>6. Cell(h, t, i) \in Nodes /\ Cell(h, t, i + 1) \in Nodes
      BY <3>1, <1>2
    <3>. HIDE DEF n, first, last, c
    <3>. QED BY <3>2, <3>3, <3>4, <3>5, <3>6, <1>7
  <2>. QED BY <2>0, <2>1, <2>2, <2>3, <2>4
<1>14. IsRing(g, h, u)
  BY <1>3, <1>10, <1>11, <1>13 DEF IsRing, Shows
<1>. QED BY <1>6, <1>7, <1>8, <1>9, <1>14

(* Taking the entries off while walking leaves an empty ring.              *)
LEMMA Cleared ==
  ASSUME NEW r, RingTyped(r), NEW h, NEW s, IsRing(r, h, s), NEW g, g = DeleteWalking(r, h)
  PROVE  RingTyped(g) /\ IsRing(g, h, <<>>) /\ Aside(r, g, On(h, s))
<1>. DEFINE turn == [x \in [ring : Rings, pos : Nodes \cup {Poison}] |->
                       IF x.pos = h THEN x
                       ELSE [ring |-> ListDel(x.ring, x.pos), pos |-> x.ring.next[x.pos]]]
            at == Met(turn, [ring |-> r, pos |-> r.next[h]])
            n == Len(s)
            After(k, t) == /\ t \in Seq(Entries) /\ Len(t) = n - k
                           /\ \A j \in 1 .. n - k : t[j] = s[k + j]
            Taken(k, x, t) == /\ RingTyped(x.ring) /\ x.pos = Cell(h, t, 1) /\ After(k, t)
                              /\ x = [ring |-> x.ring, pos |-> x.pos]
                              /\ IsRing(x.ring, h, t) /\ Aside(r, x.ring, On(h, s))
            P == {k \in Nat : \E t : Taken(k, at[k], t)}
<1>1. n \in Nat /\ EntryCount \in Nat /\ n <= EntryCount /\ s \in Seq(Entries) /\ h \in Nodes
  BY Short DEF IsRing
<1>2. at[0] = [ring |-> r, pos |-> r.next[h]] /\ \A k \in Nat : at[k + 1] = turn[at[k]]
  <2>. HIDE DEF turn
  <2>. QED BY MetIs
<1>3. g = at[EntryCount].ring
  BY DEF DeleteWalking
<1>. HIDE DEF at
<1>4. 0 \in P
  <2>1. /\ Cell(h, s, 0) = h /\ 0 \in 0 .. Len(s) /\ 0 + 1 = 1
    BY RingCells
  <2>2. r.next[h] = Cell(h, s, 1)
    BY <2>1 DEF IsRing, Shows
  <2>3. After(0, s)
    BY <1>1
  <2>4. Aside(r, r, On(h, s))
    BY DEF Aside
  <2>5. at[0].ring = r /\ at[0].pos = Cell(h, s, 1) /\ at[0] = [ring |-> at[0].ring, pos |-> at[0].pos]
    BY <1>2, <2>2
  <2>. HIDE DEF After
  <2>6. Taken(0, at[0], s)
    BY <2>3, <2>4, <2>5
  <2>. HIDE DEF Taken
  <2>. QED BY <2>6
<1>5. ASSUME NEW k \in 0 .. n - 1, k \in P PROVE k + 1 \in P
  <2>1. PICK t : Taken(k, at[k], t)
    BY <1>5
  <2>. DEFINE q == at[k].ring
              e == t[1]
              t2 == RemoveAt(t, 1)
              q1 == Unlink(q, e)
              q2 == ListDel(q, e)
  <2>2. k \in Nat /\ k < n /\ Len(t) = n - k /\ t \in Seq(Entries) /\ 1 \in 1 .. Len(t)
        /\ \A j \in 1 .. n - k : t[j] = s[k + j]
    BY <1>1, <2>1
  <2>3. /\ RingTyped(q) /\ IsRing(q, h, t) /\ at[k].pos = Cell(h, t, 1) /\ Aside(r, q, On(h, s))
        /\ at[k] = [ring |-> q, pos |-> at[k].pos]
    BY <2>1
  <2>4. at[k].pos = e /\ e \in Entries /\ e \in Nodes /\ e # h /\ Cell(h, t, 1) = e /\ Has(t, e)
    BY <2>2, <2>3, RingCells
  <2>5. RingTyped(q1) /\ IsRing(q1, h, t2) /\ Aside(q, q1, On(h, t))
    BY <2>2, <2>3, Removed
  <2>6. t2 \in Seq(Entries) /\ Len(t2) = Len(t) - 1 /\ \A j \in 1 .. Len(t) - 1 : t2[j] = t[j + 1]
    BY <2>2, RemoveIs
  <2>7. ~Has(t2, e) /\ \A x : Has(t2, x) => Has(t, x)
    <3>1. Once(t)
      BY <2>3 DEF IsRing
    <3>. QED BY <2>2, <3>1, RemoveHas
  <2>8. q2 = Poisoned(q1, e)
    BY DEF ListDel
  <2>. HIDE DEF q, e, t2, q1, q2
  <2>9. RingTyped(q2) /\ Aside(q1, q2, {e})
    <3>1. q1.next \in Pointers /\ q1.prev \in Pointers
      BY <2>5 DEF Rings, RingTyped, Pointers
    <3>2. q2.next = [q1.next EXCEPT ![e] = Poison] /\ q2.prev = [q1.prev EXCEPT ![e] = Poison]
          /\ q2 = [next |-> q2.next, prev |-> q2.prev]
      BY <2>8 DEF Poisoned
    <3>3. q2.next \in Pointers /\ q2.prev \in Pointers
      BY <3>1, <3>2 DEF Pointers
    <3>4. RingTyped(q2)
      BY <3>2, <3>3 DEF Rings, RingTyped, Pointers
    <3>. QED BY <3>1, <3>2, <3>4 DEF Aside, Pointers
  <2>10. IsRing(q2, h, t2)
    <3>1. {e} \cap On(h, t2) = {}
      BY <2>4, <2>7 DEF On
    <3>. QED BY <2>5, <2>9, <3>1, RingKept
  <2>11. \A x : Has(t, x) => Has(s, x)
    <3>. SUFFICES ASSUME NEW x, Has(t, x) PROVE Has(s, x)
      OBVIOUS
    <3>1. PICK j \in 1 .. n - k : t[j] = x
      BY <2>2 DEF Has
    <3>2. k + j \in 1 .. Len(s) /\ s[k + j] = x
      BY <2>2, <3>1, <1>1
    <3>. QED BY <3>2 DEF Has
  <2>12. Aside(r, q2, On(h, s))
    <3>1. On(h, t) \subseteq On(h, s) /\ e \in On(h, s)
      BY <2>4, <2>11 DEF On
    <3>. QED BY <3>1, <2>3, <2>5, <2>9 DEF Aside
  <2>13. q.next[e] = Cell(h, t, 2)
    <3>1. 1 \in 0 .. Len(t) /\ 1 + 1 = 2
      BY <2>2
    <3>. QED BY <3>1, <2>3, <2>4 DEF IsRing, Shows
  <2>14. Cell(h, t, 2) = Cell(h, t2, 1)
    BY <2>2, <2>6 DEF Cell
  <2>15. at[k] \in [ring : Rings, pos : Nodes \cup {Poison}]
    BY <2>3, <2>4 DEF RingTyped
  <2>16. at[k + 1] = [ring |-> q2, pos |-> q.next[e]]
    <3>1. at[k + 1] = turn[at[k]]
      BY <1>2, <2>2
    <3>2. turn[at[k]] = [ring |-> ListDel(at[k].ring, at[k].pos), pos |-> at[k].ring.next[at[k].pos]]
      BY <2>4, <2>15
    <3>. QED BY <3>1, <3>2, <2>4 DEF q, q2
  <2>17. After(k + 1, t2)
    <3>1. Len(t2) = n - (k + 1)
      BY <2>2, <2>6, <1>1
    <3>2. ASSUME NEW j \in 1 .. n - (k + 1) PROVE t2[j] = s[(k + 1) + j]
      <4>1. j \in 1 .. Len(t) - 1 /\ j + 1 \in 1 .. n - k /\ k + (j + 1) = (k + 1) + j
        BY <2>2, <1>1
      <4>2. t2[j] = t[j + 1] /\ t[j + 1] = s[k + (j + 1)]
        BY <4>1, <2>2, <2>6
      <4>. QED BY <4>1, <4>2
    <3>. QED BY <3>1, <3>2, <2>6
  <2>18. at[k + 1].ring = q2 /\ at[k + 1].pos = Cell(h, t2, 1)
         /\ at[k + 1] = [ring |-> at[k + 1].ring, pos |-> at[k + 1].pos]
    BY <2>13, <2>14, <2>16
  <2>. HIDE DEF After
  <2>19. Taken(k + 1, at[k + 1], t2)
    BY <2>9, <2>10, <2>12, <2>17, <2>18
  <2>20. k + 1 \in Nat
    BY <2>2
  <2>. HIDE DEF Taken
  <2>. QED BY <2>19, <2>20
<1>6. n \in P
  <2>. HIDE DEF P, n
  <2>1. 0 \in Int /\ n \in Int /\ n \in 0 .. n
    BY <1>1
  <2>. QED BY <2>1, <1>4, <1>5, UpTo
<1>7. PICK t : Taken(n, at[n], t)
  BY <1>6
<1>8. t = <<>> /\ at[n].pos = h
  <2>1. t \in Seq(Entries) /\ Len(t) = 0
    BY <1>1, <1>7
  <2>2. t = <<>>
    BY <2>1
  <2>. QED BY <2>1, <1>7 DEF Cell
<1>9. \A k \in n .. EntryCount : at[k] = at[n]
  <2>. DEFINE T == {k \in Nat : at[k] = at[n]}
  <2>1. n \in T
    BY <1>1
  <2>2. ASSUME NEW k \in n .. EntryCount - 1, k \in T PROVE k + 1 \in T
    <3>1. k \in Nat /\ k + 1 \in Nat /\ at[k] = at[n]
      BY <1>1, <2>2
    <3>2. at[k] \in [ring : Rings, pos : Nodes \cup {Poison}] /\ at[k].pos = h
      BY <3>1, <1>1, <1>7, <1>8 DEF RingTyped
    <3>3. at[k + 1] = turn[at[k]]
      BY <1>2, <3>1
    <3>4. at[k + 1] = at[k]
      BY <3>2, <3>3
    <3>. QED BY <3>1, <3>4
  <2>. HIDE DEF T, n
  <2>3. \A k \in n .. EntryCount : k \in T
    <3>1. n \in Int /\ EntryCount \in Int
      BY <1>1
    <3>. QED BY <3>1, <2>1, <2>2, UpTo
  <2>. QED BY <2>3 DEF T
<1>10. g = at[n].ring
  BY <1>1, <1>3, <1>9
<1>. QED BY <1>7, <1>8, <1>10

-----------------------------------------------------------------------------
(* Hash lists: the pointer behind the k-th entry, and what it points at.   *)

Slot(h, s, k) == IF k = 0 THEN First(h) ELSE NextOf(s[k])
Item(s, k) == IF k \in 1 .. Len(s) THEN s[k] ELSE Nil

Hangs(y, h, s) ==
  /\ y.first[h] = Item(s, 1)
  /\ \A k \in 1 .. Len(s) : y.next[s[k]] = Item(s, k + 1) /\ y.pprev[s[k]] = Slot(h, s, k - 1)

Slots == {First(h) : h \in HashHeads} \cup {NextOf(e) : e \in Entries} \cup {Nil}
HashTyped(y) == y \in [first : [HashHeads -> Entries \cup {Nil}], next : [Entries -> Entries \cup {Nil}],
                       pprev : [Entries -> Slots]]

IsHung(y, h, s) == s \in Seq(Entries) /\ h \in HashHeads /\ Once(s) /\ Hangs(y, h, s)

(* A change that concerns the list of h and the entries of X only.         *)
HashAside(y, z, h, X) ==
  /\ \A g \in HashHeads \ {h} : z.first[g] = y.first[g]
  /\ \A x \in Entries \ X : z.next[x] = y.next[x] /\ z.pprev[x] = y.pprev[x]

(* Pointers to pointers, told apart by what they are.                      *)
LEMMA SlotParts ==
  /\ \A h : First(h)[1] = "first" /\ First(h)[2] = h
  /\ \A e : NextOf(e)[1] = "next" /\ NextOf(e)[2] = e
BY DEF First, NextOf

(* No entry is the null pointer.                                           *)
LEMMA NotNil == \A e \in Entries : e # Nil
BY ListNodes DEF Nil

(* Places of a hash list.                                                  *)
LEMMA Items ==
  ASSUME NEW y, NEW h, NEW s, IsHung(y, h, s)
  PROVE  /\ Len(s) \in Nat /\ \A k \in 1 .. Len(s) : s[k] \in Entries /\ Item(s, k) = s[k] /\ Has(s, s[k])
         /\ \A i, j \in 1 .. Len(s) : s[i] = s[j] => i = j
         /\ \A k \in Int : k \notin 1 .. Len(s) => Item(s, k) = Nil
         /\ \A k \in Int : Item(s, k) \in Entries \cup {Nil}
         /\ \A k \in 0 .. Len(s) : Slot(h, s, k) \in Slots
BY DEF IsHung, Once, Has, Item, Slot, Slots

(* A list that is not concerned stays.                                     *)
LEMMA HungKept ==
  ASSUME NEW y, NEW z, NEW h, NEW s, IsHung(y, h, s), NEW g, NEW X, HashAside(y, z, g, X), h # g,
         \A x \in X : ~Has(s, x)
  PROVE  IsHung(z, h, s)
<1>1. \A k \in 1 .. Len(s) : s[k] \in Entries /\ Has(s, s[k])
  BY Items
<1>2. \A k \in 1 .. Len(s) : z.next[s[k]] = y.next[s[k]] /\ z.pprev[s[k]] = y.pprev[s[k]]
  BY <1>1 DEF HashAside
<1>3. z.first[h] = y.first[h]
  BY DEF HashAside, IsHung
<1>. QED BY <1>2, <1>3 DEF IsHung, Hangs

(* Walking a hash list shows its entries in order.                         *)
LEMMA HashWalkIs ==
  ASSUME NEW y, NEW h, NEW s, IsHung(y, h, s)
  PROVE  HashWalk(y, h) = s
<1>. DEFINE next == [e \in Entries \cup {Nil} |-> IF e = Nil THEN Nil ELSE y.next[e]]
            met == Met(next, y.first[h])
            n == Len(s)
            ends == {k \in 0 .. EntryCount : met[k] = Nil /\ \A j \in 0 .. k - 1 : met[j] # Nil}
<1>1. n \in Nat /\ EntryCount \in Nat /\ n <= EntryCount /\ s \in Seq(Entries)
  BY Short DEF IsHung
<1>2. met[0] = y.first[h] /\ \A k \in Nat : met[k + 1] = next[met[k]]
  <2>. HIDE DEF next
  <2>. QED BY MetIs
<1>3. HashWalk(y, h) = [k \in 1 .. CHOOSE m \in ends : TRUE |-> met[k - 1]]
  BY DEF HashWalk
<1>. HIDE DEF met
<1>4. /\ \A k \in 1 .. n : s[k] \in Entries /\ s[k] # Nil /\ Item(s, k) = s[k] /\ y.next[s[k]] = Item(s, k + 1)
      /\ y.first[h] = Item(s, 1) /\ Item(s, n + 1) = Nil
  <2>1. \A k \in 1 .. n : s[k] \in Entries /\ Item(s, k) = s[k]
    BY Items
  <2>2. Item(s, n + 1) = Nil
    BY <1>1 DEF Item
  <2>. QED BY <2>1, <2>2, NotNil DEF IsHung, Hangs
<1>5. \A k \in 0 .. n : met[k] = Item(s, k + 1)
  <2>. DEFINE P == {k \in Nat : met[k] = Item(s, k + 1)}
  <2>1. 0 \in P
    BY <1>2, <1>4
  <2>2. ASSUME NEW k \in 0 .. n - 1, k \in P PROVE k + 1 \in P
    <3>1. k \in Nat /\ k + 1 \in 1 .. n /\ k + 1 \in Nat
      BY <1>1
    <3>2. met[k] = s[k + 1] /\ met[k + 1] = next[met[k]]
      BY <3>1, <2>2, <1>2, <1>4
    <3>3. next[s[k + 1]] = Item(s, (k + 1) + 1)
      BY <3>1, <1>4
    <3>. QED BY <3>1, <3>2, <3>3
  <2>. HIDE DEF P, n
  <2>3. 0 \in Int /\ n \in Int
    BY <1>1
  <2>4. \A k \in 0 .. n : k \in P
    BY <2>1, <2>2, <2>3, UpTo
  <2>. QED BY <2>4 DEF P
<1>. HIDE DEF next
<1>6. \A k \in 1 .. n : met[k - 1] = s[k] /\ met[k - 1] # Nil
  <2>. SUFFICES ASSUME NEW k \in 1 .. n PROVE met[k - 1] = s[k] /\ met[k - 1] # Nil
    OBVIOUS
  <2>1. k - 1 \in 0 .. n /\ (k - 1) + 1 = k
    BY <1>1
  <2>2. met[k - 1] = Item(s, (k - 1) + 1)
    BY <2>1, <1>5
  <2>. QED BY <2>1, <2>2, <1>4
<1>7. met[n] = Nil /\ \A j \in 0 .. n - 1 : met[j] # Nil
  <2>1. met[n] = Nil
    BY <1>1, <1>4, <1>5
  <2>2. ASSUME NEW j \in 0 .. n - 1 PROVE met[j] # Nil
    <3>1. j + 1 \in 1 .. n /\ (j + 1) - 1 = j
      BY <1>1
    <3>2. met[(j + 1) - 1] # Nil
      BY <3>1, <1>6
    <3>. QED BY <3>1, <3>2
  <2>. QED BY <2>1, <2>2
<1>8. n \in ends
  BY <1>1, <1>7
<1>9. ASSUME NEW k \in ends PROVE k = n
  <2>1. k \in Nat /\ met[k] = Nil /\ \A j \in 0 .. k - 1 : met[j] # Nil
    BY <1>1
  <2>2. ~(k < n)
    BY <2>1, <1>1, <1>7
  <2>3. ~(k > n)
    BY <2>1, <1>1, <1>7
  <2>. QED BY <2>1, <2>2, <2>3, <1>1
<1>10. (CHOOSE m \in ends : TRUE) = n
  <2>. HIDE DEF ends, n
  <2>. QED BY <1>8, <1>9
<1>11. [k \in 1 .. n |-> met[k - 1]] = s
  <2>. DEFINE t == [k \in 1 .. n |-> met[k - 1]]
  <2>1. t \in Seq(Entries) /\ Len(t) = n /\ \A k \in 1 .. n : t[k] = s[k]
    BY <1>1, <1>4, <1>6
  <2>. HIDE DEF t
  <2>2. t = s
    BY <2>1, <1>1, SameSeq
  <2>. QED BY <2>2 DEF t
<1>. QED BY <1>3, <1>10, <1>11

(* z is y with e put in front of the m-th entry; z is y without the j-th.  *)
Put(y, z, h, s, m, e) ==
  /\ HashTyped(z)
  /\ \A g \in HashHeads : z.first[g] = IF g = h /\ m = 1 THEN e ELSE y.first[g]
  /\ \A x \in Entries :
       /\ z.next[x] = IF x = e THEN Item(s, m) ELSE IF m > 1 /\ x = s[m - 1] THEN e ELSE y.next[x]
       /\ z.pprev[x] = IF x = e THEN Slot(h, s, m - 1)
                       ELSE IF m <= Len(s) /\ x = s[m] THEN NextOf(e) ELSE y.pprev[x]

Taken(y, z, h, s, j) ==
  /\ HashTyped(z)
  /\ \A g \in HashHeads : z.first[g] = IF g = h /\ j = 1 THEN Item(s, 2) ELSE y.first[g]
  /\ \A x \in Entries \ {s[j]} :
       /\ z.next[x] = IF j > 1 /\ x = s[j - 1] THEN Item(s, j + 1) ELSE y.next[x]
       /\ z.pprev[x] = IF j < Len(s) /\ x = s[j + 1] THEN Slot(h, s, j - 1) ELSE y.pprev[x]

(* An insertion.                                                           *)
LEMMA PutIs ==
  ASSUME NEW y, NEW z, NEW h, NEW s, IsHung(y, h, s), NEW m \in 1 .. Len(s) + 1,
         NEW e \in Entries, ~Has(s, e), Put(y, z, h, s, m, e)
  PROVE  IsHung(z, h, InsertAt(s, m, e)) /\ HashAside(y, z, h, ToSet(s) \cup {e})
<1>1. /\ Len(s) \in Nat /\ \A k \in 1 .. Len(s) : s[k] \in Entries /\ Item(s, k) = s[k] /\ Has(s, s[k])
      /\ \A i, j \in 1 .. Len(s) : s[i] = s[j] => i = j
      /\ s \in Seq(Entries) /\ h \in HashHeads /\ Once(s)
  BY Items DEF IsHung
<1>2. \A k \in 1 .. Len(s) : s[k] # e /\ s[k] \in ToSet(s)
  BY <1>1 DEF Has, ToSet
<1>3. HashAside(y, z, h, ToSet(s) \cup {e})
  <2>1. m > 1 => m - 1 \in 1 .. Len(s)
    BY <1>1
  <2>2. m <= Len(s) => m \in 1 .. Len(s)
    BY <1>1
  <2>. QED BY <1>2, <2>1, <2>2 DEF HashAside, Put
<1>4. PICK t : t = InsertAt(s, m, e)
  OBVIOUS
<1>5. /\ t \in Seq(Entries) /\ Len(t) = Len(s) + 1 /\ t[m] = e
      /\ \A j \in 1 .. m - 1 : t[j] = s[j]
      /\ \A j \in m .. Len(s) : t[j + 1] = s[j]
      /\ Once(t)
  <2>. DEFINE u == InsertAt(s, m, e)
  <2>1. s \in Seq(Entries)
    BY <1>1
  <2>2. /\ u \in Seq(Entries) /\ Len(u) = Len(s) + 1 /\ u[m] = e
        /\ \A j \in 1 .. m - 1 : u[j] = s[j]
        /\ \A j \in m .. Len(s) : u[j + 1] = s[j]
    BY <2>1, InsertIs
  <2>3. Once(u)
    BY <1>1, InsertHas
  <2>. HIDE DEF u
  <2>4. t = u
    BY <1>4 DEF u
  <2>. QED BY <2>2, <2>3, <2>4
<1>6. /\ \A k \in 1 .. m - 1 : Item(t, k) = Item(s, k)
      /\ Item(t, m) = e
      /\ \A k \in m + 1 .. Len(s) + 2 : Item(t, k) = Item(s, k - 1)
  <2>1. ASSUME NEW k \in 1 .. m - 1 PROVE Item(t, k) = Item(s, k)
    BY <1>1, <1>5 DEF Item
  <2>2. Item(t, m) = e
    BY <1>1, <1>5 DEF Item
  <2>3. ASSUME NEW k \in m + 1 .. Len(s) + 2 PROVE Item(t, k) = Item(s, k - 1)
    <3>1. CASE k = Len(s) + 2
      BY <3>1, <1>1, <1>5 DEF Item
    <3>2. CASE k <= Len(s) + 1
      <4>1. k - 1 \in m .. Len(s) /\ (k - 1) + 1 = k /\ k \in 1 .. Len(t) /\ k - 1 \in 1 .. Len(s)
        BY <3>2, <1>1, <1>5
      <4>2. t[(k - 1) + 1] = s[k - 1]
        BY <4>1, <1>5
      <4>. QED BY <4>1, <4>2 DEF Item
    <3>3. k \in Int /\ k <= Len(s) + 2
      BY <1>1
    <3>. QED BY <3>1, <3>2, <3>3, <1>1
  <2>. QED BY <2>1, <2>2, <2>3
<1>7. z.first[h] = Item(t, 1)
  <2>1. CASE m = 1
    BY <2>1, <1>1, <1>6 DEF Put
  <2>2. CASE m > 1
    <3>1. 1 \in 1 .. m - 1
      BY <2>2, <1>1
    <3>2. Item(t, 1) = Item(s, 1) /\ y.first[h] = Item(s, 1)
      BY <3>1, <1>6 DEF IsHung, Hangs
    <3>. QED BY <2>2, <3>2, <1>1 DEF Put
  <2>. QED BY <2>1, <2>2
<1>8. ASSUME NEW k \in 1 .. Len(t)
      PROVE  z.next[t[k]] = Item(t, k + 1) /\ z.pprev[t[k]] = Slot(h, t, k - 1)
  <2>0. k \in Int /\ m \in Int /\ k >= 1 /\ m >= 1 /\ k <= Len(s) + 1 /\ m <= Len(s) + 1 /\ Len(t) = Len(s) + 1
        /\ Len(s) \in Int
    BY <1>1, <1>5
  <2>1. CASE k < m
    <3>1. k \in 1 .. Len(s) /\ k \in 1 .. m - 1 /\ (m > 1 => m - 1 \in 1 .. Len(s))
          /\ (m <= Len(s) => m \in 1 .. Len(s))
      BY <2>0, <2>1
    <3>2. t[k] = s[k] /\ s[k] \in Entries /\ s[k] # e
      BY <3>1, <1>1, <1>2, <1>5
    <3>3. y.next[s[k]] = Item(s, k + 1) /\ y.pprev[s[k]] = Slot(h, s, k - 1)
      BY <3>1 DEF IsHung, Hangs
    <3>4. z.next[s[k]] = Item(t, k + 1)
      <4>1. CASE k = m - 1
        <5>1. m > 1 /\ s[k] = s[m - 1] /\ k + 1 = m
          BY <2>0, <4>1
        <5>. QED BY <5>1, <3>2, <1>6 DEF Put
      <4>2. CASE k # m - 1
        <5>1. m > 1 => s[k] # s[m - 1]
          BY <4>2, <3>1, <1>1
        <5>2. k + 1 \in 1 .. m - 1
          BY <2>0, <2>1, <4>2
        <5>. QED BY <5>1, <5>2, <3>2, <3>3, <1>6 DEF Put
      <4>. QED BY <4>1, <4>2
    <3>5. z.pprev[s[k]] = Slot(h, s, k - 1)
      <4>1. m <= Len(s) => s[k] # s[m]
        BY <2>0, <2>1, <3>1, <1>1
      <4>. QED BY <4>1, <3>2, <3>3 DEF Put
    <3>6. Slot(h, t, k - 1) = Slot(h, s, k - 1)
      <4>1. k - 1 = 0 \/ k - 1 \in 1 .. m - 1
        BY <2>0, <2>1
      <4>. QED BY <4>1, <1>5 DEF Slot
    <3>. QED BY <3>2, <3>4, <3>5, <3>6
  <2>2. CASE k = m
    <3>1. t[k] = e
      BY <2>2, <1>5
    <3>2. z.next[e] = Item(s, m) /\ z.pprev[e] = Slot(h, s, m - 1)
      BY DEF Put
    <3>3. Item(t, k + 1) = Item(s, m)
      <4>1. k + 1 \in m + 1 .. Len(s) + 2 /\ (k + 1) - 1 = m
        BY <2>0, <2>2
      <4>. QED BY <4>1, <1>6
    <3>4. Slot(h, t, k - 1) = Slot(h, s, m - 1)
      <4>1. k - 1 = 0 \/ k - 1 \in 1 .. m - 1
        BY <2>0, <2>2
      <4>. QED BY <4>1, <2>2, <1>5 DEF Slot
    <3>. QED BY <3>1, <3>2, <3>3, <3>4
  <2>3. CASE k > m
    <3>. DEFINE i == k - 1
    <3>1. /\ i \in 1 .. Len(s) /\ i \in m .. Len(s) /\ i + 1 = k /\ k + 1 \in m + 1 .. Len(s) + 2
          /\ (k + 1) - 1 = i + 1 /\ (m > 1 => m - 1 \in 1 .. Len(s) /\ i # m - 1)
          /\ m \in 1 .. Len(s) /\ m <= Len(s) /\ k - 1 = i /\ i # 0
      BY <2>0, <2>3
    <3>. HIDE DEF i
    <3>2. t[k] = s[i] /\ s[i] \in Entries /\ s[i] # e
      BY <3>1, <1>1, <1>2, <1>5
    <3>3. y.next[s[i]] = Item(s, i + 1) /\ y.pprev[s[i]] = Slot(h, s, i - 1)
      BY <3>1 DEF IsHung, Hangs
    <3>4. z.next[s[i]] = Item(t, k + 1)
      <4>1. m > 1 => s[i] # s[m - 1]
        BY <3>1, <1>1
      <4>2. Item(t, k + 1) = Item(s, i + 1)
        BY <3>1, <1>6
      <4>. QED BY <4>1, <4>2, <3>2, <3>3 DEF Put
    <3>5. z.pprev[s[i]] = Slot(h, t, k - 1)
      <4>1. CASE i = m
        <5>1. z.pprev[s[i]] = NextOf(e)
          BY <4>1, <3>1, <3>2 DEF Put
        <5>2. Slot(h, t, k - 1) = NextOf(e)
          BY <4>1, <3>1, <1>5 DEF Slot
        <5>. QED BY <5>1, <5>2
      <4>2. CASE i # m
        <5>1. s[i] # s[m]
          BY <4>2, <3>1, <1>1
        <5>2. z.pprev[s[i]] = Slot(h, s, i - 1)
          BY <5>1, <3>1, <3>2, <3>3 DEF Put
        <5>3. i - 1 \in m .. Len(s) /\ (i - 1) + 1 = i /\ i - 1 # 0 /\ k - 1 = i
          BY <4>2, <3>1, <2>0
        <5>4. t[i] = s[i - 1]
          BY <5>3, <1>5
        <5>. QED BY <5>2, <5>3, <5>4, <3>1 DEF Slot
      <4>. QED BY <4>1, <4>2
    <3>. QED BY <3>2, <3>4, <3>5
  <2>. QED BY <2>0, <2>1, <2>2, <2>3
<1>. QED BY <1>1, <1>3, <1>4, <1>5, <1>7, <1>8 DEF IsHung, Hangs

(* A removal.                                                              *)
LEMMA TakenIs ==
  ASSUME NEW y, NEW z, NEW h, NEW s, IsHung(y, h, s), NEW j \in 1 .. Len(s), Taken(y, z, h, s, j)
  PROVE  IsHung(z, h, RemoveAt(s, j)) /\ HashAside(y, z, h, ToSet(s))
<1>1. /\ Len(s) \in Nat /\ \A k \in 1 .. Len(s) : s[k] \in Entries /\ Item(s, k) = s[k] /\ s[k] \in ToSet(s)
      /\ \A i, k \in 1 .. Len(s) : s[i] = s[k] => i = k
      /\ s \in Seq(Entries) /\ h \in HashHeads /\ Once(s)
  BY Items DEF IsHung, ToSet
<1>2. HashAside(y, z, h, ToSet(s))
  <2>1. j > 1 => j - 1 \in 1 .. Len(s)
    BY <1>1
  <2>2. j < Len(s) => j + 1 \in 1 .. Len(s)
    BY <1>1
  <2>. QED BY <1>1, <2>1, <2>2 DEF HashAside, Taken
<1>3. PICK t : t = RemoveAt(s, j)
  OBVIOUS
<1>4. /\ t \in Seq(Entries) /\ Len(t) = Len(s) - 1
      /\ \A k \in 1 .. j - 1 : t[k] = s[k]
      /\ \A k \in j .. Len(s) - 1 : t[k] = s[k + 1]
      /\ Once(t)
  <2>. DEFINE u == RemoveAt(s, j)
  <2>1. s \in Seq(Entries)
    BY <1>1
  <2>2. /\ u \in Seq(Entries) /\ Len(u) = Len(s) - 1
        /\ \A k \in 1 .. j - 1 : u[k] = s[k]
        /\ \A k \in j .. Len(s) - 1 : u[k] = s[k + 1]
    BY <2>1, RemoveIs
  <2>3. Once(u)
    BY <1>1, RemoveHas
  <2>. HIDE DEF u
  <2>4. t = u
    BY <1>3 DEF u
  <2>. QED BY <2>2, <2>3, <2>4
<1>5. /\ \A k \in 1 .. j - 1 : Item(t, k) = Item(s, k)
      /\ \A k \in j .. Len(s) : Item(t, k) = Item(s, k + 1)
  <2>1. ASSUME NEW k \in 1 .. j - 1 PROVE Item(t, k) = Item(s, k)
    BY <1>1, <1>4 DEF Item
  <2>2. ASSUME NEW k \in j .. Len(s) PROVE Item(t, k) = Item(s, k + 1)
    <3>1. CASE k = Len(s)
      BY <3>1, <1>1, <1>4 DEF Item
    <3>2. CASE k < Len(s)
      <4>1. k \in j .. Len(s) - 1 /\ k \in 1 .. Len(t) /\ k + 1 \in 1 .. Len(s)
        BY <3>2, <1>1, <1>4
      <4>. QED BY <4>1, <1>4 DEF Item
    <3>. QED BY <3>1, <3>2, <1>1
  <2>. QED BY <2>1, <2>2
<1>6. z.first[h] = Item(t, 1)
  <2>1. CASE j = 1
    <3>1. 1 \in j .. Len(s) /\ 1 + 1 = 2
      BY <2>1, <1>1
    <3>. QED BY <2>1, <3>1, <1>1, <1>5 DEF Taken
  <2>2. CASE j > 1
    <3>1. 1 \in 1 .. j - 1
      BY <2>2, <1>1
    <3>2. Item(t, 1) = Item(s, 1) /\ y.first[h] = Item(s, 1)
      BY <3>1, <1>5 DEF IsHung, Hangs
    <3>. QED BY <2>2, <3>2, <1>1 DEF Taken
  <2>. QED BY <2>1, <2>2, <1>1
<1>7. ASSUME NEW k \in 1 .. Len(t)
      PROVE  z.next[t[k]] = Item(t, k + 1) /\ z.pprev[t[k]] = Slot(h, t, k - 1)
  <2>0. k \in Int /\ j \in Int /\ k >= 1 /\ j >= 1 /\ k <= Len(s) - 1 /\ j <= Len(s) /\ Len(t) = Len(s) - 1
        /\ Len(s) \in Int
    BY <1>1, <1>4
  <2>1. CASE k < j
    <3>1. k \in 1 .. Len(s) /\ k \in 1 .. j - 1 /\ (j > 1 => j - 1 \in 1 .. Len(s))
          /\ (j < Len(s) => j + 1 \in 1 .. Len(s)) /\ k # j /\ k # j + 1
      BY <2>0, <2>1
    <3>2. t[k] = s[k] /\ s[k] \in Entries \ {s[j]}
      BY <3>1, <1>1, <1>4
    <3>3. y.next[s[k]] = Item(s, k + 1) /\ y.pprev[s[k]] = Slot(h, s, k - 1)
      BY <3>1 DEF IsHung, Hangs
    <3>4. z.next[s[k]] = Item(t, k + 1)
      <4>1. CASE k = j - 1
        <5>1. j > 1 /\ s[k] = s[j - 1] /\ k + 1 = j /\ j \in j .. Len(s)
          BY <2>0, <4>1
        <5>2. Item(t, k + 1) = Item(s, j + 1)
          BY <5>1, <1>5
        <5>. QED BY <5>1, <5>2, <3>2 DEF Taken
      <4>2. CASE k # j - 1
        <5>1. j > 1 => s[k] # s[j - 1]
          BY <4>2, <3>1, <1>1
        <5>2. k + 1 \in 1 .. j - 1
          BY <2>0, <2>1, <4>2
        <5>. QED BY <5>1, <5>2, <3>2, <3>3, <1>5 DEF Taken
      <4>. QED BY <4>1, <4>2
    <3>5. z.pprev[s[k]] = Slot(h, s, k - 1)
      <4>1. j < Len(s) => s[k] # s[j + 1]
        BY <3>1, <1>1
      <4>. QED BY <4>1, <3>2, <3>3 DEF Taken
    <3>6. Slot(h, t, k - 1) = Slot(h, s, k - 1)
      <4>1. k - 1 = 0 \/ k - 1 \in 1 .. j - 1
        BY <2>0, <2>1
      <4>. QED BY <4>1, <1>4 DEF Slot
    <3>. QED BY <3>2, <3>4, <3>5, <3>6
  <2>2. CASE k >= j
    <3>. DEFINE i == k + 1
    <3>1. /\ i \in 1 .. Len(s) /\ k \in j .. Len(s) - 1 /\ k + 1 = i /\ i \in j .. Len(s)
          /\ (j > 1 => j - 1 \in 1 .. Len(s) /\ i # j - 1)
          /\ j \in 1 .. Len(s) /\ j < Len(s) /\ j + 1 \in 1 .. Len(s) /\ i # j
          /\ i - 1 = k /\ i - 1 # 0
      BY <2>0, <2>2
    <3>. HIDE DEF i
    <3>2. t[k] = s[i] /\ s[i] \in Entries \ {s[j]}
      BY <3>1, <1>1, <1>4
    <3>3. y.next[s[i]] = Item(s, i + 1) /\ y.pprev[s[i]] = Slot(h, s, i - 1)
      BY <3>1 DEF IsHung, Hangs
    <3>4. z.next[s[i]] = Item(t, i)
      <4>1. j > 1 => s[i] # s[j - 1]
        BY <3>1, <1>1
      <4>2. Item(t, i) = Item(s, i + 1)
        BY <3>1, <1>5
      <4>. QED BY <4>1, <4>2, <3>2, <3>3 DEF Taken
    <3>5. z.pprev[s[i]] = Slot(h, t, k - 1)
      <4>1. CASE k = j
        <5>1. z.pprev[s[i]] = Slot(h, s, j - 1)
          BY <4>1, <3>1, <3>2 DEF Taken
        <5>2. k - 1 = 0 \/ k - 1 \in 1 .. j - 1
          BY <4>1, <2>0
        <5>3. Slot(h, t, k - 1) = Slot(h, s, j - 1)
          BY <4>1, <5>2, <1>4 DEF Slot
        <5>. QED BY <5>1, <5>3
      <4>2. CASE k # j
        <5>1. i # j + 1 /\ k - 1 \in j .. Len(s) - 1 /\ (k - 1) + 1 = k /\ k - 1 # 0
          BY <4>2, <3>1, <2>0
        <5>2. s[i] # s[j + 1]
          BY <5>1, <3>1, <1>1
        <5>3. z.pprev[s[i]] = Slot(h, s, i - 1)
          BY <5>2, <3>1, <3>2, <3>3 DEF Taken
        <5>4. t[k - 1] = s[k]
          BY <5>1, <1>4
        <5>. QED BY <5>1, <5>3, <5>4, <3>1 DEF Slot
      <4>. QED BY <4>1, <4>2
    <3>. QED BY <3>1, <3>2, <3>4, <3>5
  <2>. QED BY <2>0, <2>1, <2>2
<1>. QED BY <1>1, <1>2, <1>3, <1>4, <1>6, <1>7 DEF IsHung, Hangs

-----------------------------------------------------------------------------
(* Where the entries are: L gives each head its sequence, s the states. *)

Tops == RingHeads \cup HashHeads
Placed(L, s) ==
  /\ L \in [Tops -> Seq(Entries)]
  /\ s \in [Nodes -> {"head", "idle", "in", "init", "out", "hashed"}]
  /\ \A h \in RingHeads : s[h] \in {"head", "idle"} /\ (s[h] = "idle" => L[h] = <<>>)
  /\ \A e \in Entries : s[e] \in {"in", "init", "out", "hashed"}
  /\ \A h \in Tops : Once(L[h])
  /\ \A g, h \in Tops : \A x : Has(L[g], x) /\ Has(L[h], x) => g = h
  /\ \A e \in Entries : s[e] = "in" <=> \E h \in RingHeads : Has(L[h], e)
  /\ \A e \in Entries : s[e] = "hashed" <=> \E h \in HashHeads : Has(L[h], e)

(* The rings of the heads in use, and of entries that only are initialised. *)
Rounds(r, L, s) ==
  /\ RingTyped(r)
  /\ \A h \in RingHeads : s[h] = "head" => IsRing(r, h, L[h])
  /\ \A e \in Entries : s[e] = "init" => IsRing(r, e, <<>>)
Good(r, L, s) == Placed(L, s) /\ Rounds(r, L, s)

Hooks(y, L) == HashTyped(y) /\ \A h \in HashHeads : IsHung(y, h, L[h])

(* Nodes are heads or entries, a head is not both.                         *)
LEMMA NodesAre ==
  /\ Nodes = RingHeads \cup Entries /\ RingHeads \subseteq Tops /\ HashHeads \subseteq Tops
  /\ \A h \in RingHeads : h \notin Entries /\ h \notin HashHeads
  /\ \A h \in HashHeads : h \notin Entries /\ h \notin RingHeads
  /\ Tops = RingHeads \cup HashHeads
BY ListNodes DEF Nodes, Tops

(* The empty sequence has no element.                                      *)
LEMMA NoneHas == <<>> \in Seq(Entries) /\ Len(<<>>) = 0 /\ Once(<<>>) /\ \A x : ~Has(<<>>, x)
BY DEF Has, Once

(* A ring of one node points at itself.                                    *)
LEMMA LoneRing ==
  ASSUME NEW r, NEW x \in Nodes
  PROVE  IsRing(r, x, <<>>) <=> (r.next[x] = x /\ r.prev[x] = x)
<1>1. \A k : Cell(x, <<>>, k) = x
  BY DEF Cell
<1>2. Shows(r, x, <<>>) <=> (r.next[x] = x /\ r.prev[x] = x)
  BY <1>1, NoneHas DEF Shows
<1>. QED BY <1>2, NoneHas DEF IsRing

(* A ring is empty for the code when its sequence is.                      *)
LEMMA EmptyIs ==
  ASSUME NEW r, NEW h, NEW s, IsRing(r, h, s)
  PROVE  (ListEmpty(r, h) <=> s = <<>>) /\ (s = <<>> <=> Len(s) = 0)
<1>1. /\ Len(s) \in Nat /\ Cell(h, s, 0) = h /\ Cell(h, s, Len(s) + 1) = h
      /\ \A k \in 1 .. Len(s) : Cell(h, s, k) = s[k] /\ s[k] # h
  BY RingCells
<1>2. s \in Seq(Entries) /\ (s = <<>> <=> Len(s) = 0)
  BY DEF IsRing
<1>3. r.next[Cell(h, s, 0)] = Cell(h, s, 0 + 1)
  BY <1>1 DEF IsRing, Shows
<1>4. CASE Len(s) = 0
  BY <1>1, <1>2, <1>3, <1>4 DEF ListEmpty
<1>5. CASE Len(s) > 0
  <2>1. Cell(h, s, 1) = s[1] /\ s[1] # h
    BY <1>1, <1>5
  <2>. QED BY <2>1, <1>1, <1>2, <1>3, <1>5 DEF ListEmpty
<1>. QED BY <1>1, <1>4, <1>5

(* A node of a head's list is that head or an entry in the list; rings of  *)
(* different heads share no node, nor has an entry outside one of them.    *)
LEMMA Apart ==
  ASSUME NEW L, NEW s, Placed(L, s)
  PROVE  /\ \A g, h \in RingHeads : g # h => On(g, L[g]) \cap On(h, L[h]) = {}
         /\ \A h \in RingHeads, e \in Entries : s[e] # "in" => e \notin On(h, L[h])
         /\ \A h \in RingHeads : \A x \in On(h, L[h]) : x # h => x \in Entries /\ s[x] = "in"
<1>1. \A h \in RingHeads : h \in Tops /\ L[h] \in Seq(Entries) /\ \A x : Has(L[h], x) => x \in Entries
  BY NodesAre DEF Placed, Has
<1>2. \A h \in RingHeads : \A x \in On(h, L[h]) : x = h \/ (Has(L[h], x) /\ x \in Entries)
  BY <1>1 DEF On
<1>3. \A h \in RingHeads : \A x \in Entries : Has(L[h], x) => s[x] = "in"
  BY DEF Placed
<1>4. \A g, h \in RingHeads : \A x : Has(L[g], x) /\ Has(L[h], x) => g = h
  BY <1>1 DEF Placed
<1>. QED BY <1>2, <1>3, <1>4, NodesAre

(* Pointers nobody reads may go.                                           *)
LEMMA Forgets ==
  ASSUME NEW r, NEW L, NEW s, Good(r, L, s)
  PROVE  Good(Forget(r, s), L, s)
<1>. DEFINE g == Forget(r, s)
            kept(f) == [x \in Nodes |-> IF s[x] \in {"head", "in", "init"} THEN f[x] ELSE Poison]
<1>1. Placed(L, s) /\ Rounds(r, L, s)
  BY DEF Good
<1>2. r \in Rings /\ g.next = kept(r.next) /\ g.prev = kept(r.prev)
  BY <1>1 DEF Rounds, RingTyped, Forget
<1>3. kept(r.next) \in Pointers /\ kept(r.prev) \in Pointers
  BY <1>2 DEF Rings, Pointers
<1>4. RingTyped(g)
  BY <1>3 DEF RingTyped, Rings, Pointers, Forget
<1>5. Aside(r, g, {x \in Nodes : s[x] \notin {"head", "in", "init"}})
  BY <1>2 DEF Aside
<1>. HIDE DEF g
<1>6. ASSUME NEW h \in RingHeads, s[h] = "head" PROVE IsRing(g, h, L[h])
  <2>1. IsRing(r, h, L[h])
    BY <1>1, <1>6 DEF Rounds
  <2>2. \A x \in On(h, L[h]) : s[x] \in {"head", "in"}
    BY <1>1, <1>6, Apart
  <2>3. {x \in Nodes : s[x] \notin {"head", "in", "init"}} \cap On(h, L[h]) = {}
    BY <2>2
  <2>. QED BY <2>1, <2>3, <1>5, RingKept
<1>7. ASSUME NEW e \in Entries, s[e] = "init" PROVE IsRing(g, e, <<>>)
  <2>1. e \in Nodes /\ IsRing(r, e, <<>>)
    BY <1>1, <1>7, NodesAre DEF Rounds
  <2>2. g.next[e] = r.next[e] /\ g.prev[e] = r.prev[e]
    BY <1>2, <1>7, <2>1
  <2>. QED BY <2>1, <2>2, LoneRing
<1>8. Rounds(g, L, s)
  BY <1>4, <1>6, <1>7 DEF Rounds
<1>. QED BY <1>1, <1>8 DEF Good, g

(* A change of the pointers of X only, elsewhere nothing changes.          *)
LEMMA Elsewhere ==
  ASSUME NEW r, NEW L, NEW s, Rounds(r, L, s),
         NEW g, RingTyped(g), NEW X, Aside(r, g, X),
         NEW K, NEW t,
         \A h \in RingHeads : t[h] = "head" =>
           IsRing(g, h, K[h]) \/ (s[h] = "head" /\ K[h] = L[h] /\ X \cap On(h, L[h]) = {}),
         \A e \in Entries : t[e] = "init" => IsRing(g, e, <<>>) \/ (s[e] = "init" /\ e \notin X)
  PROVE  Rounds(g, K, t)
<1>1. ASSUME NEW h \in RingHeads, t[h] = "head" PROVE IsRing(g, h, K[h])
  <2>1. CASE s[h] = "head" /\ K[h] = L[h] /\ X \cap On(h, L[h]) = {}
    <3>1. IsRing(r, h, L[h])
      BY <2>1 DEF Rounds
    <3>2. IsRing(g, h, L[h])
      BY <3>1, <2>1, RingKept
    <3>. QED BY <3>2, <2>1
  <2>. QED BY <2>1, <1>1
<1>2. ASSUME NEW e \in Entries, t[e] = "init" PROVE IsRing(g, e, <<>>)
  <2>1. CASE s[e] = "init" /\ e \notin X
    <3>1. e \in Nodes /\ IsRing(r, e, <<>>)
      BY <2>1, NodesAre DEF Rounds
    <3>2. g.next[e] = r.next[e] /\ g.prev[e] = r.prev[e]
      BY <2>1, <3>1 DEF Aside
    <3>. QED BY <3>1, <3>2, LoneRing
  <2>. QED BY <2>1, <1>2
<1>. QED BY <1>1, <1>2 DEF Rounds

-----------------------------------------------------------------------------
(* What the operations do to the sequences and the states. *)

Loose(s, e) == s[e] \in {"init", "out"}

(* An entry in no list is in no sequence.                                  *)
LEMMA LooseHas ==
  ASSUME NEW L, NEW s, Placed(L, s), NEW e \in Entries, Loose(s, e)
  PROVE  \A h \in Tops : ~Has(L[h], e)
<1>1. s[e] # "in" /\ s[e] # "hashed"
  BY DEF Loose
<1>. QED BY <1>1, NodesAre DEF Placed

(* An entry comes into a sequence.                                         *)
LEMMA PlacedIn ==
  ASSUME NEW L, NEW s, Placed(L, s), NEW e \in Entries, Loose(s, e), NEW h \in Tops,
         h \in RingHeads => s[h] = "head", NEW m \in 1 .. Len(L[h]) + 1
  PROVE  Placed([L EXCEPT ![h] = InsertAt(L[h], m, e)],
                [s EXCEPT ![e] = IF h \in RingHeads THEN "in" ELSE "hashed"])
<1>. DEFINE u == InsertAt(L[h], m, e)
            K == [L EXCEPT ![h] = u]
            t == [s EXCEPT ![e] = IF h \in RingHeads THEN "in" ELSE "hashed"]
<1>1. L[h] \in Seq(Entries) /\ Once(L[h]) /\ ~Has(L[h], e)
  BY LooseHas DEF Placed
<1>2. u \in Seq(Entries) /\ Once(u) /\ \A x : Has(u, x) <=> (Has(L[h], x) \/ x = e)
  BY <1>1, InsertIs, InsertHas
<1>. HIDE DEF u
<1>3. K \in [Tops -> Seq(Entries)] /\ K[h] = u /\ \A g \in Tops : g # h => K[g] = L[g]
  BY <1>2 DEF Placed
<1>4. e \in Nodes /\ e \notin RingHeads
  BY NodesAre
<1>5. /\ t \in [Nodes -> {"head", "idle", "in", "init", "out", "hashed"}]
      /\ t[e] = IF h \in RingHeads THEN "in" ELSE "hashed"
      /\ \A x \in Nodes : x # e => t[x] = s[x]
  BY <1>4 DEF Placed
<1>. HIDE DEF K, t
<1>6. \A g \in RingHeads : t[g] \in {"head", "idle"} /\ (t[g] = "idle" => K[g] = <<>>)
  <2>. SUFFICES ASSUME NEW g \in RingHeads
       PROVE  t[g] \in {"head", "idle"} /\ (t[g] = "idle" => K[g] = <<>>)
    OBVIOUS
  <2>1. g \in Nodes /\ g \in Tops /\ g # e /\ t[g] = s[g]
    BY <1>4, <1>5, NodesAre
  <2>2. s[g] \in {"head", "idle"} /\ (s[g] = "idle" => L[g] = <<>>)
    BY DEF Placed
  <2>3. s[g] = "idle" => g # h
    OBVIOUS
  <2>. QED BY <2>1, <2>2, <2>3, <1>3
<1>7. \A x \in Entries : t[x] \in {"in", "init", "out", "hashed"}
  BY <1>5, NodesAre DEF Placed
<1>8. \A g \in Tops : Once(K[g])
  BY <1>2, <1>3 DEF Placed
<1>9. \A g \in Tops : \A x : Has(K[g], x) <=> (Has(L[g], x) \/ (g = h /\ x = e))
  BY <1>2, <1>3
<1>10. \A f, g \in Tops : \A x : Has(K[f], x) /\ Has(K[g], x) => f = g
  <2>1. \A f, g \in Tops : \A x : Has(L[f], x) /\ Has(L[g], x) => f = g
    BY DEF Placed
  <2>2. \A f \in Tops : ~Has(L[f], e)
    BY LooseHas
  <2>. SUFFICES ASSUME NEW f \in Tops, NEW g \in Tops, NEW x, Has(K[f], x), Has(K[g], x)
       PROVE  f = g
    OBVIOUS
  <2>3. /\ Has(L[f], x) \/ (f = h /\ x = e)
        /\ Has(L[g], x) \/ (g = h /\ x = e)
    BY <1>9
  <2>4. CASE x = e
    BY <2>2, <2>3, <2>4
  <2>5. CASE x # e
    BY <2>1, <2>3, <2>5
  <2>. QED BY <2>4, <2>5
<1>11. \A x \in Entries : t[x] = "in" <=> \E g \in RingHeads : Has(K[g], x)
  <2>. SUFFICES ASSUME NEW x \in Entries PROVE t[x] = "in" <=> \E g \in RingHeads : Has(K[g], x)
    OBVIOUS
  <2>1. \A g \in RingHeads : Has(K[g], x) <=> (Has(L[g], x) \/ (g = h /\ x = e))
    BY <1>9, NodesAre
  <2>2. s[x] = "in" <=> \E g \in RingHeads : Has(L[g], x)
    BY DEF Placed
  <2>3. \A g \in RingHeads : ~Has(L[g], e)
    BY LooseHas, NodesAre
  <2>4. x # e => t[x] = s[x]
    BY <1>5, NodesAre
  <2>. QED BY <2>1, <2>2, <2>3, <2>4, <1>5
<1>12. \A x \in Entries : t[x] = "hashed" <=> \E g \in HashHeads : Has(K[g], x)
  <2>. SUFFICES ASSUME NEW x \in Entries PROVE t[x] = "hashed" <=> \E g \in HashHeads : Has(K[g], x)
    OBVIOUS
  <2>1. \A g \in HashHeads : Has(K[g], x) <=> (Has(L[g], x) \/ (g = h /\ x = e))
    BY <1>9, NodesAre
  <2>2. s[x] = "hashed" <=> \E g \in HashHeads : Has(L[g], x)
    BY DEF Placed
  <2>3. \A g \in HashHeads : ~Has(L[g], e)
    BY LooseHas, NodesAre
  <2>4. x # e => t[x] = s[x]
    BY <1>5, NodesAre
  <2>5. h \in HashHeads <=> h \notin RingHeads
    BY NodesAre
  <2>. QED BY <2>1, <2>2, <2>3, <2>4, <2>5, <1>5
<1>13. Placed(K, t)
  BY <1>3, <1>5, <1>6, <1>7, <1>8, <1>10, <1>11, <1>12 DEF Placed
<1>. QED BY <1>13 DEF K, t, u

(* An entry leaves a sequence.                                             *)
LEMMA PlacedOut ==
  ASSUME NEW L, NEW s, Placed(L, s), NEW h \in Tops, NEW k \in 1 .. Len(L[h]),
         NEW e, e = L[h][k]
  PROVE  /\ Placed([L EXCEPT ![h] = RemoveAt(L[h], k)], [s EXCEPT ![e] = "out"])
         /\ e \in Entries /\ Has(L[h], e)
<1>. DEFINE u == RemoveAt(L[h], k)
            K == [L EXCEPT ![h] = u]
            t == [s EXCEPT ![e] = "out"]
<1>1. L[h] \in Seq(Entries) /\ Once(L[h]) /\ Has(L[h], e) /\ e \in Entries
  BY DEF Placed, Has
<1>2. u \in Seq(Entries) /\ Once(u) /\ \A x : Has(u, x) <=> (Has(L[h], x) /\ x # e)
  BY <1>1, RemoveIs, RemoveHas
<1>. HIDE DEF u
<1>3. K \in [Tops -> Seq(Entries)] /\ K[h] = u /\ \A g \in Tops : g # h => K[g] = L[g]
  BY <1>2 DEF Placed
<1>4. e \in Nodes /\ e \notin RingHeads
  BY <1>1, NodesAre
<1>5. /\ t \in [Nodes -> {"head", "idle", "in", "init", "out", "hashed"}]
      /\ t[e] = "out"
      /\ \A x \in Nodes : x # e => t[x] = s[x]
  BY <1>4 DEF Placed
<1>6. \A f, g \in Tops : \A x : Has(L[f], x) /\ Has(L[g], x) => f = g
  BY DEF Placed
<1>. HIDE DEF K, t
<1>7. \A g \in RingHeads : t[g] \in {"head", "idle"} /\ (t[g] = "idle" => K[g] = <<>>)
  <2>. SUFFICES ASSUME NEW g \in RingHeads
       PROVE  t[g] \in {"head", "idle"} /\ (t[g] = "idle" => K[g] = <<>>)
    OBVIOUS
  <2>1. g \in Nodes /\ g \in Tops /\ g # e /\ t[g] = s[g]
    BY <1>4, <1>5, NodesAre
  <2>2. s[g] \in {"head", "idle"} /\ (s[g] = "idle" => L[g] = <<>>)
    BY DEF Placed
  <2>3. s[g] = "idle" => g # h
    BY <2>2, <1>1, NoneHas
  <2>. QED BY <2>1, <2>2, <2>3, <1>3
<1>8. \A x \in Entries : t[x] \in {"in", "init", "out", "hashed"}
  BY <1>5, NodesAre DEF Placed
<1>9. \A g \in Tops : Once(K[g])
  BY <1>2, <1>3 DEF Placed
<1>10. \A g \in Tops : \A x : Has(K[g], x) <=> (Has(L[g], x) /\ x # e)
  BY <1>1, <1>2, <1>3, <1>6
<1>11. \A f, g \in Tops : \A x : Has(K[f], x) /\ Has(K[g], x) => f = g
  BY <1>6, <1>10
<1>12. ASSUME NEW x \in Entries
       PROVE  /\ t[x] = "in" <=> \E g \in RingHeads : Has(K[g], x)
              /\ t[x] = "hashed" <=> \E g \in HashHeads : Has(K[g], x)
  <2>1. \A g \in Tops : Has(K[g], x) <=> (Has(L[g], x) /\ x # e)
    BY <1>10
  <2>2. /\ s[x] = "in" <=> \E g \in RingHeads : Has(L[g], x)
        /\ s[x] = "hashed" <=> \E g \in HashHeads : Has(L[g], x)
    BY DEF Placed
  <2>3. x # e => t[x] = s[x]
    BY <1>5, NodesAre
  <2>4. RingHeads \subseteq Tops /\ HashHeads \subseteq Tops
    BY NodesAre
  <2>5. CASE x = e
    BY <2>1, <2>4, <2>5, <1>5
  <2>6. CASE x # e
    BY <2>1, <2>2, <2>3, <2>4, <2>6
  <2>. QED BY <2>5, <2>6
<1>13. Placed(K, t)
  BY <1>3, <1>5, <1>7, <1>8, <1>9, <1>11, <1>12 DEF Placed
<1>. QED BY <1>1, <1>13 DEF K, t, u

(* The state of a node in no list changes.                                 *)
LEMMA PlacedAside ==
  ASSUME NEW L, NEW s, Placed(L, s), NEW x \in Nodes, NEW v,
         \/ x \in Entries /\ Loose(s, x) /\ v \in {"init", "out"}
         \/ x \in RingHeads /\ L[x] = <<>> /\ v \in {"head", "idle"}
  PROVE  Placed(L, [s EXCEPT ![x] = v])
<1>. DEFINE t == [s EXCEPT ![x] = v]
<1>1. /\ t \in [Nodes -> {"head", "idle", "in", "init", "out", "hashed"}]
      /\ t[x] = v /\ \A y \in Nodes : y # x => t[y] = s[y]
  BY DEF Placed
<1>. HIDE DEF t
<1>2. \A y \in Nodes : /\ t[y] \in {"head", "idle"} <=> s[y] \in {"head", "idle"}
                       /\ t[y] \in {"in", "init", "out", "hashed"} <=> s[y] \in {"in", "init", "out", "hashed"}
                       /\ t[y] = "in" <=> s[y] = "in"
                       /\ t[y] = "hashed" <=> s[y] = "hashed"
  BY <1>1, NodesAre DEF Placed, Loose
<1>3. \A h \in RingHeads : t[h] \in {"head", "idle"} /\ (t[h] = "idle" => L[h] = <<>>)
  BY <1>1, <1>2, NodesAre DEF Placed
<1>4. Entries \subseteq Nodes
  BY NodesAre
<1>5. Placed(L, t)
  BY <1>1, <1>2, <1>3, <1>4 DEF Placed
<1>. QED BY <1>5 DEF t

(* An entry takes the place of another.                                    *)
LEMMA SwapHas ==
  ASSUME NEW s \in Seq(Entries), Once(s), NEW e \in Entries, ~Has(s, e), NEW x, Has(s, x),
         NEW t, t = Swapped(s, x, e)
  PROVE  /\ t \in Seq(Entries) /\ Once(t) /\ Len(t) = Len(s)
         /\ \A y : Has(t, y) <=> ((Has(s, y) /\ y # x) \/ y = e)
<1>1. /\ t \in Seq(Entries) /\ Len(t) = Len(s)
      /\ \A j \in 1 .. Len(s) : t[j] = IF s[j] = x THEN e ELSE s[j]
  BY DEF Swapped
<1>2. \A j \in 1 .. Len(s) : s[j] # e
  BY DEF Has
<1>3. Once(t)
  BY <1>1, <1>2 DEF Once
<1>4. ASSUME NEW y PROVE Has(t, y) <=> ((Has(s, y) /\ y # x) \/ y = e)
  <2>1. PICK k \in 1 .. Len(s) : s[k] = x
    BY DEF Has
  <2>2. y = e => Has(t, y)
    BY <1>1, <2>1 DEF Has
  <2>3. Has(s, y) /\ y # x => Has(t, y)
    BY <1>1 DEF Has
  <2>4. Has(t, y) => (Has(s, y) /\ y # x) \/ y = e
    BY <1>1 DEF Has
  <2>. QED BY <2>2, <2>3, <2>4
<1>. QED BY <1>1, <1>3, <1>4

(* The same for the lists: the new entry is then in, the old one out.       *)
LEMMA PlacedSwap ==
  ASSUME NEW L, NEW s, Placed(L, s), NEW h \in RingHeads, NEW x, Has(L[h], x),
         NEW e \in Entries, Loose(s, e)
  PROVE  /\ x \in Entries /\ x # e /\ s[x] = "in"
         /\ Placed([L EXCEPT ![h] = Swapped(L[h], x, e)], [s EXCEPT ![e] = s[x], ![x] = "out"])
<1>. DEFINE u == Swapped(L[h], x, e)
            K == [L EXCEPT ![h] = u]
            t == [s EXCEPT ![e] = s[x], ![x] = "out"]
<1>1. h \in Tops /\ L[h] \in Seq(Entries) /\ Once(L[h]) /\ ~Has(L[h], e)
  BY LooseHas, NodesAre DEF Placed
<1>2. x \in Entries /\ x # e
  BY <1>1 DEF Has
<1>3. s[x] = "in"
  BY <1>2 DEF Placed
<1>4. u \in Seq(Entries) /\ Once(u) /\ \A y : Has(u, y) <=> ((Has(L[h], y) /\ y # x) \/ y = e)
  <2>1. PICK v : v = Swapped(L[h], x, e)
    OBVIOUS
  <2>2. v \in Seq(Entries) /\ Once(v) /\ \A y : Has(v, y) <=> ((Has(L[h], y) /\ y # x) \/ y = e)
    BY <1>1, <2>1, SwapHas
  <2>. QED BY <2>1, <2>2
<1>. HIDE DEF u
<1>5. K \in [Tops -> Seq(Entries)] /\ K[h] = u /\ \A g \in Tops : g # h => K[g] = L[g]
  BY <1>1, <1>4 DEF Placed
<1>6. e \in Nodes /\ x \in Nodes /\ e \notin RingHeads /\ x \notin RingHeads
  BY <1>2, NodesAre
<1>7. /\ t \in [Nodes -> {"head", "idle", "in", "init", "out", "hashed"}]
      /\ t[e] = "in" /\ t[x] = "out"
      /\ \A y \in Nodes : y # x /\ y # e => t[y] = s[y]
  BY <1>2, <1>3, <1>6 DEF Placed
<1>. HIDE DEF K, t
<1>8. \A f, g \in Tops : \A y : Has(L[f], y) /\ Has(L[g], y) => f = g
  BY DEF Placed
<1>9. \A g \in Tops : ~Has(L[g], e)
  BY LooseHas
<1>10. \A g \in Tops : \A y : Has(K[g], y) <=> ((Has(L[g], y) /\ y # x) \/ (g = h /\ y = e))
  <2>. SUFFICES ASSUME NEW g \in Tops, NEW y
       PROVE  Has(K[g], y) <=> ((Has(L[g], y) /\ y # x) \/ (g = h /\ y = e))
    OBVIOUS
  <2>1. CASE g = h
    BY <2>1, <1>4, <1>5
  <2>2. CASE g # h
    <3>1. Has(K[g], y) <=> Has(L[g], y)
      BY <2>2, <1>5
    <3>2. ~Has(L[g], x)
      BY <2>2, <1>1, <1>8
    <3>. QED BY <2>2, <3>1, <3>2
  <2>. QED BY <2>1, <2>2
<1>11. \A f, g \in Tops : \A y : Has(K[f], y) /\ Has(K[g], y) => f = g
  <2>. SUFFICES ASSUME NEW f \in Tops, NEW g \in Tops, NEW y, Has(K[f], y), Has(K[g], y)
       PROVE  f = g
    OBVIOUS
  <2>1. /\ Has(L[f], y) \/ (f = h /\ y = e)
        /\ Has(L[g], y) \/ (g = h /\ y = e)
    BY <1>10
  <2>2. CASE y = e
    BY <1>9, <2>1, <2>2
  <2>3. CASE y # e
    BY <1>8, <2>1, <2>3
  <2>. QED BY <2>2, <2>3
<1>12. \A g \in RingHeads : t[g] \in {"head", "idle"} /\ (t[g] = "idle" => K[g] = <<>>)
  <2>. SUFFICES ASSUME NEW g \in RingHeads
       PROVE  t[g] \in {"head", "idle"} /\ (t[g] = "idle" => K[g] = <<>>)
    OBVIOUS
  <2>1. g \in Nodes /\ g \in Tops /\ g # e /\ g # x /\ t[g] = s[g]
    BY <1>6, <1>7, NodesAre
  <2>2. s[g] \in {"head", "idle"} /\ (s[g] = "idle" => L[g] = <<>>)
    BY DEF Placed
  <2>3. s[g] = "idle" => g # h
    BY <2>2, NoneHas
  <2>. QED BY <2>1, <2>2, <2>3, <1>5
<1>13. \A y \in Entries : t[y] \in {"in", "init", "out", "hashed"}
  BY <1>7, NodesAre DEF Placed
<1>14. \A g \in Tops : Once(K[g])
  BY <1>4, <1>5 DEF Placed
<1>15. ASSUME NEW y \in Entries
       PROVE  /\ t[y] = "in" <=> \E g \in RingHeads : Has(K[g], y)
              /\ t[y] = "hashed" <=> \E g \in HashHeads : Has(K[g], y)
  <2>0. RingHeads \subseteq Tops /\ HashHeads \subseteq Tops /\ h \notin HashHeads /\ y \in Nodes
    BY NodesAre
  <2>1. \A g \in Tops : Has(K[g], y) <=> ((Has(L[g], y) /\ y # x) \/ (g = h /\ y = e))
    BY <1>10
  <2>2. /\ s[y] = "in" <=> \E g \in RingHeads : Has(L[g], y)
        /\ s[y] = "hashed" <=> \E g \in HashHeads : Has(L[g], y)
    BY DEF Placed
  <2>3. CASE y = e
    BY <2>0, <2>1, <2>3, <1>7, <1>9, <1>2
  <2>4. CASE y = x
    BY <2>0, <2>1, <2>4, <1>7, <1>2
  <2>5. CASE y # e /\ y # x
    BY <2>0, <2>1, <2>2, <2>5, <1>7
  <2>. QED BY <2>3, <2>4, <2>5
<1>16. Placed(K, t)
  BY <1>5, <1>7, <1>11, <1>12, <1>13, <1>14, <1>15 DEF Placed
<1>. QED BY <1>2, <1>3, <1>16 DEF K, t, u

(* All the entries of one list go into another.                            *)
LEMMA PlacedJoin ==
  ASSUME NEW L, NEW s, Placed(L, s), NEW g \in RingHeads, NEW h \in RingHeads, g # h,
         s[h] = "head"
  PROVE  Placed([L EXCEPT ![h] = L[g] \o L[h], ![g] = <<>>], s)
<1>. DEFINE u == L[g] \o L[h]
            K == [L EXCEPT ![h] = u, ![g] = <<>>]
<1>1. /\ g \in Tops /\ h \in Tops /\ L[g] \in Seq(Entries) /\ L[h] \in Seq(Entries)
      /\ Once(L[g]) /\ Once(L[h])
  BY NodesAre DEF Placed
<1>2. \A f, k \in Tops : \A y : Has(L[f], y) /\ Has(L[k], y) => f = k
  BY DEF Placed
<1>3. /\ u \in Seq(Entries) /\ Len(u) = Len(L[g]) + Len(L[h])
      /\ \A j \in 1 .. Len(L[g]) : u[j] = L[g][j]
      /\ \A j \in 1 .. Len(L[h]) : u[Len(L[g]) + j] = L[h][j]
      /\ \A x : Has(u, x) <=> (Has(L[g], x) \/ Has(L[h], x))
  <2>. DEFINE a == L[g]
              b == L[h]
  <2>1. a \in Seq(Entries) /\ b \in Seq(Entries)
    BY <1>1
  <2>. HIDE DEF a, b
  <2>2. /\ a \o b \in Seq(Entries) /\ Len(a \o b) = Len(a) + Len(b)
        /\ \A j \in 1 .. Len(a) : (a \o b)[j] = a[j]
        /\ \A j \in 1 .. Len(b) : (a \o b)[Len(a) + j] = b[j]
        /\ \A x : Has(a \o b, x) <=> (Has(a, x) \/ Has(b, x))
    BY <2>1, JoinIs
  <2>. QED BY <2>2 DEF u, a, b
<1>. HIDE DEF u
<1>4. Once(u)
  <2>1. \A x : ~(Has(L[g], x) /\ Has(L[h], x))
    BY <1>1, <1>2
  <2>. QED BY <2>1, <1>1, JoinOnce DEF u
<1>5. /\ K \in [Tops -> Seq(Entries)] /\ K[h] = u /\ K[g] = <<>>
      /\ \A f \in Tops : f # h /\ f # g => K[f] = L[f]
  BY <1>1, <1>3, NoneHas DEF Placed
<1>. HIDE DEF K
<1>6. \A f \in Tops : \A y :
        Has(K[f], y) <=> \/ f # g /\ Has(L[f], y)
                         \/ f = h /\ Has(L[g], y)
  <2>. SUFFICES ASSUME NEW f \in Tops, NEW y
       PROVE  Has(K[f], y) <=> ((f # g /\ Has(L[f], y)) \/ (f = h /\ Has(L[g], y)))
    OBVIOUS
  <2>1. CASE f = h
    BY <2>1, <1>3, <1>5
  <2>2. CASE f = g
    BY <2>2, <1>5, NoneHas
  <2>3. CASE f # h /\ f # g
    BY <2>3, <1>5
  <2>. QED BY <2>1, <2>2, <2>3
<1>7. \A f, k \in Tops : \A y : Has(K[f], y) /\ Has(K[k], y) => f = k
  <2>. SUFFICES ASSUME NEW f \in Tops, NEW k \in Tops, NEW y, Has(K[f], y), Has(K[k], y)
       PROVE  f = k
    OBVIOUS
  <2>1. (f # g /\ Has(L[f], y)) \/ (f = h /\ Has(L[g], y))
    BY <1>6
  <2>2. (k # g /\ Has(L[k], y)) \/ (k = h /\ Has(L[g], y))
    BY <1>6
  <2>3. \A a \in Tops : Has(L[a], y) => \A b \in Tops : Has(L[b], y) => a = b
    BY <1>2
  <2>. QED BY <2>1, <2>2, <2>3, <1>1
<1>8. \A f \in Tops : Once(K[f])
  BY <1>4, <1>5, NoneHas DEF Placed
<1>9. \A f \in RingHeads : s[f] \in {"head", "idle"} /\ (s[f] = "idle" => K[f] = <<>>)
  BY <1>5, NodesAre DEF Placed
<1>10. ASSUME NEW y \in Entries
       PROVE  /\ s[y] = "in" <=> \E f \in RingHeads : Has(K[f], y)
              /\ s[y] = "hashed" <=> \E f \in HashHeads : Has(K[f], y)
  <2>1. /\ s[y] = "in" <=> \E f \in RingHeads : Has(L[f], y)
        /\ s[y] = "hashed" <=> \E f \in HashHeads : Has(L[f], y)
    BY DEF Placed
  <2>2. \A f \in HashHeads : f \in Tops /\ f # g /\ f # h
    BY NodesAre
  <2>3. \A f \in HashHeads : Has(K[f], y) <=> Has(L[f], y)
    BY <2>2, <1>6
  <2>4. \A f \in RingHeads : Has(K[f], y) => \E k \in RingHeads : Has(L[k], y)
    BY <1>6, NodesAre
  <2>5. ASSUME NEW f \in RingHeads, Has(L[f], y) PROVE \E k \in RingHeads : Has(K[k], y)
    <3>1. f = g => Has(K[h], y)
      BY <2>5, <1>1, <1>6
    <3>2. f # g => Has(K[f], y)
      BY <2>5, <1>6, NodesAre
    <3>. QED BY <3>1, <3>2
  <2>. QED BY <2>1, <2>3, <2>4, <2>5
<1>11. Placed(K, s)
  BY <1>5, <1>7, <1>8, <1>9, <1>10 DEF Placed
<1>. QED BY <1>11 DEF K, u

(* All the entries of a list leave it.                                     *)
LEMMA PlacedNone ==
  ASSUME NEW L, NEW s, Placed(L, s), NEW h \in RingHeads,
         NEW t, t = [x \in Nodes |-> IF Has(L[h], x) THEN "out" ELSE s[x]]
  PROVE  Placed([L EXCEPT ![h] = <<>>], t) /\ t[h] = s[h]
<1>. DEFINE K == [L EXCEPT ![h] = <<>>]
<1>1. h \in Tops /\ h \in Nodes /\ L[h] \in Seq(Entries) /\ \A x : Has(L[h], x) => x \in Entries
  BY NodesAre DEF Placed, Has
<1>2. \A f, k \in Tops : \A y : Has(L[f], y) /\ Has(L[k], y) => f = k
  BY DEF Placed
<1>3. /\ K \in [Tops -> Seq(Entries)] /\ K[h] = <<>>
      /\ \A f \in Tops : f # h => K[f] = L[f]
  BY <1>1, NoneHas DEF Placed
<1>4. /\ t \in [Nodes -> {"head", "idle", "in", "init", "out", "hashed"}]
      /\ \A y \in Nodes : t[y] = IF Has(L[h], y) THEN "out" ELSE s[y]
  BY DEF Placed
<1>. HIDE DEF K
<1>5. \A f \in RingHeads : t[f] = s[f]
  BY <1>1, <1>4, NodesAre
<1>6. \A f \in Tops : \A y : Has(K[f], y) <=> (f # h /\ Has(L[f], y))
  BY <1>3, NoneHas
<1>7. \A f, k \in Tops : \A y : Has(K[f], y) /\ Has(K[k], y) => f = k
  BY <1>2, <1>6
<1>8. \A f \in Tops : Once(K[f])
  BY <1>3, NoneHas DEF Placed
<1>9. \A f \in RingHeads : t[f] \in {"head", "idle"} /\ (t[f] = "idle" => K[f] = <<>>)
  BY <1>3, <1>5, NodesAre DEF Placed
<1>10. \A y \in Entries : t[y] \in {"in", "init", "out", "hashed"}
  BY <1>4, NodesAre DEF Placed
<1>11. ASSUME NEW y \in Entries
       PROVE  /\ t[y] = "in" <=> \E f \in RingHeads : Has(K[f], y)
              /\ t[y] = "hashed" <=> \E f \in HashHeads : Has(K[f], y)
  <2>1. /\ s[y] = "in" <=> \E f \in RingHeads : Has(L[f], y)
        /\ s[y] = "hashed" <=> \E f \in HashHeads : Has(L[f], y)
    BY DEF Placed
  <2>2. RingHeads \subseteq Tops /\ HashHeads \subseteq Tops /\ h \notin HashHeads /\ y \in Nodes
    BY NodesAre
  <2>3. CASE Has(L[h], y)
    <3>1. t[y] = "out"
      BY <2>2, <2>3, <1>4
    <3>2. \A f \in Tops : ~Has(K[f], y)
      BY <2>3, <1>1, <1>2, <1>6
    <3>. QED BY <3>1, <3>2, <2>2
  <2>4. CASE ~Has(L[h], y)
    <3>1. t[y] = s[y]
      BY <2>2, <2>4, <1>4
    <3>2. \A f \in Tops : Has(K[f], y) <=> Has(L[f], y)
      BY <2>4, <1>6
    <3>. QED BY <3>1, <3>2, <2>1, <2>2
  <2>. QED BY <2>3, <2>4
<1>12. Placed(K, t)
  BY <1>3, <1>4, <1>7, <1>8, <1>9, <1>10, <1>11 DEF Placed
<1>. QED BY <1>5, <1>12 DEF K

-----------------------------------------------------------------------------
(* The operations on rings, whatever ring they are done to. *)

(* An entry is linked in front of the m-th of a list.                      *)
LEMMA GoodAdd ==
  ASSUME NEW r, NEW L, NEW s, Good(r, L, s), NEW e \in Entries, Loose(s, e),
         NEW h \in RingHeads, s[h] = "head", NEW m \in 1 .. Len(L[h]) + 1
  PROVE  Good(LinkBetween(r, e, Cell(h, L[h], m - 1), Cell(h, L[h], m)),
              [L EXCEPT ![h] = InsertAt(L[h], m, e)], [s EXCEPT ![e] = "in"])
<1>. DEFINE u == InsertAt(L[h], m, e)
            K == [L EXCEPT ![h] = u]
            t == [s EXCEPT ![e] = "in"]
            X == On(h, L[h]) \cup {e}
<1>1. PICK g : g = LinkBetween(r, e, Cell(h, L[h], m - 1), Cell(h, L[h], m))
  OBVIOUS
<1>2. Placed(L, s) /\ Rounds(r, L, s) /\ RingTyped(r) /\ IsRing(r, h, L[h])
  BY DEF Good, Rounds
<1>3. h \in Tops /\ e # h /\ e \in Nodes /\ ~Has(L[h], e) /\ s[e] # "in"
  BY <1>2, NodesAre, LooseHas DEF Loose
<1>4. RingTyped(g) /\ IsRing(g, h, u) /\ Aside(r, g, X)
  BY <1>1, <1>2, <1>3, Inserted
<1>5. Placed(K, t)
  BY <1>2, <1>3, PlacedIn
<1>6. /\ K[h] = u /\ \A f \in RingHeads : f # h => K[f] = L[f] /\ f \in Tops
      /\ \A x \in Nodes : x # e => t[x] = s[x]
      /\ t[e] = "in"
  BY <1>2, <1>3, NodesAre DEF Placed
<1>. HIDE DEF K, t, u
<1>7. \A f \in RingHeads : t[f] = "head" =>
        IsRing(g, f, K[f]) \/ (s[f] = "head" /\ K[f] = L[f] /\ X \cap On(f, L[f]) = {})
  <2>. SUFFICES ASSUME NEW f \in RingHeads, t[f] = "head", f # h
       PROVE  s[f] = "head" /\ K[f] = L[f] /\ X \cap On(f, L[f]) = {}
    BY <1>4, <1>6
  <2>1. On(h, L[h]) \cap On(f, L[f]) = {} /\ e \notin On(f, L[f])
    BY <1>2, <1>3, Apart
  <2>2. f \in Nodes /\ f # e
    BY NodesAre
  <2>. QED BY <2>1, <2>2, <1>6
<1>8. \A x \in Entries : t[x] = "init" => IsRing(g, x, <<>>) \/ (s[x] = "init" /\ x \notin X)
  <2>. SUFFICES ASSUME NEW x \in Entries, t[x] = "init" PROVE s[x] = "init" /\ x \notin X
    OBVIOUS
  <2>1. x \in Nodes /\ x # e /\ s[x] = "init"
    BY <1>6, NodesAre
  <2>. QED BY <2>1, <1>2, Apart
<1>. HIDE DEF X
<1>9. Rounds(g, K, t)
  BY <1>2, <1>4, <1>7, <1>8, Elsewhere
<1>. QED BY <1>1, <1>5, <1>9 DEF Good, K, t, u

(* The node of an entry in a ring.                                         *)
LEMMA WhereIn ==
  ASSUME NEW L, NEW s, Placed(L, s), NEW e \in Entries, s[e] = "in"
  PROVE  \E h \in RingHeads : /\ s[h] = "head" /\ Has(L[h], e)
                              /\ \E k \in 1 .. Len(L[h]) : L[h][k] = e
<1>1. PICK h \in RingHeads : Has(L[h], e)
  BY DEF Placed
<1>2. s[h] = "head"
  BY <1>1, NoneHas DEF Placed
<1>. QED BY <1>1, <1>2 DEF Has

(* An entry is taken out of the list it is in.                             *)
LEMMA GoodDel ==
  ASSUME NEW r, NEW L, NEW s, Good(r, L, s), NEW h \in RingHeads, NEW k \in 1 .. Len(L[h]),
         NEW e, e = L[h][k]
  PROVE  /\ Good(Unlink(r, e), [L EXCEPT ![h] = RemoveAt(L[h], k)], [s EXCEPT ![e] = "out"])
         /\ e \in Entries /\ s[e] = "in" /\ s[h] = "head"
<1>. DEFINE u == RemoveAt(L[h], k)
            K == [L EXCEPT ![h] = u]
            t == [s EXCEPT ![e] = "out"]
            X == On(h, L[h])
<1>1. PICK g : g = Unlink(r, L[h][k])
  OBVIOUS
<1>2. Placed(L, s) /\ Rounds(r, L, s) /\ RingTyped(r) /\ h \in Tops
  BY NodesAre DEF Good, Rounds
<1>3. Placed(K, t) /\ e \in Entries /\ Has(L[h], e)
  BY <1>2, PlacedOut
<1>4. s[e] = "in" /\ s[h] = "head" /\ IsRing(r, h, L[h])
  BY <1>2, <1>3, NoneHas DEF Placed, Rounds
<1>5. RingTyped(g) /\ IsRing(g, h, u) /\ Aside(r, g, X)
  BY <1>1, <1>2, <1>4, Removed
<1>6. /\ K[h] = u /\ \A f \in RingHeads : f # h => K[f] = L[f] /\ f \in Tops
      /\ \A x \in Nodes : x # e => t[x] = s[x]
      /\ t[e] = "out"
  BY <1>2, <1>3, NodesAre DEF Placed
<1>. HIDE DEF K, t, u
<1>7. \A f \in RingHeads : t[f] = "head" =>
        IsRing(g, f, K[f]) \/ (s[f] = "head" /\ K[f] = L[f] /\ X \cap On(f, L[f]) = {})
  <2>. SUFFICES ASSUME NEW f \in RingHeads, t[f] = "head", f # h
       PROVE  s[f] = "head" /\ K[f] = L[f] /\ X \cap On(f, L[f]) = {}
    BY <1>5, <1>6
  <2>1. On(h, L[h]) \cap On(f, L[f]) = {}
    BY <1>2, <1>3, Apart
  <2>2. f \in Nodes /\ f # e
    BY <1>3, NodesAre
  <2>. QED BY <2>1, <2>2, <1>6
<1>8. \A x \in Entries : t[x] = "init" => IsRing(g, x, <<>>) \/ (s[x] = "init" /\ x \notin X)
  <2>. SUFFICES ASSUME NEW x \in Entries, t[x] = "init" PROVE s[x] = "init" /\ x \notin X
    OBVIOUS
  <2>1. x \in Nodes /\ x # e /\ s[x] = "init"
    BY <1>6, NodesAre
  <2>. QED BY <2>1, <1>2, Apart
<1>. HIDE DEF X
<1>9. Rounds(g, K, t)
  BY <1>2, <1>5, <1>7, <1>8, Elsewhere
<1>. QED BY <1>1, <1>3, <1>4, <1>9 DEF Good, K, t, u

(* The pointers of a node in no list are written.                          *)
LEMMA GoodAside ==
  ASSUME NEW r, NEW L, NEW s, Good(r, L, s), NEW e \in Entries, Loose(s, e),
         NEW g, RingTyped(g), Aside(r, g, {e}), NEW v \in {"init", "out"},
         v = "init" => g.next[e] = e /\ g.prev[e] = e
  PROVE  Good(g, L, [s EXCEPT ![e] = v])
<1>. DEFINE t == [s EXCEPT ![e] = v]
<1>1. Placed(L, s) /\ Rounds(r, L, s) /\ e \in Nodes /\ s[e] # "in"
  BY NodesAre DEF Good, Loose
<1>2. Placed(L, t)
  BY <1>1, PlacedAside
<1>3. t[e] = v /\ \A x \in Nodes : x # e => t[x] = s[x]
  BY <1>1 DEF Placed
<1>. HIDE DEF t
<1>4. \A f \in RingHeads : t[f] = "head" =>
        IsRing(g, f, L[f]) \/ (s[f] = "head" /\ L[f] = L[f] /\ {e} \cap On(f, L[f]) = {})
  <2>. SUFFICES ASSUME NEW f \in RingHeads, t[f] = "head"
       PROVE  s[f] = "head" /\ {e} \cap On(f, L[f]) = {}
    OBVIOUS
  <2>1. f \in Nodes /\ f # e /\ e \notin On(f, L[f])
    BY <1>1, NodesAre, Apart
  <2>. QED BY <2>1, <1>3
<1>5. \A x \in Entries : t[x] = "init" => IsRing(g, x, <<>>) \/ (s[x] = "init" /\ x \notin {e})
  <2>1. t[e] = "init" => IsRing(g, e, <<>>)
    BY <1>1, <1>3, LoneRing
  <2>2. \A x \in Entries : x \in Nodes
    BY NodesAre
  <2>. QED BY <2>1, <2>2, <1>3
<1>6. Rounds(g, L, t)
  BY <1>1, <1>4, <1>5, Elsewhere
<1>. QED BY <1>2, <1>6 DEF Good, t

(* INIT_LIST_HEAD() and the poison of list_del().                          *)
LEMMA InitIs ==
  ASSUME NEW r, RingTyped(r), NEW x \in Nodes
  PROVE  /\ RingTyped(InitList(r, x)) /\ Aside(r, InitList(r, x), {x})
         /\ InitList(r, x).next[x] = x /\ InitList(r, x).prev[x] = x
         /\ RingTyped(Poisoned(r, x)) /\ Aside(r, Poisoned(r, x), {x})
<1>1. r.next \in Pointers /\ r.prev \in Pointers
  BY DEF RingTyped, Rings, Pointers
<1>2. /\ [r.next EXCEPT ![x] = x] \in Pointers /\ [r.prev EXCEPT ![x] = x] \in Pointers
      /\ [r.next EXCEPT ![x] = Poison] \in Pointers /\ [r.prev EXCEPT ![x] = Poison] \in Pointers
  BY <1>1 DEF Pointers
<1>3. RingTyped(InitList(r, x)) /\ RingTyped(Poisoned(r, x))
  BY <1>2 DEF RingTyped, Rings, Pointers, InitList, Poisoned
<1>4. Aside(r, InitList(r, x), {x}) /\ InitList(r, x).next[x] = x /\ InitList(r, x).prev[x] = x
  BY <1>1 DEF Aside, InitList, Pointers
<1>5. Aside(r, Poisoned(r, x), {x})
  BY <1>1 DEF Aside, Poisoned, Pointers
<1>. QED BY <1>3, <1>4, <1>5

(* list_replace() of an entry in a list.                                   *)
LEMMA GoodReplace ==
  ASSUME NEW r, NEW L, NEW s, Good(r, L, s), NEW h \in RingHeads, NEW k \in 1 .. Len(L[h]),
         NEW x, x = L[h][k], NEW e \in Entries, Loose(s, e)
  PROVE  /\ x \in Entries /\ x # e /\ s[x] = "in"
         /\ Good(ListReplace(r, x, e), [L EXCEPT ![h] = Swapped(L[h], x, e)],
                 [s EXCEPT ![e] = s[x], ![x] = "out"])
<1>. DEFINE w == Swapped(L[h], x, e)
            K == [L EXCEPT ![h] = w]
            t == [s EXCEPT ![e] = s[x], ![x] = "out"]
            X == On(h, L[h]) \cup {e}
<1>1. PICK g : g = ListReplace(r, L[h][k], e)
  OBVIOUS
<1>2. /\ Placed(L, s) /\ Rounds(r, L, s) /\ RingTyped(r) /\ h \in Tops /\ Has(L[h], x)
      /\ e \in Nodes /\ s[e] # "in"
  BY NodesAre DEF Good, Rounds, Has, Loose
<1>3. Placed(K, t) /\ x \in Entries /\ x # e /\ s[x] = "in"
  <2>1. PICK y : y = x
    OBVIOUS
  <2>2. Has(L[h], y) /\ Placed(L, s)
    BY <1>2, <2>1
  <2>3. y \in Entries /\ y # e /\ s[y] = "in"
    BY ZenonT(40), <2>2, PlacedSwap
  <2>4. Placed([L EXCEPT ![h] = Swapped(L[h], y, e)], [s EXCEPT ![e] = s[y], ![y] = "out"])
    BY <2>2, PlacedSwap
  <2>. QED BY <2>1, <2>3, <2>4
<1>4. s[h] = "head" /\ IsRing(r, h, L[h]) /\ ~Has(L[h], e) /\ e # h
  BY <1>2, NoneHas, LooseHas, NodesAre DEF Placed, Rounds
<1>5. PICK u : u = w
  OBVIOUS
<1>6. u = Swapped(L[h], L[h][k], e)
  BY <1>5
<1>7. RingTyped(g) /\ IsRing(g, h, u) /\ Aside(r, g, X)
  <2>1. PICK v : v = L[h]
    OBVIOUS
  <2>2. /\ IsRing(r, h, v) /\ ~Has(v, e) /\ k \in 1 .. Len(v) /\ g = ListReplace(r, v[k], e)
        /\ u = Swapped(v, v[k], e)
    BY <1>1, <1>4, <1>6, <2>1
  <2>3. RingTyped(g) /\ IsRing(g, h, u) /\ Aside(r, g, On(h, v) \cup {e})
    <3>1. g = ListReplace(r, v[k], e) /\ u = Swapped(v, v[k], e)
      BY <2>2
    <3>2. RingTyped(r) /\ IsRing(r, h, v) /\ ~Has(v, e) /\ k \in 1 .. Len(v) /\ e \in Entries /\ e # h
      BY <1>2, <1>4, <2>2
    <3>. HIDE DEF w, K, t, X
    <3>. QED BY ONLY SMTT(30), <3>1, <3>2, Replaced
  <2>. QED BY <2>1, <2>3
<1>8. /\ K[h] = u /\ \A f \in RingHeads : f # h => K[f] = L[f] /\ f \in Tops
      /\ \A y \in Nodes : y # e /\ y # x => t[y] = s[y]
      /\ t[e] = "in" /\ t[x] = "out"
  BY <1>2, <1>3, <1>5, NodesAre DEF Placed
<1>. HIDE DEF K, t, w
<1>9. \A f \in RingHeads : t[f] = "head" =>
        IsRing(g, f, K[f]) \/ (s[f] = "head" /\ K[f] = L[f] /\ X \cap On(f, L[f]) = {})
  <2>. SUFFICES ASSUME NEW f \in RingHeads, t[f] = "head", f # h
       PROVE  s[f] = "head" /\ K[f] = L[f] /\ X \cap On(f, L[f]) = {}
    BY <1>7, <1>8
  <2>1. On(h, L[h]) \cap On(f, L[f]) = {} /\ e \notin On(f, L[f])
    BY <1>2, <1>3, Apart
  <2>2. f \in Nodes /\ f # e /\ f # x
    BY <1>3, NodesAre
  <2>. QED BY <2>1, <2>2, <1>8
<1>10. \A y \in Entries : t[y] = "init" => IsRing(g, y, <<>>) \/ (s[y] = "init" /\ y \notin X)
  <2>. SUFFICES ASSUME NEW y \in Entries, t[y] = "init" PROVE s[y] = "init" /\ y \notin X
    OBVIOUS
  <2>1. y \in Nodes /\ y # e /\ y # x /\ s[y] = "init"
    BY <1>8, NodesAre
  <2>. QED BY <2>1, <1>2, Apart
<1>. HIDE DEF X
<1>11. Rounds(g, K, t)
  BY <1>2, <1>7, <1>9, <1>10, Elsewhere
<1>. QED BY <1>1, <1>3, <1>11 DEF Good, K, t, w

(* list_replace() of an entry that was initialised and is in no list.      *)
LEMMA GoodReplaceLone ==
  ASSUME NEW r, NEW L, NEW s, Good(r, L, s), NEW x \in Entries, s[x] = "init",
         NEW e \in Entries, Loose(s, e), e # x
  PROVE  Good(ListReplace(r, x, e), L, [s EXCEPT ![e] = s[x], ![x] = "out"])
<1>. DEFINE g == ListReplace(r, x, e)
            t1 == [s EXCEPT ![e] = "init"]
            t == [s EXCEPT ![e] = s[x], ![x] = "out"]
<1>1. /\ Placed(L, s) /\ Rounds(r, L, s) /\ RingTyped(r) /\ x \in Nodes /\ e \in Nodes
      /\ s[e] # "in"
  BY NodesAre DEF Good, Rounds, Loose
<1>2. r.next[x] = x /\ r.prev[x] = x
  BY <1>1, LoneRing DEF Rounds
<1>3. r.next \in Pointers /\ r.prev \in Pointers
  BY <1>1 DEF RingTyped, Rings, Pointers
<1>4. /\ g = [next |-> g.next, prev |-> g.prev] /\ g.next \in Pointers /\ g.prev \in Pointers
      /\ g.next = [[r.next EXCEPT ![e] = x] EXCEPT ![e] = e]
      /\ g.prev = [[r.prev EXCEPT ![x] = e] EXCEPT ![e] = e]
  BY <1>1, <1>2, <1>3 DEF ListReplace, Pointers
<1>5. RingTyped(g)
  BY <1>4 DEF RingTyped, Rings, Pointers
<1>6. Aside(r, g, {x, e}) /\ g.next[e] = e /\ g.prev[e] = e
  BY <1>1, <1>3, <1>4 DEF Aside, Pointers
<1>7. Placed(L, t1) /\ Loose(t1, x)
  BY <1>1, PlacedAside DEF Placed, Loose
<1>8. Placed(L, [t1 EXCEPT ![x] = "out"])
  BY <1>1, <1>7, PlacedAside
<1>9. t = [t1 EXCEPT ![x] = "out"]
  BY <1>1 DEF Placed
<1>10. Placed(L, t)
  BY <1>8, <1>9
<1>11. /\ t[e] = "init" /\ t[x] = "out"
       /\ \A y \in Nodes : y # e /\ y # x => t[y] = s[y]
  BY <1>1 DEF Placed
<1>. HIDE DEF g, t, t1
<1>12. \A f \in RingHeads : t[f] = "head" =>
         IsRing(g, f, L[f]) \/ (s[f] = "head" /\ L[f] = L[f] /\ {x, e} \cap On(f, L[f]) = {})
  <2>. SUFFICES ASSUME NEW f \in RingHeads, t[f] = "head"
       PROVE  s[f] = "head" /\ {x, e} \cap On(f, L[f]) = {}
    OBVIOUS
  <2>1. f \in Nodes /\ f # e /\ f # x /\ e \notin On(f, L[f]) /\ x \notin On(f, L[f])
    BY <1>1, NodesAre, Apart
  <2>. QED BY <2>1, <1>11
<1>13. \A y \in Entries : t[y] = "init" => IsRing(g, y, <<>>) \/ (s[y] = "init" /\ y \notin {x, e})
  <2>1. IsRing(g, e, <<>>)
    BY <1>1, <1>6, LoneRing
  <2>2. \A y \in Entries : y \in Nodes
    BY NodesAre
  <2>. QED BY <2>1, <2>2, <1>11
<1>14. Rounds(g, L, t)
  BY <1>1, <1>5, <1>6, <1>12, <1>13, Elsewhere
<1>. QED BY <1>10, <1>14 DEF Good, g, t

(* list_del_init() of such an entry writes its own pointers to itself.     *)
LEMMA GoodInitAgain ==
  ASSUME NEW r, NEW L, NEW s, Good(r, L, s), NEW e \in Entries, s[e] = "init"
  PROVE  Good(InitList(Unlink(r, e), e), L, s)
<1>1. RingTyped(r) /\ e \in Nodes /\ r.next[e] = e /\ r.prev[e] = e
  BY NodesAre, LoneRing DEF Good, Rounds
<1>2. r \in Rings /\ r.next \in Pointers /\ r.prev \in Pointers
  BY <1>1 DEF RingTyped, Rings, Pointers
<1>3. [r.prev EXCEPT ![e] = e] = r.prev /\ [r.next EXCEPT ![e] = e] = r.next
  BY <1>1, <1>2 DEF Pointers
<1>4. InitList(Unlink(r, e), e) = [next |-> r.next, prev |-> r.prev]
  BY <1>1, <1>3 DEF Unlink, InitList
<1>5. r = [next |-> r.next, prev |-> r.prev]
  BY <1>2 DEF Rings
<1>. QED BY <1>4, <1>5

(* list_splice() of a list with entries: its head is then idle.            *)
LEMMA GoodSplice ==
  ASSUME NEW r, NEW L, NEW s, Good(r, L, s), NEW a \in RingHeads, NEW h \in RingHeads, a # h,
         s[a] = "head", s[h] = "head", L[a] # <<>>
  PROVE  Good(ListSplice(r, a, h), [L EXCEPT ![h] = L[a] \o L[h], ![a] = <<>>],
              [s EXCEPT ![a] = "idle"])
<1>. DEFINE K == [L EXCEPT ![h] = L[a] \o L[h], ![a] = <<>>]
            t == [s EXCEPT ![a] = "idle"]
            X == On(a, L[a]) \cup On(h, L[h])
<1>1. PICK g : g = ListSplice(r, a, h)
  OBVIOUS
<1>2. /\ Placed(L, s) /\ Rounds(r, L, s) /\ RingTyped(r) /\ a \in Tops /\ h \in Tops
      /\ a \in Nodes /\ h \in Nodes
      /\ IsRing(r, a, L[a]) /\ IsRing(r, h, L[h])
  BY NodesAre DEF Good, Rounds
<1>3. On(a, L[a]) \cap On(h, L[h]) = {}
  BY <1>2, Apart
<1>4. Len(L[a]) > 0
  <2>1. Len(L[a]) \in Nat
    BY <1>2, RingCells
  <2>2. Len(L[a]) # 0
    BY <1>2, EmptyIs
  <2>. QED BY <2>1, <2>2
<1>5. RingTyped(g) /\ IsRing(g, h, L[a] \o L[h]) /\ Aside(r, g, X)
  BY <1>1, <1>2, <1>3, <1>4, Spliced
<1>6. Placed(K, s)
  BY <1>2, PlacedJoin
<1>7. K[h] = L[a] \o L[h] /\ K[a] = <<>> /\ \A f \in RingHeads : f # h /\ f # a => K[f] = L[f]
  BY <1>2, NodesAre DEF Placed
<1>8. t[a] = "idle" /\ \A y \in Nodes : y # a => t[y] = s[y]
  BY <1>2 DEF Placed
<1>9. Placed(K, t)
  BY <1>2, <1>6, <1>7, PlacedAside
<1>. HIDE DEF K, t
<1>10. \A f \in RingHeads : t[f] = "head" =>
         IsRing(g, f, K[f]) \/ (s[f] = "head" /\ K[f] = L[f] /\ X \cap On(f, L[f]) = {})
  <2>. SUFFICES ASSUME NEW f \in RingHeads, t[f] = "head", f # h
       PROVE  s[f] = "head" /\ K[f] = L[f] /\ X \cap On(f, L[f]) = {}
    BY <1>5, <1>7
  <2>1. f # a /\ f \in Nodes
    BY <1>8, NodesAre
  <2>2. On(h, L[h]) \cap On(f, L[f]) = {} /\ On(a, L[a]) \cap On(f, L[f]) = {}
    BY <2>1, <1>2, Apart
  <2>. QED BY <2>1, <2>2, <1>7, <1>8
<1>11. \A y \in Entries : t[y] = "init" => IsRing(g, y, <<>>) \/ (s[y] = "init" /\ y \notin X)
  <2>. SUFFICES ASSUME NEW y \in Entries, t[y] = "init" PROVE s[y] = "init" /\ y \notin X
    OBVIOUS
  <2>1. y \in Nodes /\ y # a /\ s[y] = "init"
    BY <1>8, NodesAre
  <2>. QED BY <2>1, <1>2, Apart
<1>. HIDE DEF X
<1>12. Rounds(g, K, t)
  BY <1>2, <1>5, <1>10, <1>11, Elsewhere
<1>. QED BY <1>1, <1>9, <1>12 DEF Good, K, t

(* INIT_LIST_HEAD() of an idle head.                                       *)
LEMMA GoodHead ==
  ASSUME NEW r, NEW L, NEW s, Good(r, L, s), NEW h \in RingHeads, s[h] = "idle"
  PROVE  Good(InitList(r, h), L, [s EXCEPT ![h] = "head"])
<1>. DEFINE g == InitList(r, h)
            t == [s EXCEPT ![h] = "head"]
<1>1. Placed(L, s) /\ Rounds(r, L, s) /\ RingTyped(r) /\ h \in Nodes /\ L[h] = <<>>
  BY NodesAre DEF Good, Rounds, Placed
<1>2. RingTyped(g) /\ Aside(r, g, {h}) /\ g.next[h] = h /\ g.prev[h] = h
  BY <1>1, InitIs
<1>3. Placed(L, t)
  BY <1>1, PlacedAside
<1>4. t[h] = "head" /\ \A y \in Nodes : y # h => t[y] = s[y]
  BY <1>1 DEF Placed
<1>. HIDE DEF g, t
<1>5. \A f \in RingHeads : t[f] = "head" =>
        IsRing(g, f, L[f]) \/ (s[f] = "head" /\ L[f] = L[f] /\ {h} \cap On(f, L[f]) = {})
  <2>1. IsRing(g, h, L[h])
    BY <1>1, <1>2, LoneRing
  <2>. SUFFICES ASSUME NEW f \in RingHeads, t[f] = "head", f # h
       PROVE  s[f] = "head" /\ {h} \cap On(f, L[f]) = {}
    BY <2>1
  <2>2. f \in Nodes
    BY NodesAre
  <2>3. h \notin On(f, L[f])
    BY <1>1, Apart, NodesAre
  <2>. QED BY <2>2, <2>3, <1>4
<1>6. \A y \in Entries : t[y] = "init" => IsRing(g, y, <<>>) \/ (s[y] = "init" /\ y \notin {h})
  BY <1>4, NodesAre
<1>7. Rounds(g, L, t)
  BY <1>1, <1>2, <1>5, <1>6, Elsewhere
<1>. QED BY <1>3, <1>7 DEF Good, g, t

(* The states when the entries of a list are out. *)
Freed(s, q) == [x \in Nodes |-> IF Has(q, x) THEN "out" ELSE s[x]]

(* The entries of a list deleted while it is walked.                       *)
LEMMA GoodClear ==
  ASSUME NEW r, NEW L, NEW s, Good(r, L, s), NEW h \in RingHeads, s[h] = "head"
  PROVE  Good(DeleteWalking(r, h), [L EXCEPT ![h] = <<>>], Freed(s, L[h]))
<1>. DEFINE K == [L EXCEPT ![h] = <<>>]
            X == On(h, L[h])
<1>1. PICK g : g = DeleteWalking(r, h)
  OBVIOUS
<1>2. PICK t : t = Freed(s, L[h]) /\ t = [x \in Nodes |-> IF Has(L[h], x) THEN "out" ELSE s[x]]
  BY DEF Freed
<1>3. Placed(L, s) /\ Rounds(r, L, s) /\ RingTyped(r) /\ IsRing(r, h, L[h]) /\ h \in Tops
  BY NodesAre DEF Good, Rounds
<1>4. RingTyped(g) /\ IsRing(g, h, <<>>) /\ Aside(r, g, X)
  BY <1>1, <1>3, Cleared
<1>5. Placed(K, t)
  BY <1>2, <1>3, PlacedNone
<1>6. K[h] = <<>> /\ \A f \in RingHeads : f # h => K[f] = L[f]
  BY <1>3, NodesAre DEF Placed
<1>7. \A y \in Nodes : t[y] # "out" => t[y] = s[y]
  BY <1>2
<1>. HIDE DEF K
<1>8. \A f \in RingHeads : t[f] = "head" =>
        IsRing(g, f, K[f]) \/ (s[f] = "head" /\ K[f] = L[f] /\ X \cap On(f, L[f]) = {})
  <2>. SUFFICES ASSUME NEW f \in RingHeads, t[f] = "head", f # h
       PROVE  s[f] = "head" /\ K[f] = L[f] /\ X \cap On(f, L[f]) = {}
    BY <1>4, <1>6
  <2>1. f \in Nodes /\ On(h, L[h]) \cap On(f, L[f]) = {}
    BY <1>3, Apart, NodesAre
  <2>. QED BY <2>1, <1>6, <1>7
<1>9. \A y \in Entries : t[y] = "init" => IsRing(g, y, <<>>) \/ (s[y] = "init" /\ y \notin X)
  <2>. SUFFICES ASSUME NEW y \in Entries, t[y] = "init" PROVE s[y] = "init" /\ y \notin X
    OBVIOUS
  <2>1. y \in Nodes /\ s[y] = "init"
    BY <1>7, NodesAre
  <2>. QED BY <2>1, <1>3, Apart
<1>. HIDE DEF X
<1>10. Rounds(g, K, t)
  BY <1>3, <1>4, <1>8, <1>9, Elsewhere
<1>. QED BY <1>1, <1>2, <1>5, <1>10 DEF Good, K

-----------------------------------------------------------------------------
(* The writes to the hash lists. *)

(* The hash lists with the three fields apart; a write to one of them.     *)
HashOf(f, n, p) == [first |-> f, next |-> n, pprev |-> p]
Write(f, a, v) == [f EXCEPT ![a] = v]
WriteBack(p, v, q) == IF v = Nil THEN p ELSE Write(p, v, q)   \* Back()
WriteFirst(f, h, k, v) == IF k = 0 THEN Write(f, h, v) ELSE f  \* Assign() to Slot(h, s, k)
WriteNext(n, s, k, v) == IF k = 0 THEN n ELSE Write(n, s[k], v)

Firsts == [HashHeads -> Entries \cup {Nil}]
Nexts == [Entries -> Entries \cup {Nil}]
Pprevs == [Entries -> Slots]

(* The fields of the hash lists.                                           *)
LEMMA Fields ==
  /\ \A f, n, p : HashOf(f, n, p).first = f /\ HashOf(f, n, p).next = n /\ HashOf(f, n, p).pprev = p
  /\ \A f \in Firsts, n \in Nexts, p \in Pprevs : HashTyped(HashOf(f, n, p))
  /\ \A y : HashTyped(y) => \E f \in Firsts, n \in Nexts, p \in Pprevs : y = HashOf(f, n, p)
<1>1. \A f, n, p : HashOf(f, n, p).first = f /\ HashOf(f, n, p).next = n /\ HashOf(f, n, p).pprev = p
  BY DEF HashOf
<1>2. \A f \in Firsts, n \in Nexts, p \in Pprevs : HashTyped(HashOf(f, n, p))
  BY DEF HashOf, HashTyped, Firsts, Nexts, Pprevs
<1>3. ASSUME NEW y, HashTyped(y)
      PROVE  \E f \in Firsts, n \in Nexts, p \in Pprevs : y = HashOf(f, n, p)
  <2>1. y = HashOf(y.first, y.next, y.pprev) /\ y.first \in Firsts /\ y.next \in Nexts /\ y.pprev \in Pprevs
    BY <1>3 DEF HashOf, HashTyped, Firsts, Nexts, Pprevs
  <2>. QED BY <2>1
<1>. QED BY <1>1, <1>2, <1>3

(* A write.                                                                *)
LEMMA WriteIs ==
  ASSUME NEW S, NEW T, NEW f \in [S -> T], NEW a \in S, NEW v \in T
  PROVE  /\ Write(f, a, v) \in [S -> T]
         /\ \A x \in S : Write(f, a, v)[x] = IF x = a THEN v ELSE f[x]
BY DEF Write

(* The writes of the operations, field by field.                           *)
LEMMA WriteBackIs ==
  ASSUME NEW p \in Pprevs, NEW v \in Entries \cup {Nil}, NEW q \in Slots
  PROVE  /\ WriteBack(p, v, q) \in Pprevs
         /\ \A x \in Entries : WriteBack(p, v, q)[x] = IF x = v THEN q ELSE p[x]
BY NotNil DEF WriteBack, Write, Pprevs

(* Only the head's own pointer, when the slot is the head's.               *)
LEMMA WriteFirstIs ==
  ASSUME NEW f \in Firsts, NEW h \in HashHeads, NEW k, NEW v \in Entries \cup {Nil}
  PROVE  /\ WriteFirst(f, h, k, v) \in Firsts
         /\ \A g \in HashHeads : WriteFirst(f, h, k, v)[g] = IF g = h /\ k = 0 THEN v ELSE f[g]
BY DEF WriteFirst, Write, Firsts

(* Only the pointer of the entry before, when the slot is an entry's.      *)
LEMMA WriteNextIs ==
  ASSUME NEW n \in Nexts, NEW s \in Seq(Entries), NEW k \in 0 .. Len(s), NEW v \in Entries \cup {Nil}
  PROVE  /\ WriteNext(n, s, k, v) \in Nexts
         /\ \A x \in Entries : WriteNext(n, s, k, v)[x] = IF k > 0 /\ x = s[k] THEN v ELSE n[x]
<1>1. CASE k = 0
  BY <1>1 DEF WriteNext
<1>2. CASE k > 0
  <2>1. s[k] \in Entries /\ WriteNext(n, s, k, v) = Write(n, s[k], v)
    BY <1>2 DEF WriteNext
  <2>2. PICK e \in Entries : e = s[k]
    BY <2>1
  <2>3. PICK m : m = Write(n, e, v)
    OBVIOUS
  <2>4. m \in Nexts /\ \A x \in Entries : m[x] = IF x = e THEN v ELSE n[x]
    BY <2>2, <2>3 DEF Write, Nexts
  <2>. QED BY <1>2, <2>1, <2>2, <2>3, <2>4
<1>. QED BY <1>1, <1>2

(* Back() and Assign() in these terms.                                     *)
LEMMA BackIs ==
  ASSUME NEW f, NEW n, NEW p, NEW v, NEW q
  PROVE  Back(HashOf(f, n, p), v, q) = HashOf(f, n, WriteBack(p, v, q))
BY DEF Back, HashOf, WriteBack, Write

(* A write through a pointer to a slot is one to a first or a next field.  *)
LEMMA AssignIs ==
  ASSUME NEW f, NEW n, NEW p, NEW h, NEW s, NEW k, NEW v
  PROVE  Assign(HashOf(f, n, p), Slot(h, s, k), v) = HashOf(WriteFirst(f, h, k, v), WriteNext(n, s, k, v), p)
<1>1. CASE k = 0
  BY <1>1, SlotParts DEF Assign, Slot, HashOf, WriteFirst, WriteNext, Write
<1>2. CASE k # 0
  BY <1>2, SlotParts DEF Assign, Slot, HashOf, WriteFirst, WriteNext, Write
<1>. QED BY <1>1, <1>2

(* What hangs on a head, in these terms.                                   *)
LEMMA HungFields ==
  ASSUME NEW f \in Firsts, NEW n \in Nexts, NEW p \in Pprevs, NEW h, NEW s, IsHung(HashOf(f, n, p), h, s)
  PROVE  /\ h \in HashHeads /\ s \in Seq(Entries) /\ Len(s) \in Nat
         /\ \A i, j \in 1 .. Len(s) : s[i] = s[j] => i = j
         /\ \A k \in 1 .. Len(s) : s[k] \in Entries /\ Item(s, k) = s[k] /\ Has(s, s[k])
         /\ \A k \in Int : Item(s, k) \in Entries \cup {Nil}
         /\ \A k \in Int : \A x \in Entries : x = Item(s, k) <=> (k \in 1 .. Len(s) /\ x = s[k])
         /\ \A k \in 0 .. Len(s) : Slot(h, s, k) \in Slots
         /\ f[h] = Item(s, 1)
         /\ \A k \in 1 .. Len(s) : n[s[k]] = Item(s, k + 1) /\ p[s[k]] = Slot(h, s, k - 1)
<1>1. /\ Len(s) \in Nat /\ \A k \in 1 .. Len(s) : s[k] \in Entries /\ Item(s, k) = s[k] /\ Has(s, s[k])
      /\ \A i, j \in 1 .. Len(s) : s[i] = s[j] => i = j
      /\ \A k \in Int : k \notin 1 .. Len(s) => Item(s, k) = Nil
      /\ \A k \in Int : Item(s, k) \in Entries \cup {Nil}
      /\ \A k \in 0 .. Len(s) : Slot(h, s, k) \in Slots
  BY Items
<1>2. \A k \in Int : \A x \in Entries : x = Item(s, k) <=> (k \in 1 .. Len(s) /\ x = s[k])
  BY <1>1, NotNil
<1>3. Hangs(HashOf(f, n, p), h, s) /\ h \in HashHeads /\ s \in Seq(Entries)
  BY DEF IsHung
<1>4. /\ f[h] = Item(s, 1)
      /\ \A k \in 1 .. Len(s) : n[s[k]] = Item(s, k + 1) /\ p[s[k]] = Slot(h, s, k - 1)
  BY <1>3, Fields DEF Hangs
<1>. QED BY <1>1, <1>2, <1>3, <1>4

(* hlist_add_head(): in front of the first.                                *)
LEMMA HeadPut ==
  ASSUME NEW f \in Firsts, NEW n \in Nexts, NEW p \in Pprevs, NEW h, NEW s, IsHung(HashOf(f, n, p), h, s),
         NEW e \in Entries, ~Has(s, e)
  PROVE  Put(HashOf(f, n, p),
             HashOf(Write(f, h, e), Write(n, e, f[h]), Write(WriteBack(p, f[h], NextOf(e)), e, First(h))),
             h, s, 1, e)
<1>1. /\ h \in HashHeads /\ f[h] = Item(s, 1) /\ Item(s, 1) \in Entries \cup {Nil} /\ Len(s) \in Nat
      /\ \A x \in Entries : x = Item(s, 1) <=> (1 <= Len(s) /\ x = s[1])
      /\ First(h) \in Slots /\ NextOf(e) \in Slots /\ Slot(h, s, 0) = First(h)
  BY HungFields DEF Slots, Slot
<1>2. PICK v \in Entries \cup {Nil} : v = f[h]
  BY <1>1
<1>3. PICK F : F = Write(f, h, e)
  OBVIOUS
<1>4. PICK N : N = Write(n, e, v)
  OBVIOUS
<1>5. PICK Q : Q = WriteBack(p, v, NextOf(e))
  OBVIOUS
<1>6. PICK P : P = Write(Q, e, First(h))
  OBVIOUS
<1>7. F \in Firsts /\ \A g \in HashHeads : F[g] = IF g = h THEN e ELSE f[g]
  BY <1>1, <1>3 DEF Firsts, Write
<1>8. N \in Nexts /\ \A x \in Entries : N[x] = IF x = e THEN v ELSE n[x]
  BY <1>2, <1>4 DEF Nexts, Write
<1>9. Q \in Pprevs /\ \A x \in Entries : Q[x] = IF x = v THEN NextOf(e) ELSE p[x]
  BY <1>1, <1>2, <1>5, NotNil DEF WriteBack, Write, Pprevs
<1>10. P \in Pprevs /\ \A x \in Entries : P[x] = IF x = e THEN First(h) ELSE Q[x]
  BY <1>1, <1>6, <1>9 DEF Pprevs, Write
<1>11. HashTyped(HashOf(F, N, P))
  BY <1>7, <1>8, <1>10, Fields
<1>12. /\ \A g \in HashHeads : F[g] = IF g = h /\ 1 = 1 THEN e ELSE f[g]
       /\ \A x \in Entries : /\ N[x] = IF x = e THEN Item(s, 1) ELSE n[x]
                             /\ P[x] = IF x = e THEN Slot(h, s, 0)
                                       ELSE IF 1 <= Len(s) /\ x = s[1] THEN NextOf(e) ELSE p[x]
  BY <1>1, <1>2, <1>7, <1>8, <1>9, <1>10
<1>13. Put(HashOf(f, n, p), HashOf(F, N, P), h, s, 1, e)
  BY <1>11, <1>12 DEF Put, HashOf
<1>. QED BY <1>2, <1>3, <1>4, <1>5, <1>6, <1>13

(* hlist_add_before() the j-th, behind the k-th slot.                      *)
LEMMA BeforePut ==
  ASSUME NEW f \in Firsts, NEW n \in Nexts, NEW p \in Pprevs, NEW h, NEW s, IsHung(HashOf(f, n, p), h, s),
         NEW e \in Entries, ~Has(s, e), NEW j \in 1 .. Len(s), NEW k, k = j - 1
  PROVE  Put(HashOf(f, n, p),
             HashOf(WriteFirst(f, h, k, e), WriteNext(Write(n, e, s[j]), s, k, e),
                    Write(Write(p, e, p[s[j]]), s[j], NextOf(e))),
             h, s, j, e)
<1>1. /\ h \in HashHeads /\ s \in Seq(Entries) /\ Len(s) \in Nat /\ j <= Len(s)
      /\ s[j] \in Entries /\ s[j] # e /\ Item(s, j) = s[j]
      /\ p[s[j]] = Slot(h, s, k) /\ NextOf(e) \in Slots
      /\ k \in 0 .. Len(s) /\ (k = 0 <=> j = 1) /\ (k > 0 <=> j > 1)
  BY HungFields DEF Slots, Has
<1>2. PICK x \in Entries : x = s[j]
  BY <1>1
<1>3. PICK q \in Slots : q = p[s[j]]
  BY <1>1, HungFields
<1>4. PICK F : F = WriteFirst(f, h, k, e)
  OBVIOUS
<1>5. PICK M : M = Write(n, e, x)
  OBVIOUS
<1>6. PICK N : N = WriteNext(M, s, k, e)
  OBVIOUS
<1>7. PICK Q : Q = Write(p, e, q)
  OBVIOUS
<1>8. PICK P : P = Write(Q, x, NextOf(e))
  OBVIOUS
<1>9. F \in Firsts /\ \A g \in HashHeads : F[g] = IF g = h /\ k = 0 THEN e ELSE f[g]
  BY <1>1, <1>4, WriteFirstIs DEF Firsts
<1>10. M \in Nexts /\ \A y \in Entries : M[y] = IF y = e THEN x ELSE n[y]
  BY <1>2, <1>5 DEF Nexts, Write
<1>11. N \in Nexts /\ \A y \in Entries : N[y] = IF k > 0 /\ y = s[k] THEN e ELSE M[y]
  BY <1>1, <1>6, <1>10, WriteNextIs DEF Nexts
<1>12. Q \in Pprevs /\ \A y \in Entries : Q[y] = IF y = e THEN q ELSE p[y]
  BY <1>3, <1>7 DEF Pprevs, Write
<1>13. P \in Pprevs /\ \A y \in Entries : P[y] = IF y = x THEN NextOf(e) ELSE Q[y]
  BY <1>1, <1>2, <1>8, <1>12 DEF Pprevs, Write
<1>14. HashTyped(HashOf(F, N, P))
  BY <1>9, <1>11, <1>13, Fields
<1>15. k > 0 => s[k] # e
  BY <1>1 DEF Has
<1>16. /\ \A g \in HashHeads : F[g] = IF g = h /\ j = 1 THEN e ELSE f[g]
       /\ \A y \in Entries : /\ N[y] = IF y = e THEN Item(s, j) ELSE IF j > 1 /\ y = s[k] THEN e ELSE n[y]
                             /\ P[y] = IF y = e THEN Slot(h, s, k)
                                       ELSE IF j <= Len(s) /\ y = s[j] THEN NextOf(e) ELSE p[y]
  BY <1>1, <1>2, <1>3, <1>9, <1>10, <1>11, <1>12, <1>13, <1>15
<1>17. Put(HashOf(f, n, p), HashOf(F, N, P), h, s, j, e)
  BY <1>14, <1>16 DEF Put, HashOf
<1>. QED BY <1>2, <1>3, <1>4, <1>5, <1>6, <1>7, <1>8, <1>17

(* hlist_add_after() the j-th.                                             *)
LEMMA AfterPut ==
  ASSUME NEW f \in Firsts, NEW n \in Nexts, NEW p \in Pprevs, NEW h, NEW s, IsHung(HashOf(f, n, p), h, s),
         NEW e \in Entries, ~Has(s, e), NEW j \in 1 .. Len(s), NEW m, m = j + 1
  PROVE  /\ m \in 1 .. Len(s) + 1
         /\ Put(HashOf(f, n, p),
                HashOf(f, Write(Write(n, e, n[s[j]]), s[j], e),
                       WriteBack(Write(p, e, NextOf(s[j])), n[s[j]], NextOf(e))),
                h, s, m, e)
<1>1. /\ h \in HashHeads /\ s \in Seq(Entries) /\ Len(s) \in Nat
      /\ s[j] \in Entries /\ s[j] # e
      /\ m \in 1 .. Len(s) + 1 /\ m \in Int /\ m > 1 /\ m # 1 /\ m - 1 = j /\ j # 0
      /\ n[s[j]] = Item(s, m) /\ Item(s, m) \in Entries \cup {Nil}
      /\ \A x \in Entries : x = Item(s, m) <=> (m \in 1 .. Len(s) /\ x = s[m])
      /\ NextOf(e) \in Slots /\ NextOf(s[j]) \in Slots /\ Slot(h, s, j) = NextOf(s[j])
  BY HungFields DEF Slots, Has, Slot
<1>2. PICK x \in Entries : x = s[j]
  BY <1>1
<1>3. PICK v \in Entries \cup {Nil} : v = n[s[j]]
  BY <1>1
<1>4. PICK M : M = Write(n, e, v)
  OBVIOUS
<1>5. PICK N : N = Write(M, x, e)
  OBVIOUS
<1>6. PICK Q : Q = Write(p, e, NextOf(x))
  OBVIOUS
<1>7. PICK P : P = WriteBack(Q, v, NextOf(e))
  OBVIOUS
<1>8. M \in Nexts /\ \A y \in Entries : M[y] = IF y = e THEN v ELSE n[y]
  BY <1>3, <1>4 DEF Nexts, Write
<1>9. N \in Nexts /\ \A y \in Entries : N[y] = IF y = x THEN e ELSE M[y]
  BY <1>2, <1>5, <1>8 DEF Nexts, Write
<1>10. Q \in Pprevs /\ \A y \in Entries : Q[y] = IF y = e THEN NextOf(x) ELSE p[y]
  BY <1>1, <1>2, <1>6 DEF Pprevs, Write
<1>11. P \in Pprevs /\ \A y \in Entries : P[y] = IF y = v THEN NextOf(e) ELSE Q[y]
  BY <1>1, <1>3, <1>7, <1>10, NotNil DEF WriteBack, Write, Pprevs
<1>12. HashTyped(HashOf(f, N, P))
  BY <1>9, <1>11, Fields
<1>13. v # e
  BY <1>1, <1>3 DEF Has
<1>14. m \in 1 .. Len(s) <=> m <= Len(s)
  BY <1>1
<1>15. /\ \A g \in HashHeads : f[g] = IF g = h /\ m = 1 THEN e ELSE f[g]
       /\ \A y \in Entries : /\ N[y] = IF y = e THEN Item(s, m) ELSE IF m > 1 /\ y = s[j] THEN e ELSE n[y]
                             /\ P[y] = IF y = e THEN Slot(h, s, j)
                                       ELSE IF m <= Len(s) /\ y = s[m] THEN NextOf(e) ELSE p[y]
  BY <1>1, <1>2, <1>3, <1>8, <1>9, <1>10, <1>11, <1>13, <1>14
<1>16. Put(HashOf(f, n, p), HashOf(f, N, P), h, s, m, e)
  BY <1>1, <1>12, <1>15 DEF Put, HashOf
<1>. QED BY <1>1, <1>2, <1>3, <1>4, <1>5, <1>6, <1>7, <1>16

(* hlist_del() of the j-th, whose own pointers are forgotten.              *)
LEMMA DelTaken ==
  ASSUME NEW f \in Firsts, NEW n \in Nexts, NEW p \in Pprevs, NEW h, NEW s, IsHung(HashOf(f, n, p), h, s),
         NEW j \in 1 .. Len(s), NEW e, e = s[j], NEW k, k = j - 1
  PROVE  Taken(HashOf(f, n, p),
               HashOf(WriteFirst(f, h, k, n[e]), Write(WriteNext(n, s, k, n[e]), e, Nil),
                      Write(WriteBack(p, n[e], p[e]), e, Nil)),
               h, s, j)
<1>1. /\ h \in HashHeads /\ s \in Seq(Entries) /\ Len(s) \in Nat
      /\ e \in Entries /\ k \in 0 .. Len(s) /\ (k = 0 <=> j = 1) /\ (k > 0 <=> j > 1)
      /\ n[e] = Item(s, j + 1) /\ Item(s, j + 1) \in Entries \cup {Nil}
      /\ p[e] = Slot(h, s, k) /\ Nil \in Slots
  BY HungFields DEF Slots
<1>2. \A x \in Entries : x = Item(s, j + 1) <=> (j < Len(s) /\ x = s[j + 1])
  <2>1. j + 1 \in Int /\ (j + 1 \in 1 .. Len(s) <=> j < Len(s))
    BY <1>1
  <2>. QED BY <2>1, HungFields
<1>3. PICK v \in Entries \cup {Nil} : v = n[e]
  BY <1>1
<1>4. PICK q \in Slots : q = p[e]
  BY <1>1, HungFields
<1>5. PICK F : F = WriteFirst(f, h, k, v)
  OBVIOUS
<1>6. PICK M : M = WriteNext(n, s, k, v)
  OBVIOUS
<1>7. PICK N : N = Write(M, e, Nil)
  OBVIOUS
<1>8. PICK Q : Q = WriteBack(p, v, q)
  OBVIOUS
<1>9. PICK P : P = Write(Q, e, Nil)
  OBVIOUS
<1>10. F \in Firsts /\ \A g \in HashHeads : F[g] = IF g = h /\ k = 0 THEN v ELSE f[g]
  BY <1>1, <1>3, <1>5, WriteFirstIs DEF Firsts
<1>11. M \in Nexts /\ \A y \in Entries : M[y] = IF k > 0 /\ y = s[k] THEN v ELSE n[y]
  <2>1. s \in Seq(Entries) /\ k \in 0 .. Len(s) /\ v \in Entries \cup {Nil}
    BY <1>1, <1>3
  <2>2. PICK i \in 0 .. Len(s) : i = k
    BY <2>1
  <2>3. M = WriteNext(n, s, i, v)
    BY <1>6, <2>2
  <2>4. M \in Nexts /\ \A y \in Entries : M[y] = IF i > 0 /\ y = s[i] THEN v ELSE n[y]
    BY <2>1, <2>2, <2>3, WriteNextIs DEF Nexts
  <2>. QED BY <2>2, <2>4
<1>12. N \in Nexts /\ \A y \in Entries : N[y] = IF y = e THEN Nil ELSE M[y]
  BY <1>1, <1>7, <1>11 DEF Nexts, Write
<1>13. Q \in Pprevs /\ \A y \in Entries : Q[y] = IF y = v THEN q ELSE p[y]
  BY <1>3, <1>4, <1>8, NotNil DEF WriteBack, Write, Pprevs
<1>14. P \in Pprevs /\ \A y \in Entries : P[y] = IF y = e THEN Nil ELSE Q[y]
  BY <1>1, <1>9, <1>13 DEF Pprevs, Write
<1>15. HashTyped(HashOf(F, N, P))
  BY <1>10, <1>12, <1>14, Fields
<1>16. j = 1 => v = Item(s, 2)
  BY <1>1, <1>3
<1>17. /\ \A g \in HashHeads : F[g] = IF g = h /\ j = 1 THEN Item(s, 2) ELSE f[g]
       /\ \A y \in Entries \ {e} : /\ N[y] = IF j > 1 /\ y = s[k] THEN Item(s, j + 1) ELSE n[y]
                                   /\ P[y] = IF j < Len(s) /\ y = s[j + 1] THEN Slot(h, s, k) ELSE p[y]
  BY <1>1, <1>2, <1>3, <1>4, <1>10, <1>11, <1>12, <1>13, <1>14, <1>16
<1>18. Taken(HashOf(f, n, p), HashOf(F, N, P), h, s, j)
  BY <1>15, <1>17 DEF Taken, HashOf
<1>. QED BY <1>3, <1>4, <1>5, <1>6, <1>7, <1>8, <1>9, <1>18

-----------------------------------------------------------------------------
(* What the pointers r and y and the states s say: the sequences of L. *)

Rep(r, y, L, s) == Good(r, L, s) /\ Hooks(y, L)

(* The rings are not concerned by an operation on hash lists.              *)
LEMMA GoodHash ==
  ASSUME NEW r, NEW L, NEW s, Good(r, L, s), NEW K, NEW t, Placed(K, t),
         \A f \in RingHeads : K[f] = L[f] /\ t[f] = s[f],
         \A x \in Entries : t[x] = "init" => s[x] = "init"
  PROVE  Good(r, K, t)
BY DEF Good, Rounds

(* Nor the hash lists by one on rings.                                     *)
LEMMA HooksKept ==
  ASSUME NEW y, NEW L, Hooks(y, L), NEW K, \A f \in HashHeads : K[f] = L[f]
  PROVE  Hooks(y, K)
BY DEF Hooks

(* An entry comes into a hash list.                                        *)
LEMMA HashIn ==
  ASSUME NEW r, NEW y, NEW L, NEW s, Rep(r, y, L, s), NEW e \in Entries, Loose(s, e),
         NEW h \in HashHeads, NEW m \in 1 .. Len(L[h]) + 1, NEW z, Put(y, z, h, L[h], m, e)
  PROVE  Rep(r, z, [L EXCEPT ![h] = InsertAt(L[h], m, e)], [s EXCEPT ![e] = "hashed"])
<1>. DEFINE K == [L EXCEPT ![h] = InsertAt(L[h], m, e)]
            t == [s EXCEPT ![e] = "hashed"]
<1>1. /\ Good(r, L, s) /\ Placed(L, s) /\ Hooks(y, L) /\ IsHung(y, h, L[h]) /\ h \in Tops
      /\ h \notin RingHeads /\ e \in Nodes /\ e \notin RingHeads
  BY NodesAre DEF Rep, Good, Hooks
<1>2. \A f \in Tops : ~Has(L[f], e)
  BY <1>1, LooseHas
<1>3. Placed(K, [s EXCEPT ![e] = IF h \in RingHeads THEN "in" ELSE "hashed"])
  BY <1>1, PlacedIn
<1>4. Placed(K, t)
  BY <1>1, <1>3
<1>5. K[h] = InsertAt(L[h], m, e) /\ \A f \in Tops : f # h => K[f] = L[f]
  BY <1>1 DEF Placed
<1>6. t[e] = "hashed" /\ \A x \in Nodes : x # e => t[x] = s[x]
  BY <1>1 DEF Placed
<1>. HIDE DEF K, t
<1>7. Good(r, K, t)
  <2>1. \A f \in RingHeads : K[f] = L[f] /\ t[f] = s[f]
    BY <1>1, <1>5, <1>6, NodesAre
  <2>2. \A x \in Entries : t[x] = "init" => s[x] = "init"
    BY <1>6, NodesAre
  <2>. QED BY <1>1, <1>4, <2>1, <2>2, GoodHash
<1>8. PICK q : q = L[h]
  OBVIOUS
<1>9. m \in 1 .. Len(q) + 1 /\ ~Has(q, e) /\ IsHung(y, h, q) /\ Put(y, z, h, q, m, e)
  BY <1>1, <1>2, <1>8
<1>10. IsHung(z, h, InsertAt(q, m, e)) /\ HashAside(y, z, h, ToSet(q) \cup {e})
  BY <1>9, PutIs
<1>11. ASSUME NEW f \in HashHeads, f # h PROVE IsHung(z, f, K[f])
  <2>1. IsHung(y, f, L[f]) /\ f \in Tops /\ K[f] = L[f]
    BY <1>1, <1>5, <1>11, NodesAre DEF Hooks
  <2>2. \A x \in ToSet(q) \cup {e} : ~Has(L[f], x)
    <3>1. q \in Seq(Entries)
      BY <1>9 DEF IsHung
    <3>2. \A x \in ToSet(q) : Has(L[h], x)
      BY <3>1, <1>8, HasIs
    <3>. QED BY <3>2, <2>1, <1>1, <1>2, <1>11 DEF Placed
  <2>. QED BY <2>1, <2>2, <1>10, <1>11, HungKept
<1>12. HashTyped(z)
  BY DEF Put
<1>13. Hooks(z, K)
  BY <1>5, <1>8, <1>10, <1>11, <1>12, NodesAre DEF Hooks
<1>. QED BY <1>7, <1>13 DEF Rep, K, t

(* An entry leaves a hash list.                                            *)
LEMMA HashOut ==
  ASSUME NEW r, NEW y, NEW L, NEW s, Rep(r, y, L, s), NEW h \in HashHeads,
         NEW j \in 1 .. Len(L[h]), NEW e, e = L[h][j], NEW z, Taken(y, z, h, L[h], j)
  PROVE  /\ Rep(r, z, [L EXCEPT ![h] = RemoveAt(L[h], j)], [s EXCEPT ![e] = "out"])
         /\ e \in Entries /\ Has(L[h], e)
<1>. DEFINE K == [L EXCEPT ![h] = RemoveAt(L[h], j)]
            t == [s EXCEPT ![e] = "out"]
<1>1. /\ Good(r, L, s) /\ Placed(L, s) /\ Hooks(y, L) /\ IsHung(y, h, L[h]) /\ h \in Tops
      /\ h \notin RingHeads
  BY NodesAre DEF Rep, Good, Hooks
<1>2. Placed(K, t) /\ e \in Entries /\ Has(L[h], e)
  BY <1>1, PlacedOut
<1>3. e \in Nodes /\ e \notin RingHeads
  BY <1>2, NodesAre
<1>5. K[h] = RemoveAt(L[h], j) /\ \A f \in Tops : f # h => K[f] = L[f]
  BY <1>1 DEF Placed
<1>6. t[e] = "out" /\ \A x \in Nodes : x # e => t[x] = s[x]
  BY <1>1, <1>3 DEF Placed
<1>. HIDE DEF K, t
<1>7. Good(r, K, t)
  <2>1. \A f \in RingHeads : K[f] = L[f] /\ t[f] = s[f]
    BY <1>1, <1>3, <1>5, <1>6, NodesAre
  <2>2. \A x \in Entries : t[x] = "init" => s[x] = "init"
    BY <1>6, NodesAre
  <2>. QED BY <1>1, <1>2, <2>1, <2>2, GoodHash
<1>8. PICK q : q = L[h]
  OBVIOUS
<1>9. j \in 1 .. Len(q) /\ IsHung(y, h, q) /\ Taken(y, z, h, q, j)
  BY <1>1, <1>8
<1>10. IsHung(z, h, RemoveAt(q, j)) /\ HashAside(y, z, h, ToSet(q))
  BY <1>9, TakenIs
<1>11. ASSUME NEW f \in HashHeads, f # h PROVE IsHung(z, f, K[f])
  <2>1. IsHung(y, f, L[f]) /\ f \in Tops /\ K[f] = L[f]
    BY <1>1, <1>5, <1>11, NodesAre DEF Hooks
  <2>2. \A x \in ToSet(q) : ~Has(L[f], x)
    <3>1. q \in Seq(Entries)
      BY <1>9 DEF IsHung
    <3>2. \A x \in ToSet(q) : Has(L[h], x)
      BY <3>1, <1>8, HasIs
    <3>. QED BY <3>2, <2>1, <1>1, <1>11 DEF Placed
  <2>. QED BY <2>1, <2>2, <1>10, <1>11, HungKept
<1>12. HashTyped(z)
  BY DEF Taken
<1>13. Hooks(z, K)
  BY <1>5, <1>8, <1>10, <1>11, <1>12, NodesAre DEF Hooks
<1>. QED BY <1>2, <1>7, <1>13 DEF Rep, K, t

(* What an entry in a hash list hangs on.                                  *)
LEMMA WhereHashed ==
  ASSUME NEW L, NEW s, Placed(L, s), NEW e \in Entries, s[e] = "hashed"
  PROVE  \E h \in HashHeads : Has(L[h], e) /\ \E j \in 1 .. Len(L[h]) : L[h][j] = e
BY DEF Placed, Has

(* The sequences are what the walks show.                                  *)
LEMMA ShownIs ==
  ASSUME NEW r, NEW y, NEW L, NEW s, Rep(r, y, L, s)
  PROVE  L = [h \in RingHeads \cup HashHeads |->
                IF h \in HashHeads THEN HashWalk(y, h)
                ELSE IF s[h] = "idle" THEN <<>> ELSE InOrder(r, h)]
<1>1. Placed(L, s) /\ Rounds(r, L, s) /\ Hooks(y, L)
  BY DEF Rep, Good
<1>2. L = [h \in Tops |-> L[h]]
  BY <1>1 DEF Placed
<1>3. ASSUME NEW h \in HashHeads PROVE L[h] = HashWalk(y, h)
  BY <1>1, HashWalkIs DEF Hooks
<1>4. ASSUME NEW h \in RingHeads, s[h] # "idle" PROVE L[h] = InOrder(r, h)
  <2>1. IsRing(r, h, L[h])
    BY <1>1, <1>4 DEF Placed, Rounds
  <2>. QED BY <2>1, WalksAre DEF IsRing
<1>5. ASSUME NEW h \in RingHeads, s[h] = "idle" PROVE L[h] = <<>>
  BY <1>1, <1>5 DEF Placed
<1>6. \A h \in Tops : L[h] = IF h \in HashHeads THEN HashWalk(y, h)
                             ELSE IF s[h] = "idle" THEN <<>> ELSE InOrder(r, h)
  BY <1>3, <1>4, <1>5, NodesAre
<1>. QED BY <1>2, <1>6 DEF Tops

-----------------------------------------------------------------------------
(* One lemma per operation: its pointers show the sequences the promise    *)
(* speaks of.                                                              *)

Represents(L) == Rep(ring, hash, L, state)

(* The walks, before and after a step.                                     *)
LEMMA WalkedIs == \A L : Represents(L) => Walked = L
BY ShownIs DEF Represents, Walked

(* The same in the next state.                                             *)
LEMMA WalkedNext == \A L : Represents(L)' => Walked' = L
BY ShownIs DEF Represents, Walked

(* The promise has the operators of the library under names of its own.    *)
LEMMA SameOperators ==
  /\ \A s : Abstract!ToSet(s) = ToSet(s)
  /\ \A s, k, e : Abstract!InsertAt(s, k, e) = InsertAt(s, k, e)
  /\ \A s, k : Abstract!RemoveAt(s, k) = RemoveAt(s, k)
BY DEF Abstract!ToSet, ToSet, Abstract!InsertAt, InsertAt, Abstract!RemoveAt, RemoveAt

(* What is entered, by its places.                                         *)
LEMMA EnteredIs ==
  ASSUME NEW L, Represents(L), NEW e \in Entries, Out(e)
  PROVE  e \notin Abstract!Entered /\ Placed(L, state) /\ Loose(state, e)
<1>1. Placed(L, state) /\ Loose(state, e) /\ Walked = L
  BY WalkedIs DEF Represents, Rep, Good, Out, Loose
<1>2. \A h \in Tops : ~Has(L[h], e) /\ L[h] \in Seq(Entries)
  BY <1>1, LooseHas DEF Placed
<1>3. \A h \in Tops : e \notin ToSet(L[h])
  BY <1>2, HasIs
<1>. QED BY <1>1, <1>3, SameOperators DEF Abstract!Entered, Tops

(* The first, the last and any place, as the promise puts it.              *)
LEMMA Ends ==
  ASSUME NEW S, NEW s \in Seq(S), NEW e \in S
  PROVE  InsertAt(s, 1, e) = <<e>> \o s /\ InsertAt(s, Len(s) + 1, e) = Append(s, e)
<1>1. SubSeq(s, 1, 0) = <<>> /\ SubSeq(s, 1, Len(s)) = s /\ SubSeq(s, Len(s) + 1, Len(s)) = <<>>
  OBVIOUS
<1>2. (<<>> \o <<e>>) \o s = <<e>> \o s /\ (s \o <<e>>) \o <<>> = Append(s, e)
  OBVIOUS
<1>3. 1 - 1 = 0 /\ (Len(s) + 1) - 1 = Len(s)
  OBVIOUS
<1>. QED BY <1>1, <1>2, <1>3 DEF InsertAt

(* The place of an entry, and a sequence without it.                       *)
LEMMA PlaceIs ==
  ASSUME NEW S, NEW s \in Seq(S), Once(s), NEW k \in 1 .. Len(s)
  PROVE  Abstract!Place(s, s[k]) = k /\ Abstract!Without(s, s[k]) = RemoveAt(s, k)
<1>1. Abstract!Place(s, s[k]) = k
  BY DEF Abstract!Place, Once
<1>2. s[k] \in ToSet(s)
  BY DEF ToSet
<1>. QED BY <1>1, <1>2, SameOperators DEF Abstract!Without

(* Nothing is taken out of a sequence that does not have the entry.        *)
LEMMA WithoutNone ==
  ASSUME NEW S, NEW s \in Seq(S), NEW e, ~Has(s, e)
  PROVE  Abstract!Without(s, e) = s
<1>1. e \notin ToSet(s)
  BY HasIs
<1>. QED BY <1>1, SameOperators DEF Abstract!Without

(* The pointers after an operation on rings.                               *)
LEMMA RingStep ==
  ASSUME NEW L, Represents(L), NEW K, NEW g, NEW t, Good(g, K, t),
         \A f \in HashHeads : K[f] = L[f], NEW n, NEW a, NEW b, Ring(n, a, b, g, t)
  PROVE  Represents(K)' /\ Walked' = K /\ op' = <<n, a, b>>
<1>1. Good(Forget(g, t), K, t)
  BY Forgets
<1>2. Hooks(hash, K)
  BY HooksKept DEF Represents, Rep
<1>3. ring' = Forget(g, t) /\ hash' = hash /\ state' = t /\ op' = <<n, a, b>>
  BY DEF Ring
<1>4. Represents(K)'
  BY <1>1, <1>2, <1>3 DEF Represents, Rep
<1>. QED BY <1>3, <1>4, WalkedNext

(* The writes of list_add() and list_add_tail(), by the cells.             *)
LEMMA LinksAt ==
  ASSUME NEW r, NEW h, NEW s, IsRing(r, h, s), NEW e
  PROVE  /\ ListAdd(r, e, h) = LinkBetween(r, e, Cell(h, s, 0), Cell(h, s, 1))
         /\ \A m \in 1 .. Len(s) + 1 :
              ListAddTail(r, e, Cell(h, s, m)) = LinkBetween(r, e, Cell(h, s, m - 1), Cell(h, s, m))
<1>1. Len(s) \in Nat /\ Cell(h, s, 0) = h
  BY RingCells
<1>2. \A k \in 0 .. Len(s) : r.next[Cell(h, s, k)] = Cell(h, s, k + 1) /\ r.prev[Cell(h, s, k + 1)] = Cell(h, s, k)
  BY DEF IsRing, Shows
<1>3. r.next[h] = Cell(h, s, 1)
  <2>1. 0 \in 0 .. Len(s) /\ 0 + 1 = 1
    BY <1>1
  <2>2. r.next[Cell(h, s, 0)] = Cell(h, s, 0 + 1)
    BY <2>1, <1>2
  <2>. QED BY <2>1, <2>2, <1>1
<1>4. ASSUME NEW m \in 1 .. Len(s) + 1
      PROVE  r.prev[Cell(h, s, m)] = Cell(h, s, m - 1)
  <2>1. m - 1 \in 0 .. Len(s) /\ (m - 1) + 1 = m
    BY <1>1
  <2>2. r.prev[Cell(h, s, (m - 1) + 1)] = Cell(h, s, m - 1)
    BY <2>1, <1>2
  <2>. QED BY <2>1, <2>2
<1>. QED BY <1>1, <1>3, <1>4 DEF ListAdd, ListAddTail

(* An entry linked in front of the m-th.                                   *)
LEMMA AddedStep ==
  ASSUME NEW L, Represents(L), NEW e \in Entries, Out(e), NEW h \in RingHeads, state[h] = "head",
         NEW m \in 1 .. Len(L[h]) + 1, NEW n,
         Ring(n, e, h, LinkBetween(ring, e, Cell(h, L[h], m - 1), Cell(h, L[h], m)), [state EXCEPT ![e] = "in"])
  PROVE  /\ Represents([L EXCEPT ![h] = InsertAt(L[h], m, e)])' /\ op' = <<n, e, h>>
         /\ Walked' = [Walked EXCEPT ![h] = InsertAt(@, m, e)]
<1>. DEFINE K == [L EXCEPT ![h] = InsertAt(L[h], m, e)]
            g == LinkBetween(ring, e, Cell(h, L[h], m - 1), Cell(h, L[h], m))
            t == [state EXCEPT ![e] = "in"]
<1>1. Good(ring, L, state) /\ Loose(state, e) /\ Walked = L
  BY WalkedIs DEF Represents, Rep, Out, Loose
<1>2. Good(g, K, t)
  BY <1>1, GoodAdd
<1>3. \A f \in HashHeads : K[f] = L[f]
  BY <1>1, NodesAre DEF Good, Placed
<1>4. Ring(n, e, h, g, t)
  OBVIOUS
<1>. HIDE DEF K, g, t
<1>5. Represents(K)' /\ Walked' = K /\ op' = <<n, e, h>>
  BY <1>2, <1>3, <1>4, RingStep
<1>. QED BY <1>1, <1>5 DEF K

(* The first entry that is not smaller.                                    *)
NotBelow(s, e) == {k \in 1 .. Len(s) : s[k] >= e}
SortedPlace(s, e) ==
  IF NotBelow(s, e) = {} THEN Len(s) + 1
  ELSE CHOOSE j \in NotBelow(s, e) : \A i \in NotBelow(s, e) : j <= i

(* InsertPlace() is the node in front of which that entry stands, or the   *)
(* head when there is none.                                                *)
LEMMA PlaceFound ==
  ASSUME NEW r, NEW h, NEW s, IsRing(r, h, s), NEW e \in Entries
  PROVE  /\ SortedPlace(s, e) \in 1 .. Len(s) + 1
         /\ InsertPlace(r, e, h) = Cell(h, s, SortedPlace(s, e))
<1>. DEFINE larger == NotBelow(s, e)
            m == SortedPlace(s, e)
            S == {x \in Entries : x >= e}
            places == {k \in 1 .. Len(s) : s[k] \in S /\ \A j \in 1 .. k - 1 : s[j] \notin S}
<1>1. /\ Len(s) \in Nat /\ Cell(h, s, Len(s) + 1) = h
      /\ \A k \in 1 .. Len(s) : Cell(h, s, k) = s[k] /\ s[k] \in Entries
  BY RingCells
<1>2. InOrder(r, h) = s
  BY WalksAre DEF IsRing
<1>3. InsertPlace(r, e, h) = IF places = {} THEN h ELSE s[CHOOSE k \in places : TRUE]
  BY <1>2 DEF InsertPlace, FirstIn
<1>4. \A k \in 1 .. Len(s) : s[k] \in S <=> k \in larger
  BY <1>1 DEF NotBelow
<1>5. places = {k \in larger : \A j \in larger : k <= j}
  <2>1. larger \subseteq 1 .. Len(s)
    BY DEF NotBelow
  <2>. HIDE DEF larger
  <2>2. \A k \in 1 .. Len(s) : (\A j \in 1 .. k - 1 : s[j] \notin S) <=> \A j \in larger : k <= j
    <3>. SUFFICES ASSUME NEW k \in 1 .. Len(s)
         PROVE  (\A j \in 1 .. k - 1 : s[j] \notin S) <=> \A j \in larger : k <= j
      OBVIOUS
    <3>1. \A j \in 1 .. k - 1 : j \in 1 .. Len(s) /\ ~(k <= j)
      BY <1>1
    <3>2. \A j \in larger : ~(k <= j) => j \in 1 .. k - 1
      BY <2>1, <1>1
    <3>3. (\A j \in 1 .. k - 1 : s[j] \notin S) <=> (\A j \in 1 .. k - 1 : j \notin larger)
      BY <3>1, <1>4
    <3>. HIDE DEF S
    <3>. QED BY <3>1, <3>2, <3>3
  <2>. HIDE DEF S
  <2>. QED BY <2>1, <2>2, <1>4
<1>. HIDE DEF places, S
<1>6. CASE larger = {}
  <2>1. places = {} /\ m = Len(s) + 1
    BY <1>5, <1>6 DEF SortedPlace
  <2>. QED BY <2>1, <1>1, <1>3
<1>7. CASE larger # {}
  <2>1. larger \subseteq Nat /\ larger \subseteq 1 .. Len(s)
    BY <1>1 DEF NotBelow
  <2>2. \E j \in larger : \A i \in larger : j <= i
    BY <2>1, <1>7, LeastMember
  <2>3. m \in larger /\ \A i \in larger : m <= i
    BY <2>2, <1>7 DEF SortedPlace
  <2>. HIDE DEF larger, m
  <2>4. places = {m}
    <3>1. m \in places
      BY <2>3, <1>5
    <3>2. ASSUME NEW k \in places PROVE k = m
      <4>1. k \in larger /\ m \in larger /\ k <= m /\ m <= k
        BY <2>3, <1>5
      <4>2. k \in Int /\ m \in Int
        BY <4>1, <2>1
      <4>. QED BY <4>1, <4>2
    <3>. QED BY <3>1, <3>2
  <2>5. (CHOOSE k \in places : TRUE) = m
    BY <2>4
  <2>6. InsertPlace(r, e, h) = s[m]
    BY <2>4, <2>5, <1>3
  <2>7. m \in 1 .. Len(s)
    BY <2>1, <2>3
  <2>8. s[m] = Cell(h, s, m) /\ m \in 1 .. Len(s) + 1
    BY <2>7, <1>1
  <2>. QED BY <2>6, <2>8 DEF m
<1>. QED BY <1>6, <1>7

(* RingAdd: list_add(), list_add_tail() and list_add_sort().               *)
LEMMA AddStep ==
  ASSUME NEW L, Represents(L), NEW e \in Entries, NEW h \in RingHeads, RingAdd(e, h)
  PROVE  (\E K : Represents(K)') /\ (Abstract!Add(e, h) \/ Abstract!AddTail(e, h) \/ Abstract!AddSort(e, h))
<1>. DEFINE t == [state EXCEPT ![e] = "in"]
<1>1. /\ Out(e) /\ state[h] = "head"
      /\ \/ Ring("add", e, h, ListAdd(ring, e, h), t)
         \/ Ring("add_tail", e, h, ListAddTail(ring, e, h), t)
         \/ Ring("add_sort", e, h, ListAddTail(ring, e, InsertPlace(ring, e, h)), t)
  BY DEF RingAdd
<1>. HIDE DEF t
<1>2. /\ IsRing(ring, h, L[h]) /\ L[h] \in Seq(Entries) /\ Walked = L /\ h \in Tops
      /\ e \notin Abstract!Entered
  BY <1>1, WalkedIs, EnteredIs, NodesAre DEF Represents, Rep, Good, Rounds, Placed
<1>3. Len(L[h]) \in Nat /\ Cell(h, L[h], Len(L[h]) + 1) = h
  BY <1>2, RingCells
<1>4. CASE Ring("add", e, h, ListAdd(ring, e, h), t)
  <2>1. PICK m \in 1 .. Len(L[h]) + 1 : m = 1
    BY <1>3
  <2>2. Ring("add", e, h, LinkBetween(ring, e, Cell(h, L[h], m - 1), Cell(h, L[h], m)), t)
    <3>1. m - 1 = 0
      BY <2>1
    <3>. QED BY <3>1, <2>1, <1>2, <1>4, LinksAt
  <2>3. /\ Represents([L EXCEPT ![h] = InsertAt(L[h], m, e)])' /\ op' = <<"add", e, h>>
        /\ Walked' = [Walked EXCEPT ![h] = InsertAt(@, m, e)]
    BY <2>2, <1>1, AddedStep DEF t
  <2>4. Walked' = [Walked EXCEPT ![h] = <<e>> \o @]
    BY <2>1, <2>3, <1>2, Ends
  <2>. QED BY <2>3, <2>4, <1>2 DEF Abstract!Add, Abstract!Does
<1>5. CASE Ring("add_tail", e, h, ListAddTail(ring, e, h), t)
  <2>1. PICK m \in 1 .. Len(L[h]) + 1 : m = Len(L[h]) + 1
    BY <1>3
  <2>2. Ring("add_tail", e, h, LinkBetween(ring, e, Cell(h, L[h], m - 1), Cell(h, L[h], m)), t)
    <3>1. ListAddTail(ring, e, h) = ListAddTail(ring, e, Cell(h, L[h], m))
      BY <2>1, <1>3
    <3>2. ListAddTail(ring, e, Cell(h, L[h], m)) = LinkBetween(ring, e, Cell(h, L[h], m - 1), Cell(h, L[h], m))
      BY <1>2, LinksAt
    <3>. QED BY <3>1, <3>2, <1>5
  <2>3. /\ Represents([L EXCEPT ![h] = InsertAt(L[h], m, e)])' /\ op' = <<"add_tail", e, h>>
        /\ Walked' = [Walked EXCEPT ![h] = InsertAt(@, m, e)]
    BY <2>2, <1>1, AddedStep DEF t
  <2>4. Walked' = [Walked EXCEPT ![h] = Append(@, e)]
    BY <2>1, <2>3, <1>2, Ends
  <2>. QED BY <2>3, <2>4, <1>2 DEF Abstract!AddTail, Abstract!Does
<1>6. CASE Ring("add_sort", e, h, ListAddTail(ring, e, InsertPlace(ring, e, h)), t)
  <2>. DEFINE larger == {k \in 1 .. Len(Walked[h]) : Walked[h][k] >= e}
              k == IF larger = {} THEN Len(Walked[h]) + 1
                   ELSE CHOOSE j \in larger : \A i \in larger : j <= i
  <2>1. larger = NotBelow(L[h], e)
    BY <1>2 DEF NotBelow
  <2>2. k = SortedPlace(L[h], e)
    <3>1. Len(Walked[h]) = Len(L[h])
      BY <1>2
    <3>. HIDE DEF larger
    <3>. QED BY <2>1, <3>1 DEF SortedPlace
  <2>. HIDE DEF k, larger
  <2>3. PICK m : m = k
    OBVIOUS
  <2>4. m \in 1 .. Len(L[h]) + 1 /\ InsertPlace(ring, e, h) = Cell(h, L[h], m)
    BY <2>2, <2>3, <1>2, PlaceFound
  <2>5. Ring("add_sort", e, h, LinkBetween(ring, e, Cell(h, L[h], m - 1), Cell(h, L[h], m)), t)
    BY ZenonT(40), <2>4, <1>2, <1>6, LinksAt
  <2>6. /\ Represents([L EXCEPT ![h] = InsertAt(L[h], m, e)])' /\ op' = <<"add_sort", e, h>>
        /\ Walked' = [Walked EXCEPT ![h] = InsertAt(@, m, e)]
    BY <2>4, <2>5, <1>1, AddedStep DEF t
  <2>7. Walked' = [Walked EXCEPT ![h] = Abstract!InsertAt(@, k, e)]
    BY <2>3, <2>6, SameOperators
  <2>. QED BY <2>6, <2>7, <1>2 DEF Abstract!AddSort, Abstract!Does, k, larger
<1>. QED BY <1>1, <1>4, <1>5, <1>6

(* The sequences without an entry.                                         *)
LEMMA RemovedIs ==
  ASSUME NEW L, Represents(L), NEW h \in Tops, NEW k \in 1 .. Len(L[h]), NEW e, e = L[h][k],
         NEW K, K = [L EXCEPT ![h] = RemoveAt(L[h], k)]
  PROVE  Abstract!Removed(e) = K
<1>1. Placed(L, state) /\ Walked = L
  BY WalkedIs DEF Represents, Rep, Good
<1>2. PICK u : u = RemoveAt(L[h], k)
  OBVIOUS
<1>3. K = [f \in Tops |-> IF f = h THEN u ELSE L[f]]
  BY <1>1, <1>2 DEF Placed
<1>4. ASSUME NEW f \in Tops
      PROVE  Abstract!Without(Walked[f], e) = IF f = h THEN u ELSE L[f]
  <2>1. L[f] \in Seq(Entries) /\ Once(L[f]) /\ L[h] \in Seq(Entries) /\ Once(L[h]) /\ Has(L[h], e)
    BY <1>1 DEF Placed, Has
  <2>2. CASE f = h
    BY <2>1, <2>2, <1>1, <1>2, PlaceIs
  <2>3. CASE f # h
    <3>1. ~Has(L[f], e)
      BY <2>1, <2>3, <1>1 DEF Placed
    <3>. QED BY <3>1, <2>1, <2>3, <1>1, WithoutNone
  <2>. QED BY <2>2, <2>3
<1>5. Abstract!Removed(e) = [f \in Tops |-> Abstract!Without(Walked[f], e)]
  BY DEF Abstract!Removed, Tops
<1>. QED BY <1>3, <1>4, <1>5

(* Nothing changes if the entry is in none.                                *)
LEMMA RemovedNone ==
  ASSUME NEW L, Represents(L), NEW e \in Entries, Out(e)
  PROVE  Abstract!Removed(e) = L
<1>1. Placed(L, state) /\ Walked = L /\ Loose(state, e)
  BY WalkedIs DEF Represents, Rep, Good, Out, Loose
<1>2. L = [f \in Tops |-> L[f]]
  BY <1>1 DEF Placed
<1>3. ASSUME NEW f \in Tops PROVE Abstract!Without(Walked[f], e) = L[f]
  <2>1. L[f] \in Seq(Entries) /\ ~Has(L[f], e)
    BY <1>1, LooseHas DEF Placed
  <2>. QED BY <2>1, <1>1, WithoutNone
<1>4. Abstract!Removed(e) = [f \in Tops |-> Abstract!Without(Walked[f], e)]
  BY DEF Abstract!Removed, Tops
<1>. QED BY <1>2, <1>3, <1>4

(* An entry in a ring is at a place of the list of a head in use.          *)
LEMMA InRing ==
  ASSUME NEW L, Represents(L), NEW e \in Entries, state[e] = "in"
  PROVE  \E h \in RingHeads : \E k \in 1 .. Len(L[h]) : L[h][k] = e /\ state[h] = "head"
BY WhereIn DEF Represents, Rep, Good

(* RingDel: list_del() and list_del_init().                                *)
LEMMA DelStep ==
  ASSUME NEW L, Represents(L), NEW e \in Entries, RingDel(e)
  PROVE  (\E K : Represents(K)') /\ Abstract!Del(e)
<1>1. /\ Good(ring, L, state) /\ Placed(L, state) /\ Walked = L /\ e \in Nodes
      /\ state \in [Nodes -> {"head", "idle", "in", "init", "out", "hashed"}]
  BY WalkedIs, NodesAre DEF Represents, Rep, Good, Placed
<1>2. CASE state[e] = "in"
  <2>0. PICK h \in RingHeads : \E j \in 1 .. Len(L[h]) : L[h][j] = e /\ state[h] = "head"
    BY <1>2, InRing
  <2>1. PICK k \in 1 .. Len(L[h]) : L[h][k] = e
    BY <2>0
  <2>. DEFINE K == [L EXCEPT ![h] = RemoveAt(L[h], k)]
              g == Unlink(ring, e)
              t == [state EXCEPT ![e] = "out"]
  <2>2. Good(g, K, t)
    BY ZenonT(40), <2>1, <1>1, GoodDel
  <2>3. K = Abstract!Removed(e)
    BY <2>1, RemovedIs, NodesAre
  <2>4. \A f \in HashHeads : K[f] = L[f]
    BY <1>1, NodesAre DEF Placed
  <2>5. t[e] = "out" /\ [t EXCEPT ![e] = "out"] = t /\ [t EXCEPT ![e] = "init"] = [state EXCEPT ![e] = "init"]
    BY <1>1
  <2>. HIDE DEF K, g, t
  <2>6. RingTyped(g) /\ Loose(t, e)
    BY <2>2, <2>5 DEF Good, Rounds, Loose
  <2>7. /\ RingTyped(InitList(g, e)) /\ Aside(g, InitList(g, e), {e})
        /\ InitList(g, e).next[e] = e /\ InitList(g, e).prev[e] = e
        /\ RingTyped(Poisoned(g, e)) /\ Aside(g, Poisoned(g, e), {e})
    BY <2>6, <1>1, InitIs
  <2>8. Good(Poisoned(g, e), K, t)
    <3>1. PICK x : x = Poisoned(g, e)
      OBVIOUS
    <3>2. RingTyped(x) /\ Aside(g, x, {e})
      BY <3>1, <2>7
    <3>3. Good(x, K, [t EXCEPT ![e] = "out"])
      BY <3>2, <2>2, <2>6, GoodAside
    <3>. QED BY <3>1, <3>3, <2>5
  <2>9. Good(InitList(g, e), K, [t EXCEPT ![e] = "init"])
    <3>1. PICK x : x = InitList(g, e)
      OBVIOUS
    <3>2. RingTyped(x) /\ Aside(g, x, {e}) /\ x.next[e] = e /\ x.prev[e] = e
      BY <3>1, <2>7
    <3>3. Good(x, K, [t EXCEPT ![e] = "init"])
      BY <3>2, <2>2, <2>6, GoodAside
    <3>. QED BY <3>1, <3>3
  <2>10. CASE Ring("del", e, e, ListDel(ring, e), [state EXCEPT ![e] = "out"])
    <3>1. Ring("del", e, e, Poisoned(g, e), t)
      BY <2>10 DEF ListDel, g, t
    <3>2. Represents(K)' /\ Walked' = K /\ op' = <<"del", e, e>>
      BY <3>1, <2>4, <2>8, RingStep
    <3>. QED BY <3>2, <2>3 DEF Abstract!Del, Abstract!Does
  <2>11. CASE Ring("del_init", e, e, InitList(Unlink(ring, e), e), [state EXCEPT ![e] = "init"])
    <3>1. Ring("del_init", e, e, InitList(g, e), [t EXCEPT ![e] = "init"])
      BY <2>5, <2>11 DEF g
    <3>2. Represents(K)' /\ Walked' = K /\ op' = <<"del_init", e, e>>
      BY <3>1, <2>4, <2>9, RingStep
    <3>. QED BY <3>2, <2>3 DEF Abstract!Del, Abstract!Does
  <2>. QED BY <2>10, <2>11 DEF RingDel
<1>3. CASE state[e] = "init"
  <2>1. Good(InitList(Unlink(ring, e), e), L, state)
    BY <1>1, <1>3, GoodInitAgain
  <2>2. Ring("del_init", e, e, InitList(Unlink(ring, e), e), [state EXCEPT ![e] = "init"])
    BY <1>3 DEF RingDel
  <2>3. [state EXCEPT ![e] = "init"] = state
    BY <1>1, <1>3
  <2>4. Represents(L)' /\ Walked' = L /\ op' = <<"del_init", e, e>>
    BY <2>1, <2>2, <2>3, RingStep
  <2>5. Abstract!Removed(e) = L
    BY <1>3, RemovedNone DEF Out
  <2>. QED BY <2>4, <2>5 DEF Abstract!Del, Abstract!Does
<1>. QED BY <1>2, <1>3 DEF RingDel

(* RingMove: list_move() and list_move_tail(), to the entry's own list too. *)
LEMMA MoveStep ==
  ASSUME NEW L, Represents(L), NEW e \in Entries, NEW h \in RingHeads, RingMove(e, h)
  PROVE  (\E K : Represents(K)') /\ (Abstract!Move(e, h) \/ Abstract!MoveTail(e, h))
<1>1. /\ Good(ring, L, state) /\ Placed(L, state) /\ Walked = L /\ e \in Nodes /\ h \in Nodes
      /\ state \in [Nodes -> {"head", "idle", "in", "init", "out", "hashed"}] /\ h \in Tops /\ h # e
  BY WalkedIs, NodesAre DEF Represents, Rep, Good, Placed
<1>2. /\ state[e] = "in" /\ state[h] = "head"
      /\ \/ Ring("move", e, h, ListAdd(Unlink(ring, e), e, h), state)
         \/ Ring("move_tail", e, h, ListAddTail(Unlink(ring, e), e, h), state)
  BY DEF RingMove
<1>3. PICK g \in RingHeads : \E j \in 1 .. Len(L[g]) : L[g][j] = e /\ state[g] = "head"
  BY <1>2, InRing
<1>4. PICK k \in 1 .. Len(L[g]) : L[g][k] = e
  BY <1>3
<1>. DEFINE M == [L EXCEPT ![g] = RemoveAt(L[g], k)]
            r == Unlink(ring, e)
            t == [state EXCEPT ![e] = "out"]
<1>5. Good(r, M, t)
  BY ZenonT(40), <1>4, <1>1, GoodDel
<1>6. M = Abstract!Removed(e)
  BY <1>4, RemovedIs, NodesAre
<1>7. e \in Abstract!Entered
  <2>1. e \in ToSet(L[g]) /\ g \in Tops
    BY <1>4, NodesAre DEF ToSet
  <2>. QED BY <2>1, <1>1, SameOperators DEF Abstract!Entered, Tops
<1>8. \A f \in HashHeads : M[f] = L[f]
  BY <1>1, NodesAre DEF Placed
<1>9. Loose(t, e) /\ [t EXCEPT ![e] = "in"] = state /\ t[h] = "head"
  BY <1>1, <1>2 DEF Loose
<1>. HIDE DEF M, r, t
<1>10. M \in [Tops -> Seq(Entries)] /\ IsRing(r, h, M[h]) /\ M[h] \in Seq(Entries)
  BY <1>1, <1>5, <1>9 DEF Good, Rounds, Placed
<1>11. Len(M[h]) \in Nat /\ Cell(h, M[h], Len(M[h]) + 1) = h
  BY <1>10, RingCells
<1>12. ASSUME NEW m \in 1 .. Len(M[h]) + 1, NEW n,
              Ring(n, e, h, LinkBetween(r, e, Cell(h, M[h], m - 1), Cell(h, M[h], m)), state)
       PROVE  /\ Represents([M EXCEPT ![h] = InsertAt(M[h], m, e)])' /\ op' = <<n, e, h>>
              /\ Walked' = [M EXCEPT ![h] = InsertAt(M[h], m, e)]
  <2>. DEFINE K == [M EXCEPT ![h] = InsertAt(M[h], m, e)]
              x == LinkBetween(r, e, Cell(h, M[h], m - 1), Cell(h, M[h], m))
  <2>1. Good(x, K, state)
    BY <1>5, <1>9, GoodAdd
  <2>2. \A f \in HashHeads : K[f] = L[f]
    BY <1>8, <1>10, NodesAre
  <2>3. Ring(n, e, h, x, state)
    BY <1>12
  <2>. HIDE DEF K, x
  <2>4. Represents(K)' /\ Walked' = K /\ op' = <<n, e, h>>
    BY <2>1, <2>2, <2>3, RingStep
  <2>. QED BY <2>4 DEF K
<1>13. CASE Ring("move", e, h, ListAdd(r, e, h), state)
  <2>1. PICK m \in 1 .. Len(M[h]) + 1 : m = 1
    BY <1>11
  <2>2. Ring("move", e, h, LinkBetween(r, e, Cell(h, M[h], m - 1), Cell(h, M[h], m)), state)
    <3>1. m - 1 = 0
      BY <2>1
    <3>. QED BY <3>1, <2>1, <1>10, <1>13, LinksAt
  <2>3. /\ Represents([M EXCEPT ![h] = InsertAt(M[h], m, e)])' /\ op' = <<"move", e, h>>
        /\ Walked' = [M EXCEPT ![h] = InsertAt(M[h], m, e)]
    BY <2>2, <1>12
  <2>4. InsertAt(M[h], m, e) = <<e>> \o M[h]
    BY <2>1, <1>10, Ends
  <2>5. Walked' = [Abstract!Removed(e) EXCEPT ![h] = <<e>> \o @]
    BY <2>3, <2>4, <1>6
  <2>. QED BY <2>3, <2>5, <1>7 DEF Abstract!Move, Abstract!Does
<1>14. CASE Ring("move_tail", e, h, ListAddTail(r, e, h), state)
  <2>1. PICK m \in 1 .. Len(M[h]) + 1 : m = Len(M[h]) + 1
    BY <1>11
  <2>2. Ring("move_tail", e, h, LinkBetween(r, e, Cell(h, M[h], m - 1), Cell(h, M[h], m)), state)
    <3>1. ListAddTail(r, e, h) = ListAddTail(r, e, Cell(h, M[h], m))
      BY <2>1, <1>11
    <3>2. ListAddTail(r, e, Cell(h, M[h], m)) = LinkBetween(r, e, Cell(h, M[h], m - 1), Cell(h, M[h], m))
      BY <1>10, LinksAt
    <3>. QED BY <3>1, <3>2, <1>14
  <2>3. /\ Represents([M EXCEPT ![h] = InsertAt(M[h], m, e)])' /\ op' = <<"move_tail", e, h>>
        /\ Walked' = [M EXCEPT ![h] = InsertAt(M[h], m, e)]
    BY <2>2, <1>12
  <2>4. InsertAt(M[h], m, e) = Append(M[h], e)
    BY <2>1, <1>10, Ends
  <2>5. Walked' = [Abstract!Removed(e) EXCEPT ![h] = Append(@, e)]
    BY <2>3, <2>4, <1>6
  <2>. QED BY <2>3, <2>5, <1>7 DEF Abstract!MoveTail, Abstract!Does
<1>. QED BY <1>2, <1>13, <1>14 DEF r

(* A sequence without the replaced entry stays.                            *)
LEMMA SwapNone ==
  ASSUME NEW s \in Seq(Entries), NEW x, ~Has(s, x), NEW e
  PROVE  Swapped(s, x, e) = s
<1>1. \A j \in 1 .. Len(s) : s[j] # x
  BY DEF Has
<1>2. s = [j \in DOMAIN s |-> s[j]] /\ DOMAIN s = 1 .. Len(s)
  OBVIOUS
<1>. QED BY <1>1, <1>2 DEF Swapped

(* RingReplace: list_replace() and list_replace_init(), of a lone entry as *)
(* well.                                                                   *)
LEMMA ReplaceStep ==
  ASSUME NEW L, Represents(L), NEW x \in Entries, NEW e \in Entries, RingReplace(x, e)
  PROVE  (\E K : Represents(K)') /\ Abstract!Replace(x, e)
<1>. DEFINE A == [f \in Tops |-> Swapped(L[f], x, e)]
            g == ListReplace(ring, x, e)
            t == [state EXCEPT ![e] = state[x], ![x] = "out"]
<1>1. /\ Good(ring, L, state) /\ Placed(L, state) /\ Walked = L /\ e \in Nodes /\ x \in Nodes
      /\ state \in [Nodes -> {"head", "idle", "in", "init", "out", "hashed"}]
      /\ L = [f \in Tops |-> L[f]] /\ \A f \in Tops : L[f] \in Seq(Entries)
  BY WalkedIs, NodesAre DEF Represents, Rep, Good, Placed
<1>2. /\ state[x] \in {"in", "init"} /\ Out(e) /\ x # e /\ e \notin Abstract!Entered /\ Loose(state, e)
      /\ \/ Ring("replace", x, e, g, t)
         \/ Ring("replace_init", x, e, InitList(g, x), [state EXCEPT ![e] = state[x], ![x] = "init"])
  BY EnteredIs DEF RingReplace
<1>3. t[x] = "out" /\ [state EXCEPT ![e] = state[x], ![x] = "init"] = [t EXCEPT ![x] = "init"]
  BY <1>1, <1>2
<1>4. \A f \in Tops : A[f] = Swapped(L[f], x, e)
  OBVIOUS
<1>5. A = [f \in Tops |-> [k \in DOMAIN Walked[f] |-> IF Walked[f][k] = x THEN e ELSE Walked[f][k]]]
  BY <1>1 DEF Swapped
<1>. HIDE DEF A, g, t
<1>6. Good(g, A, t) /\ \A f \in HashHeads : A[f] = L[f]
  <2>1. CASE state[x] = "in"
    <3>1. PICK h \in RingHeads : \E j \in 1 .. Len(L[h]) : L[h][j] = x /\ state[h] = "head"
      BY <2>1, InRing
    <3>2. PICK k \in 1 .. Len(L[h]) : L[h][k] = x
      BY <3>1
    <3>3. PICK u : u = Swapped(L[h], x, e)
      OBVIOUS
    <3>4. h \in Tops /\ Has(L[h], x)
      BY <3>2, NodesAre DEF Has
    <3>5. \A f \in Tops : f # h => ~Has(L[f], x)
      BY <3>4, <1>1 DEF Placed
    <3>6. \A f \in Tops : f # h => Swapped(L[f], x, e) = L[f]
      BY <3>5, <1>1, SwapNone
    <3>7. A = [L EXCEPT ![h] = u]
      <4>1. A = [f \in Tops |-> IF f = h THEN u ELSE L[f]]
        BY <3>3, <3>6 DEF A
      <4>. QED BY <4>1, <1>1
    <3>8. Good(g, [L EXCEPT ![h] = Swapped(L[h], x, e)], t)
      <4>1. PICK J : J = [L EXCEPT ![h] = Swapped(L[h], x, e)]
        OBVIOUS
      <4>2. g = ListReplace(ring, x, e) /\ t = [state EXCEPT ![e] = state[x], ![x] = "out"]
        BY DEF g, t
      <4>3. Good(g, J, t)
        <5>1. x = L[h][k] /\ k \in 1 .. Len(L[h]) /\ Good(ring, L, state) /\ Loose(state, e)
          BY <3>2, <1>1, <1>2
        <5>2. Good(ListReplace(ring, x, e), [L EXCEPT ![h] = Swapped(L[h], x, e)],
                 [state EXCEPT ![e] = state[x], ![x] = "out"])
          BY ONLY <5>1, GoodReplace
        <5>. QED BY <4>1, <4>2, <5>2
      <4>. QED BY <4>1, <4>3
    <3>. QED BY <3>3, <3>4, <3>6, <3>7, <3>8, <1>4, NodesAre
  <2>2. CASE state[x] = "init"
    <3>1. \A f \in Tops : ~Has(L[f], x)
      BY <2>2, <1>1, LooseHas DEF Loose
    <3>2. \A f \in Tops : Swapped(L[f], x, e) = L[f]
      BY <3>1, <1>1, SwapNone
    <3>3. A = L
      BY <3>2, <1>1 DEF A
    <3>4. Good(g, L, t)
      BY <2>2, <1>1, <1>2, GoodReplaceLone DEF g, t
    <3>. QED BY <3>3, <3>4
  <2>. QED BY <2>1, <2>2, <1>2
<1>7. CASE Ring("replace", x, e, g, t)
  <2>1. Represents(A)' /\ Walked' = A /\ op' = <<"replace", x, e>>
    BY <1>6, <1>7, RingStep
  <2>. QED BY <2>1, <1>2, <1>5 DEF Abstract!Replace, Abstract!Does, Tops
<1>8. CASE Ring("replace_init", x, e, InitList(g, x), [state EXCEPT ![e] = state[x], ![x] = "init"])
  <2>1. PICK i : i = InitList(g, x)
    OBVIOUS
  <2>2. RingTyped(i) /\ Aside(g, i, {x}) /\ i.next[x] = x /\ i.prev[x] = x
    BY <2>1, <1>1, <1>6, InitIs DEF Good, Rounds
  <2>3. Good(i, A, [t EXCEPT ![x] = "init"])
    BY <2>2, <1>3, <1>6, GoodAside DEF Loose
  <2>4. Ring("replace_init", x, e, i, [t EXCEPT ![x] = "init"])
    BY <2>1, <1>3, <1>8
  <2>5. Represents(A)' /\ Walked' = A /\ op' = <<"replace_init", x, e>>
    BY <2>3, <2>4, <1>6, RingStep
  <2>. QED BY <2>5, <1>2, <1>5 DEF Abstract!Replace, Abstract!Does, Tops
<1>. QED BY <1>2, <1>7, <1>8

(* RingSplice: list_splice() and list_splice_init().                       *)
LEMMA SpliceStep ==
  ASSUME NEW L, Represents(L), NEW g \in RingHeads, NEW h \in RingHeads, RingSplice(g, h)
  PROVE  (\E K : Represents(K)') /\ Abstract!Splice(g, h)
<1>1. /\ Good(ring, L, state) /\ Placed(L, state) /\ Walked = L /\ g \in Nodes /\ h \in Nodes
      /\ g \in Tops /\ h \in Tops /\ L \in [Tops -> Seq(Entries)]
      /\ state \in [Nodes -> {"head", "idle", "in", "init", "out", "hashed"}]
  BY WalkedIs, NodesAre DEF Represents, Rep, Good, Placed
<1>2. /\ g # h /\ state[g] = "head" /\ state[h] = "head"
      /\ \/ Ring("splice", g, h, ListSplice(ring, g, h),
                 [state EXCEPT ![g] = IF ListEmpty(ring, g) THEN state[g] ELSE "idle"])
         \/ Ring("splice_init", g, h,
                 IF ListEmpty(ring, g) THEN ListSplice(ring, g, h) ELSE InitList(ListSplice(ring, g, h), g), state)
  BY DEF RingSplice
<1>3. IsRing(ring, g, L[g])
  BY <1>1, <1>2 DEF Good, Rounds
<1>4. ListEmpty(ring, g) <=> L[g] = <<>>
  BY <1>3, EmptyIs
<1>5. PICK K : K = [L EXCEPT ![h] = L[g] \o L[h], ![g] = <<>>]
  OBVIOUS
<1>6. K = [Walked EXCEPT ![h] = Walked[g] \o @, ![g] = <<>>]
  BY <1>1, <1>5
<1>7. \A f \in HashHeads : K[f] = L[f]
  BY <1>1, <1>5, NodesAre
<1>8. ASSUME NEW n \in {"splice", "splice_init"}, NEW r, NEW t, Good(r, K, t), Ring(n, g, h, r, t)
      PROVE  (\E J : Represents(J)') /\ Abstract!Splice(g, h)
  <2>1. Represents(K)' /\ Walked' = K /\ op' = <<n, g, h>>
    BY <1>7, <1>8, RingStep
  <2>. QED BY <2>1, <1>2, <1>6 DEF Abstract!Splice, Abstract!Does
<1>9. CASE L[g] = <<>>
  <2>1. K = L
    <3>1. L[g] \o L[h] = L[h]
      BY <1>1, <1>9
    <3>. QED BY <3>1, <1>1, <1>5, <1>9
  <2>2. [state EXCEPT ![g] = state[g]] = state
    BY <1>1
  <2>3. ListSplice(ring, g, h) = ring
    BY <1>4, <1>9 DEF ListSplice
  <2>4. \E n \in {"splice", "splice_init"} : Ring(n, g, h, ring, state)
    BY <1>2, <1>4, <1>9, <2>2, <2>3
  <2>. QED BY <2>1, <2>4, <1>1, <1>8
<1>10. CASE L[g] # <<>>
  <2>1. PICK r : r = ListSplice(ring, g, h)
    OBVIOUS
  <2>2. PICK t : t = [state EXCEPT ![g] = "idle"]
    OBVIOUS
  <2>3. Good(r, K, t)
    <3>1. Good(ListSplice(ring, g, h), [L EXCEPT ![h] = L[g] \o L[h], ![g] = <<>>], [state EXCEPT ![g] = "idle"])
      BY <1>1, <1>2, <1>10, GoodSplice
    <3>. QED BY <3>1, <2>1, <2>2, <1>5
  <2>4. t[g] = "idle" /\ [t EXCEPT ![g] = "head"] = state
    BY <2>2, <1>1, <1>2
  <2>5. Good(InitList(r, g), K, state)
    <3>1. Good(InitList(r, g), K, [t EXCEPT ![g] = "head"])
      BY <2>3, <2>4, GoodHead
    <3>. QED BY <3>1, <2>4
  <2>6. Ring("splice", g, h, r, t) \/ Ring("splice_init", g, h, InitList(r, g), state)
    BY <1>2, <1>4, <1>10, <2>1, <2>2
  <2>. QED BY <2>3, <2>5, <2>6, <1>8
<1>. QED BY <1>9, <1>10

(* RingInit: INIT_LIST_HEAD() of an idle head.                             *)
LEMMA InitStep ==
  ASSUME NEW L, Represents(L), NEW h \in RingHeads, RingInit(h)
  PROVE  (\E K : Represents(K)') /\ Abstract!InitHead(h)
<1>1. Good(ring, L, state) /\ Walked = L /\ L[h] = <<>> /\ h \in Tops
  BY WalkedIs, NodesAre DEF Represents, Rep, Good, Placed, RingInit
<1>2. Good(InitList(ring, h), L, [state EXCEPT ![h] = "head"])
  BY <1>1, GoodHead DEF RingInit
<1>3. Ring("init_head", h, h, InitList(ring, h), [state EXCEPT ![h] = "head"])
  BY DEF RingInit
<1>4. Represents(L)' /\ Walked' = L /\ op' = <<"init_head", h, h>>
  BY <1>2, <1>3, RingStep
<1>. QED BY <1>1, <1>4 DEF Abstract!InitHead, Abstract!Does

(* RingClear: every entry taken off on a walk.                             *)
LEMMA ClearStep ==
  ASSUME NEW L, Represents(L), NEW h \in RingHeads, RingClear(h)
  PROVE  (\E K : Represents(K)') /\ Abstract!Clear(h)
<1>1. Good(ring, L, state) /\ Walked = L /\ h \in Tops /\ state[h] = "head" /\ L \in [Tops -> Seq(Entries)]
  BY WalkedIs, NodesAre DEF Represents, Rep, Good, Placed, RingClear
<1>2. IsRing(ring, h, L[h]) /\ L[h] \in Seq(Entries)
  BY <1>1 DEF Good, Rounds
<1>3. InOrder(ring, h) = L[h]
  BY <1>2, WalksAre DEF IsRing
<1>4. \A x : x \in ToSet(InOrder(ring, h)) <=> Has(L[h], x)
  BY <1>2, <1>3, HasIs
<1>5. PICK K : K = [L EXCEPT ![h] = <<>>]
  OBVIOUS
<1>6. PICK t : t = Freed(state, L[h]) /\ t = [x \in Nodes |-> IF Has(L[h], x) THEN "out" ELSE state[x]]
  BY DEF Freed
<1>7. Good(DeleteWalking(ring, h), K, t)
  <2>1. Good(DeleteWalking(ring, h), [L EXCEPT ![h] = <<>>], Freed(state, L[h]))
    BY <1>1, GoodClear
  <2>. QED BY <2>1, <1>5, <1>6
<1>8. Ring("clear", h, h, DeleteWalking(ring, h), t)
  <2>1. t = [x \in Nodes |-> IF x \in ToSet(InOrder(ring, h)) THEN "out" ELSE state[x]]
    BY <1>4, <1>6
  <2>. QED BY <2>1 DEF RingClear
<1>9. \A f \in HashHeads : K[f] = L[f]
  BY <1>1, <1>5, NodesAre
<1>10. Represents(K)' /\ Walked' = K /\ op' = <<"clear", h, h>>
  BY <1>7, <1>8, <1>9, RingStep
<1>. QED BY <1>1, <1>5, <1>10 DEF Abstract!Clear, Abstract!Does

(* An entry put into a hash list.                                          *)
LEMMA PutStep ==
  ASSUME NEW L, Represents(L), NEW e \in Entries, Out(e), NEW h \in HashHeads,
         NEW m \in 1 .. Len(L[h]) + 1, NEW z, Put(hash, z, h, L[h], m, e),
         NEW n, NEW a, NEW b, Hash(n, a, b, z, [state EXCEPT ![e] = "hashed"])
  PROVE  /\ Represents([L EXCEPT ![h] = InsertAt(L[h], m, e)])' /\ op' = <<n, a, b>>
         /\ Walked' = [Walked EXCEPT ![h] = InsertAt(@, m, e)]
<1>. DEFINE K == [L EXCEPT ![h] = InsertAt(L[h], m, e)]
            t == [state EXCEPT ![e] = "hashed"]
<1>1. Rep(ring, hash, L, state) /\ Loose(state, e) /\ Walked = L
  BY WalkedIs DEF Represents, Out, Loose
<1>2. Rep(ring, z, K, t)
  BY <1>1, HashIn
<1>3. hash' = z /\ ring' = ring /\ state' = t /\ op' = <<n, a, b>>
  BY DEF Hash
<1>. HIDE DEF K, t
<1>4. Represents(K)'
  BY <1>2, <1>3 DEF Represents
<1>5. Walked' = K
  BY <1>4, WalkedNext
<1>. QED BY <1>1, <1>3, <1>4, <1>5 DEF K

(* Where a hash list's entry is, and the fields of the hash lists.         *)
LEMMA InHash ==
  ASSUME NEW L, Represents(L)
  PROVE  /\ \A x \in Entries : state[x] = "hashed" =>
              \E h \in HashHeads : Has(L[h], x) /\ \E j \in 1 .. Len(L[h]) : L[h][j] = x
         /\ \E f \in Firsts, n \in Nexts, p \in Pprevs : hash = HashOf(f, n, p)
         /\ \A h \in HashHeads : IsHung(hash, h, L[h]) /\ h \in Tops /\ L[h] \in Seq(Entries) /\ Once(L[h])
BY WhereHashed, Fields, NodesAre DEF Represents, Rep, Good, Hooks, IsHung

(* HashAddHead: hlist_add_head().                                          *)
LEMMA HashAddHeadStep ==
  ASSUME NEW L, Represents(L), NEW e \in Entries, NEW h \in HashHeads, HashAddHead(e, h)
  PROVE  (\E K : Represents(K)') /\ Abstract!Add(e, h)
<1>1. /\ IsHung(hash, h, L[h]) /\ h \in Tops /\ L[h] \in Seq(Entries) /\ Walked = L
      /\ Out(e) /\ e \notin Abstract!Entered /\ ~Has(L[h], e)
  BY InHash, WalkedIs, EnteredIs, LooseHas DEF HashAddHead
<1>2. PICK f \in Firsts : \E n \in Nexts, p \in Pprevs : hash = HashOf(f, n, p)
  BY InHash
<1>3. PICK n \in Nexts : \E p \in Pprevs : hash = HashOf(f, n, p)
  BY <1>2
<1>4. PICK p \in Pprevs : hash = HashOf(f, n, p)
  BY <1>3
<1>5. PICK z : z = HashOf(Write(f, h, e), Write(n, e, f[h]), Write(WriteBack(p, f[h], NextOf(e)), e, First(h)))
  OBVIOUS
<1>6. PICK m \in 1 .. Len(L[h]) + 1 : m = 1
  BY <1>1
<1>7. Put(hash, z, h, L[h], m, e)
  BY <1>1, <1>4, <1>5, <1>6, HeadPut
<1>8. Hash("add", e, h, z, [state EXCEPT ![e] = "hashed"])
  <2>1. PICK v : v = f[h]
    OBVIOUS
  <2>2. [hash EXCEPT !.next[e] = v] = HashOf(f, Write(n, e, v), p) /\ hash.first[h] = v
    BY <1>4, <2>1 DEF HashOf, Write
  <2>3. Back(HashOf(f, Write(n, e, v), p), v, NextOf(e)) = HashOf(f, Write(n, e, v), WriteBack(p, v, NextOf(e)))
    BY BackIs
  <2>. DEFINE y == Back([hash EXCEPT !.next[e] = hash.first[h]], hash.first[h], NextOf(e))
  <2>4. y = HashOf(f, Write(n, e, v), WriteBack(p, v, NextOf(e)))
    BY <2>2, <2>3
  <2>5. HashAddHead(e, h) <=>
          Out(e) /\ Hash("add", e, h, HashOf(Write(y.first, h, e), y.next, Write(y.pprev, e, First(h))),
                         [state EXCEPT ![e] = "hashed"])
    BY DEF HashAddHead, HashOf, Write
  <2>. HIDE DEF y
  <2>6. HashOf(Write(y.first, h, e), y.next, Write(y.pprev, e, First(h))) = z
    BY <2>1, <2>4, <1>5, Fields
  <2>. QED BY <2>5, <2>6
<1>9. /\ Represents([L EXCEPT ![h] = InsertAt(L[h], m, e)])' /\ op' = <<"add", e, h>>
      /\ Walked' = [Walked EXCEPT ![h] = InsertAt(@, m, e)]
  <2>1. Out(e) /\ Put(hash, z, h, L[h], m, e) /\ Hash("add", e, h, z, [state EXCEPT ![e] = "hashed"])
    BY <1>1, <1>7, <1>8
  <2>. QED BY ONLY <2>1, Represents(L), PutStep
<1>10. Walked' = [Walked EXCEPT ![h] = <<e>> \o @]
  BY <1>1, <1>6, <1>9, Ends
<1>. QED BY <1>1, <1>9, <1>10 DEF Abstract!Add, Abstract!Does

(* The promise of the other two, from the entry's place.                   *)
LEMMA PutAt ==
  ASSUME NEW L, Represents(L), NEW e \in Entries, Out(e), NEW h \in HashHeads, NEW j \in 1 .. Len(L[h]),
         NEW x, x = L[h][j], NEW off, NEW m, m = j + off, NEW n, op' = <<n, e, x>>,
         Walked' = [Walked EXCEPT ![h] = InsertAt(@, m, e)]
  PROVE  Abstract!AddAt(n, e, x, off)
<1>1. h \in Tops /\ L[h] \in Seq(Entries) /\ Once(L[h]) /\ Walked = L /\ e \notin Abstract!Entered
  BY InHash, WalkedIs, EnteredIs
<1>2. Abstract!Place(L[h], x) = j
  BY <1>1, PlaceIs
<1>3. x \in ToSet(L[h])
  BY <1>1 DEF ToSet
<1>4. x \in Abstract!ToSet(Walked[h])
  BY <1>1, <1>3, SameOperators
<1>5. Walked' = [Walked EXCEPT ![h] = Abstract!InsertAt(@, Abstract!Place(@, x) + off, e)]
  BY <1>1, <1>2, SameOperators
<1>. QED BY <1>1, <1>4, <1>5 DEF Abstract!AddAt, Abstract!Does, Tops

(* HashAddBefore: hlist_add_before().                                      *)
LEMMA HashAddBeforeStep ==
  ASSUME NEW L, Represents(L), NEW e \in Entries, NEW x \in Entries, HashAddBefore(e, x)
  PROVE  (\E K : Represents(K)') /\ Abstract!AddAt("add_before", e, x, 0)
<1>1. Out(e) /\ state[x] = "hashed"
  BY DEF HashAddBefore
<1>2. PICK h \in HashHeads : \E i \in 1 .. Len(L[h]) : L[h][i] = x
  BY <1>1, InHash
<1>3. PICK j \in 1 .. Len(L[h]) : L[h][j] = x
  BY <1>2
<1>4. /\ IsHung(hash, h, L[h]) /\ h \in Tops /\ L[h] \in Seq(Entries) /\ ~Has(L[h], e)
  BY <1>1, InHash, EnteredIs, LooseHas
<1>5. PICK f \in Firsts : \E n \in Nexts, p \in Pprevs : hash = HashOf(f, n, p)
  BY InHash
<1>6. PICK n \in Nexts : \E p \in Pprevs : hash = HashOf(f, n, p)
  BY <1>5
<1>7. PICK p \in Pprevs : hash = HashOf(f, n, p)
  BY <1>6
<1>8. PICK s : s = L[h]
  OBVIOUS
<1>9. PICK k : k = j - 1
  OBVIOUS
<1>10. PICK z : z = HashOf(WriteFirst(f, h, k, e), WriteNext(Write(n, e, x), s, k, e),
                           Write(Write(p, e, p[x]), x, NextOf(e)))
  OBVIOUS
<1>11. IsHung(HashOf(f, n, p), h, s) /\ ~Has(s, e) /\ j \in 1 .. Len(s) /\ x = s[j]
  BY <1>3, <1>4, <1>7, <1>8
<1>12. Put(hash, z, h, L[h], j, e)
  <2>1. Put(HashOf(f, n, p),
            HashOf(WriteFirst(f, h, k, e), WriteNext(Write(n, e, s[j]), s, k, e),
                   Write(Write(p, e, p[s[j]]), s[j], NextOf(e))),
            h, s, j, e)
    BY <1>9, <1>11, BeforePut
  <2>. QED BY <2>1, <1>7, <1>8, <1>10, <1>11
<1>13. Hash("add_before", e, x, z, [state EXCEPT ![e] = "hashed"])
  <2>. DEFINE y == HashOf(hash.first, Write(hash.next, e, x), Write(Write(hash.pprev, e, hash.pprev[x]), x, NextOf(e)))
  <2>1. Hash("add_before", e, x, Assign(y, y.pprev[e], e), [state EXCEPT ![e] = "hashed"])
    BY DEF HashAddBefore, HashOf, Write
  <2>2. y = HashOf(f, Write(n, e, x), Write(Write(p, e, p[x]), x, NextOf(e)))
    BY <1>7, Fields
  <2>. HIDE DEF y
  <2>3. y.pprev[e] = Slot(h, s, k)
    <3>1. x # e /\ p[x] = Slot(h, s, k) /\ p[x] \in Slots
      <4>1. p[s[j]] = Slot(h, s, j - 1) /\ Has(s, s[j])
        BY <1>11, HungFields
      <4>. QED BY <4>1, <1>9, <1>11 DEF Pprevs
    <3>2. Write(Write(p, e, p[x]), x, NextOf(e))[e] = p[x]
      BY <3>1 DEF Write, Pprevs
    <3>. QED BY <3>1, <3>2, <2>2, Fields
  <2>4. Assign(y, y.pprev[e], e) = z
    BY <2>2, <2>3, <1>10, AssignIs
  <2>. QED BY <2>1, <2>4
<1>14. j \in 1 .. Len(L[h]) + 1 /\ j = j + 0
  BY <1>4
<1>15. /\ Represents([L EXCEPT ![h] = InsertAt(L[h], j, e)])' /\ op' = <<"add_before", e, x>>
       /\ Walked' = [Walked EXCEPT ![h] = InsertAt(@, j, e)]
  BY ONLY Represents(L), <1>1, <1>12, <1>13, <1>14, PutStep
<1>16. Abstract!AddAt("add_before", e, x, 0)
  BY <1>1, <1>3, <1>14, <1>15, PutAt
<1>. QED BY <1>15, <1>16

(* HashAddAfter: hlist_add_after().                                        *)
LEMMA HashAddAfterStep ==
  ASSUME NEW L, Represents(L), NEW e \in Entries, NEW x \in Entries, HashAddAfter(e, x)
  PROVE  (\E K : Represents(K)') /\ Abstract!AddAt("add_after", e, x, 1)
<1>1. Out(e) /\ state[x] = "hashed"
  BY DEF HashAddAfter
<1>2. PICK h \in HashHeads : \E i \in 1 .. Len(L[h]) : L[h][i] = x
  BY <1>1, InHash
<1>3. PICK j \in 1 .. Len(L[h]) : L[h][j] = x
  BY <1>2
<1>4. /\ IsHung(hash, h, L[h]) /\ h \in Tops /\ L[h] \in Seq(Entries) /\ ~Has(L[h], e)
  BY <1>1, InHash, EnteredIs, LooseHas
<1>5. PICK f \in Firsts : \E n \in Nexts, p \in Pprevs : hash = HashOf(f, n, p)
  BY InHash
<1>6. PICK n \in Nexts : \E p \in Pprevs : hash = HashOf(f, n, p)
  BY <1>5
<1>7. PICK p \in Pprevs : hash = HashOf(f, n, p)
  BY <1>6
<1>8. PICK s : s = L[h]
  OBVIOUS
<1>9. PICK m : m = j + 1
  OBVIOUS
<1>10. PICK z : z = HashOf(f, Write(Write(n, e, n[x]), x, e),
                           WriteBack(Write(p, e, NextOf(x)), n[x], NextOf(e)))
  OBVIOUS
<1>11. IsHung(HashOf(f, n, p), h, s) /\ ~Has(s, e) /\ j \in 1 .. Len(s) /\ x = s[j]
  BY <1>3, <1>4, <1>7, <1>8
<1>12. Put(hash, z, h, L[h], m, e) /\ m \in 1 .. Len(L[h]) + 1
  <2>1. /\ m \in 1 .. Len(s) + 1
        /\ Put(HashOf(f, n, p),
               HashOf(f, Write(Write(n, e, n[s[j]]), s[j], e),
                      WriteBack(Write(p, e, NextOf(s[j])), n[s[j]], NextOf(e))),
               h, s, m, e)
    BY <1>9, <1>11, AfterPut
  <2>. QED BY <2>1, <1>7, <1>8, <1>10, <1>11
<1>13. Hash("add_after", e, x, z, [state EXCEPT ![e] = "hashed"])
  <2>. DEFINE y == HashOf(hash.first, Write(Write(hash.next, e, hash.next[x]), x, e), Write(hash.pprev, e, NextOf(x)))
  <2>1. Hash("add_after", e, x, Back(y, y.next[e], NextOf(e)), [state EXCEPT ![e] = "hashed"])
    BY DEF HashAddAfter, HashOf, Write
  <2>2. y = HashOf(f, Write(Write(n, e, n[x]), x, e), Write(p, e, NextOf(x)))
    BY <1>7, Fields
  <2>. HIDE DEF y
  <2>3. y.next[e] = n[x]
    <3>1. x # e
      <4>1. Has(s, s[j])
        BY <1>11, HungFields
      <4>. QED BY <4>1, <1>11
    <3>2. Write(Write(n, e, n[x]), x, e)[e] = n[x]
      BY <3>1 DEF Write, Nexts
    <3>. QED BY <3>2, <2>2, Fields
  <2>4. Back(y, y.next[e], NextOf(e)) = z
    BY <2>2, <2>3, <1>10, BackIs
  <2>. QED BY <2>1, <2>4
<1>14. /\ Represents([L EXCEPT ![h] = InsertAt(L[h], m, e)])' /\ op' = <<"add_after", e, x>>
       /\ Walked' = [Walked EXCEPT ![h] = InsertAt(@, m, e)]
  BY ONLY Represents(L), <1>1, <1>12, <1>13, PutStep
<1>15. Abstract!AddAt("add_after", e, x, 1)
  BY <1>1, <1>3, <1>9, <1>14, PutAt
<1>. QED BY <1>14, <1>15

(* HashDel: hlist_del() and hlist_del_init().                              *)
LEMMA HashDelStep ==
  ASSUME NEW L, Represents(L), NEW e \in Entries, HashDel(e)
  PROVE  (\E K : Represents(K)') /\ Abstract!Del(e)
<1>1. state[e] = "hashed"
  BY DEF HashDel
<1>2. PICK h \in HashHeads : \E i \in 1 .. Len(L[h]) : L[h][i] = e
  BY <1>1, InHash
<1>3. PICK j \in 1 .. Len(L[h]) : L[h][j] = e
  BY <1>2
<1>4. IsHung(hash, h, L[h]) /\ h \in Tops /\ L[h] \in Seq(Entries) /\ Walked = L
  BY InHash, WalkedIs
<1>5. PICK f \in Firsts : \E n \in Nexts, p \in Pprevs : hash = HashOf(f, n, p)
  BY InHash
<1>6. PICK n \in Nexts : \E p \in Pprevs : hash = HashOf(f, n, p)
  BY <1>5
<1>7. PICK p \in Pprevs : hash = HashOf(f, n, p)
  BY <1>6
<1>8. PICK s : s = L[h]
  OBVIOUS
<1>9. PICK k : k = j - 1
  OBVIOUS
<1>10. PICK z : z = HashOf(WriteFirst(f, h, k, n[e]), Write(WriteNext(n, s, k, n[e]), e, Nil),
                           Write(WriteBack(p, n[e], p[e]), e, Nil))
  OBVIOUS
<1>11. IsHung(HashOf(f, n, p), h, s) /\ j \in 1 .. Len(s) /\ e = s[j]
  BY <1>3, <1>4, <1>7, <1>8
<1>12. Taken(hash, z, h, L[h], j)
  <2>1. Taken(HashOf(f, n, p),
              HashOf(WriteFirst(f, h, k, n[e]), Write(WriteNext(n, s, k, n[e]), e, Nil),
                     Write(WriteBack(p, n[e], p[e]), e, Nil)),
              h, s, j)
    BY <1>9, <1>11, DelTaken
  <2>. QED BY <2>1, <1>7, <1>8, <1>10
<1>13. PICK name \in {"del", "del_init"} : Hash(name, e, e, z, [state EXCEPT ![e] = "out"])
  <2>. DEFINE y == HashDelete(hash, e)
  <2>1. PICK name \in {"del", "del_init"} :
          Hash(name, e, e, HashOf(y.first, Write(y.next, e, Nil), Write(y.pprev, e, Nil)),
               [state EXCEPT ![e] = "out"])
    BY DEF HashDel, HashOf, Write
  <2>2. p[e] = Slot(h, s, k)
    <3>1. p[s[j]] = Slot(h, s, j - 1)
      BY <1>11, HungFields
    <3>. QED BY <3>1, <1>9, <1>11
  <2>3. y = HashOf(WriteFirst(f, h, k, n[e]), WriteNext(n, s, k, n[e]), WriteBack(p, n[e], p[e]))
    <3>1. y = Back(Assign(HashOf(f, n, p), p[e], n[e]), n[e], p[e])
      BY <1>7, Fields DEF HashDelete
    <3>2. Assign(HashOf(f, n, p), p[e], n[e]) = HashOf(WriteFirst(f, h, k, n[e]), WriteNext(n, s, k, n[e]), p)
      BY <2>2, AssignIs
    <3>. QED BY <3>1, <3>2, BackIs
  <2>. HIDE DEF y
  <2>4. HashOf(y.first, Write(y.next, e, Nil), Write(y.pprev, e, Nil)) = z
    BY <2>3, <1>10, Fields
  <2>. QED BY <2>1, <2>4
<1>14. PICK K : K = [L EXCEPT ![h] = RemoveAt(L[h], j)]
  OBVIOUS
<1>15. PICK t : t = [state EXCEPT ![e] = "out"]
  OBVIOUS
<1>16. Rep(ring, z, K, t)
  <2>1. Rep(ring, z, [L EXCEPT ![h] = RemoveAt(L[h], j)], [state EXCEPT ![e] = "out"])
    BY <1>3, <1>12, HashOut DEF Represents
  <2>. QED BY <2>1, <1>14, <1>15
<1>17. Represents(K)' /\ op' = <<name, e, e>>
  BY <1>13, <1>15, <1>16 DEF Represents, Hash
<1>18. Walked' = K
  BY <1>17, WalkedNext
<1>19. Abstract!Removed(e) = K
  BY <1>3, <1>4, <1>14, RemovedIs
<1>. QED BY <1>17, <1>18, <1>19 DEF Abstract!Del, Abstract!Does

(* hlist_del_init() of a node that is in no list: nothing is written.      *)
LEMMA HashDelUnhashedStep ==
  ASSUME NEW L, Represents(L), NEW e \in Entries, HashDelUnhashed(e)
  PROVE  (\E K : Represents(K)') /\ Abstract!Del(e)
<1>1. /\ Out(e) /\ op' = <<"del_init", e, e>>
      /\ ring' = ring /\ hash' = hash /\ state' = state
  BY DEF HashDelUnhashed, Hash
<1>2. Represents(L)'
  BY <1>1 DEF Represents
<1>3. Walked' = L
  BY <1>2, WalkedNext
<1>4. Abstract!Removed(e) = L
  BY <1>1, RemovedNone
<1>. QED BY <1>1, <1>2, <1>3, <1>4 DEF Abstract!Del, Abstract!Does

-----------------------------------------------------------------------------
(* The inductive invariant: the pointers are rings and hung lists of the   *)
(* sequences the walks show, no entry is in two of them, and the states of *)
(* the nodes say which.                                                    *)
Held == Represents(Walked)

(* Any sequences the pointers represent are those of the walks.            *)
LEMMA HeldBy ==
  /\ \A L : Represents(L) => Held
  /\ \A L : Represents(L)' => Held'
<1>1. ASSUME NEW L, Represents(L) PROVE Held
  BY <1>1, WalkedIs DEF Held
<1>2. ASSUME NEW L, Represents(L)' PROVE Held'
  <2>1. Walked' = L
    BY <1>2, WalkedNext
  <2>2. Rep(ring', hash', L, state')
    BY <1>2 DEF Represents
  <2>. QED BY <2>1, <2>2 DEF Held, Represents
<1>. QED BY <1>1, <1>2

(* At first every list is empty.                                           *)
LEMMA InitHeld == ListsInit => Held /\ Abstract!AbsInit
<1>. SUFFICES ASSUME ListsInit PROVE Held /\ Abstract!AbsInit
  OBVIOUS
<1>1. PICK L : L = [h \in Tops |-> <<>>]
  OBVIOUS
<1>2. L \in [Tops -> Seq(Entries)] /\ \A h \in Tops : L[h] = <<>>
  BY <1>1, NoneHas
<1>3. /\ state \in [Nodes -> {"head", "idle", "in", "init", "out", "hashed"}]
      /\ \A h \in RingHeads : state[h] = "head"
      /\ \A e \in Entries : state[e] = "out"
  BY NodesAre DEF ListsInit
<1>4. Placed(L, state)
  <2>1. \A h \in Tops : Once(L[h]) /\ \A x : ~Has(L[h], x)
    BY <1>2, NoneHas
  <2>. QED BY <2>1, <1>2, <1>3, NodesAre DEF Placed
<1>5. Rounds(ring, L, state)
  <2>1. RingTyped(ring)
    BY NodesAre DEF ListsInit, RingTyped, Rings
  <2>2. \A h \in RingHeads : h \in Nodes /\ ring.next[h] = h /\ ring.prev[h] = h
    BY NodesAre DEF ListsInit
  <2>3. \A h \in RingHeads : IsRing(ring, h, L[h])
    BY <2>2, <1>2, LoneRing, NodesAre
  <2>. QED BY <2>1, <2>3, <1>3 DEF Rounds
<1>6. Hooks(hash, L)
  <2>1. HashTyped(hash) /\ \A h \in HashHeads : hash.first[h] = Nil
    BY DEF ListsInit, HashTyped, Slots
  <2>2. \A h \in HashHeads : IsHung(hash, h, <<>>)
    BY <2>1, NoneHas DEF IsHung, Hangs, Item
  <2>. QED BY <2>1, <2>2, <1>2, NodesAre DEF Hooks
<1>7. Represents(L)
  BY <1>4, <1>5, <1>6 DEF Represents, Rep, Good
<1>8. Walked = L /\ Held
  BY <1>7, WalkedIs, HeldBy
<1>. QED BY <1>1, <1>8 DEF ListsInit, Abstract!AbsInit, Tops

(* One step: the invariant, and what the promise allows.                   *)
LEMMA NextHeld == Held /\ [ListsNext]_listVars => Held' /\ [Abstract!AbsNext]_<<Walked, op>>
<1>. SUFFICES ASSUME Held, [ListsNext]_listVars PROVE Held' /\ [Abstract!AbsNext]_<<Walked, op>>
  OBVIOUS
<1>1. PICK L : Represents(L)
  BY DEF Held
<1>2. RingHeads \subseteq RingHeads \cup HashHeads /\ HashHeads \subseteq RingHeads \cup HashHeads
  OBVIOUS
<1>3. ASSUME NEW e \in Entries, NEW h \in RingHeads, RingAdd(e, h)
      PROVE  Held' /\ Abstract!AbsNext
  BY <1>1, <1>2, <1>3, AddStep, HeldBy DEF Abstract!AbsNext
<1>4. ASSUME NEW e \in Entries, NEW h \in RingHeads, RingMove(e, h)
      PROVE  Held' /\ Abstract!AbsNext
  BY <1>1, <1>2, <1>4, MoveStep, HeldBy DEF Abstract!AbsNext
<1>5. ASSUME NEW e \in Entries, RingDel(e) PROVE Held' /\ Abstract!AbsNext
  BY <1>1, <1>5, DelStep, HeldBy DEF Abstract!AbsNext
<1>6. ASSUME NEW e \in Entries, HashDel(e) PROVE Held' /\ Abstract!AbsNext
  BY <1>1, <1>6, HashDelStep, HeldBy DEF Abstract!AbsNext
<1>15. ASSUME NEW e \in Entries, HashDelUnhashed(e) PROVE Held' /\ Abstract!AbsNext
  BY <1>1, <1>15, HashDelUnhashedStep, HeldBy DEF Abstract!AbsNext
<1>7. ASSUME NEW e \in Entries, NEW x \in Entries, RingReplace(e, x)
      PROVE  Held' /\ Abstract!AbsNext
  BY <1>1, <1>7, ReplaceStep, HeldBy DEF Abstract!AbsNext
<1>8. ASSUME NEW e \in Entries, NEW x \in Entries, HashAddBefore(e, x)
      PROVE  Held' /\ Abstract!AbsNext
  BY <1>1, <1>8, HashAddBeforeStep, HeldBy DEF Abstract!AbsNext
<1>9. ASSUME NEW e \in Entries, NEW x \in Entries, HashAddAfter(e, x)
      PROVE  Held' /\ Abstract!AbsNext
  BY <1>1, <1>9, HashAddAfterStep, HeldBy DEF Abstract!AbsNext
<1>10. ASSUME NEW g \in RingHeads, NEW h \in RingHeads, RingSplice(g, h)
       PROVE  Held' /\ Abstract!AbsNext
  BY <1>1, <1>2, <1>10, SpliceStep, HeldBy DEF Abstract!AbsNext
<1>11. ASSUME NEW h \in RingHeads, RingInit(h) PROVE Held' /\ Abstract!AbsNext
  BY <1>1, <1>2, <1>11, InitStep, HeldBy DEF Abstract!AbsNext
<1>12. ASSUME NEW h \in RingHeads, RingClear(h) PROVE Held' /\ Abstract!AbsNext
  BY <1>1, <1>2, <1>12, ClearStep, HeldBy DEF Abstract!AbsNext
<1>13. ASSUME NEW e \in Entries, NEW h \in HashHeads, HashAddHead(e, h)
       PROVE  Held' /\ Abstract!AbsNext
  BY <1>1, <1>2, <1>13, HashAddHeadStep, HeldBy DEF Abstract!AbsNext
<1>14. CASE UNCHANGED listVars
  <2>1. ring' = ring /\ hash' = hash /\ state' = state /\ op' = op
    BY <1>14 DEF listVars
  <2>2. Represents(L)'
    BY <2>1, <1>1 DEF Represents
  <2>3. Walked' = Walked
    BY <2>2, <1>1, WalkedIs, WalkedNext
  <2>. QED BY <2>1, <2>2, <2>3, HeldBy
<1>. QED BY <1>3, <1>4, <1>5, <1>6, <1>7, <1>8, <1>9, <1>10, <1>11, <1>12, <1>13, <1>14, <1>15
         DEF ListsNext

(* Of a ring every pointer is answered, and its nodes are in use.          *)
LEMMA RingMirrors ==
  ASSUME NEW r, NEW h, NEW s, IsRing(r, h, s), NEW x, x \in On(h, s)
  PROVE  /\ r.next[x] \in On(h, s) /\ r.prev[x] \in On(h, s)
         /\ r.prev[r.next[x]] = x /\ r.next[r.prev[x]] = x
<1>1. /\ Len(s) \in Nat /\ Cell(h, s, 0) = h /\ Cell(h, s, Len(s) + 1) = h
      /\ \A k \in 1 .. Len(s) : Cell(h, s, k) = s[k]
      /\ \A k \in Int : Cell(h, s, k) \in On(h, s)
  BY RingCells
<1>2. \A k \in 0 .. Len(s) : r.next[Cell(h, s, k)] = Cell(h, s, k + 1) /\ r.prev[Cell(h, s, k + 1)] = Cell(h, s, k)
  BY DEF IsRing, Shows
<1>3. \E k \in 0 .. Len(s) : x = Cell(h, s, k)
  <2>1. x = h \/ \E k \in 1 .. Len(s) : x = s[k]
    BY DEF On, Has
  <2>2. x = h => 0 \in 0 .. Len(s) /\ x = Cell(h, s, 0)
    BY <1>1
  <2>3. \A k \in 1 .. Len(s) : k \in 0 .. Len(s) /\ Cell(h, s, k) = s[k]
    BY <1>1
  <2>. QED BY <2>1, <2>2, <2>3
<1>4. PICK i \in 0 .. Len(s) : x = Cell(h, s, i)
  BY <1>3
<1>5. PICK j \in 0 .. Len(s) : x = Cell(h, s, j + 1)
  <2>1. CASE i = 0
    <3>1. Len(s) \in 0 .. Len(s) /\ x = Cell(h, s, Len(s) + 1)
      BY <2>1, <1>1, <1>4
    <3>. QED BY <3>1
  <2>2. CASE i > 0
    <3>1. i - 1 \in 0 .. Len(s) /\ (i - 1) + 1 = i
      BY <2>2, <1>1
    <3>. QED BY <3>1, <1>4
  <2>. QED BY <2>1, <2>2, <1>1
<1>6. r.next[x] = Cell(h, s, i + 1) /\ r.prev[Cell(h, s, i + 1)] = x
  BY <1>2, <1>4
<1>7. r.prev[x] = Cell(h, s, j) /\ r.next[Cell(h, s, j)] = x
  BY <1>2, <1>5
<1>8. i + 1 \in Int /\ j \in Int
  BY <1>1
<1>. QED BY <1>1, <1>6, <1>7, <1>8

(* The invariant says that rings mirror,                                   *)
LEMMA HeldRings == Held => RingsMirror
<1>. SUFFICES ASSUME Held PROVE RingsMirror
  OBVIOUS
<1>1. PICK L : Represents(L)
  BY DEF Held
<1>2. Placed(L, state) /\ Rounds(ring, L, state)
  BY <1>1 DEF Represents, Rep, Good
<1>3. \A h \in RingHeads : state[h] = "head" => IsRing(ring, h, L[h])
  BY <1>2 DEF Rounds
<1>4. ASSUME NEW h \in RingHeads, state[h] = "head", NEW x \in On(h, L[h]) PROVE x \in LiveNodes
  <2>1. x = h \/ (x \in Entries /\ state[x] = "in")
    BY <1>2, <1>4, Apart
  <2>. QED BY <2>1, <1>4, NodesAre DEF LiveNodes
<1>5. ASSUME NEW x \in LiveNodes
      PROVE  /\ ring.next[x] \in LiveNodes /\ ring.prev[x] \in LiveNodes
             /\ ring.prev[ring.next[x]] = x /\ ring.next[ring.prev[x]] = x
  <2>1. x \in Nodes /\ state[x] \in {"head", "in", "init"}
    BY DEF LiveNodes
  <2>2. ASSUME NEW h \in RingHeads, state[h] = "head", x \in On(h, L[h])
        PROVE  /\ ring.next[x] \in LiveNodes /\ ring.prev[x] \in LiveNodes
               /\ ring.prev[ring.next[x]] = x /\ ring.next[ring.prev[x]] = x
    <3>1. /\ ring.next[x] \in On(h, L[h]) /\ ring.prev[x] \in On(h, L[h])
          /\ ring.prev[ring.next[x]] = x /\ ring.next[ring.prev[x]] = x
      BY <2>2, <1>3, RingMirrors
    <3>. QED BY <3>1, <2>2, <1>4
  <2>3. CASE state[x] = "head"
    <3>1. x \in RingHeads /\ x \in On(x, L[x])
      BY <2>1, <2>3, <1>2, NodesAre DEF Placed, On
    <3>. QED BY <3>1, <2>2, <2>3
  <2>4. CASE state[x] = "in"
    <3>1. x \in Entries
      BY <2>1, <2>4, <1>2, NodesAre DEF Placed
    <3>2. PICK h \in RingHeads : state[h] = "head" /\ Has(L[h], x)
      BY <3>1, <2>4, <1>2, WhereIn
    <3>3. x \in On(h, L[h])
      BY <3>2, <2>1 DEF On
    <3>. QED BY <3>2, <3>3, <2>2
  <2>5. CASE state[x] = "init"
    <3>1. x \in Entries
      BY <2>1, <2>5, <1>2, NodesAre DEF Placed
    <3>2. ring.next[x] = x /\ ring.prev[x] = x
      BY <3>1, <2>1, <2>5, <1>2, LoneRing DEF Rounds
    <3>. QED BY <3>2
  <2>. QED BY <2>1, <2>3, <2>4, <2>5
<1>6. ASSUME NEW h \in RingHeads, state[h] = "head"
      PROVE  InReverse(ring, h) = Reverse(InOrder(ring, h))
  <2>1. InOrder(ring, h) = L[h] /\ InReverse(ring, h) = Reverse(L[h])
    BY <1>3, <1>6, WalksAre DEF IsRing
  <2>. QED BY <2>1
<1>. QED BY <1>5, <1>6 DEF RingsMirror

(* and that the back pointers are right.                                   *)
LEMMA HeldBack == Held => BackPointers
<1>. SUFFICES ASSUME Held PROVE BackPointers
  OBVIOUS
<1>1. PICK L : Represents(L)
  BY DEF Held
<1>2. ASSUME NEW h \in HashHeads
      PROVE  /\ Len(L[h]) \in Nat /\ \A k \in 1 .. Len(L[h]) : L[h][k] \in Entries /\ Item(L[h], k) = L[h][k]
             /\ \A k \in Int : k \notin 1 .. Len(L[h]) => Item(L[h], k) = Nil
             /\ hash.first[h] = Item(L[h], 1)
             /\ \A k \in 1 .. Len(L[h]) : /\ hash.next[L[h][k]] = Item(L[h], k + 1)
                                          /\ hash.pprev[L[h][k]] = Slot(h, L[h], k - 1)
  <2>1. IsHung(hash, h, L[h])
    BY <1>1, InHash
  <2>2. /\ Len(L[h]) \in Nat /\ \A k \in 1 .. Len(L[h]) : L[h][k] \in Entries /\ Item(L[h], k) = L[h][k]
        /\ \A k \in Int : k \notin 1 .. Len(L[h]) => Item(L[h], k) = Nil
    BY <2>1, Items
  <2>. QED BY <2>1, <2>2 DEF IsHung, Hangs
<1>3. ASSUME NEW e \in Entries, state[e] = "hashed"
      PROVE  /\ Deref(hash, hash.pprev[e]) = e
             /\ hash.next[e] # Nil => hash.pprev[hash.next[e]] = NextOf(e)
  <2>1. PICK h \in HashHeads : \E j \in 1 .. Len(L[h]) : L[h][j] = e
    BY <1>1, <1>3, InHash
  <2>2. PICK s : s = L[h]
    OBVIOUS
  <2>3. PICK j \in 1 .. Len(s) : s[j] = e
    BY <2>1, <2>2
  <2>4. /\ Len(s) \in Nat /\ \A k \in 1 .. Len(s) : s[k] \in Entries /\ Item(s, k) = s[k]
        /\ \A k \in Int : k \notin 1 .. Len(s) => Item(s, k) = Nil
        /\ hash.first[h] = Item(s, 1)
        /\ \A k \in 1 .. Len(s) : /\ hash.next[s[k]] = Item(s, k + 1)
                                  /\ hash.pprev[s[k]] = Slot(h, s, k - 1)
    BY <1>2, <2>2
  <2>5. hash.next[e] = Item(s, j + 1) /\ hash.pprev[e] = Slot(h, s, j - 1)
    BY <2>3, <2>4
  <2>6. Deref(hash, hash.pprev[e]) = e
    <3>1. CASE j = 1
      <4>1. hash.pprev[e] = First(h)
        BY <3>1, <2>5 DEF Slot
      <4>2. hash.first[h] = e
        BY <3>1, <2>3, <2>4
      <4>. QED BY <4>1, <4>2, SlotParts DEF Deref
    <3>2. CASE j > 1
      <4>1. PICK i \in 1 .. Len(s) : i = j - 1
        BY <3>2, <2>4
      <4>2. hash.pprev[e] = NextOf(s[i])
        BY <4>1, <2>5, <2>4 DEF Slot
      <4>3. i + 1 = j /\ hash.next[s[i]] = Item(s, i + 1)
        BY <4>1, <2>4
      <4>4. hash.next[s[i]] = e
        BY <4>3, <2>3, <2>4
      <4>. QED BY <4>2, <4>4, SlotParts DEF Deref
    <3>. QED BY <3>1, <3>2, <2>4
  <2>7. hash.next[e] # Nil => hash.pprev[hash.next[e]] = NextOf(e)
    <3>. SUFFICES ASSUME hash.next[e] # Nil PROVE hash.pprev[hash.next[e]] = NextOf(e)
      OBVIOUS
    <3>1. PICK m : m = j + 1
      OBVIOUS
    <3>2. m \in 1 .. Len(s) /\ m - 1 = j /\ j # 0
      BY <3>1, <2>4, <2>5
    <3>3. hash.next[e] = s[m] /\ hash.pprev[s[m]] = Slot(h, s, m - 1)
      BY <3>1, <3>2, <2>4, <2>5
    <3>. QED BY <3>2, <3>3, <2>3 DEF Slot
  <2>. QED BY <2>6, <2>7
<1>4. ASSUME NEW h \in HashHeads, hash.first[h] # Nil PROVE hash.pprev[hash.first[h]] = First(h)
  <2>1. PICK s : s = L[h]
    OBVIOUS
  <2>2. /\ \A k \in 1 .. Len(s) : Item(s, k) = s[k]
        /\ \A k \in Int : k \notin 1 .. Len(s) => Item(s, k) = Nil
        /\ hash.first[h] = Item(s, 1)
        /\ \A k \in 1 .. Len(s) : hash.pprev[s[k]] = Slot(h, s, k - 1)
    BY <1>2, <2>1
  <2>3. 1 \in 1 .. Len(s) /\ 1 - 1 = 0
    BY <2>2, <1>4
  <2>4. hash.first[h] = s[1] /\ hash.pprev[s[1]] = Slot(h, s, 0)
    BY <2>2, <2>3
  <2>. QED BY <2>4 DEF Slot
<1>. QED BY <1>3, <1>4 DEF BackPointers

(* The invariant holds in every state the operations of list.h reach,      *)
(* whatever heads and entries there are.                                   *)
THEOREM ListsHeld == ListsSpec => []Held
<1>1. ListsInit => Held
  BY InitHeld
<1>2. Held /\ [ListsNext]_listVars => Held'
  BY NextHeld
<1>. QED BY <1>1, <1>2, PTL DEF ListsSpec

(* Every pointer of a node in use is answered by the opposite one, the     *)
(* walks in both directions meet the same entries, and the back pointers   *)
(* of the hash lists point at the pointer that points at the entry, in     *)
(* every state the operations of list.h reach.                             *)
THEOREM ListsAlwaysMirror == ListsSpec => []ListsMirror
<1>1. Held => ListsMirror
  BY HeldRings, HeldBack DEF ListsMirror
<1>. QED BY <1>1, ListsHeld, PTL

(* Each operation does to the sequences of entries what its comment in     *)
(* list.h says, and nothing else: the operations on pointers implement     *)
(* those on sequences.                                                     *)
THEOREM ListsKept == ListsSpec => KeepsLists
<1>1. ListsInit => Abstract!AbsInit
  BY InitHeld
<1>2. Held /\ [ListsNext]_listVars => [Abstract!AbsNext]_<<Walked, op>>
  BY NextHeld
<1>. QED BY <1>1, <1>2, ListsHeld, PTL DEF ListsSpec, KeepsLists, Abstract!AbsSpec

=============================================================================
