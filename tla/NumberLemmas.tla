------------------------------- MODULE NumberLemmas -------------------------------
(***************************************************************************)
(* Induction and recursion over the natural numbers, stated of sets and    *)
(* functions instead of predicates, in the form in which the proofs about  *)
(* loops, powers of two and walks through lists use them.                  *)
(***************************************************************************)
EXTENDS Bits, WellFoundedInduction, TLAPS

(* A set of natural numbers that is not empty has a least member.          *)
THEOREM LeastMember ==
  ASSUME NEW T, T \subseteq Nat, T # {}
  PROVE  \E x \in T : \A y \in T : x <= y
<1>. DEFINE R == OpToRel(<, Nat)
<1>1. IsWellFoundedOn(R, Nat)
  BY NatLessThanWellFounded, Zenon
<1>2. \A x, y \in Nat : y < x => <<y, x>> \in R
  BY DEF OpToRel
<1>. HIDE DEF R
<1>3. PICK x \in T : \A y \in T : ~(<<y, x>> \in R)
  BY <1>1, WFMin, Zenon
<1>4. ASSUME NEW y \in T PROVE x <= y
  <2>1. x \in Nat /\ y \in Nat
    OBVIOUS
  <2>2. ~(y < x)
    BY <1>2, <1>3, <2>1
  <2>. QED BY <2>1, <2>2
<1>. QED BY <1>4

(* A set that holds 0 and, with each number, the next, holds every number. *)
THEOREM NatInductive ==
  ASSUME NEW S, 0 \in S, \A n \in Nat : n \in S => n + 1 \in S
  PROVE  \A n \in Nat : n \in S
<1>. DEFINE T == Nat \ S
<1>1. SUFFICES ASSUME T # {} PROVE FALSE
  OBVIOUS
<1>2. PICK x \in T : \A y \in T : x <= y
  BY <1>1, LeastMember
<1>3. x - 1 \in Nat /\ x - 1 \in S
  BY <1>2
<1>. QED BY <1>3

(* A loop over a : b that holds at a and goes on to b.                     *)
THEOREM UpTo ==
  ASSUME NEW a \in Int, NEW b \in Int, NEW S, a \in S,
         \A n \in a .. b - 1 : n \in S => n + 1 \in S
  PROVE  \A n \in a .. b : n \in S
<1>. DEFINE T == {k \in Nat : a + k <= b => a + k \in S}
<1>1. 0 \in T
  OBVIOUS
<1>2. \A k \in Nat : k \in T => k + 1 \in T
  <2>1. TAKE k \in Nat
  <2>2. HAVE k \in T
  <2>3. SUFFICES ASSUME a + (k + 1) <= b PROVE a + (k + 1) \in S
    OBVIOUS
  <2>4. a + k \in a .. b - 1 /\ a + k \in S
    BY <2>2, <2>3
  <2>5. (a + k) + 1 \in S
    BY <2>4
  <2>. QED BY <2>5
<1>3. \A k \in Nat : k \in T
  <2>. HIDE DEF T
  <2>. QED BY <1>1, <1>2, NatInductive
<1>4. TAKE n \in a .. b
<1>5. n - a \in T /\ a + (n - a) = n
  BY <1>3
<1>. QED BY <1>5

(* g starts with a and goes on by step.                                    *)
Unfolds(g, a, step) == g[0] = a /\ \A n \in Nat : g[n + 1] = step[n][g[n]]

(* There is such a function.                                               *)
THEOREM Recursion ==
  ASSUME NEW S, NEW a \in S, NEW step \in [Nat -> [S -> S]]
  PROVE  \E g \in [Nat -> S] : Unfolds(g, a, step)
<1>. DEFINE Starts(h, n) == /\ h \in [0 .. n -> S] /\ h[0] = a
                            /\ \A k \in 0 .. n - 1 : h[k + 1] = step[k][h[k]]
            Some == {n \in Nat : \E h : Starts(h, n)}
<1>1. \A n \in Nat : n \in Some
  <2>1. 0 \in Some
    <3>1. Starts([k \in 0 .. 0 |-> a], 0)
      OBVIOUS
    <3>. QED BY <3>1
  <2>2. \A n \in Nat : n \in Some => n + 1 \in Some
    <3>1. TAKE n \in Nat
    <3>2. HAVE n \in Some
    <3>3. PICK h : Starts(h, n)
      BY <3>2
    <3>. DEFINE g == [k \in 0 .. n + 1 |-> IF k = n + 1 THEN step[n][h[n]] ELSE h[k]]
    <3>4. h[n] \in S /\ step[n][h[n]] \in S
      BY <3>3
    <3>5. g \in [0 .. n + 1 -> S] /\ g[0] = a
      BY <3>3, <3>4
    <3>6. ASSUME NEW k \in 0 .. (n + 1) - 1 PROVE g[k + 1] = step[k][g[k]]
      <4>1. CASE k = n
        BY <4>1
      <4>2. CASE k \in 0 .. n - 1
        BY <4>2, <3>3
      <4>. QED BY <4>1, <4>2
    <3>7. Starts(g, n + 1)
      BY <3>5, <3>6
    <3>. HIDE DEF Starts, g
    <3>. QED BY <3>7
  <2>. HIDE DEF Some
  <2>. QED BY <2>1, <2>2, NatInductive
<1>2. ASSUME NEW m \in Nat, NEW n \in Nat, NEW g, NEW h, Starts(g, m), Starts(h, n), m <= n
      PROVE  \A k \in 0 .. m : g[k] = h[k]
  <2>. DEFINE Same == {k \in 0 .. m : g[k] = h[k]}
  <2>1. 0 \in Same
    BY <1>2
  <2>2. \A k \in 0 .. m - 1 : k \in Same => k + 1 \in Same
    BY <1>2
  <2>3. \A k \in 0 .. m : k \in Same
    <3>. HIDE DEF Same
    <3>. QED BY <2>1, <2>2, UpTo
  <2>. QED BY <2>3
<1>. DEFINE first == [n \in Nat |-> CHOOSE h : Starts(h, n)]
            g == [n \in Nat |-> first[n][n]]
<1>3. \A n \in Nat : Starts(first[n], n)
  BY <1>1
<1>4. \A n \in Nat : g[n] \in S
  <2>. HIDE DEF first
  <2>1. TAKE n \in Nat
  <2>2. first[n] \in [0 .. n -> S]
    BY <1>3
  <2>. QED BY <2>2
<1>5. g[0] = a
  BY <1>3
<1>6. ASSUME NEW n \in Nat PROVE g[n + 1] = step[n][g[n]]
  <2>. HIDE DEF first
  <2>1. Starts(first[n], n) /\ Starts(first[n + 1], n + 1)
    BY <1>3
  <2>2. first[n + 1][n] = first[n][n]
    <3>. HIDE DEF Starts
    <3>1. \A k \in 0 .. n : first[n][k] = first[n + 1][k]
      BY <2>1, <1>2
    <3>. QED BY <3>1
  <2>3. first[n + 1][n + 1] = step[n][first[n + 1][n]]
    BY <2>1
  <2>. QED BY <2>2, <2>3
<1>. QED BY <1>4, <1>5, <1>6 DEF Unfolds

-----------------------------------------------------------------------------
(* Recursion along a measure. *)

(* What holds of x when it holds of all that are smaller in a measure m,   *)
(* holds of everything.                                                    *)
THEOREM Descent ==
  ASSUME NEW X, NEW m \in [X -> Nat], NEW S,
         \A x \in X : (\A y \in X : m[y] < m[x] => y \in S) => x \in S
  PROVE  \A x \in X : x \in S
<1>. DEFINE T == {n \in Nat : \A x \in X : m[x] < n => x \in S}
<1>1. 0 \in T
  OBVIOUS
<1>2. \A n \in Nat : n \in T => n + 1 \in T
  <2>1. TAKE n \in Nat
  <2>2. HAVE n \in T
  <2>3. ASSUME NEW x \in X, m[x] < n + 1 PROVE x \in S
    <3>1. \A y \in X : m[y] < m[x] => y \in S
      <4>1. TAKE y \in X
      <4>2. HAVE m[y] < m[x]
      <4>3. m[y] \in Nat /\ m[x] \in Nat
        OBVIOUS
      <4>4. m[y] < n
        BY <2>1, <2>3, <4>2, <4>3
      <4>. QED BY <2>2, <4>4
    <3>. QED BY <3>1
  <2>. QED BY <2>1, <2>3
<1>3. \A n \in Nat : n \in T
  <2>. HIDE DEF T
  <2>. QED BY <1>1, <1>2, NatInductive
<1>4. TAKE x \in X
<1>5. m[x] \in Nat /\ m[x] + 1 \in Nat /\ m[x] < m[x] + 1
  OBVIOUS
<1>6. m[x] + 1 \in T
  BY <1>3, <1>5
<1>. QED BY <1>5, <1>6

(* What step makes of a function depends, at x, on its values at what is   *)
(* smaller in the measure m only.                                          *)
LooksBelow(step, m, X, V) ==
  \A f \in [X -> V] : \A g \in [X -> V] : \A x \in X :
    (\A y \in X : m[y] < m[x] => f[y] = g[y]) => step[f][x] = step[g][x]

(* f is the function that the equation with step on its right defines.     *)
Solves(f, step) == f = step[f]

(* A step that looks below has a solution.                                 *)
THEOREM RecursiveFunction ==
  ASSUME NEW X, NEW V, V # {}, NEW m \in [X -> Nat],
         NEW step \in [[X -> V] -> [X -> V]], LooksBelow(step, m, X, V)
  PROVE  \E f \in [X -> V] : Solves(f, step)
<1>. DEFINE F == [X -> V]
            next == [n \in Nat |-> step]
            f0 == [x \in X |-> CHOOSE v \in V : TRUE]
<1>1. f0 \in F /\ next \in [Nat -> [F -> F]]
  OBVIOUS
<1>2. PICK g \in [Nat -> F] : Unfolds(g, f0, next)
  <2>. HIDE DEF F, next, f0
  <2>. QED BY <1>1, Recursion
<1>3. \A n \in Nat : g[n + 1] = step[g[n]] /\ g[n] \in F /\ g[n + 1] \in F
  BY <1>2 DEF Unfolds
<1>. HIDE DEF next, f0
(* From n = m[x] + 1 on, the value at x stays.                             *)
<1>. DEFINE Settled == {x \in X : \A n \in Nat : m[x] < n => g[n + 1][x] = g[n][x]}
<1>4. \A x \in X : x \in Settled
  <2>1. ASSUME NEW x \in X, \A y \in X : m[y] < m[x] => y \in Settled PROVE x \in Settled
    <3>1. SUFFICES ASSUME NEW n \in Nat, m[x] < n PROVE g[n + 1][x] = g[n][x]
      OBVIOUS
    <3>2. PICK k \in Nat : n = k + 1
      <4>1. m[x] \in Nat /\ n - 1 \in Nat /\ n = (n - 1) + 1
        BY <3>1
      <4>. QED BY <4>1
    <3>3. \A y \in X : m[y] < m[x] => g[k + 1][y] = g[k][y]
      <4>1. TAKE y \in X
      <4>2. HAVE m[y] < m[x]
      <4>3. m[y] \in Nat /\ m[x] \in Nat
        OBVIOUS
      <4>4. m[y] < k
        BY <3>1, <3>2, <4>2, <4>3
      <4>. QED BY <2>1, <4>2, <4>4
    <3>4. g[k] \in F /\ g[k + 1] \in F /\ g[k + 1] = step[g[k]] /\ g[n + 1] = step[g[n]]
      BY <1>3, <3>2
    <3>5. step[g[k + 1]][x] = step[g[k]][x]
      BY <3>3, <3>4 DEF LooksBelow
    <3>. QED BY <3>2, <3>4, <3>5
  <2>. HIDE DEF Settled
  <2>. QED BY <2>1, Descent
<1>5. ASSUME NEW x \in X, NEW n \in Nat, m[x] < n PROVE g[n][x] = g[m[x] + 1][x]
  <2>. DEFINE a == m[x] + 1
              S == {k \in Nat : g[k][x] = g[a][x]}
  <2>1. a \in Nat /\ a <= n /\ a \in S /\ a \in Int /\ n \in Int
    BY <1>5
  <2>2. \A k \in a .. n - 1 : k \in S => k + 1 \in S
    <3>1. TAKE k \in a .. n - 1
    <3>2. k \in Nat /\ m[x] < k
      OBVIOUS
    <3>. QED BY <1>4, <3>2
  <2>3. \A k \in a .. n : k \in S
    <3>. HIDE DEF S, a
    <3>. QED BY <2>1, <2>2, UpTo
  <2>. QED BY <2>1, <2>3
<1>. DEFINE f == [x \in X |-> g[m[x] + 1][x]]
<1>6. \A x \in X : m[x] + 1 \in Nat /\ g[m[x] + 1] \in F /\ m[x] \in Nat
  BY <1>3
<1>7. f \in F
  BY <1>6
<1>8. ASSUME NEW x \in X PROVE f[x] = step[f][x]
  <2>. DEFINE n == m[x]
  <2>1. n \in Nat /\ g[n] \in F /\ g[n + 1] = step[g[n]]
    BY <1>3
  <2>2. ASSUME NEW y \in X, m[y] < n PROVE f[y] = g[n][y]
    BY <1>5, <2>1, <2>2
  <2>3. step[f][x] = step[g[n]][x]
    <3>. HIDE DEF f, n
    <3>. QED BY <1>7, <2>1, <2>2 DEF n, LooksBelow
  <2>. QED BY <2>1, <2>3
<1>9. f = step[f]
  <2>. HIDE DEF f
  <2>1. f \in F /\ step[f] \in F
    BY <1>7
  <2>. QED BY <1>8, <2>1
<1>. QED BY <1>7, <1>9 DEF Solves

-----------------------------------------------------------------------------
(* Loops. *)

(* A loop goes from x to turn[x] while x is one of more, and returns       *)
(* out[x] then; the measure m falls with each turn.                        *)
Loops(f, X, more, turn, out) == \A x \in X : f[x] = IF x \in more THEN f[turn[x]] ELSE out[x]
Falls(m, X, more, turn) == \A x \in X : x \in more => m[turn[x]] < m[x]

(* There is a function that does what the loop does.                       *)
THEOREM LoopExists ==
  ASSUME NEW X, NEW V, V # {}, NEW m \in [X -> Nat], NEW more, NEW turn \in [X -> X],
         NEW out \in [X -> V], Falls(m, X, more, turn)
  PROVE  \E f \in [X -> V] : Loops(f, X, more, turn, out)
<1>. DEFINE step == [f \in [X -> V] |->
                       [x \in X |-> IF x \in more THEN f[turn[x]] ELSE out[x]]]
<1>1. step \in [[X -> V] -> [X -> V]]
  OBVIOUS
<1>2. LooksBelow(step, m, X, V)
  BY DEF LooksBelow, Falls
<1>3. PICK f \in [X -> V] : Solves(f, step)
  <2>. HIDE DEF step
  <2>. QED BY <1>1, <1>2, RecursiveFunction
<1>4. \A x \in X : f[x] = IF x \in more THEN f[turn[x]] ELSE out[x]
  BY <1>3 DEF Solves
<1>. QED BY <1>4 DEF Loops

(* What each turn keeps holds at the end.                                  *)
Keeps(Kept, X, more, turn) ==
  Kept \subseteq X /\ \A x \in Kept : x \in more => turn[x] \in Kept

(* The loop returns what it has in a state that it kept.                   *)
THEOREM LoopEnds ==
  ASSUME NEW X, NEW m \in [X -> Nat], NEW more, NEW turn \in [X -> X], NEW out, NEW f,
         Falls(m, X, more, turn), Loops(f, X, more, turn, out),
         NEW Kept, Keeps(Kept, X, more, turn), NEW x \in Kept
  PROVE  \E y \in Kept : y \notin more /\ f[x] = out[y]
<1>. DEFINE S == {v \in X : v \in Kept => \E y \in Kept : y \notin more /\ f[v] = out[y]}
<1>1. ASSUME NEW v \in X, \A y \in X : m[y] < m[v] => y \in S PROVE v \in S
  <2>1. CASE v \in Kept /\ v \in more
    <3>1. turn[v] \in Kept /\ turn[v] \in X /\ m[turn[v]] < m[v]
      BY <2>1 DEF Falls, Keeps
    <3>2. turn[v] \in S /\ f[v] = f[turn[v]]
      BY <1>1, <2>1, <3>1 DEF Loops
    <3>. QED BY <3>1, <3>2
  <2>2. CASE v \in Kept /\ v \notin more
    <3>1. f[v] = out[v]
      BY <2>2 DEF Loops
    <3>. QED BY <2>2, <3>1
  <2>3. CASE v \notin Kept
    BY <2>3
  <2>. QED BY <2>1, <2>2, <2>3
<1>2. \A v \in X : v \in S
  <2>. HIDE DEF S
  <2>. QED BY <1>1, Descent
<1>. QED BY <1>2 DEF Keeps

-----------------------------------------------------------------------------
(* Powers of two. *)

(* The function that Bits defines exists, and is what its equation says.   *)
LEMMA Pow2Exists == Pow2 = [k \in Nat |-> IF k = 0 THEN 1 ELSE 2 * Pow2[k - 1]]
<1>. DEFINE step == [n \in Nat |-> [x \in Nat |-> 2 * x]]
<1>1. step \in [Nat -> [Nat -> Nat]]
  OBVIOUS
<1>2. PICK g \in [Nat -> Nat] : Unfolds(g, 1, step)
  <2>1. 1 \in Nat
    OBVIOUS
  <2>. HIDE DEF step
  <2>. QED BY <1>1, <2>1, Recursion, Zenon
<1>3. \A k \in Nat : g[k] = IF k = 0 THEN 1 ELSE 2 * g[k - 1]
  <2>1. TAKE k \in Nat
  <2>2. CASE k = 0
    BY <1>2, <2>2 DEF Unfolds
  <2>3. CASE k # 0
    <3>1. k - 1 \in Nat /\ (k - 1) + 1 = k
      BY <2>3
    <3>2. g[(k - 1) + 1] = step[k - 1][g[k - 1]] /\ g[k - 1] \in Nat
      BY <1>2, <3>1 DEF Unfolds
    <3>. QED BY <3>1, <3>2, <2>3
  <2>. QED BY <2>2, <2>3
<1>4. g = [k \in Nat |-> IF k = 0 THEN 1 ELSE 2 * g[k - 1]]
  BY <1>3
<1>. QED BY <1>4 DEF Pow2

(* What the other proofs use of it.                                        *)
THEOREM Pow2Facts ==
  /\ Pow2[0] = 1
  /\ \A k \in Nat : Pow2[k] \in Nat \ {0} /\ Pow2[k + 1] = 2 * Pow2[k]
<1>1. \A k \in Nat : Pow2[k] = IF k = 0 THEN 1 ELSE 2 * Pow2[k - 1]
  BY Pow2Exists
<1>2. Pow2[0] = 1
  BY <1>1
<1>3. \A k \in Nat : Pow2[k + 1] = 2 * Pow2[k]
  BY <1>1
<1>. DEFINE Positive == {k \in Nat : Pow2[k] \in Nat \ {0}}
<1>4. 0 \in Positive
  BY <1>2
<1>5. \A k \in Nat : k \in Positive => k + 1 \in Positive
  BY <1>3
<1>6. \A k \in Nat : k \in Positive
  <2>. HIDE DEF Positive
  <2>. QED BY <1>4, <1>5, NatInductive
<1>. QED BY <1>2, <1>3, <1>6

(* They grow. *)
THEOREM Pow2Grows ==
  ASSUME NEW m \in Nat, NEW n \in Nat, m <= n
  PROVE  Pow2[m] <= Pow2[n]
<1>. DEFINE S == {k \in m .. n : Pow2[m] <= Pow2[k]}
<1>1. m \in S
  BY Pow2Facts
<1>2. \A k \in m .. n - 1 : k \in S => k + 1 \in S
  <2>1. TAKE k \in m .. n - 1
  <2>2. HAVE k \in S
  <2>3. k \in Nat /\ Pow2[m] \in Nat /\ Pow2[k] \in Nat /\ Pow2[k + 1] = 2 * Pow2[k]
    BY Pow2Facts
  <2>. QED BY <2>2, <2>3
<1>3. \A k \in m .. n : k \in S
  <2>1. m \in Int /\ n \in Int
    OBVIOUS
  <2>. HIDE DEF S
  <2>. QED BY <1>1, <1>2, <2>1, UpTo
<1>. QED BY <1>3

(* Division by a positive number. *)
LEMMA Quotient ==
  ASSUME NEW x \in Nat, NEW n \in Nat \ {0}
  PROVE  /\ x \div n \in Nat /\ x % n \in 0 .. n - 1
         /\ x = n * (x \div n) + (x % n)
OBVIOUS

(* A number divided by n is its quotient and its remainder.                *)
LEMMA QuotientIs ==
  ASSUME NEW x \in Nat, NEW n \in Nat \ {0}, NEW q \in Nat, NEW r \in 0 .. n - 1,
         x = n * q + r
  PROVE  x \div n = q /\ x % n = r
OBVIOUS

(* The bits above the k-th are those above the next, and the k-th.         *)
THEOREM BitsAbove ==
  ASSUME NEW x \in Nat, NEW k \in Nat
  PROVE  /\ x \div Pow2[k] \in Nat /\ BitOf(x, k) \in {0, 1}
         /\ x \div Pow2[k] = 2 * (x \div Pow2[k + 1]) + BitOf(x, k)
<1>. DEFINE p == Pow2[k]
            q == x \div Pow2[k + 1]
            r == x % Pow2[k + 1]
<1>1. p \in Nat \ {0} /\ Pow2[k + 1] = 2 * p
  BY Pow2Facts
<1>2. q \in Nat /\ r \in 0 .. 2 * p - 1 /\ x = 2 * p * q + r
  <2>1. Pow2[k + 1] \in Nat \ {0}
    BY <1>1
  <2>2. q \in Nat /\ r \in 0 .. Pow2[k + 1] - 1 /\ x = Pow2[k + 1] * q + r
    BY <2>1, Quotient
  <2>. QED BY <1>1, <2>2
<1>. HIDE DEF p, q, r
<1>3. PICK b \in {0, 1} : r - b * p \in 0 .. p - 1
  <2>1. CASE r < p
    BY <2>1, <1>1, <1>2
  <2>2. CASE ~(r < p)
    BY <2>2, <1>1, <1>2
  <2>. QED BY <2>1, <2>2
<1>4. x = p * (2 * q + b) + (r - b * p)
  <2>1. p * (2 * q + b) = 2 * p * q + b * p
    BY <1>1, <1>2
  <2>. QED BY <2>1, <1>1, <1>2
<1>5. x \div p = 2 * q + b
  <2>1. 2 * q + b \in Nat
    BY <1>2
  <2>. QED BY <1>1, <1>3, <1>4, <2>1, QuotientIs
<1>6. (2 * q + b) % 2 = b
  BY <1>2
<1>. QED BY <1>2, <1>5, <1>6 DEF p, q, BitOf

(* Powers of two multiply by adding exponents. *)
LEMMA Pow2Product ==
  ASSUME NEW m \in Nat, NEW n \in Nat
  PROVE  Pow2[m + n] = Pow2[m] * Pow2[n]
<1>. DEFINE S == {k \in Nat : Pow2[m + k] = Pow2[m] * Pow2[k]}
<1>1. 0 \in S
  <2>1. Pow2[m] \in Nat /\ Pow2[0] = 1 /\ m + 0 = m
    BY Pow2Facts
  <2>. QED BY <2>1
<1>2. ASSUME NEW k \in Nat, k \in S
      PROVE  k + 1 \in S
  <2>1. Pow2[m] \in Nat /\ Pow2[k] \in Nat /\ Pow2[k + 1] = 2 * Pow2[k]
    BY Pow2Facts
  <2>2. Pow2[m + (k + 1)] = 2 * Pow2[m + k]
    <3>1. m + k \in Nat /\ m + (k + 1) = (m + k) + 1
      OBVIOUS
    <3>. QED BY <3>1, Pow2Facts
  <2>3. Pow2[m + k] = Pow2[m] * Pow2[k]
    BY <1>2
  <2>4. 2 * (Pow2[m] * Pow2[k]) = Pow2[m] * (2 * Pow2[k])
    BY <2>1
  <2>. QED BY <2>1, <2>2, <2>3, <2>4
<1>3. \A k \in Nat : k \in S
  <2>. HIDE DEF S
  <2>. QED BY <1>1, <1>2, NatInductive
<1>. QED BY <1>3

(* The bits below the next are the k-th and those below it.                *)
THEOREM LowBits ==
  ASSUME NEW x \in Nat, NEW k \in Nat
  PROVE  /\ x % Pow2[k] \in 0 .. Pow2[k] - 1
         /\ x % Pow2[k + 1] = BitOf(x, k) * Pow2[k] + (x % Pow2[k])
<1>. DEFINE p == Pow2[k]
            q == x \div Pow2[k + 1]
            t == BitOf(x, k)
            r == x % Pow2[k]
<1>1. p \in Nat \ {0} /\ Pow2[k + 1] = 2 * p /\ Pow2[k + 1] \in Nat \ {0}
  BY Pow2Facts
<1>2. q \in Nat /\ t \in {0, 1} /\ x \div p = 2 * q + t
  <2>1. q \in Nat
    BY <1>1, Quotient
  <2>. QED BY <2>1, BitsAbove
<1>3. r \in 0 .. p - 1 /\ x = p * (x \div p) + r
  BY <1>1, Quotient
<1>. HIDE DEF p, q, t, r
<1>4. t * p + r \in 0 .. 2 * p - 1
  <2>1. CASE t = 0
    BY <2>1, <1>1, <1>3
  <2>2. CASE t = 1
    BY <2>2, <1>1, <1>3
  <2>. QED BY <1>2, <2>1, <2>2
<1>5. x = (2 * p) * q + (t * p + r)
  <2>1. p * (2 * q + t) = (2 * p) * q + t * p
    BY <1>1, <1>2
  <2>. QED BY <2>1, <1>1, <1>2, <1>3
<1>6. x % (2 * p) = t * p + r
  <2>1. 2 * p \in Nat \ {0} /\ t * p + r \in 0 .. (2 * p) - 1
    BY <1>1, <1>4
  <2>. QED BY <2>1, <1>2, <1>5, QuotientIs
<1>. QED BY <1>1, <1>3, <1>6 DEF p, t, r

(* Remainders of integers. *)
LEMMA RemainderIs ==
  ASSUME NEW x \in Int, NEW n \in Nat \ {0}, NEW q \in Int, NEW r \in 0 .. n - 1, x = n * q + r
  PROVE  x % n = r
OBVIOUS

(* A remainder is below the divisor.                                       *)
LEMMA Remainder ==
  ASSUME NEW x \in Int, NEW n \in Nat \ {0}
  PROVE  \E q \in Int : x % n \in 0 .. n - 1 /\ x = n * q + (x % n)
<1>1. x \div n \in Int /\ x % n \in 0 .. n - 1 /\ x = n * (x \div n) + (x % n)
  OBVIOUS
<1>. QED BY <1>1

(* The multiple of n at or below x.                                        *)
LEMMA Divided ==
  ASSUME NEW x \in Nat, NEW n \in Nat \ {0}
  PROVE  x \div n \in Nat /\ (x \div n) * n <= x /\ x < (x \div n) * n + n
<1>1. x \div n \in Nat /\ x % n \in 0 .. n - 1 /\ x = n * (x \div n) + (x % n)
  BY Quotient
<1>2. n * (x \div n) = (x \div n) * n /\ (x \div n) * n \in Nat
  BY <1>1
<1>. QED BY <1>1, <1>2
=============================================================================
