----------------------------- MODULE NatLemmas -----------------------------
(***************************************************************************)
(* Induction over the naturals without an operator parameter: the set of   *)
(* counterexamples, if not empty, has a least element.  And what it gives: *)
(* a loop that turns N times defines a sequence of N + 1 values.  Then     *)
(* division and alignment.                                                 *)
(***************************************************************************)
EXTENDS Integers, WellFoundedInduction, TLAPS

\* Every non-empty set of naturals has a least element.
LEMMA LeastElement ==
    ASSUME NEW T, T \subseteq Nat, T # {}
    PROVE  \E m \in T : \A n \in T : m <= n
<1> DEFINE R == {p \in Nat \X Nat : p[1] < p[2]}
<1>1. IsWellFoundedOn(R, Nat)
  BY NatLessThanWellFounded DEF OpToRel
<1>2. \A x, y \in Nat : <<y, x>> \in R <=> y < x
  OBVIOUS
<1> HIDE DEF R
<1>3. PICK x \in T : \A y \in T : ~(<<y, x>> \in R)
  BY <1>1, WFMin, Zenon
<1>4. ASSUME NEW y \in T PROVE x <= y
  <2>1. x \in Nat /\ y \in Nat
    OBVIOUS
  <2>2. ~(y < x)
    BY <2>1, <1>2, <1>3, Zenon
  <2>3. QED
    BY <2>1, <2>2
<1>5. QED
  BY <1>4

\* A set of naturals that holds 0 and, with each of its members below N, the
\* next one, holds all of 0 .. N.
LEMMA UpTo ==
    ASSUME NEW N \in Nat, NEW T, 0 \in T,
           \A n \in 0 .. N - 1 : n \in T => n + 1 \in T
    PROVE  0 .. N \subseteq T
<1> SUFFICES ASSUME (0 .. N) \ T # {} PROVE FALSE
  OBVIOUS
<1>0. (0 .. N) \ T \subseteq Nat
  OBVIOUS
<1>1. PICK m \in (0 .. N) \ T : \A n \in (0 .. N) \ T : m <= n
  BY <1>0, LeastElement, Zenon
<1>2. m \in Nat /\ m # 0 /\ m - 1 \in 0 .. N - 1 /\ m - 1 \notin (0 .. N) \ T
  BY <1>1
<1>3. QED
  BY <1>1, <1>2

\* g lists the values of a loop that starts with b and whose turn n, of N,
\* takes the value x to step[n][x].
IsLoop(g, N, S, b, step) ==
    /\ g \in [0 .. N -> S]
    /\ g[0] = b
    /\ \A n \in 1 .. N : g[n] = step[n][g[n - 1]]

\* Every such loop runs.
LEMMA LoopValues ==
    ASSUME NEW N \in Nat, NEW S, NEW b \in S, NEW step \in [1 .. N -> [S -> S]]
    PROVE  \E g : IsLoop(g, N, S, b, step)
<1> DEFINE Runs(m, g) == /\ g \in [0 .. m -> S]
                         /\ g[0] = b
                         /\ \A n \in 1 .. m : g[n] = step[n][g[n - 1]]
           T == {m \in 0 .. N : \E g : Runs(m, g)}
<1>1. 0 \in T
  <2>1. Runs(0, [n \in 0 .. 0 |-> b])
    OBVIOUS
  <2>2. \E g : Runs(0, g)
    BY <2>1, Zenon
  <2>3. QED
    BY <2>2
<1>2. ASSUME NEW m \in 0 .. N - 1, m \in T PROVE m + 1 \in T
  <2>1. PICK g : Runs(m, g)
    BY <1>2
  <2>2. PICK h : h = [n \in 0 .. m + 1 |-> IF n = m + 1 THEN step[m + 1][g[m]] ELSE g[n]]
    BY Zenon
  <2>3. g[m] \in S /\ step[m + 1] \in [S -> S] /\ m + 1 \in 0 .. N
    BY <2>1
  <2>4. h \in [0 .. m + 1 -> S]
    BY <2>1, <2>2, <2>3
  <2>5. ASSUME NEW n \in 1 .. m + 1 PROVE h[n] = step[n][h[n - 1]]
    <3>1. CASE n = m + 1
      BY <3>1, <2>2
    <3>2. CASE n # m + 1
      <4>1. n \in 1 .. m /\ n \in 0 .. m + 1 /\ n - 1 \in 0 .. m + 1 /\ n - 1 # m + 1
        BY <3>2
      <4>2. h[n] = g[n] /\ h[n - 1] = g[n - 1]
        BY <4>1, <3>2, <2>2
      <4>3. QED
        BY <4>1, <4>2, <2>1
    <3>3. QED
      BY <3>1, <3>2
  <2>6. h[0] = b
    BY <2>1, <2>2
  <2>7. Runs(m + 1, h)
    BY <2>4, <2>5, <2>6
  <2>8. QED
    BY <2>3, <2>7
<1> HIDE DEF T
<1>3. 0 .. N \subseteq T
  BY <1>1, <1>2, UpTo, Zenon
<1>4. PICK g : Runs(N, g)
  BY <1>3 DEF T
<1>5. QED
  BY <1>4 DEF IsLoop

\* Division with remainder by a block size.
LEMMA DivMod ==
    ASSUME NEW s \in Nat, s >= 1, NEW p \in Int
    PROVE  /\ p = s * (p \div s) + (p % s)
           /\ p % s \in 0 .. s - 1 /\ p \div s \in Int
OBVIOUS

\* A multiple of s, and only a multiple of s, is aligned to s.
LEMMA Multiple ==
    ASSUME NEW s \in Nat, s >= 1, NEW q \in Int
    PROVE  (s * q) % s = 0 /\ (s * q) \div s = q
<1>1. PICK r, d : r = (s * q) % s /\ d = (s * q) \div s
  OBVIOUS
<1>2. s * q = s * d + r /\ r \in 0 .. s - 1 /\ d \in Int
  <2>1. s * q \in Int
    OBVIOUS
  <2>2. QED
    BY <1>1, <2>1, DivMod, Zenon
<1>3. s * (q - d) = r
  BY <1>2
<1>4. q - d < 1
  <2> SUFFICES ASSUME q - d >= 1 PROVE FALSE
    BY <1>2
  <2>1. s * (q - d) >= s
    BY <1>2
  <2>2. QED
    BY <1>2, <1>3, <2>1
<1>5. q - d > -1
  <2> SUFFICES ASSUME q - d <= -1 PROVE FALSE
    BY <1>2
  <2>1. s * (q - d) <= -s
    BY <1>2
  <2>2. QED
    BY <1>2, <1>3, <2>1
<1>6. q = d
  BY <1>2, <1>4, <1>5
<1>7. QED
  BY <1>1, <1>2, <1>6

\* Both halves of a block aligned to its size are aligned to theirs: the lower
\* one has an even, the upper one an odd number.
LEMMA AlignedHalves ==
    ASSUME NEW s \in Nat, s >= 1, NEW p \in Int, p % (2 * s) = 0
    PROVE  /\ p % s = 0 /\ (p + s) % s = 0
           /\ (p \div s) % 2 = 0 /\ ((p + s) \div s) % 2 = 1
<1>1. PICK q \in Int : p = (2 * s) * q
  <2>1. 2 * s \in Nat /\ 2 * s >= 1
    OBVIOUS
  <2>2. p = (2 * s) * (p \div (2 * s)) + 0 /\ p \div (2 * s) \in Int
    BY <2>1, DivMod, Zenon
  <2>3. QED
    BY <2>1, <2>2
<1>2. p = s * (2 * q) /\ p + s = s * (2 * q + 1) /\ 2 * q \in Int /\ 2 * q + 1 \in Int
  BY <1>1
<1>3. p % s = 0 /\ p \div s = 2 * q
  BY <1>2, Multiple
<1>4. (p + s) % s = 0 /\ (p + s) \div s = 2 * q + 1
  BY <1>2, Multiple
<1>5. (2 * q) % 2 = 0 /\ (2 * q + 1) % 2 = 1
  OBVIOUS
<1>6. QED
  BY <1>3, <1>4, <1>5

\* Conversely the pair a block and its buddy form is aligned: it starts at the
\* block if its number is even, one block below if it is odd.
LEMMA AlignedPair ==
    ASSUME NEW s \in Nat, s >= 1, NEW p \in Int, p % s = 0
    PROVE  /\ (p \div s) % 2 = 0 => p % (2 * s) = 0
           /\ (p \div s) % 2 # 0 => (p - s) % (2 * s) = 0
<1>1. PICK q \in Int : q = p \div s /\ p = s * q
  <2>1. p = s * (p \div s) + 0 /\ p \div s \in Int
    BY DivMod
  <2>2. QED
    BY <2>1
<1>2. 2 * s \in Nat /\ 2 * s >= 1
  OBVIOUS
<1>3. CASE q % 2 = 0
  <2>1. PICK r \in Int : q = 2 * r
    BY <1>3
  <2>2. p = (2 * s) * r
    BY <1>1, <2>1
  <2>3. QED
    BY <1>1, <1>2, <1>3, <2>2, Multiple, Zenon
<1>4. CASE q % 2 # 0
  <2>1. PICK r \in Int : q = 2 * r + 1
    BY <1>4
  <2>2. p - s = (2 * s) * r
    BY <1>1, <2>1
  <2>3. QED
    BY <1>1, <1>2, <1>4, <2>2, Multiple, Zenon
<1>5. QED
  BY <1>3, <1>4

\* Two different positions aligned to s are at least s apart.
LEMMA AlignedApart ==
    ASSUME NEW s \in Nat, s >= 1, NEW p \in Int, NEW q \in Int,
           p % s = 0, q % s = 0, p < q
    PROVE  p + s <= q
<1>0. /\ p = s * (p \div s) + 0 /\ p \div s \in Int
      /\ q = s * (q \div s) + 0 /\ q \div s \in Int
  BY DivMod
<1>a. PICK a \in Int : p = s * a
  BY <1>0
<1>b. PICK b \in Int : q = s * b
  BY <1>0
<1>1. p = s * a /\ q = s * b
  BY <1>a, <1>b
<1>2. a < b
  <2> SUFFICES ASSUME b <= a PROVE FALSE
    OBVIOUS
  <2>1. s * b <= s * a
    OBVIOUS
  <2>2. QED
    BY <1>1, <2>1
<1>3. s * b >= s * (a + 1)
  BY <1>2
<1>4. QED
  BY <1>1, <1>3
=============================================================================
